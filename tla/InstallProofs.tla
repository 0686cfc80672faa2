---------------------------- MODULE InstallProofs ----------------------------
(* Proofs about Install for any installations, tenants, tokens and budgets *)
(* of clicks, deletes and restarts: a claim token whose row is not brought *)
(* back late binds once, and the connectors implement Binding.  Then about *)
(* ReviewThread, for any lists of findings, files, pushes and overlapping  *)
(* reviews: what an undisturbed sync reports is open, and what it closes   *)
(* has a cause.                                                            *)
EXTENDS Install, ReviewThread, FiniteSetTheorems, SequenceTheorems, WellFoundedInduction,
        TLAPS

(* Rows: what they are, and that they differ. *)

LEMMA RowFacts ==
  /\ NoRow \in Rows /\ Gone \in Rows /\ NoRow # Gone
  /\ \A n \in 1..Tokens : Pending(n) \in Rows /\ Pending(n) \notin {NoRow, Gone}
  /\ \A t \in Tenants : Active(t) \in Rows /\ Active(t) \notin {NoRow, Gone}
  /\ \A n, t : Pending(n) # Active(t)
  /\ \A n, m : Pending(n) = Pending(m) => n = m
  BY DEF Rows, NoRow, Gone, Pending, Active, Row

LEMMA RowStatus ==
  ASSUME NEW r \in Rows
  PROVE  /\ r \notin {NoRow, Gone} <=> r.status \in {"active", "pending_claim"}
         /\ r.status = "active" <=> \E t \in Tenants : r = Active(t)
         /\ r.status = "pending_claim" <=> \E n \in 1..Tokens : r = Pending(n)
         /\ r \notin {NoRow, Gone} => r.tenant \in Tenants \cup {NoTenant}
         /\ r.status = "pending_claim" => r.tenant = NoTenant
         /\ r.status = "active" => r.tenant \in Tenants
  BY DEF Rows, NoRow, Gone, Pending, Active, Row

LEMMA IdFacts ==
  /\ \A x \in Ids : x[1] \in Installs /\ x \in Of(x[1])
  /\ \A i \in Installs, t \in Tenants : <<i, t>> \in Of(i)
  /\ \A i \in Installs : <<i, NoTenant>> \in Of(i)
  BY DEF Ids, Of

LEMMA FoundFacts ==
  ASSUME NEW i, NEW x \in Found(i)
  PROVE  /\ x \in Of(i) /\ x \in Ids /\ x[1] = i
         /\ live[x].status \in {"active", "pending_claim"}
         /\ In(i, "active") = {} => live[x].status = "pending_claim"
  BY DEF Found, In, Of

LEMMA SlotFacts ==
  ASSUME NEW i \in Installs, NEW t \in Tenants \cup {NoTenant}, NEW x \in Slot(i, t)
  PROVE  x \in Of(i) /\ x \in Ids /\ x[1] = i
  BY FoundFacts, IdFacts DEF Slot, Of

-----------------------------------------------------------------------------
(* Type correctness. *)

LEMMA KeepType ==
  ASSUME TypeOK, NEW x \in Ids, NEW row \in Rows,
         NEW stored \in SUBSET (Rows \ {NoRow}), Keep(x, row, stored)
  PROVE  live' \in [Ids -> Rows] /\ disk' \in [Ids -> SUBSET (Rows \ {NoRow})]
  BY RowFacts DEF TypeOK, Keep

LEMMA BindType ==
  ASSUME TypeOK, NEW x \in Ids, NEW t \in Tenants, Bind(x, t)
  PROVE  live' \in [Ids -> Rows] /\ disk' \in [Ids -> SUBSET (Rows \ {NoRow})]
<1>1. Active(t) \in Rows /\ Moved(t) \in SUBSET (Rows \ {NoRow})
  BY RowFacts DEF Moved
<1> QED
  BY <1>1, KeepType DEF Bind

LEMMA AwaitType ==
  ASSUME TypeOK, NEW x \in Ids, Await(x)
  PROVE  /\ live' \in [Ids -> Rows] /\ disk' \in [Ids -> SUBSET (Rows \ {NoRow})]
         /\ minted' \in 1..Tokens /\ minted' = minted + 1
<1>1. minted' \in 1..Tokens /\ minted' = minted + 1
  BY InstallAssumption DEF Await, TypeOK
<1>2. Pending(minted') \in Rows /\ {Pending(minted')} \in SUBSET (Rows \ {NoRow})
  BY <1>1, RowFacts
<1> QED
  BY <1>1, <1>2, KeepType DEF Await

LEMMA StayType ==
  ASSUME TypeOK, NEW x \in Ids, Stay(x)
  PROVE  live' \in [Ids -> Rows] /\ disk' \in [Ids -> SUBSET (Rows \ {NoRow})]
<1>1. live[x] \in Rows /\ disk[x] \in SUBSET (Rows \ {NoRow})
  BY DEF TypeOK
<1> QED
  BY <1>1, KeepType DEF Stay

LEMMA TouchedType ==
  ASSUME TypeOK, NEW i, intent' = Touched(i)
  PROVE  intent' \in [Tenants -> [asked : BOOLEAN, older : SUBSET Installs]]
  BY DEF TypeOK, Touched

LEMMA ConsumeType ==
  ASSUME TypeOK, NEW t, Consume(t)
  PROVE  intent' \in [Tenants -> [asked : BOOLEAN, older : SUBSET Installs]]
  BY DEF TypeOK, Consume, NoIntent

LEMMA HandedType ==
  ASSUME TypeOK, minted' = minted + 1, handed' \subseteq handed \cup {minted'}
  PROVE  handed' \subseteq 1..minted'
  BY DEF TypeOK

LEMMA ConnectType ==
  ASSUME TypeOK, NEW t \in Tenants, Connect(t)
  PROVE  TypeOK'
  BY DEF TypeOK, Connect, Sign, Remember, Intent, rows, lookups, grants

LEMMA ExpireType ==
  ASSUME TypeOK, NEW t \in Tenants, Expire(t)
  PROVE  TypeOK'
<1>1. states' \subseteq Tenants
  BY DEF TypeOK, Expire
<1>2. intent' \in [Tenants -> [asked : BOOLEAN, older : SUBSET Installs]]
  BY ConsumeType DEF TypeOK, Expire
<1> QED
  BY <1>1, <1>2 DEF TypeOK, Expire, rows, lookups, grants, faults

LEMMA CallbackType ==
  ASSUME TypeOK, NEW i \in Installs,
         CallbackBound(i) \/ CallbackOrphan(i) \/ \E t \in Tenants : CallbackSigned(i, t)
  PROVE  TypeOK'
<1>1. CASE CallbackBound(i)
  <2>1. PICK x \in In(i, "active") : Stay(x) /\ UNCHANGED <<lookups, grants, asked, faults>>
    BY <1>1 DEF CallbackBound
  <2>2. x \in Ids
    BY DEF In, Of
  <2> QED
    BY <2>1, <2>2, StayType DEF TypeOK, lookups, grants, asked, faults
<1>2. CASE CallbackOrphan(i)
  <2>1. PICK x \in Slot(i, NoTenant) : Await(x)
    BY <1>2 DEF CallbackOrphan
  <2>2. x \in Ids
    BY SlotFacts
  <2> QED
    BY <1>2, <2>1, <2>2, AwaitType, TouchedType, HandedType DEF CallbackOrphan, TypeOK,
     lookups, faults
<1>3. CASE \E t \in Tenants : CallbackSigned(i, t)
  <2>1. PICK t \in Tenants : CallbackSigned(i, t)
    BY <1>3
  <2>2. PICK x \in Slot(i, t) : Bind(x, t)
    BY <2>1 DEF CallbackSigned
  <2>3. x \in Ids
    BY SlotFacts
  <2> QED
    BY <2>1, <2>2, <2>3, BindType DEF CallbackSigned, TypeOK, lookups, grants, asked,
     faults
<1> QED
  BY <1>1, <1>2, <1>3

LEMMA ClaimType ==
  ASSUME TypeOK, NEW x \in Ids, NEW n \in 1..Tokens, NEW t \in Tenants, Claim(x, n, t)
  PROVE  TypeOK'
<1>1. used' \in [1..Tokens -> 0..2]
  BY DEF TypeOK, Claim
<1>2. live' \in [Ids -> Rows] /\ disk' \in [Ids -> SUBSET (Rows \ {NoRow})]
  BY BindType DEF Claim
<1> QED
  BY <1>1, <1>2 DEF Claim, TypeOK, lookups, asked, faults

LEMMA IssueClaimTokenType ==
  ASSUME TypeOK, NEW i \in Installs, IssueClaimToken(i)
  PROVE  TypeOK'
<1>1. minted + 1 \in 1..Tokens /\ minted' = minted + 1
  BY InstallAssumption DEF IssueClaimToken, TypeOK
<1>2. /\ Pending(minted + 1) \in Rows
      /\ {Pending(minted + 1)} \in SUBSET (Rows \ {NoRow})
  BY <1>1, RowFacts
<1>3. live' \in [Ids -> Rows] /\ disk' \in [Ids -> SUBSET (Rows \ {NoRow})]
  <2>1. PICK x \in Found(i) :
           /\ live' = [live EXCEPT ![x] = Pending(minted + 1)]
           /\ disk' = [disk EXCEPT ![x] = {Pending(minted + 1)}]
    BY DEF IssueClaimToken
  <2> QED
    BY <1>2, <2>1 DEF TypeOK
<1> QED
  BY <1>1, <1>3, TouchedType, HandedType DEF IssueClaimToken, TypeOK, lookups, faults

LEMMA FinishType ==
  ASSUME TypeOK, NEW t \in Tenants,
         FinishByIntent(t) \/ \E i \in Installs : FinishById(i, t)
  PROVE  TypeOK'
<1>1. PICK x \in Ids : Bind(x, t)
  BY FoundFacts DEF FinishByIntent, FinishById, Candidates
<1>2. Consume(t) /\ UNCHANGED <<lookups, states, grants, faults>>
  BY DEF FinishByIntent, FinishById
<1> QED
  BY <1>1, <1>2, BindType, ConsumeType DEF TypeOK, lookups, grants, faults

LEMMA WebhookType ==
  ASSUME TypeOK, NEW i \in Installs, Webhook(i)
  PROVE  TypeOK'
<1>1. CASE UNCHANGED <<rows, minted, intent>>
  BY <1>1 DEF Webhook, TypeOK, rows, lookups, faults
<1>2. CASE \E x \in Found(i) : Stay(x) /\ UNCHANGED <<minted, intent>>
  <2>1. PICK x \in Found(i) : Stay(x) /\ UNCHANGED <<minted, intent>>
    BY <1>2
  <2> QED
    BY <2>1, FoundFacts, StayType DEF Webhook, TypeOK, lookups, faults
<1>3. CASE Await(<<i, NoTenant>>) /\ intent' = Touched(i)
  <2>1. <<i, NoTenant>> \in Ids
    BY DEF Ids
  <2> QED
    BY <1>3, <2>1, AwaitType, TouchedType, HandedType DEF Webhook, TypeOK, lookups, faults
<1> QED
  BY <1>1, <1>2, <1>3 DEF Webhook, EnsureConnector

LEMMA OwnerType ==
  ASSUME TypeOK, NEW x \in Ids,
         DeleteEnds(x) \/ \E t \in Tenants : Patch(x, t) \/ Delete(x, t)
  PROVE  TypeOK'
<1>1. CASE DeleteEnds(x)
  BY <1>1, RowFacts DEF DeleteEnds, TypeOK, lookups, grants, asked
<1>2. CASE \E t \in Tenants : Patch(x, t)
  BY <1>2, RowFacts DEF Patch, Owns, TypeOK, lookups, grants, asked, faults
<1>3. CASE \E t \in Tenants : Delete(x, t)
  BY <1>3, RowFacts DEF Delete, TypeOK, lookups, grants, asked
<1> QED
  BY <1>1, <1>2, <1>3

(* What is read from the file is a row that is alive.                      *)
LEMMA StoredFacts ==
  ASSUME TypeOK, NEW x \in Ids
  PROVE  Stored(x) \subseteq disk[x] /\ Stored(x) \subseteq Rows \ {NoRow, Gone}
  BY DEF TypeOK, Stored

(* The row a boot reads is one of those, or none. *)
LEMMA BootFacts ==
  ASSUME TypeOK, BootReads
  PROVE  /\ snapshot' \in [Ids -> Rows \ {Gone}]
         /\ \A x \in Ids : snapshot'[x] = NoRow \/ snapshot'[x] \in Stored(x)
<1>1. PICK misses : snapshot' = [x \in Ids |-> IF x \in misses \/ Stored(x) = {} THEN NoRow
                                             ELSE CHOOSE r \in Stored(x) : TRUE]
  BY DEF BootReads
<1>2. \A x \in Ids : snapshot'[x] = NoRow \/ snapshot'[x] \in Stored(x)
  BY <1>1
<1>3. \A x \in Ids : snapshot'[x] \in Rows \ {Gone}
  BY <1>2, StoredFacts, RowFacts
<1> QED
  BY <1>1, <1>2, <1>3

LEMMA ReadType ==
  ASSUME TypeOK,
         Restart \/ BootReads \/ \E x \in Ids : HydrateReads(x) \/ HydrateStores(x) \/ BootTakes(x)
  PROVE  TypeOK'
<1>1. CASE \E x \in Ids : HydrateReads(x)
  <2>1. PICK x \in Ids : HydrateReads(x)
    BY <1>1
  <2>2. reading' \in [Ids -> SUBSET (Rows \ {NoRow, Gone})]
    BY <2>1, StoredFacts DEF HydrateReads, TypeOK
  <2> QED
    BY <2>1, <2>2 DEF HydrateReads, TypeOK, rows, grants, asked, faults
<1>2. CASE \E x \in Ids : HydrateStores(x)
  <2>1. PICK x \in Ids : HydrateStores(x)
    BY <1>2
  <2>2. PICK r \in reading[x] :
           /\ live' = [live EXCEPT ![x] = r]
           /\ revived' = IF r \in disk[x] THEN revived ELSE revived \cup ({r.nonce} \ {0})
    BY <2>1 DEF HydrateStores
  <2>3. r \in Rows
    BY <2>2 DEF TypeOK
  <2>4. r.nonce \in {0} \cup 1..Tokens
    BY <2>3 DEF Rows, NoRow, Gone, Pending, Active, Row
  <2> QED
    BY <2>1, <2>2, <2>3, <2>4 DEF HydrateStores, TypeOK, grants, asked, faults
<1>3. CASE \E x \in Ids : BootTakes(x)
  <2>1. PICK x \in Ids : BootTakes(x)
    BY <1>3
  <2>2. snapshot[x] \in Rows \ {NoRow, Gone}
    BY <2>1 DEF BootTakes, TypeOK
  <2>3. reading' \in [Ids -> SUBSET (Rows \ {NoRow, Gone})]
    BY <2>1, <2>2 DEF BootTakes, TypeOK
  <2>4. snapshot' \in [Ids -> Rows \ {Gone}]
    BY <2>1, RowFacts DEF BootTakes, TypeOK
  <2> QED
    BY <2>1, <2>3, <2>4 DEF BootTakes, TypeOK, rows, grants, asked, faults
<1>4. CASE BootReads
  BY <1>4, BootFacts DEF BootReads, TypeOK, rows, grants, asked, faults
<1>5. CASE Restart
  <2>1. live' \in [Ids -> Rows] /\ snapshot' \in [Ids -> Rows \ {Gone}]
    BY <1>5, RowFacts DEF Restart
  <2>2. intent' \in [Tenants -> [asked : BOOLEAN, older : SUBSET Installs]]
    BY <1>5 DEF Restart, NoIntent
  <2>3. reading' \in [Ids -> SUBSET (Rows \ {NoRow, Gone})]
    BY <1>5 DEF Restart
  <2> QED
    BY <1>5, <2>1, <2>2, <2>3 DEF Restart, TypeOK, grants
<1> QED
  BY <1>1, <1>2, <1>3, <1>4, <1>5

LEMMA TypeNext ==
  TypeOK /\ [Next]_vars => TypeOK'
<1> SUFFICES ASSUME TypeOK, [Next]_vars PROVE TypeOK'
  OBVIOUS
<1>1. CASE Next
  BY <1>1, ConnectType, ExpireType, CallbackType, ClaimType, IssueClaimTokenType,
     FinishType, WebhookType, OwnerType, ReadType DEF Next
<1>2. CASE UNCHANGED vars
  BY <1>2 DEF TypeOK, vars
<1> QED
  BY <1>1, <1>2

(* In every run, rows, states, intents and tokens are what the handlers    *)
(* of scm_connectors.go write, for any installations, tenants and budgets. *)
THEOREM TypeCorrect == Spec => []TypeOK
<1>1. Init => TypeOK
  BY InstallAssumption, RowFacts DEF Init, TypeOK, NoIntent
<1> QED
  BY <1>1, TypeNext, PTL DEF Spec

-----------------------------------------------------------------------------
(* Claim tokens: what waits for one. *)

(* What changes a row leaves to lookups what they have read.               *)
LEMMA KeepWaits ==
  ASSUME NEW x \in Ids, NEW row, NEW stored, Keep(x, row, stored), UNCHANGED lookups
  PROVE  /\ \A y \in Ids, n \in 1..Tokens :
               WaitsFor(y, n)' => WaitsFor(y, n) \/ (y = x /\ Pending(n) \in {row} \cup stored)
         /\ \A y \in Ids, n \in 1..Tokens :
               Pending(n) \in disk'[y] => \/ y = x /\ Pending(n) \in stored
                                          \/ y # x /\ Pending(n) \in disk[y]
         /\ \A y \in Ids, n \in 1..Tokens :
               live'[y] = Pending(n) => \/ y = x /\ Pending(n) = row /\ disk'[y] = stored
                                        \/ y # x /\ live[y] = Pending(n) /\ disk'[y] = disk[y]
<1>1. \A y \in Ids : \/ y = x /\ live'[y] = row /\ disk'[y] = stored
                     \/ y # x /\ live'[y] = Gone /\ disk'[y] = {Gone}
                     \/ y # x /\ live'[y] = live[y] /\ disk'[y] = disk[y]
  BY DEF Keep
<1>2. reading' = reading /\ snapshot' = snapshot
  BY DEF lookups
<1>3. \A n \in 1..Tokens : Pending(n) # Gone
  BY RowFacts
<1>4. \A y \in Ids, n \in 1..Tokens :
         WaitsFor(y, n)' => WaitsFor(y, n) \/ (y = x /\ Pending(n) \in {row} \cup stored)
  BY <1>1, <1>2, <1>3 DEF WaitsFor
<1> QED
  BY <1>1, <1>3, <1>4

(* Nothing waits that did not wait before.                                 *)
LEMMA NoneNew ==
  ASSUME TokenInv, UNCHANGED <<minted, used, revived>>,
         \A y \in Ids, n \in 1..Tokens : WaitsFor(y, n)' => WaitsFor(y, n),
         \A y \in Ids, n \in 1..Tokens : Pending(n) \in disk'[y] => Pending(n) \in disk[y],
         \A y \in Ids, n \in 1..Tokens \ revived :
            live'[y] = Pending(n) => Pending(n) \in disk'[y]
  PROVE  TokenInv'
  BY DEF TokenInv

LEMMA StayTokens ==
  ASSUME TokenInv, NEW x \in Ids, Stay(x), UNCHANGED <<minted, used, lookups>>
  PROVE  TokenInv'
<1>1. Keep(x, live[x], disk[x])
  BY DEF Stay
<1>2. \A y \in Ids, n \in 1..Tokens : WaitsFor(y, n)' => WaitsFor(y, n)
  BY <1>1, KeepWaits DEF WaitsFor
<1>3. \A y \in Ids, n \in 1..Tokens : Pending(n) \in disk'[y] => Pending(n) \in disk[y]
  BY <1>1, KeepWaits
<1>4. \A y \in Ids, n \in 1..Tokens \ revived : live'[y] = Pending(n) => Pending(n) \in disk'[y]
  BY <1>1, KeepWaits DEF TokenInv
<1> QED
  BY <1>2, <1>3, <1>4, NoneNew DEF lookups

(* A row that is bound waits for nothing. *)
LEMMA BindWaits ==
  ASSUME NEW x \in Ids, NEW t \in Tenants, Bind(x, t), UNCHANGED lookups
  PROVE  /\ \A y \in Ids, n \in 1..Tokens : WaitsFor(y, n)' => WaitsFor(y, n)
         /\ \A y \in Ids, n \in 1..Tokens :
               Pending(n) \in disk'[y] => y # x /\ Pending(n) \in disk[y]
         /\ \A y \in Ids, n \in 1..Tokens :
               live'[y] = Pending(n) => y # x /\ live[y] = Pending(n) /\ disk'[y] = disk[y]
<1>1. \A n \in 1..Tokens : Pending(n) \notin {Active(t)} \cup Moved(t)
  BY RowFacts DEF Moved
<1>2. Keep(x, Active(t), Moved(t))
  BY DEF Bind
<1> QED
  BY <1>1, <1>2, KeepWaits

LEMMA BindTokens ==
  ASSUME TokenInv, NEW x \in Ids, NEW t \in Tenants, Bind(x, t),
         UNCHANGED <<minted, used, lookups>>
  PROVE  TokenInv'
<1>1. \A y \in Ids, n \in 1..Tokens \ revived : live'[y] = Pending(n) => Pending(n) \in disk'[y]
  BY BindWaits DEF TokenInv
<1> QED
  BY <1>1, BindWaits, NoneNew DEF lookups

(* Only x is new to wait, for a token that was just minted.                *)
LEMMA OneNew ==
  ASSUME TypeOK, TokenInv, NEW x \in Ids, minted' = minted + 1, minted' \in 1..Tokens,
         UNCHANGED <<used, revived>>,
         \A y \in Ids, n \in 1..Tokens :
            WaitsFor(y, n)' => (y = x /\ n = minted') \/ WaitsFor(y, n),
         \A y \in Ids, n \in 1..Tokens :
            Pending(n) \in disk'[y] => n = minted' \/ Pending(n) \in disk[y],
         \A y \in Ids, n \in 1..Tokens \ revived :
            live'[y] = Pending(n) => Pending(n) \in disk'[y]
  PROVE  TokenInv'
<1>1. minted \in Nat /\ used \in [1..Tokens -> 0..2] /\ used[minted'] = 0
  BY DEF TypeOK, TokenInv
<1>2. \A y \in Ids, n \in 1..Tokens : WaitsFor(y, n)' => n <= minted'
  BY <1>1 DEF TokenInv
<1>3. \A y, z \in Ids, n \in 1..Tokens : WaitsFor(y, n)' /\ WaitsFor(z, n)' => y = z
  <2>1. \A y \in Ids : ~WaitsFor(y, minted')
    BY <1>1 DEF TokenInv
  <2> QED
    BY <2>1 DEF TokenInv
<1>4. \A y \in Ids, n \in 1..Tokens : Pending(n) \in disk'[y] => used'[n] = 0
  BY <1>1 DEF TokenInv
<1>5. /\ \A n \in 1..Tokens : n > minted' => used'[n] = 0
      /\ \A n \in 1..Tokens \ revived' : used'[n] <= 1
  BY <1>1 DEF TokenInv
<1> QED
  BY <1>2, <1>3, <1>4, <1>5 DEF TokenInv

LEMMA AwaitTokens ==
  ASSUME TypeOK, TokenInv, NEW x \in Ids, Await(x), UNCHANGED <<used, lookups>>
  PROVE  TokenInv'
<1>1. minted' \in 1..Tokens /\ minted' = minted + 1
  BY AwaitType
<1>2. Keep(x, Pending(minted'), {Pending(minted')})
  BY DEF Await
<1>3. \A n \in 1..Tokens : Pending(n) = Pending(minted') => n = minted'
  BY RowFacts
<1>4. \A y \in Ids, n \in 1..Tokens :
         WaitsFor(y, n)' => (y = x /\ n = minted') \/ WaitsFor(y, n)
  BY <1>2, <1>3, KeepWaits
<1>5. \A y \in Ids, n \in 1..Tokens :
         Pending(n) \in disk'[y] => n = minted' \/ Pending(n) \in disk[y]
  BY <1>2, <1>3, KeepWaits
<1>6. \A y \in Ids, n \in 1..Tokens \ revived : live'[y] = Pending(n) => Pending(n) \in disk'[y]
  BY <1>2, KeepWaits DEF TokenInv
<1> QED
  BY <1>1, <1>4, <1>5, <1>6, OneNew DEF lookups

LEMMA ClaimTokens ==
  ASSUME TypeOK, TokenInv, NEW x \in Ids, NEW n \in 1..Tokens, NEW t \in Tenants,
         Claim(x, n, t)
  PROVE  TokenInv'
<1>1. WaitsFor(x, n) /\ live[x] = Pending(n)
  BY DEF Claim, WaitsFor
<1>2. n <= minted
  BY <1>1 DEF TokenInv
<1>3. /\ minted' = minted /\ revived' = revived /\ used' \in [1..Tokens -> 0..2]
      /\ \A m \in 1..Tokens : m # n => used'[m] = used[m]
      /\ used[n] = 0 => used'[n] = 1
  BY DEF Claim, TypeOK, lookups
<1>4. Bind(x, t) /\ UNCHANGED lookups
  BY DEF Claim
<1>5. \A y \in Ids, m \in 1..Tokens : WaitsFor(y, m)' => WaitsFor(y, m)
  BY <1>4, BindWaits
<1>6. \A y \in Ids, m \in 1..Tokens : Pending(m) \in disk'[y] => used'[m] = 0
  <2> SUFFICES ASSUME NEW y \in Ids, NEW m \in 1..Tokens, Pending(m) \in disk'[y]
               PROVE  used'[m] = 0
    OBVIOUS
  <2>1. y # x /\ Pending(m) \in disk[y]
    BY <1>4, BindWaits
  <2>2. m # n
    BY <1>1, <2>1 DEF TokenInv, WaitsFor
  <2> QED
    BY <1>3, <2>1, <2>2 DEF TokenInv
<1>7. \A y \in Ids, m \in 1..Tokens \ revived : live'[y] = Pending(m) => Pending(m) \in disk'[y]
  BY <1>4, BindWaits DEF TokenInv
<1>8. \A m \in 1..Tokens \ revived : used'[m] <= 1
  <2>1. n \notin revived => used[n] = 0
    BY <1>1 DEF TokenInv
  <2> QED
    BY <1>3, <2>1 DEF TokenInv
<1>9. \A m \in 1..Tokens : m > minted => used'[m] = 0
  BY <1>2, <1>3 DEF TokenInv, TypeOK
<1> QED
  BY <1>3, <1>5, <1>6, <1>7, <1>8, <1>9 DEF TokenInv

LEMMA IssueTokens ==
  ASSUME TypeOK, TokenInv, NEW i \in Installs, IssueClaimToken(i)
  PROVE  TokenInv'
<1>1. PICK x \in Found(i) : /\ live' = [live EXCEPT ![x] = Pending(minted + 1)]
                            /\ disk' = [disk EXCEPT ![x] = {Pending(minted + 1)}]
  BY DEF IssueClaimToken
<1>2. /\ minted' \in 1..Tokens /\ minted' = minted + 1 /\ used' = used
      /\ UNCHANGED lookups /\ x \in Ids
  BY InstallAssumption, FoundFacts DEF IssueClaimToken, TypeOK
<1>3. \A n \in 1..Tokens : Pending(n) = Pending(minted') => n = minted'
  BY RowFacts
<1>4. \A y \in Ids : \/ y = x /\ live'[y] = Pending(minted') /\ disk'[y] = {Pending(minted')}
                     \/ y # x /\ live'[y] = live[y] /\ disk'[y] = disk[y]
  BY <1>1, <1>2 DEF TypeOK
<1>5. \A y \in Ids, n \in 1..Tokens :
         WaitsFor(y, n)' => (y = x /\ n = minted') \/ WaitsFor(y, n)
  BY <1>2, <1>3, <1>4 DEF WaitsFor, lookups
<1>6. \A y \in Ids, n \in 1..Tokens :
         Pending(n) \in disk'[y] => n = minted' \/ Pending(n) \in disk[y]
  BY <1>3, <1>4
<1>7. \A y \in Ids, n \in 1..Tokens \ revived : live'[y] = Pending(n) => Pending(n) \in disk'[y]
  BY <1>4 DEF TokenInv
<1> QED
  BY <1>2, <1>5, <1>6, <1>7, OneNew DEF lookups

(* Rows, and what was read of them, stay as they are.                      *)
LEMMA SameTokens ==
  ASSUME TokenInv, UNCHANGED <<rows, minted, used, lookups>>
  PROVE  TokenInv'
<1>1. \A y \in Ids, n \in 1..Tokens : WaitsFor(y, n)' => WaitsFor(y, n)
  BY DEF WaitsFor, rows, lookups
<1>2. \A y \in Ids, n \in 1..Tokens \ revived : live'[y] = Pending(n) => Pending(n) \in disk'[y]
  BY DEF TokenInv, rows
<1> QED
  BY <1>1, <1>2, NoneNew DEF rows, lookups

LEMMA WebhookTokens ==
  ASSUME TypeOK, TokenInv, NEW i \in Installs, Webhook(i)
  PROVE  TokenInv'
<1>0. UNCHANGED <<used, lookups>>
  BY DEF Webhook
<1>1. CASE UNCHANGED <<rows, minted, intent>>
  BY <1>0, <1>1, SameTokens
<1>2. CASE \E x \in Found(i) : Stay(x) /\ UNCHANGED <<minted, intent>>
  BY <1>0, <1>2, FoundFacts, StayTokens
<1>3. CASE Await(<<i, NoTenant>>)
  <2>1. <<i, NoTenant>> \in Ids
    BY DEF Ids
  <2> QED
    BY <1>0, <1>3, <2>1, AwaitTokens
<1> QED
  BY <1>1, <1>2, <1>3 DEF Webhook, EnsureConnector

LEMMA CallbackTokens ==
  ASSUME TypeOK, TokenInv, NEW i \in Installs,
         CallbackBound(i) \/ CallbackOrphan(i) \/ \E t \in Tenants : CallbackSigned(i, t)
  PROVE  TokenInv'
<1>1. CASE CallbackBound(i)
  <2>1. PICK x \in In(i, "active") : Stay(x) /\ UNCHANGED <<minted, used, lookups>>
    BY <1>1 DEF CallbackBound, grants
  <2>2. x \in Ids
    BY DEF In, Of
  <2> QED
    BY <2>1, <2>2, StayTokens
<1>2. CASE CallbackOrphan(i)
  BY <1>2, SlotFacts, AwaitTokens DEF CallbackOrphan
<1>3. CASE \E t \in Tenants : CallbackSigned(i, t)
  <2>1. PICK t \in Tenants : CallbackSigned(i, t)
    BY <1>3
  <2>2. PICK x \in Slot(i, t) : Bind(x, t)
    BY <2>1 DEF CallbackSigned
  <2>3. x \in Ids
    BY SlotFacts
  <2> QED
    BY <2>1, <2>2, <2>3, BindTokens DEF CallbackSigned, grants
<1> QED
  BY <1>1, <1>2, <1>3

LEMMA FinishTokens ==
  ASSUME TypeOK, TokenInv, NEW t \in Tenants,
         FinishByIntent(t) \/ \E i \in Installs : FinishById(i, t)
  PROVE  TokenInv'
<1>1. PICK x \in Ids : Bind(x, t)
  BY FoundFacts DEF FinishByIntent, FinishById, Candidates
<1>2. UNCHANGED <<minted, used, lookups>>
  BY DEF FinishByIntent, FinishById, grants
<1> QED
  BY <1>1, <1>2, BindTokens

(* The owner's handlers. *)
LEMMA OwnerTokens ==
  ASSUME TypeOK, TokenInv, NEW x \in Ids,
         DeleteEnds(x) \/ \E t \in Tenants : Patch(x, t) \/ Delete(x, t)
  PROVE  TokenInv'
<1>1. UNCHANGED <<minted, used, lookups>>
  BY DEF DeleteEnds, Patch, Delete, grants
<1>2. \A y \in Ids : \/ y # x /\ live'[y] = live[y] /\ disk'[y] = disk[y]
                     \/ /\ y = x
                        /\ \A n \in 1..Tokens : Pending(n) # live'[y]
                        /\ \A n \in 1..Tokens : Pending(n) \in disk'[y] => Pending(n) \in disk[y]
  <2>1. CASE DeleteEnds(x)
    BY <2>1, RowFacts DEF DeleteEnds, TypeOK
  <2>2. CASE \E t \in Tenants : Patch(x, t)
    BY <2>2, RowFacts DEF Patch, Owns, TypeOK
  <2>3. CASE \E t \in Tenants : Delete(x, t)
    BY <2>3, RowFacts DEF Delete, TypeOK
  <2> QED
    BY <2>1, <2>2, <2>3
<1>3. \A y \in Ids, n \in 1..Tokens : WaitsFor(y, n)' => WaitsFor(y, n)
  BY <1>1, <1>2 DEF WaitsFor, lookups
<1>4. \A y \in Ids, n \in 1..Tokens : Pending(n) \in disk'[y] => Pending(n) \in disk[y]
  BY <1>2
<1>5. \A y \in Ids, n \in 1..Tokens \ revived : live'[y] = Pending(n) => Pending(n) \in disk'[y]
  BY <1>2 DEF TokenInv
<1> QED
  BY <1>1, <1>3, <1>4, <1>5, NoneNew DEF lookups

(* A lookup, and the boot: what is read waits in the file, and what is     *)
(* stored waits there still, or counts as revived.                         *)
LEMMA HydrateTokens ==
  ASSUME TypeOK, TokenInv, NEW x \in Ids,
         HydrateReads(x) \/ HydrateStores(x) \/ BootTakes(x)
  PROVE  TokenInv'
<1>1. CASE HydrateReads(x)
  <2>1. \A y \in Ids, n \in 1..Tokens : WaitsFor(y, n)' => WaitsFor(y, n)
    BY <1>1 DEF HydrateReads, Stored, WaitsFor, TypeOK, rows
  <2> QED
    BY <1>1, <2>1, NoneNew DEF HydrateReads, rows, grants, TokenInv
<1>2. CASE BootTakes(x)
  <2>1. \A y \in Ids, n \in 1..Tokens : WaitsFor(y, n)' => WaitsFor(y, n)
    BY <1>2, RowFacts DEF BootTakes, WaitsFor, TypeOK, rows
  <2> QED
    BY <1>2, <2>1, NoneNew DEF BootTakes, rows, grants, TokenInv
<1>3. CASE HydrateStores(x)
  <2>1. PICK r \in reading[x] :
           /\ live' = [live EXCEPT ![x] = r]
           /\ revived' = IF r \in disk[x] THEN revived ELSE revived \cup ({r.nonce} \ {0})
    BY <1>3 DEF HydrateStores
  <2>2. UNCHANGED <<disk, reading, snapshot, minted, used>>
    BY <1>3 DEF HydrateStores, grants
  <2>3. \A y \in Ids : live'[y] = live[y] \/ (y = x /\ live'[y] = r)
    BY <2>1 DEF TypeOK
  <2>4. \A y \in Ids, n \in 1..Tokens : WaitsFor(y, n)' => WaitsFor(y, n)
    BY <2>1, <2>2, <2>3 DEF WaitsFor
  <2>5. revived \subseteq revived'
    BY <2>1
  <2>6. \A n \in 1..Tokens : Pending(n).nonce = n /\ n # 0
    BY DEF Pending, Row
  <2>7. \A y \in Ids, n \in 1..Tokens \ revived' :
           live'[y] = Pending(n) => Pending(n) \in disk'[y]
    <3> SUFFICES ASSUME NEW y \in Ids, NEW n \in 1..Tokens, n \notin revived',
                        live'[y] = Pending(n)
                 PROVE  Pending(n) \in disk[y]
      BY <2>2
    <3>1. CASE live'[y] = live[y]
      BY <2>5, <3>1 DEF TokenInv
    <3>2. CASE y = x /\ live'[y] = r
      BY <2>1, <2>6, <3>2
    <3> QED
      BY <2>3, <3>1, <3>2
  <2> QED
    BY <2>2, <2>4, <2>5, <2>7 DEF TokenInv
<1> QED
  BY <1>1, <1>2, <1>3

LEMMA BootTokens ==
  ASSUME TypeOK, TokenInv, Restart \/ BootReads
  PROVE  TokenInv'
<1>1. UNCHANGED <<disk, minted, used, revived>>
  BY DEF Restart, BootReads, rows, grants
<1>2. CASE Restart
  <2>1. \A y \in Ids : live'[y] = NoRow /\ snapshot'[y] = NoRow /\ reading'[y] = {}
    BY <1>2 DEF Restart
  <2>2. \A y \in Ids, n \in 1..Tokens : WaitsFor(y, n)' => WaitsFor(y, n)
    BY <1>1, <2>1, RowFacts DEF WaitsFor
  <2>3. \A y \in Ids, n \in 1..Tokens : live'[y] # Pending(n)
    BY <2>1, RowFacts
  <2> QED
    BY <1>1, <2>2, <2>3, NoneNew
<1>3. CASE BootReads
  <2>1. \A y \in Ids : snapshot'[y] = NoRow \/ snapshot'[y] \in disk[y]
    BY <1>3, BootFacts, StoredFacts
  <2>2. live' = live /\ reading' = reading
    BY <1>3 DEF BootReads, rows
  <2>3. \A y \in Ids, n \in 1..Tokens : WaitsFor(y, n)' => WaitsFor(y, n)
    BY <1>1, <2>1, <2>2, RowFacts DEF WaitsFor
  <2>4. \A y \in Ids, n \in 1..Tokens \ revived : live'[y] = Pending(n) => Pending(n) \in disk'[y]
    BY <1>1, <2>2 DEF TokenInv
  <2> QED
    BY <1>1, <2>3, <2>4, NoneNew
<1> QED
  BY <1>2, <1>3

LEMMA TokenNext ==
  TypeOK /\ TokenInv /\ [Next]_vars => TokenInv'
<1> SUFFICES ASSUME TypeOK, TokenInv, [Next]_vars PROVE TokenInv'
  OBVIOUS
<1>1. ASSUME NEW t \in Tenants, Connect(t) \/ Expire(t) PROVE TokenInv'
  BY <1>1, SameTokens DEF Connect, Expire, grants
<1>2. CASE Next
  BY <1>1, <1>2, CallbackTokens, ClaimTokens, IssueTokens, FinishTokens, WebhookTokens,
     OwnerTokens, HydrateTokens, BootTokens DEF Next
<1>3. CASE UNCHANGED vars
  BY <1>3, SameTokens DEF vars, rows, lookups
<1> QED
  BY <1>2, <1>3

(* A claim token binds at most one connector, once, for any number of      *)
(* tokens, installations, deletes and restarts, whatever lookups and boots *)
(* read and store late, as long as its own row is not stored after the     *)
(* file has lost it: handleConnectorClaim's "one-time claim_token".        *)
THEOREM TokenHolds == Spec => []TokenBindsOnce
<1>1. Init => TokenInv
  BY RowFacts DEF Init, TokenInv, WaitsFor
<1>2. TypeOK /\ TokenInv => TokenBindsOnce
  BY DEF TypeOK, TokenInv, TokenBindsOnce
<1> QED
  BY <1>1, <1>2, TypeCorrect, TokenNext, PTL DEF Spec

-----------------------------------------------------------------------------
(* Who holds an installation, in memory and in the file. *)

LEMMA HeldIff ==
  ASSUME NEW i \in Installs
  PROVE  /\ \A h : h \in Held[i] <=>
               \E x \in Of(i) : live[x] \notin {NoRow, Gone} /\ h = live[x].tenant
         /\ \A h : h \in Held'[i] <=>
               \E x \in Of(i) : live'[x] \notin {NoRow, Gone} /\ h = live'[x].tenant
  BY DEF Held, Holders

LEMMA FiledIff ==
  ASSUME NEW i \in Installs
  PROVE  /\ \A h : h \in Filed[i] <=>
               \E x \in Of(i) : \E r \in disk[x] : r \notin {NoRow, Gone} /\ h = r.tenant
         /\ \A h : h \in Filed'[i] <=>
               \E x \in Of(i) : \E r \in disk'[x] : r \notin {NoRow, Gone} /\ h = r.tenant
  BY DEF Filed, Holders

LEMMA ReadIff ==
  ASSUME NEW i \in Installs
  PROVE  /\ \A h : h \in Read[i] <=>
               \E x \in Of(i) : \E r \in reading[x] \cup {snapshot[x]} :
                  r \notin {NoRow, Gone} /\ h = r.tenant
         /\ \A h : h \in Read'[i] <=>
               \E x \in Of(i) : \E r \in reading'[x] \cup {snapshot'[x]} :
                  r \notin {NoRow, Gone} /\ h = r.tenant
  BY DEF Read, Holders

LEMMA Functions ==
  /\ Held = [i \in Installs |-> Held[i]] /\ Filed = [i \in Installs |-> Filed[i]]
  /\ Held' = [i \in Installs |-> Held'[i]] /\ Filed' = [i \in Installs |-> Filed'[i]]
  /\ Read = [i \in Installs |-> Read[i]] /\ Read' = [i \in Installs |-> Read'[i]]
  BY DEF Held, Filed, Read

LEMMA SameRead ==
  UNCHANGED lookups => Read' = Read
  BY DEF lookups, Read

(* Two rows of different installations have different ids. *)
LEMMA Apart ==
  \A x, i : x \in Of(i) => x \in Ids /\ x[1] = i
  BY DEF Of

(* An installation that changes no row keeps its holders. *)
LEMMA SameHolders ==
  ASSUME NEW i \in Installs
  PROVE  /\ (\A x \in Of(i) : live'[x] = live[x]) => Held'[i] = Held[i]
         /\ (\A x \in Of(i) : disk'[x] = disk[x]) => Filed'[i] = Filed[i]
<1>1. ASSUME \A x \in Of(i) : live'[x] = live[x] PROVE Held'[i] = Held[i]
  <2>1. \A h : h \in Held'[i] <=> h \in Held[i]
    BY <1>1, HeldIff
  <2>2. Held'[i] = Holders({live'[x] : x \in Of(i)}) /\ Held[i] = Holders({live[x] : x \in Of(i)})
    BY DEF Held
  <2> QED
    BY <2>1, <2>2 DEF Holders
<1>2. ASSUME \A x \in Of(i) : disk'[x] = disk[x] PROVE Filed'[i] = Filed[i]
  <2>1. \A h : h \in Filed'[i] <=> h \in Filed[i]
    BY <1>2, FiledIff
  <2> QED
    BY <2>1 DEF Filed, Holders
<1> QED
  BY <1>1, <1>2

LEMMA HeldType ==
  ASSUME TypeOK, NEW i \in Installs
  PROVE  /\ Held[i] \subseteq Tenants \cup {NoTenant}
         /\ Filed[i] \subseteq Tenants \cup {NoTenant}
         /\ Read[i] \subseteq Tenants \cup {NoTenant}
<1>1. \A x \in Of(i) : /\ live[x] \in Rows /\ disk[x] \subseteq Rows
                      /\ reading[x] \subseteq Rows /\ snapshot[x] \in Rows
  BY Apart DEF TypeOK
<1>2. Held[i] \subseteq Tenants \cup {NoTenant}
  BY <1>1, HeldIff, RowStatus
<1>3. Filed[i] \subseteq Tenants \cup {NoTenant}
  BY <1>1, FiledIff, RowStatus
<1>4. Read[i] \subseteq Tenants \cup {NoTenant}
  BY <1>1, ReadIff, RowStatus
<1> QED
  BY <1>2, <1>3, <1>4

(* Keeping x leaves its installation to the tenant of its row alone.       *)
LEMMA KeepHolds ==
  ASSUME TypeOK, NEW x \in Ids, NEW row \in Rows \ {NoRow, Gone}, NEW stored,
         Keep(x, row, stored)
  PROVE  /\ Held' = [Held EXCEPT ![x[1]] = {row.tenant}]
         /\ \A i \in Installs : i # x[1] => Filed'[i] = Filed[i]
         /\ Holders(stored) \subseteq Filed'[x[1]]
         /\ Filed'[x[1]] \subseteq Filed[x[1]] \cup Holders(stored)
<1>0. x[1] \in Installs /\ x \in Of(x[1])
  BY IdFacts
<1>1. \A i \in Installs : i # x[1] =>
         \A y \in Of(i) : live'[y] = live[y] /\ disk'[y] = disk[y]
  BY Apart DEF Keep, Others
<1>2. \A i \in Installs : i # x[1] => Held'[i] = Held[i] /\ Filed'[i] = Filed[i]
  BY <1>1, SameHolders
<1>3. live'[x] = row /\ disk'[x] = stored
  BY DEF Keep
<1>4. \A y \in Of(x[1]) : y # x => live'[y] \in {NoRow, Gone}
  <2> SUFFICES ASSUME NEW y \in Of(x[1]), y # x PROVE live'[y] \in {NoRow, Gone}
    OBVIOUS
  <2>1. y \in Ids /\ live[y] \in Rows
    BY Apart DEF TypeOK
  <2>2. CASE y \in Others(x)
    BY <2>1, <2>2 DEF Keep
  <2>3. CASE y \notin Others(x)
    BY <2>1, <2>3, RowStatus DEF Keep, Others, Alive
  <2> QED
    BY <2>2, <2>3
<1>5. \A h : h \in Held'[x[1]] <=> h = row.tenant
  BY <1>0, <1>3, <1>4, HeldIff
<1>6. Held'[x[1]] = {row.tenant}
  <2>1. Held'[x[1]] = Holders({live'[y] : y \in Of(x[1])})
    BY <1>0 DEF Held
  <2> QED
    BY <1>5, <2>1 DEF Holders
<1>7. Held' = [Held EXCEPT ![x[1]] = {row.tenant}]
  BY <1>0, <1>2, <1>6 DEF Held
<1>8. \A y \in Of(x[1]) : y # x => disk'[y] = disk[y] \/ disk'[y] = {Gone}
  BY Apart DEF Keep
<1>9. Filed'[x[1]] \subseteq Filed[x[1]] \cup Holders(stored)
  <2> SUFFICES ASSUME NEW h \in Filed'[x[1]], h \notin Holders(stored) PROVE h \in Filed[x[1]]
    OBVIOUS
  <2>1. PICK y \in Of(x[1]) : \E r \in disk'[y] : r \notin {NoRow, Gone} /\ h = r.tenant
    BY <1>0, FiledIff
  <2>2. y # x
    BY <2>1, <1>3 DEF Holders
  <2> QED
    BY <1>0, <1>8, <2>1, <2>2, FiledIff
<1>10. Holders(stored) \subseteq Filed'[x[1]]
  BY <1>0, <1>3, FiledIff DEF Holders
<1> QED
  BY <1>2, <1>7, <1>9, <1>10

-----------------------------------------------------------------------------
(* Each action is a step of Binding, or none. *)

(* From what is left in the file of i beside h.                            *)
LEMMA FileBecomes ==
  ASSUME NEW i \in Installs, NEW h, h \in Filed'[i], Filed'[i] \subseteq Filed[i] \cup {h},
         \A j \in Installs : j # i => Filed'[j] = Filed[j]
  PROVE  \E left \in SUBSET Filed[i] : Filed' = [Filed EXCEPT ![i] = left \cup {h}]
<1> DEFINE left == Filed'[i] \cap Filed[i]
<1>1. left \in SUBSET Filed[i] /\ Filed'[i] = left \cup {h}
  OBVIOUS
<1> HIDE DEF left
<1>2. Filed' = [Filed EXCEPT ![i] = left \cup {h}]
  BY <1>1, Functions
<1> QED
  BY <1>1, <1>2

LEMMA KeepBecomes ==
  ASSUME TypeOK, NEW x \in Ids, NEW row \in Rows \ {NoRow, Gone}, NEW stored,
         Keep(x, row, stored), Holders(stored) = {row.tenant}, UNCHANGED lookups
  PROVE  Abstract!Becomes(x[1], row.tenant)
<1>1. x[1] \in Installs
  BY IdFacts
<1>2. \E left \in SUBSET Filed[x[1]] :
         Filed' = [Filed EXCEPT ![x[1]] = left \cup {row.tenant}]
  BY <1>1, KeepHolds, FileBecomes
<1> QED
  BY <1>2, KeepHolds, SameRead DEF Abstract!Becomes

LEMMA BindTakes ==
  ASSUME TypeOK, NEW x \in Ids, NEW t \in Tenants, Bind(x, t), UNCHANGED lookups,
         Held[x[1]] = {} \/ NoTenant \in Held[x[1]]
  PROVE  Abstract!Take(x[1], t)
<1>1. Active(t) \in Rows \ {NoRow, Gone} /\ Active(t).tenant = t
  BY RowFacts DEF Active, Row
<1>2. Holders(Moved(t)) = {t}
  BY <1>1, RowFacts DEF Holders, Moved
<1>3. Keep(x, Active(t), Moved(t))
  BY DEF Bind
<1>4. Abstract!Becomes(x[1], Active(t).tenant)
  BY <1>1, <1>2, <1>3, KeepBecomes
<1> QED
  BY <1>1, <1>4 DEF Abstract!Take

LEMMA AwaitAsks ==
  ASSUME TypeOK, NEW x \in Ids, Await(x), Held[x[1]] \subseteq {NoTenant}, UNCHANGED lookups
  PROVE  Abstract!Ask(x[1])
<1>1. Keep(x, Pending(minted'), {Pending(minted')}) /\ minted' \in 1..Tokens
  BY AwaitType DEF Await
<1>2. Pending(minted') \in Rows \ {NoRow, Gone} /\ Pending(minted').tenant = NoTenant
  BY <1>1, RowFacts DEF Pending, Row
<1>3. Holders({Pending(minted')}) = {NoTenant}
  BY <1>2 DEF Holders
<1>4. Abstract!Becomes(x[1], Pending(minted').tenant)
  BY <1>1, <1>2, <1>3, KeepBecomes
<1> QED
  BY <1>2, <1>4 DEF Abstract!Ask

(* Nobody holds i whose rows are none of them active, and NoTenant does if *)
(* one is pending.                                                         *)
LEMMA NotActive ==
  ASSUME TypeOK, NEW i \in Installs, In(i, "active") = {}
  PROVE  /\ Held[i] \subseteq {NoTenant}
         /\ \A x \in Found(i) : NoTenant \in Held[i]
<1>1. \A x \in Of(i) : live[x] \in Rows /\ live[x].status # "active"
  BY Apart DEF TypeOK, In
<1>2. Held[i] \subseteq {NoTenant}
  BY <1>1, HeldIff, RowStatus
<1>3. ASSUME NEW x \in Found(i) PROVE NoTenant \in Held[i]
  <2>1. x \in Of(i) /\ live[x].status = "pending_claim"
    BY FoundFacts
  <2> QED
    BY <1>1, <2>1, HeldIff, RowStatus
<1> QED
  BY <1>2, <1>3

(* Memory may have less of i, and the file what either had, and the same   *)
(* of the others.                                                          *)
LEMMA LessIsDrop ==
  ASSUME NEW i \in Installs, Held'[i] \subseteq Held[i],
         Filed'[i] \subseteq Filed[i] \cup Held[i],
         \A j \in Installs : j # i => Held'[j] = Held[j] /\ Filed'[j] = Filed[j],
         UNCHANGED lookups
  PROVE  Abstract!Drop(i)
<1>1. Held' = [Held EXCEPT ![i] = Held'[i]]
  BY Functions
<1>2. Filed' = [Filed EXCEPT ![i] = Filed'[i]]
  BY Functions
<1> QED
  BY <1>1, <1>2, SameRead DEF Abstract!Drop

LEMMA StayDrops ==
  ASSUME TypeOK, NEW x \in Ids, Alive(x), Stay(x), UNCHANGED lookups
  PROVE  Abstract!Drop(x[1])
<1>1. x[1] \in Installs /\ x \in Of(x[1])
  BY IdFacts
<1>2. live[x] \in Rows \ {NoRow, Gone}
  BY RowStatus DEF TypeOK, Alive
<1>3. Keep(x, live[x], disk[x])
  BY DEF Stay
<1>4. /\ Held' = [Held EXCEPT ![x[1]] = {live[x].tenant}]
      /\ \A i \in Installs : i # x[1] => Filed'[i] = Filed[i]
      /\ Filed'[x[1]] \subseteq Filed[x[1]] \cup Holders(disk[x])
  BY <1>2, <1>3, KeepHolds
<1>5. live[x].tenant \in Held[x[1]]
  BY <1>1, <1>2, HeldIff
<1>6. Holders(disk[x]) \subseteq Filed[x[1]]
  BY <1>1, FiledIff DEF Holders
<1>7. Held'[x[1]] \subseteq Held[x[1]] /\ \A j \in Installs : j # x[1] => Held'[j] = Held[j]
  BY <1>1, <1>4, <1>5, Functions
<1> QED
  BY <1>1, <1>4, <1>6, <1>7, LessIsDrop

(* One row changes. *)
LEMMA OneRow ==
  ASSUME NEW x \in Ids, NEW i \in Installs, i # x[1],
         \A y \in Ids : y # x => live'[y] = live[y] /\ disk'[y] = disk[y]
  PROVE  Held'[i] = Held[i] /\ Filed'[i] = Filed[i]
<1>1. \A y \in Of(i) : y \in Ids /\ y # x
  BY Apart
<1> QED
  BY <1>1, SameHolders

LEMMA IssueAsks ==
  ASSUME TypeOK, NEW i \in Installs, IssueClaimToken(i)
  PROVE  Abstract!Ask(i)
<1>1. PICK x \in Found(i) : /\ live' = [live EXCEPT ![x] = Pending(minted + 1)]
                            /\ disk' = [disk EXCEPT ![x] = {Pending(minted + 1)}]
  BY DEF IssueClaimToken
<1>2. In(i, "active") = {} /\ minted + 1 \in 1..Tokens
  BY InstallAssumption DEF IssueClaimToken, TypeOK
<1> DEFINE p == Pending(minted + 1)
<1>3. p \in Rows \ {NoRow, Gone} /\ p.tenant = NoTenant
  BY <1>2, RowFacts DEF Pending, Row
<1>4. x \in Of(i) /\ x \in Ids /\ x[1] = i
  BY FoundFacts
<1>5. live'[x] = p /\ disk'[x] = {p}
  BY <1>1, <1>4 DEF TypeOK
<1>6. \A y \in Ids : y # x => live'[y] = live[y] /\ disk'[y] = disk[y]
  BY <1>1 DEF TypeOK
<1> HIDE DEF p
<1>7. \A j \in Installs : j # i => Held'[j] = Held[j] /\ Filed'[j] = Filed[j]
  BY <1>4, <1>6, OneRow
<1>8. Held[i] = {NoTenant}
  BY <1>2, NotActive
<1>9. Held'[i] = {NoTenant}
  <2>1. \A y \in Of(i) : live[y] \notin {NoRow, Gone} => live[y].tenant = NoTenant
    BY <1>8, HeldIff
  <2>2. \A h : h \in Held'[i] <=> h = NoTenant
    BY <1>3, <1>4, <1>5, <1>6, <2>1, HeldIff, Apart
  <2>3. Held'[i] = Holders({live'[y] : y \in Of(i)})
    BY DEF Held
  <2> QED
    BY <2>2, <2>3 DEF Holders
<1>10. NoTenant \in Filed'[i]
  BY <1>3, <1>4, <1>5, FiledIff
<1>11. Filed'[i] \subseteq Filed[i] \cup {NoTenant}
  <2> SUFFICES ASSUME NEW h \in Filed'[i], h # NoTenant PROVE h \in Filed[i]
    OBVIOUS
  <2>1. PICK y \in Of(i) : \E r \in disk'[y] : r \notin {NoRow, Gone} /\ h = r.tenant
    BY FiledIff
  <2>2. y # x
    BY <1>3, <1>5, <2>1
  <2> QED
    BY <1>6, <2>1, <2>2, FiledIff, Apart
<1>12. Held' = [Held EXCEPT ![i] = {NoTenant}]
  BY <1>7, <1>9, Functions
<1>13. Abstract!Becomes(i, NoTenant)
  <2>1. Read' = Read
    BY SameRead DEF IssueClaimToken
  <2> QED
    BY <1>7, <1>10, <1>11, <1>12, <2>1, FileBecomes DEF Abstract!Becomes
<1> QED
  BY <1>8, <1>13 DEF Abstract!Ask

(* The owner's handlers: what i had may go, and what memory has be written. *)
LEMMA OwnerDrops ==
  ASSUME TypeOK, NEW x \in Ids,
         DeleteEnds(x) \/ \E t \in Tenants : Patch(x, t) \/ Delete(x, t)
  PROVE  Abstract!Drop(x[1])
<1>1. x[1] \in Installs /\ x \in Of(x[1])
  BY IdFacts
<1>2. \A y \in Ids : y # x => live'[y] = live[y] /\ disk'[y] = disk[y]
  BY DEF DeleteEnds, Patch, Delete, TypeOK
<1>3. live'[x] \in {live[x], NoRow, Gone}
  BY DEF DeleteEnds, Patch, Delete, TypeOK
<1>4. \A r \in disk'[x] : r = Gone \/ r \in disk[x] \/ r = live[x]
  BY DEF DeleteEnds, Patch, Delete, TypeOK
<1>5. Held'[x[1]] \subseteq Held[x[1]]
  BY <1>1, <1>2, <1>3, HeldIff, Apart
<1>6. Filed'[x[1]] \subseteq Filed[x[1]] \cup Held[x[1]]
  <2> SUFFICES ASSUME NEW h \in Filed'[x[1]], h \notin Filed[x[1]] PROVE h \in Held[x[1]]
    OBVIOUS
  <2>1. PICK y \in Of(x[1]) : \E r \in disk'[y] : r \notin {NoRow, Gone} /\ h = r.tenant
    BY <1>1, FiledIff
  <2>2. PICK r \in disk'[y] : r \notin {NoRow, Gone} /\ h = r.tenant
    BY <2>1
  <2>3. r \notin disk[y]
    BY <1>1, <2>2, FiledIff
  <2>4. y = x /\ r = live[x]
    BY <1>2, <1>4, <2>2, <2>3, Apart
  <2> QED
    BY <1>1, <2>2, <2>4, HeldIff
<1>7. UNCHANGED lookups
  BY DEF DeleteEnds, Patch, Delete
<1> QED
  BY <1>1, <1>2, <1>5, <1>6, <1>7, OneRow, LessIsDrop

(* What lookups know of each installation, they knew, or it is on file.    *)
LEMMA LookLooks ==
  ASSUME TypeOK, UNCHANGED rows,
         \A x \in Ids : /\ reading'[x] \subseteq reading[x] \cup {snapshot[x]} \cup disk[x]
                       /\ snapshot'[x] \in {NoRow, snapshot[x]} \cup disk[x]
  PROVE  Abstract!Look
<1>1. \A i \in Installs : Read'[i] \subseteq Read[i] \cup Filed[i]
  <2> SUFFICES ASSUME NEW i \in Installs, NEW h \in Read'[i], h \notin Read[i]
               PROVE  h \in Filed[i]
    OBVIOUS
  <2>1. PICK x \in Of(i) : \E r \in reading'[x] \cup {snapshot'[x]} :
                              r \notin {NoRow, Gone} /\ h = r.tenant
    BY ReadIff
  <2>2. PICK r \in reading'[x] \cup {snapshot'[x]} : r \notin {NoRow, Gone} /\ h = r.tenant
    BY <2>1
  <2>3. r \notin reading[x] \cup {snapshot[x]}
    BY <2>2, ReadIff
  <2>4. r \in disk[x]
    BY <2>2, <2>3, Apart
  <2> QED
    BY <2>2, <2>4, FiledIff
<1>2. UNCHANGED <<Held, Filed>>
  BY DEF rows, Held, Filed
<1>3. \A i \in Installs : Read'[i] \subseteq Tenants \cup {NoTenant}
  BY <1>1, HeldType
<1>4. Read' \in [Installs -> SUBSET Abstract!Claims]
  BY <1>3, Functions DEF Abstract!Claims
<1> QED
  BY <1>1, <1>2, <1>4 DEF Abstract!Look

LEMMA HydrateLooks ==
  ASSUME TypeOK, BootReads \/ \E x \in Ids : HydrateReads(x) \/ BootTakes(x)
  PROVE  Abstract!Look
<1>1. UNCHANGED rows
  BY DEF BootReads, HydrateReads, BootTakes
<1>2. \A x \in Ids : /\ reading'[x] \subseteq reading[x] \cup {snapshot[x]} \cup disk[x]
                     /\ snapshot'[x] \in {NoRow, snapshot[x]} \cup disk[x]
  <2>1. CASE BootReads
    BY <2>1, BootFacts, StoredFacts DEF BootReads
  <2>2. CASE \E x \in Ids : HydrateReads(x)
    BY <2>2 DEF HydrateReads, Stored, TypeOK
  <2>3. CASE \E x \in Ids : BootTakes(x)
    BY <2>3 DEF BootTakes, TypeOK
  <2> QED
    BY <2>1, <2>2, <2>3
<1> QED
  BY <1>1, <1>2, LookLooks

LEMMA HydrateRecalls ==
  ASSUME TypeOK, NEW x \in Ids, HydrateStores(x)
  PROVE  \E h \in Tenants \cup {NoTenant} : Abstract!Recall(x[1], h)
<1>1. PICK r \in reading[x] : live' = [live EXCEPT ![x] = r]
  BY DEF HydrateStores
<1>2. x[1] \in Installs /\ x \in Of(x[1])
  BY IdFacts
<1>3. r \in Rows \ {NoRow, Gone}
  BY DEF TypeOK
<1>4. r.tenant \in Read[x[1]]
  BY <1>2, <1>3, ReadIff
<1>5. r.tenant \in Tenants \cup {NoTenant}
  BY <1>3, RowStatus
<1>6. /\ live'[x] = r
      /\ \A y \in Ids : y # x => live'[y] = live[y] /\ disk'[y] = disk[y]
      /\ disk' = disk
  BY <1>1 DEF HydrateStores, TypeOK
<1> DEFINE left == Held'[x[1]] \cap Held[x[1]]
<1>7. Held'[x[1]] \subseteq Held[x[1]] \cup {r.tenant} /\ r.tenant \in Held'[x[1]]
  BY <1>2, <1>3, <1>6, HeldIff, Apart
<1>8. left \in SUBSET Held[x[1]] /\ Held'[x[1]] = left \cup {r.tenant}
  BY <1>7
<1> HIDE DEF left
<1>9. Held' = [Held EXCEPT ![x[1]] = left \cup {r.tenant}]
  BY <1>2, <1>6, <1>8, OneRow, Functions
<1>10. Filed' = Filed /\ Read' = Read
  BY <1>6 DEF HydrateStores, Filed, Read
<1> QED
  BY <1>4, <1>5, <1>8, <1>9, <1>10 DEF Abstract!Recall

LEMMA RestartForgets ==
  ASSUME Restart
  PROVE  Abstract!Forget
<1>1. /\ disk' = disk
      /\ \A x \in Ids : live'[x] = NoRow /\ snapshot'[x] = NoRow /\ reading'[x] = {}
  BY DEF Restart
<1>2. Filed' = Filed
  BY <1>1 DEF Filed
<1>3. \A i \in Installs : Held'[i] = {} /\ Read'[i] = {}
  BY <1>1, HeldIff, ReadIff, Apart
<1> QED
  BY <1>2, <1>3, Functions DEF Abstract!Forget

LEMMA SameRows ==
  UNCHANGED <<rows, lookups>> => UNCHANGED <<Held, Filed, Read>>
  BY SameRead DEF rows, Held, Filed

LEMMA CallbackBinds ==
  ASSUME TypeOK, NEW i \in Installs,
         CallbackBound(i) \/ CallbackOrphan(i) \/ \E t \in Tenants : CallbackSigned(i, t)
  PROVE  Abstract!Next
<1>1. CASE CallbackBound(i)
  <2>1. PICK x \in In(i, "active") : Stay(x)
    BY <1>1 DEF CallbackBound
  <2>2. x \in Ids /\ x[1] = i /\ Alive(x)
    BY DEF In, Of, Alive
  <2> QED
    BY <1>1, <2>1, <2>2, StayDrops DEF CallbackBound, Abstract!Next
<1>2. CASE CallbackOrphan(i)
  <2>1. PICK x \in Slot(i, NoTenant) : Await(x)
    BY <1>2 DEF CallbackOrphan
  <2>2. x \in Ids /\ x[1] = i /\ Held[i] \subseteq {NoTenant}
    BY <1>2, SlotFacts, NotActive DEF CallbackOrphan
  <2> QED
    BY <1>2, <2>1, <2>2, AwaitAsks DEF CallbackOrphan, Abstract!Next
<1>3. CASE \E t \in Tenants : CallbackSigned(i, t)
  <2>1. PICK t \in Tenants : CallbackSigned(i, t)
    BY <1>3
  <2>2. PICK x \in Slot(i, t) : Bind(x, t)
    BY <2>1 DEF CallbackSigned
  <2>3. x \in Ids /\ x[1] = i
    BY SlotFacts
  <2>4. Held[i] \subseteq {NoTenant}
    BY <2>1, NotActive DEF CallbackSigned
  <2> QED
    BY <2>1, <2>2, <2>3, <2>4, BindTakes DEF CallbackSigned, Abstract!Next
<1> QED
  BY <1>1, <1>2, <1>3

LEMMA ClaimBinds ==
  ASSUME TypeOK, NEW x \in Ids, NEW n \in 1..Tokens, NEW t \in Tenants, Claim(x, n, t)
  PROVE  Abstract!Next
<1>1. /\ x[1] \in Installs /\ x \in Of(x[1]) /\ live[x] = Pending(n) /\ Bind(x, t)
      /\ UNCHANGED lookups
  BY IdFacts DEF Claim
<1>2. live[x] \notin {NoRow, Gone} /\ live[x].tenant = NoTenant
  BY <1>1, RowFacts DEF Pending, Row
<1>3. NoTenant \in Held[x[1]]
  BY <1>1, <1>2, HeldIff
<1> QED
  BY <1>1, <1>3, BindTakes DEF Abstract!Next

LEMMA FinishBinds ==
  ASSUME TypeOK, NEW t \in Tenants,
         FinishByIntent(t) \/ \E i \in Installs : FinishById(i, t)
  PROVE  Abstract!Next
<1>1. CASE FinishByIntent(t)
  <2>1. PICK x \in Ids : live[x].status = "pending_claim" /\ Bind(x, t)
    BY <1>1 DEF FinishByIntent, Candidates
  <2>2. x[1] \in Installs /\ x \in Of(x[1]) /\ live[x] \in Rows
    BY IdFacts DEF TypeOK
  <2>3. NoTenant \in Held[x[1]]
    BY <2>1, <2>2, HeldIff, RowStatus
  <2> QED
    BY <1>1, <2>1, <2>2, <2>3, BindTakes DEF FinishByIntent, Abstract!Next
<1>2. CASE \E i \in Installs : FinishById(i, t)
  <2>1. PICK i \in Installs : FinishById(i, t)
    BY <1>2
  <2>2. PICK x \in Found(i) : Bind(x, t)
    BY <2>1 DEF FinishById
  <2>3. x \in Ids /\ x[1] = i /\ NoTenant \in Held[i]
    BY <2>1, FoundFacts, NotActive DEF FinishById
  <2> QED
    BY <2>1, <2>2, <2>3, BindTakes DEF FinishById, Abstract!Next
<1> QED
  BY <1>1, <1>2

LEMMA WebhookBinds ==
  ASSUME TypeOK, NEW i \in Installs, Webhook(i)
  PROVE  Abstract!Next \/ UNCHANGED <<Held, Filed, Read>>
<1>0. UNCHANGED lookups
  BY DEF Webhook
<1>1. CASE UNCHANGED rows
  BY <1>0, <1>1, SameRows
<1>2. CASE \E x \in Found(i) : Stay(x)
  <2>1. PICK x \in Found(i) : Stay(x)
    BY <1>2
  <2>2. x \in Ids /\ x[1] = i /\ Alive(x)
    BY FoundFacts DEF Alive
  <2> QED
    BY <1>0, <2>1, <2>2, StayDrops DEF Abstract!Next
<1>3. CASE Found(i) = {} /\ Await(<<i, NoTenant>>)
  <2>1. In(i, "active") = {}
    BY <1>3 DEF Found
  <2>2. <<i, NoTenant>> \in Ids /\ <<i, NoTenant>>[1] = i
    BY DEF Ids
  <2> QED
    BY <1>0, <1>3, <2>1, <2>2, NotActive, AwaitAsks DEF Abstract!Next
<1> QED
  BY <1>1, <1>2, <1>3 DEF Webhook, EnsureConnector

LEMMA BindingNext ==
  TypeOK /\ [Next]_vars => [Abstract!Next]_<<Held, Filed, Read>>
<1> SUFFICES ASSUME TypeOK, [Next]_vars
             PROVE  Abstract!Next \/ UNCHANGED <<Held, Filed, Read>>
  OBVIOUS
<1>1. ASSUME NEW t \in Tenants, Connect(t) \/ Expire(t)
      PROVE  UNCHANGED <<Held, Filed, Read>>
  BY <1>1, SameRows DEF Connect, Expire
<1>2. ASSUME NEW i \in Installs, IssueClaimToken(i)
      PROVE  Abstract!Next
  BY <1>2, IssueAsks DEF Abstract!Next
<1>3. ASSUME NEW x \in Ids, \/ DeleteEnds(x)
                            \/ \E t \in Tenants : Patch(x, t) \/ Delete(x, t)
      PROVE  Abstract!Next
  BY <1>3, OwnerDrops, IdFacts DEF Abstract!Next
<1>4. ASSUME NEW x \in Ids, HydrateStores(x)
      PROVE  Abstract!Next
  BY <1>4, HydrateRecalls, IdFacts DEF Abstract!Next, Abstract!Claims
<1>5. ASSUME BootReads \/ \E x \in Ids : HydrateReads(x) \/ BootTakes(x)
      PROVE  Abstract!Next
  BY <1>5, HydrateLooks DEF Abstract!Next
<1>6. ASSUME Restart PROVE Abstract!Next
  BY <1>6, RestartForgets DEF Abstract!Next
<1>7. CASE Next
  BY <1>1, <1>2, <1>3, <1>4, <1>5, <1>6, <1>7, CallbackBinds, ClaimBinds, FinishBinds,
     WebhookBinds DEF Next
<1>8. CASE UNCHANGED vars
  BY <1>8, SameRows DEF vars, rows, lookups
<1> QED
  BY <1>7, <1>8

(* The connectors implement Binding: whatever callbacks, claims, webhooks, *)
(* deletions, expiries, restarts, and lookups that store what they read    *)
(* long ago do, a tenant takes an installation only when nobody holds it   *)
(* or it waits, and then holds it alone                                    *)
(* (softDeleteOtherInstallConnectors: "enforces one live binder").         *)
THEOREM BindingKept == Spec => KeepsBinding
<1>1. Init => Abstract!Init
  <2> SUFFICES ASSUME Init PROVE Abstract!Init
    OBVIOUS
  <2>1. \A x \in Ids : live[x] = NoRow /\ disk[x] = {} /\ reading[x] = {} /\ snapshot[x] = NoRow
    BY DEF Init
  <2>2. \A i \in Installs : Held[i] = {} /\ Filed[i] = {} /\ Read[i] = {}
    BY <2>1, HeldIff, FiledIff, ReadIff, Apart
  <2> QED
    BY <2>2, Functions DEF Abstract!Init
<1> QED
  BY <1>1, TypeCorrect, BindingNext, PTL DEF Spec, KeepsBinding, Abstract!Spec

-----------------------------------------------------------------------------
(* The comments of a review: the thread of one pull request.               *)

ThreadComment == [key : Keys, line : Lines, open : BOOLEAN]
ThreadUpdate == [finding : Nat, at : Nat, open : BOOLEAN]
ThreadPlan == [close : SUBSET Nat, update : SUBSET ThreadUpdate, create : SUBSET Nat]
ThreadPlaces == {"none", "checkout", "agent", "window", "list", "sync", "inline", "done"}
ThreadFound == Seq(Findings)

ThreadTypes ==
  /\ head \in Nat
  /\ touched \in Seq(SUBSET Files)
  /\ thread \in Seq(ThreadComment)
  /\ analyzed \in Nat
  /\ pc \in [Reviews -> ThreadPlaces]
  /\ sha \in [Reviews -> Nat] /\ base \in [Reviews -> Nat]
  /\ report \in [Reviews -> ThreadFound]
  /\ carried \in [Reviews -> SUBSET Keys]
  /\ plan \in [Reviews -> ThreadPlan]
  /\ cancelled \subseteq Reviews
  /\ budget \in [Events -> Nat]
  /\ disturbed \subseteq Reviews
  /\ promised \in ThreadFound

(* What is to be created are findings of the report, and there is nothing  *)
(* before the plan is made.                                                *)
ThreadNumbered(r) ==
  /\ plan[r].create \subseteq 1..Len(report[r])
  /\ pc[r] \notin {"sync", "inline"} => plan[r].create = {}
ThreadNumbers == \A r \in Reviews : ThreadNumbered(r)

(* The comments a plan is going to write to. *)
ThreadRewrite(p) == p.close \cup {u.at : u \in p.update}

(* Until it lists the thread, an incremental review carries every comment  *)
(* whose file has not changed since its base.                              *)
ThreadCarries(r) ==
  Compares(r) =>
    \A i \in 1..Len(thread) :
      FileOf[thread[i].key] \notin diffPaths(base[r], sha[r])
      => thread[i].key \in carried[r]

(* What a plan closes has no finding; what it replaces has one at another  *)
(* line.                                                                   *)
ThreadGrounds(f, p, t) ==
  /\ ThreadRewrite(p) \subseteq 1..Len(t)
  /\ \A i \in p.close : \A n \in 1..Len(f) : f[n].key # t[i].key
  /\ \A u \in p.update :
       u.open \/ \E n \in 1..Len(f) : f[n].key = t[u.at].key /\ f[n].line # t[u.at].line

(* And it has no reason to be carried. *)
ThreadCauses(r) ==
  /\ ThreadGrounds(report[r], plan[r], thread)
  /\ \A i \in plan[r].close :
       Compares(r) => FileOf[thread[i].key] \in diffPaths(base[r], sha[r])

(* A finding has its comment for good, or will have one when the plan is   *)
(* through; one that may lose it is reported elsewhere too.                *)
ThreadSafe(c, p, t) ==
  \E i \in 1..Len(t) :
    /\ t[i].key = c.key /\ t[i].line = c.line
    /\ i \notin p.close
    /\ \A u \in p.update : u.at = i => u.open
    /\ t[i].open \/ \E u \in p.update : u.at = i
ThreadComing(f, n, p, t) == n \in p.create \/ ThreadSafe(f[n], p, t)
ThreadCovers(f, p, t) ==
  \A n \in 1..Len(f) :
    \/ ThreadComing(f, n, p, t)
    \/ /\ Twins(f, n) # {}
       /\ \A m \in Twins(f, n) : ThreadComing(f, m, p, t)
ThreadCovered(r) == ThreadCovers(report[r], plan[r], thread)

(* The sync of a review that nobody has disturbed; this and the types make *)
(* the property inductive.                                                 *)
ThreadSyncInv(r) ==
  /\ pc[r] = "list" => ThreadCarries(r)
  /\ pc[r] = "sync" => ThreadCauses(r) /\ ThreadCovered(r)
  /\ pc[r] = "inline" => ThreadRewrite(plan[r]) = {} /\ ThreadCovered(r)

ThreadInv ==
  /\ ThreadTypes
  /\ ThreadNumbers
  /\ \A r \in Reviews \ disturbed : ThreadSyncInv(r)
  /\ ReportedIsOpen

(* The operators: the first comment of a key, the order of the new ones,   *)
(* and what a plan holds.                                                  *)

LEMMA ThreadSmallest ==
  ASSUME NEW T, T \subseteq Nat, T # {}
  PROVE  \E x \in T : \A y \in T : x <= y
<1>1. PICK x \in T : \A y \in T : ~(<<y, x>> \in OpToRel(<, Nat))
  <2> DEFINE R == OpToRel(<, Nat)
  <2>1. IsWellFoundedOn(R, Nat)
    BY NatLessThanWellFounded
  <2> HIDE DEF R
  <2> QED
    BY <2>1, WFMin DEF R
<1>2. \A y \in T : ~(y < x)
  BY <1>1 DEF OpToRel
<1>3. x \in Nat
  BY <1>1
<1>4. \A y \in T : x <= y
  BY <1>2, <1>3
<1> QED
  BY <1>4

LEMMA ThreadFirstFacts ==
  ASSUME NEW prior \in Seq(ThreadComment), NEW k, NEW n \in 1..Len(prior), prior[n].key = k
  PROVE  first(prior, k) \in 1..Len(prior) /\ prior[first(prior, k)].key = k
<1> DEFINE T == {i \in 1..Len(prior) : prior[i].key = k}
<1>1. T \subseteq Nat /\ n \in T
  OBVIOUS
<1>2. PICK x \in T : \A y \in T : x <= y
  <2> HIDE DEF T
  <2> QED
    BY <1>1, ThreadSmallest
<1>3. x \in 1..Len(prior) /\ prior[x].key = k
  BY <1>2
<1>4. \A j \in 1..(x - 1) : j \in 1..Len(prior) /\ j < x
  BY <1>3
<1>5. \A j \in 1..(x - 1) : prior[j].key # k
  BY <1>2, <1>3, <1>4
<1> QED
  BY <1>3, <1>5 DEF first

(* The new comments, in the order of the findings. *)
LEMMA ThreadOrdered ==
  ASSUME NEW f \in ThreadFound, NEW S \in SUBSET (1..Len(f)), NEW s \in Ordered(S)
  PROVE  LET new == [i \in 1..Len(s) |-> Comment(f[s[i]])]
         IN  /\ new \in Seq(ThreadComment)
             /\ \A n \in S : \E i \in 1..Len(new) : new[i] = Comment(f[n])
<1> DEFINE n == Cardinality(S)
<1> DEFINE new == [i \in 1..Len(s) |-> Comment(f[s[i]])]
<1>1. Len(f) \in Nat /\ \A m \in 1..Len(f) : f[m] \in Findings
  BY DEF ThreadFound
<1>2. IsFiniteSet(S)
  <2>1. IsFiniteSet(1..Len(f))
    BY <1>1, FS_Interval
  <2> QED
    BY <2>1, FS_Subset
<1>3. n \in Nat
  BY <1>2, FS_CardinalityType
<1>4. s \in [1..n -> S] /\ \A i, j \in 1..n : i < j => s[i] < s[j]
  BY DEF Ordered
<1>5. IsFiniteSet(1..n) /\ Cardinality(1..n) = n
  BY <1>3, FS_Interval
<1> HIDE DEF n
<1>6. \A i, j \in 1..n : s[i] \in Nat /\ (s[i] = s[j] => i = j)
  <2> SUFFICES ASSUME NEW i \in 1..n, NEW j \in 1..n
               PROVE  s[i] \in Nat /\ (s[i] = s[j] => i = j)
    OBVIOUS
  <2>1. s[i] \in Nat /\ s[j] \in Nat
    <3>1. s[i] \in S /\ s[j] \in S
      BY <1>4
    <3>2. \A m \in S : m \in 1..Len(f)
      OBVIOUS
    <3>3. \A m \in 1..Len(f) : m \in Nat
      BY <1>1
    <3> QED
      BY <3>1, <3>2, <3>3
  <2>2. i < j => s[i] < s[j]
    BY <1>4
  <2>3. j < i => s[j] < s[i]
    BY <1>4
  <2> QED
    BY <1>3, <2>1, <2>2, <2>3
<1>7. s \in Injection(1..n, S)
  BY <1>4, <1>6 DEF Injection, IsInjective
<1>8. s \in Surjection(1..n, S)
  BY <1>5, <1>7, <1>2, FS_Injection DEF n
<1>9. \A m \in S : \E i \in 1..n : s[i] = m
  BY <1>8 DEF Surjection
<1>10. Len(s) = n
  BY <1>3, <1>4
<1>11. \A i \in 1..n : Comment(f[s[i]]) \in ThreadComment
  <2> SUFFICES ASSUME NEW i \in 1..n
               PROVE  Comment(f[s[i]]) \in ThreadComment
    OBVIOUS
  <2>1. f[s[i]] \in Findings
    BY <1>1, <1>4
  <2> QED
    BY <2>1 DEF Findings, Comment, ThreadComment
<1>12. new \in Seq(ThreadComment) /\ Len(new) = n
  <2> HIDE DEF ThreadComment
  <2> QED
    BY <1>3, <1>10, <1>11
<1>13. \A m \in S : \E i \in 1..Len(new) : new[i] = Comment(f[m])
  BY <1>9, <1>10, <1>12
<1> QED
  BY <1>12, <1>13

LEMMA ThreadPlanFacts ==
  ASSUME NEW f \in ThreadFound, NEW prior \in Seq(ThreadComment), NEW keep
  PROVE  LET p == planOPAReviewCommentActions(f, prior, keep)
         IN  /\ p \in ThreadPlan /\ p.create \subseteq 1..Len(f)
             /\ ThreadGrounds(f, p, prior) /\ ThreadCovers(f, p, prior)
             /\ \A i \in p.close : prior[i].key \notin keep
<1> DEFINE at(n) == first(prior, f[n].key)
<1> DEFINE reported == {f[n].key : n \in 1..Len(f)}
<1> DEFINE gone == {k \in known(prior) \ (reported \cup keep) : prior[first(prior, k)].open}
<1> DEFINE C == {first(prior, k) : k \in gone}
<1> DEFINE written == stale(f, prior) \cup moved(f, prior)
<1> DEFINE U == {[finding |-> n, at |-> at(n), open |-> n \notin moved(f, prior)] : n \in written}
<1> DEFINE N == ((1..Len(f)) \ met(f, prior)) \cup moved(f, prior)
<1> DEFINE p == planOPAReviewCommentActions(f, prior, keep)
<1>1. \A k \in known(prior) :
        first(prior, k) \in 1..Len(prior) /\ prior[first(prior, k)].key = k
  <2> SUFFICES ASSUME NEW k \in known(prior)
               PROVE  first(prior, k) \in 1..Len(prior) /\ prior[first(prior, k)].key = k
    OBVIOUS
  <2>1. PICK n \in 1..Len(prior) : prior[n].key = k
    BY DEF known
  <2> QED
    BY <2>1, ThreadFirstFacts
<1>2. p = [close |-> C, update |-> U, create |-> N]
  BY DEF planOPAReviewCommentActions
<1> HIDE DEF p
<1>3. p.close = C /\ p.update = U /\ p.create = N
  BY <1>2
<1>4. \A n \in met(f, prior) :
        n \in 1..Len(f) /\ at(n) \in 1..Len(prior) /\ prior[at(n)].key = f[n].key
  BY <1>1 DEF met
<1>5. written \subseteq met(f, prior) /\ N \subseteq 1..Len(f)
  BY DEF stale, moved, met
<1>6. \A n \in moved(f, prior) : n \in met(f, prior) /\ prior[at(n)].line # f[n].line
  BY DEF moved
<1>7. \A n \in met(f, prior) \ moved(f, prior) :
        prior[at(n)].line = f[n].line /\ (prior[at(n)].open \/ n \in stale(f, prior))
  BY DEF moved, stale
<1>8. \A i \in C : i \in 1..Len(prior) /\ prior[i].key \notin reported \cup keep
  BY <1>1
<1>9. \A u \in U : \E n \in met(f, prior) :
        u.at = at(n) /\ (u.open <=> n \notin moved(f, prior))
  <2> SUFFICES ASSUME NEW n \in written,
                      NEW u, u = [finding |-> n, at |-> at(n), open |-> n \notin moved(f, prior)]
               PROVE  n \in met(f, prior) /\ u.at = at(n) /\ (u.open <=> n \notin moved(f, prior))
    OBVIOUS
  <2>1. n \in met(f, prior)
    BY <1>5
  <2> HIDE DEF at
  <2> QED
    BY <2>1
<1>10. p \in ThreadPlan
  <2>1. Len(prior) \in Nat /\ Len(f) \in Nat
    BY DEF ThreadFound
  <2>2. C \in SUBSET Nat /\ N \in SUBSET Nat
    BY <1>5, <1>8, <2>1
  <2>3. U \in SUBSET ThreadUpdate
    <3> SUFFICES ASSUME NEW n \in written
                 PROVE  [finding |-> n, at |-> at(n), open |-> n \notin moved(f, prior)] \in ThreadUpdate
      OBVIOUS
    <3>1. n \in Nat /\ at(n) \in Nat
      BY <1>4, <1>5, <2>1
    <3> QED
      BY <3>1 DEF ThreadUpdate
  <2> HIDE DEF C, N, U
  <2> QED
    BY <1>2, <2>2, <2>3 DEF ThreadPlan
<1>11. ThreadGrounds(f, p, prior)
  <2>1. ThreadRewrite(p) \subseteq 1..Len(prior)
    BY <1>3, <1>4, <1>8, <1>9 DEF ThreadRewrite
  <2>2. ASSUME NEW u \in U, ~u.open
        PROVE  \E n \in 1..Len(f) : f[n].key = prior[u.at].key /\ f[n].line # prior[u.at].line
    <3>1. PICK n \in met(f, prior) : u.at = at(n) /\ (u.open <=> n \notin moved(f, prior))
      BY <1>9
    <3> QED
      BY <1>4, <1>6, <2>2, <3>1
  <2>3. \A i \in C : \A n \in 1..Len(f) : f[n].key # prior[i].key
    BY <1>8
  <2> HIDE DEF C, U
  <2> QED
    BY <1>3, <2>1, <2>2, <2>3 DEF ThreadGrounds
<1>12. ThreadCovers(f, p, prior)
  <2> SUFFICES ASSUME NEW n \in 1..Len(f)
               PROVE  \/ ThreadComing(f, n, p, prior)
                      \/ /\ Twins(f, n) # {}
                         /\ \A m \in Twins(f, n) : ThreadComing(f, m, p, prior)
    BY DEF ThreadCovers
  <2>1. CASE n \in N
    BY <1>3, <2>1 DEF ThreadComing
  <2>2. CASE n \notin N
    <3>1. n \in met(f, prior) \ moved(f, prior)
      BY <2>2
    <3>2. /\ at(n) \in 1..Len(prior)
          /\ prior[at(n)].key = f[n].key /\ prior[at(n)].line = f[n].line
          /\ prior[at(n)].open \/ n \in stale(f, prior)
      BY <1>4, <1>7, <3>1
    <3>3. ASSUME NEW m \in 1..Len(f), f[m].key = f[n].key
          PROVE  at(m) = at(n) /\ m \in met(f, prior)
      BY <3>1, <3>3 DEF met
    <3>4. CASE Twins(f, n) # {}
      <4>1. \A m \in Twins(f, n) : m \in N
        <5> SUFFICES ASSUME NEW m \in Twins(f, n)
                     PROVE  m \in moved(f, prior)
          OBVIOUS
        <5>1. m \in 1..Len(f) /\ f[m].key = f[n].key /\ f[m].line # f[n].line
          BY DEF Twins
        <5>2. at(m) = at(n) /\ m \in met(f, prior)
          BY <3>3, <5>1
        <5> QED
          BY <3>2, <5>1, <5>2 DEF moved
      <4> QED
        BY <1>3, <3>4, <4>1 DEF ThreadComing
    <3>5. CASE Twins(f, n) = {}
      <4>1. \A m \in moved(f, prior) : at(m) # at(n)
        <5> SUFFICES ASSUME NEW m \in moved(f, prior), at(m) = at(n)
                     PROVE  FALSE
          OBVIOUS
        <5>1. m \in 1..Len(f) /\ f[m].key = f[n].key /\ f[m].line # f[n].line
          BY <1>4, <1>6, <3>2
        <5> QED
          BY <3>5, <5>1 DEF Twins
      <4>2. \A u \in U : u.at = at(n) => u.open
        BY <1>9, <4>1
      <4>3. at(n) \notin C
        BY <1>8, <3>2
      <4>4. prior[at(n)].open \/ \E u \in U : u.at = at(n)
        <5>1. CASE prior[at(n)].open
          BY <5>1
        <5>2. CASE n \in stale(f, prior)
          <6> DEFINE u == [finding |-> n, at |-> at(n), open |-> n \notin moved(f, prior)]
          <6>1. u \in U /\ u.at = at(n)
            BY <5>2
          <6> QED
            BY <6>1
        <5> QED
          BY <3>2, <5>1, <5>2
      <4> HIDE DEF C, U
      <4>5. ThreadSafe(f[n], p, prior)
        BY <1>3, <3>2, <4>2, <4>3, <4>4 DEF ThreadSafe
      <4> QED
        BY <4>5 DEF ThreadComing
    <3> QED
      BY <3>4, <3>5
  <2> QED
    BY <2>1, <2>2
<1> QED
  BY <1>3, <1>5, <1>8, <1>10, <1>11, <1>12 DEF p

(* A plan that is carried out one step covers what it covered. *)
LEMMA ThreadStillCovers ==
  ASSUME NEW f, NEW p, NEW t, NEW q, NEW u, ThreadCovers(f, p, t),
         \A n \in 1..Len(f) : ThreadComing(f, n, p, t) => ThreadComing(f, n, q, u)
  PROVE  ThreadCovers(f, q, u)
  BY DEF ThreadCovers, Twins

(* The types. *)

LEMMA ThreadPlanFields ==
  ASSUME NEW p \in ThreadPlan
  PROVE  /\ p.close \in SUBSET Nat /\ p.update \in SUBSET ThreadUpdate
         /\ p.create \in SUBSET Nat
         /\ \A u \in p.update : u.at \in Nat /\ u.open \in BOOLEAN
         /\ \A S \in SUBSET Nat :
              /\ [p EXCEPT !.close = S] \in ThreadPlan
              /\ [p EXCEPT !.create = S] \in ThreadPlan
         /\ \A S \in SUBSET ThreadUpdate : [p EXCEPT !.update = S] \in ThreadPlan
<1>1. \A u \in p.update : u \in ThreadUpdate
  BY DEF ThreadPlan
<1>2. \A u \in p.update : u.at \in Nat /\ u.open \in BOOLEAN
  BY <1>1 DEF ThreadUpdate
<1> HIDE DEF ThreadUpdate
<1> QED
  BY <1>2 DEF ThreadPlan

LEMMA ThreadOneRewritten ==
  ASSUME NEW s \in Seq(ThreadComment), NEW i \in 1..Len(s), NEW open \in BOOLEAN
  PROVE  LET t == [s EXCEPT ![i].open = open]
         IN  /\ t \in Seq(ThreadComment) /\ Len(t) = Len(s)
             /\ \A j \in 1..Len(s) :
                  /\ t[j].key = s[j].key /\ t[j].line = s[j].line
                  /\ t[j].open = IF j = i THEN open ELSE s[j].open
<1> DEFINE e == [s[i] EXCEPT !.open = open]
<1>1. s[i] \in ThreadComment
  OBVIOUS
<1>2. e \in ThreadComment /\ e.key = s[i].key /\ e.line = s[i].line /\ e.open = open
  BY <1>1 DEF ThreadComment
<1>3. [s EXCEPT ![i].open = open] = [s EXCEPT ![i] = e]
  OBVIOUS
<1> HIDE DEF e
<1>4. /\ [s EXCEPT ![i] = e] \in Seq(ThreadComment)
      /\ Len([s EXCEPT ![i] = e]) = Len(s)
      /\ \A j \in 1..Len(s) : [s EXCEPT ![i] = e][j] = IF j = i THEN e ELSE s[j]
  BY <1>2, ExceptSeq
<1> QED
  BY <1>2, <1>3, <1>4

LEMMA ThreadNothingFound ==
  NoReport \in ThreadFound /\ Len(NoReport) = 0
  /\ NoPlan \in ThreadPlan /\ NoPlan.create = {}
<1>1. NoReport \in ThreadFound /\ Len(NoReport) = 0
  BY DEF ThreadFound, NoReport
<1>2. NoPlan \in ThreadPlan /\ NoPlan.create = {}
  BY DEF NoPlan, ThreadPlan
<1> QED
  BY <1>1, <1>2

LEMMA ThreadInitTypes ==
  ASSUME ThreadInit
  PROVE  ThreadTypes
<1>1. touched \in Seq(SUBSET Files)
  BY DEF ThreadInit
<1>2. thread \in Seq(ThreadComment)
  BY DEF ThreadInit
<1>3. budget \in [Events -> Nat]
  BY ConstantsAssumption DEF ThreadInit
<1> QED
  BY <1>1, <1>2, <1>3, ThreadNothingFound DEF ThreadInit, ThreadTypes, ThreadPlaces

LEMMA ThreadSpendType ==
  ASSUME ThreadTypes, NEW e \in Events, Spend(e)
  PROVE  budget' \in [Events -> Nat]
  BY DEF ThreadTypes, Spend

(* What a call of r may do to the budget and to the history. *)
LEMMA ThreadFailsType ==
  ASSUME ThreadTypes, NEW r \in Reviews, Fails(r)
  PROVE  /\ budget' \in [Events -> Nat] /\ disturbed' \subseteq Reviews
         /\ promised' \in ThreadFound
         /\ r \in disturbed' /\ disturbed \subseteq disturbed' /\ promised' = promised
<1>1. budget' \in [Events -> Nat]
  BY ThreadSpendType DEF Fails, Events
<1> QED
  BY <1>1 DEF Fails, ThreadTypes

LEMMA ThreadWorksType ==
  ASSUME ThreadTypes, Works
  PROVE  /\ budget' \in [Events -> Nat] /\ disturbed' \subseteq Reviews
         /\ promised' \in ThreadFound
         /\ disturbed' = disturbed /\ promised' = promised
  BY DEF Works, ThreadTypes, history

LEMMA ThreadStirsType ==
  ASSUME ThreadTypes, NEW who, Stirs(who)
  PROVE  /\ disturbed' \subseteq Reviews /\ promised' \in ThreadFound
         /\ disturbed \subseteq disturbed' /\ promised' = NoReport
  BY ThreadNothingFound DEF Stirs, ThreadTypes

LEMMA ThreadRewritesTypes ==
  ASSUME ThreadTypes, NEW r \in Reviews, NEW i, NEW open \in BOOLEAN, Rewrites(r, i, open)
  PROVE  /\ thread' \in Seq(ThreadComment)
         /\ budget' \in [Events -> Nat] /\ disturbed' \subseteq Reviews
         /\ promised' \in ThreadFound
<1>1. CASE Writes(r) /\ thread' = [thread EXCEPT ![i].open = open]
  <2>1. ASSUME i \in 1..Len(thread)
        PROVE  thread' \in Seq(ThreadComment)
    BY <1>1, <2>1, ThreadOneRewritten DEF ThreadTypes
  <2>2. ASSUME i \notin 1..Len(thread)
        PROVE  thread' \in Seq(ThreadComment)
    <3>1. thread \in Seq(ThreadComment) /\ i \notin DOMAIN thread
      BY <2>2 DEF ThreadTypes
    <3>2. thread' = thread
      BY <1>1, <3>1
    <3> QED
      BY <3>1, <3>2
  <2>3. thread' \in Seq(ThreadComment)
    BY <2>1, <2>2
  <2> QED
    BY <1>1, <2>3, ThreadStirsType DEF Writes, ThreadTypes
<1>2. CASE Fails(r) /\ UNCHANGED thread
  BY <1>2, ThreadFailsType DEF ThreadTypes
<1> QED
  BY <1>1, <1>2 DEF Rewrites

LEMMA ThreadPushTypes ==
  ASSUME ThreadTypes, NEW fs \in SUBSET Files, Push(fs)
  PROVE  ThreadTypes'
<1>1. head' \in Nat
  BY DEF Push, ThreadTypes
<1>2. touched' \in Seq(SUBSET Files)
  BY AppendProperties DEF Push, ThreadTypes
<1>3. thread' \in Seq(ThreadComment)
  <2>1. PICK move \in [Lines -> Lines] :
          thread' = [i \in 1..Len(thread) |->
                       IF FileOf[thread[i].key] \in fs
                       THEN [thread[i] EXCEPT !.line = move[@]]
                       ELSE thread[i]]
    BY DEF Push
  <2>2. ASSUME NEW i \in 1..Len(thread)
        PROVE  /\ thread[i] \in ThreadComment
               /\ [thread[i] EXCEPT !.line = move[@]] \in ThreadComment
    <3>1. thread[i] \in ThreadComment
      BY DEF ThreadTypes
    <3> QED
      BY <3>1, <2>1 DEF ThreadComment
  <2>3. Len(thread) \in Nat
    BY DEF ThreadTypes
  <2> HIDE DEF ThreadComment
  <2> QED
    BY <2>1, <2>2, <2>3
<1>4. disturbed' \subseteq Reviews /\ promised' \in ThreadFound
  BY ThreadStirsType DEF Push
<1> QED
  BY <1>1, <1>2, <1>3, <1>4 DEF Push, ThreadTypes, reviewRows

LEMMA ThreadEarlyTypes ==
  ASSUME ThreadTypes, NEW r \in Reviews,
         Enqueue(r) \/ Dropped(r) \/ Checkout(r) \/ Review(r)
  PROVE  ThreadTypes'
<1>1. CASE Enqueue(r)
  <2>1. /\ pc' \in [Reviews -> ThreadPlaces] /\ sha' \in [Reviews -> Nat]
        /\ cancelled' \subseteq Reviews
    BY <1>1 DEF Enqueue, GoTo, ThreadTypes, ThreadPlaces
  <2> QED
    BY <1>1, <2>1 DEF Enqueue, ThreadTypes, github, history
<1>2. CASE Dropped(r)
  BY <1>2 DEF Dropped, GoTo, ThreadTypes, ThreadPlaces, github, history, reviewRows
<1>3. CASE Checkout(r)
  BY <1>3 DEF Checkout, GoTo, ThreadTypes, ThreadPlaces, github, history
<1>4. CASE Review(r)
  <2>1. \A f \in Reports : f \in ThreadFound
    BY ConstantsAssumption DEF ThreadFound
  <2>2. pc' \in [Reviews -> ThreadPlaces] /\ report' \in [Reviews -> ThreadFound]
    BY <1>4, <2>1 DEF Review, GoTo, ThreadTypes, ThreadPlaces
  <2> QED
    BY <1>4, <2>2 DEF Review, ThreadTypes, github, history, reviewRows
<1> QED
  BY <1>1, <1>2, <1>3, <1>4

LEMMA ThreadCarriedKeys ==
  ASSUME ThreadTypes, NEW paths
  PROVE  computeCarriedForwardKeys(thread, paths) \in SUBSET Keys
<1>1. \A c \in ToSet(thread) : c \in ThreadComment
  BY DEF ToSet, ThreadTypes
<1>2. \A c \in ThreadComment : c.key \in Keys
  BY DEF ThreadComment
<1> QED
  BY <1>1, <1>2 DEF computeCarriedForwardKeys

LEMMA ThreadWindowTypes ==
  ASSUME ThreadTypes, NEW r \in Reviews, Window(r)
  PROVE  ThreadTypes'
<1>1. /\ budget' \in [Events -> Nat] /\ disturbed' \subseteq Reviews
      /\ promised' \in ThreadFound
      /\ disturbed \subseteq disturbed' /\ promised' = promised
  BY ThreadFailsType, ThreadWorksType DEF Window
<1>2. carried' \in [Reviews -> SUBSET Keys]
  <2>1. CASE UNCHANGED carried
    BY <2>1 DEF ThreadTypes
  <2>2. CASE carried' = [carried EXCEPT ![r] =
               IF Compares(r)
               THEN computeCarriedForwardKeys(thread, diffPaths(base[r], sha[r]))
               ELSE {}]
    <3>1. computeCarriedForwardKeys(thread, diffPaths(base[r], sha[r])) \in SUBSET Keys
      BY ThreadCarriedKeys
    <3> QED
      BY <2>2, <3>1 DEF ThreadTypes
  <2> QED
    BY <2>1, <2>2 DEF Window
<1>3. pc' \in [Reviews -> ThreadPlaces]
  BY DEF Window, GoTo, ThreadTypes, ThreadPlaces
<1> QED
  BY <1>1, <1>2, <1>3 DEF Window, ThreadTypes, github, reviewRows

LEMMA ThreadListTypes ==
  ASSUME ThreadTypes, NEW r \in Reviews, List(r)
  PROVE  ThreadTypes'
<1>1. /\ budget' \in [Events -> Nat] /\ disturbed' \subseteq Reviews
      /\ promised' \in ThreadFound
      /\ disturbed \subseteq disturbed' /\ promised' = promised
  BY ThreadFailsType, ThreadWorksType DEF List
<1>2. PICK prior \in githubListPRReviewComments :
        plan' = [plan EXCEPT ![r] =
          planOPAReviewCommentActions(report[r], prior, carried[r])]
  BY DEF List
<1>3. prior \in Seq(ThreadComment) /\ report[r] \in ThreadFound
  <2>1. /\ thread \in Seq(ThreadComment) /\ <<>> \in Seq(ThreadComment)
        /\ report[r] \in ThreadFound
    BY DEF ThreadTypes
  <2> HIDE DEF ThreadComment
  <2> QED
    BY <1>2, <2>1 DEF githubListPRReviewComments
<1>4. planOPAReviewCommentActions(report[r], prior, carried[r]) \in ThreadPlan
  BY <1>3, ThreadPlanFacts
<1>5. plan' \in [Reviews -> ThreadPlan]
  BY <1>2, <1>4 DEF ThreadTypes
<1>6. pc' \in [Reviews -> ThreadPlaces]
  BY DEF List, GoTo, ThreadTypes, ThreadPlaces
<1> QED
  BY <1>1, <1>5, <1>6 DEF List, ThreadTypes, github, reviewRows

LEMMA ThreadSyncTypes ==
  ASSUME ThreadTypes, NEW r \in Reviews, Close(r) \/ Update(r)
  PROVE  ThreadTypes'
<1>1. ASSUME NEW i, NEW open \in BOOLEAN, Rewrites(r, i, open),
             plan' \in [Reviews -> ThreadPlan],
             UNCHANGED <<github, analyzed, pc, reviewRows, report, carried, cancelled>>
      PROVE  ThreadTypes'
  BY <1>1, ThreadRewritesTypes DEF ThreadTypes, github, reviewRows
<1>2. plan[r] \in ThreadPlan
  BY DEF ThreadTypes
<1>3. CASE Close(r)
  <2>1. PICK i \in plan[r].close :
          Rewrites(r, i, FALSE) /\ plan' = [plan EXCEPT ![r].close = @ \ {i}]
    BY <1>3 DEF Close
  <2>2. [plan[r] EXCEPT !.close = @ \ {i}] \in ThreadPlan
    BY <1>2, ThreadPlanFields
  <2>3. plan' \in [Reviews -> ThreadPlan]
    BY <2>1, <2>2 DEF ThreadTypes
  <2> QED
    BY <1>1, <1>3, <2>1, <2>3 DEF Close
<1>4. CASE Update(r)
  <2>1. PICK u \in plan[r].update :
          /\ Rewrites(r, u.at, u.open)
          /\ plan' = [plan EXCEPT ![r].update = @ \ {u}]
    BY <1>4 DEF Update
  <2>2. [plan[r] EXCEPT !.update = @ \ {u}] \in ThreadPlan /\ u.open \in BOOLEAN
    BY <1>2, ThreadPlanFields
  <2>3. plan' \in [Reviews -> ThreadPlan]
    BY <2>1, <2>2 DEF ThreadTypes
  <2> QED
    BY <1>1, <1>4, <2>1, <2>2, <2>3 DEF Update
<1> QED
  BY <1>3, <1>4

LEMMA ThreadEndedTypes ==
  ASSUME ThreadTypes, NEW r \in Reviews, Ended(r)
  PROVE  /\ promised' \in ThreadFound /\ report' \in [Reviews -> ThreadFound]
         /\ carried' \in [Reviews -> SUBSET Keys] /\ plan' \in [Reviews -> ThreadPlan]
         /\ pc' \in [Reviews -> ThreadPlaces]
<1>1. promised' \in ThreadFound
  BY ThreadNothingFound DEF Ended, ThreadTypes
<1>2. report' \in [Reviews -> ThreadFound]
  BY ThreadNothingFound DEF Ended, ThreadTypes
<1>3. carried' \in [Reviews -> SUBSET Keys]
  BY DEF Ended, ThreadTypes
<1>4. plan' \in [Reviews -> ThreadPlan]
  BY ThreadNothingFound DEF Ended, ThreadTypes
<1>5. pc' \in [Reviews -> ThreadPlaces]
  BY DEF Ended, GoTo, ThreadTypes, ThreadPlaces
<1> QED
  BY <1>1, <1>2, <1>3, <1>4, <1>5

(* The comments one review creates at once. *)
LEMMA ThreadCreated ==
  ASSUME ThreadTypes, ThreadNumbers, NEW r \in Reviews, NEW s \in Ordered(plan[r].create),
         githubCreatePRReview([i \in 1..Len(s) |-> Comment(report[r][s[i]])])
  PROVE  /\ thread' \in Seq(ThreadComment)
         /\ \A i \in 1..Len(thread) : i \in 1..Len(thread') /\ thread'[i] = thread[i]
         /\ \A n \in plan[r].create :
              \E i \in 1..Len(thread') : thread'[i] = Comment(report[r][n])
<1> DEFINE new == [i \in 1..Len(s) |-> Comment(report[r][s[i]])]
<1>1. report[r] \in ThreadFound /\ plan[r].create \in SUBSET (1..Len(report[r]))
  BY DEF ThreadTypes, ThreadNumbers, ThreadNumbered
<1>2. /\ new \in Seq(ThreadComment)
      /\ \A n \in plan[r].create : \E i \in 1..Len(new) : new[i] = Comment(report[r][n])
  BY <1>1, ThreadOrdered
<1>3. thread \in Seq(ThreadComment) /\ thread' = thread \o new
  BY DEF ThreadTypes, githubCreatePRReview
<1> HIDE DEF new
<1>4. /\ thread' \in Seq(ThreadComment) /\ Len(thread') = Len(thread) + Len(new)
      /\ \A i \in 1..(Len(thread) + Len(new)) :
           thread'[i] = IF i <= Len(thread) THEN thread[i] ELSE new[i - Len(thread)]
  BY <1>2, <1>3, ConcatProperties
<1>5. Len(thread) \in Nat /\ Len(new) \in Nat
  BY <1>2, <1>3
<1>6. \A i \in 1..Len(thread) : i \in 1..Len(thread') /\ thread'[i] = thread[i]
  BY <1>4, <1>5
<1>7. \A j \in 1..Len(new) :
        Len(thread) + j \in 1..Len(thread') /\ thread'[Len(thread) + j] = new[j]
  BY <1>4, <1>5
<1>8. \A n \in plan[r].create :
        \E i \in 1..Len(thread') : thread'[i] = Comment(report[r][n])
  BY <1>2, <1>7
<1> QED
  BY <1>4, <1>6, <1>8

LEMMA ThreadCreateTypes ==
  ASSUME ThreadTypes, ThreadNumbers, NEW r \in Reviews, Create(r)
  PROVE  ThreadTypes'
<1>1. UNCHANGED <<github, analyzed, reviewRows, cancelled>>
  BY DEF Create
<1>3. ASSUME Ended(r), thread' \in Seq(ThreadComment), disturbed' \subseteq Reviews,
             UNCHANGED budget
      PROVE  ThreadTypes'
  BY <1>1, <1>3, ThreadEndedTypes DEF ThreadTypes, github, reviewRows
<1>4. CASE Ended(r) /\ UNCHANGED <<thread, disturbed, budget>>
  BY <1>3, <1>4 DEF ThreadTypes
<1>5. CASE /\ \E s \in Ordered(plan[r].create) :
                githubCreatePRReview([i \in 1..Len(s) |-> Comment(report[r][s[i]])])
           /\ Ended(r) /\ DisturbsOthers(r) /\ UNCHANGED budget
  <2>1. thread' \in Seq(ThreadComment)
    BY <1>5, ThreadCreated
  <2>2. disturbed' \subseteq Reviews
    BY <1>5 DEF DisturbsOthers, ThreadTypes
  <2> QED
    BY <1>3, <1>5, <2>1, <2>2
<1>6. CASE /\ IF r \in cancelled THEN Works ELSE Fails(r)
           /\ GoTo(r, "inline")
           /\ UNCHANGED <<thread, report, carried, plan>>
  <2>1. /\ budget' \in [Events -> Nat] /\ disturbed' \subseteq Reviews
        /\ promised' \in ThreadFound
    BY <1>6, ThreadFailsType, ThreadWorksType
  <2>2. pc' \in [Reviews -> ThreadPlaces]
    BY <1>6 DEF GoTo, ThreadTypes, ThreadPlaces
  <2> QED
    BY <1>1, <1>6, <2>1, <2>2 DEF ThreadTypes, github, reviewRows
<1> QED
  BY <1>4, <1>5, <1>6 DEF Create

(* The comment that is created on its own. *)
LEMMA ThreadOneCreated ==
  ASSUME ThreadTypes, ThreadNumbers, NEW r \in Reviews, NEW n \in plan[r].create,
         githubPRInlineComment(Comment(report[r][n]))
  PROVE  /\ thread' \in Seq(ThreadComment)
         /\ \A i \in 1..Len(thread) : i \in 1..Len(thread') /\ thread'[i] = thread[i]
         /\ \E i \in 1..Len(thread') : thread'[i] = Comment(report[r][n])
<1> DEFINE c == Comment(report[r][n])
<1>1. report[r] \in ThreadFound /\ n \in 1..Len(report[r])
  BY DEF ThreadTypes, ThreadNumbers, ThreadNumbered
<1>2. report[r][n] \in Findings
  BY <1>1 DEF ThreadFound
<1>3. c \in ThreadComment
  BY <1>2 DEF Findings, Comment, ThreadComment
<1>4. thread \in Seq(ThreadComment) /\ thread' = Append(thread, c)
  BY DEF ThreadTypes, githubPRInlineComment
<1> HIDE DEF c
<1>5. /\ thread' \in Seq(ThreadComment) /\ Len(thread') = Len(thread) + 1
      /\ \A i \in 1..Len(thread) : thread'[i] = thread[i]
      /\ thread'[Len(thread) + 1] = c
  BY <1>3, <1>4, AppendProperties
<1>6. Len(thread) \in Nat
  BY <1>4
<1>7. \A i \in 1..Len(thread) : i \in 1..Len(thread')
  BY <1>5, <1>6
<1>8. Len(thread) + 1 \in 1..Len(thread')
  BY <1>5, <1>6
<1> QED
  BY <1>5, <1>7, <1>8 DEF c

LEMMA ThreadInlineTypes ==
  ASSUME ThreadTypes, ThreadNumbers, NEW r \in Reviews, Inline(r)
  PROVE  ThreadTypes'
<1>1. PICK n \in plan[r].create :
        /\ \/ Writes(r) /\ githubPRInlineComment(Comment(report[r][n]))
           \/ Fails(r) /\ UNCHANGED thread
        /\ plan' = [plan EXCEPT ![r].create = @ \ {n}]
  BY DEF Inline
<1>2. plan' \in [Reviews -> ThreadPlan]
  <2>1. [plan[r] EXCEPT !.create = @ \ {n}] \in ThreadPlan
    BY ThreadPlanFields DEF ThreadTypes
  <2> QED
    BY <1>1, <2>1 DEF ThreadTypes
<1>3. /\ thread' \in Seq(ThreadComment) /\ budget' \in [Events -> Nat]
      /\ disturbed' \subseteq Reviews /\ promised' \in ThreadFound
  <2>1. CASE Writes(r) /\ githubPRInlineComment(Comment(report[r][n]))
    BY <2>1, ThreadOneCreated, ThreadStirsType DEF Writes, ThreadTypes
  <2>2. CASE Fails(r) /\ UNCHANGED thread
    BY <2>2, ThreadFailsType DEF ThreadTypes
  <2> QED
    BY <1>1, <2>1, <2>2
<1> QED
  BY <1>2, <1>3 DEF Inline, ThreadTypes, github, reviewRows

LEMMA ThreadFixTypes ==
  ASSUME ThreadTypes, NEW i \in 1..Len(thread), FixCloses(i)
  PROVE  ThreadTypes'
<1>1. thread' \in Seq(ThreadComment)
  BY ThreadOneRewritten DEF FixCloses, ThreadTypes
<1>2. budget' \in [Events -> Nat]
  BY ThreadSpendType DEF FixCloses, Events
<1>3. disturbed' \subseteq Reviews /\ promised' \in ThreadFound
  BY ThreadStirsType DEF FixCloses
<1> QED
  BY <1>1, <1>2, <1>3 DEF FixCloses, ThreadTypes, github, reviewRows

LEMMA ThreadTypesKept ==
  ASSUME ThreadTypes, ThreadNumbers, [ThreadNext]_threadVars
  PROVE  ThreadTypes'
<1>1. CASE \E fs \in (SUBSET Files) \ {{}} : Push(fs)
  BY <1>1, ThreadPushTypes
<1>2. ASSUME NEW r \in Reviews,
             Enqueue(r) \/ Dropped(r) \/ Checkout(r) \/ Review(r) \/ Sync(r)
      PROVE  ThreadTypes'
  <2>1. CASE Inlined(r)
    BY <2>1, ThreadEndedTypes DEF Inlined, ThreadTypes, github, reviewRows
  <2> QED
    BY <1>2, <2>1, ThreadEarlyTypes, ThreadWindowTypes, ThreadListTypes,
       ThreadSyncTypes, ThreadCreateTypes, ThreadInlineTypes
    DEF Sync
<1>3. CASE \E i \in 1..Len(thread) : FixCloses(i)
  BY <1>3, ThreadFixTypes
<1>4. CASE UNCHANGED threadVars
  BY <1>4 DEF threadVars, ThreadTypes, github, reviewRows, history
<1> QED
  BY <1>1, <1>2, <1>3, <1>4 DEF ThreadNext

(* What a step of one review, a push or a fix leaves to the others: their  *)
(* own variables, and either the thread and the files or an undisturbed    *)
(* sync.                                                                   *)

ThreadLocals(q) ==
  /\ pc'[q] = pc[q] /\ sha'[q] = sha[q] /\ base'[q] = base[q] /\ report'[q] = report[q]
  /\ carried'[q] = carried[q] /\ plan'[q] = plan[q]
ThreadSpares(q) ==
  \/ UNCHANGED <<thread, touched>>
  \/ pc[q] \in {"window", "list", "sync", "inline"} => q \in disturbed'

LEMMA ThreadIdle ==
  ASSUME NEW q \in Reviews, pc'[q] \notin {"list", "sync", "inline"}
  PROVE  ThreadSyncInv(q)'
  BY DEF ThreadSyncInv

LEMMA ThreadAside ==
  ASSUME NEW q \in Reviews \ disturbed', ThreadSyncInv(q), ThreadLocals(q), ThreadSpares(q)
  PROVE  ThreadSyncInv(q)'
<1>1. CASE UNCHANGED <<thread, touched>>
  BY <1>1 DEF ThreadLocals, ThreadSyncInv, ThreadCarries, ThreadCauses, ThreadCovered,
    Compares, diffPaths
<1>2. CASE pc[q] \in {"window", "list", "sync", "inline"} => q \in disturbed'
  BY <1>2, ThreadIdle DEF ThreadLocals
<1> QED
  BY <1>1, <1>2 DEF ThreadSpares

LEMMA ThreadStirsSpares ==
  ASSUME NEW who, Stirs(who), NEW q \in Reviews, q # who
  PROVE  ThreadSpares(q) /\ disturbed \subseteq disturbed'
  BY DEF Stirs, ThreadSpares

LEMMA ThreadRewritesSpares ==
  ASSUME ThreadTypes, NEW r \in Reviews, NEW i, NEW open, Rewrites(r, i, open),
         UNCHANGED touched,
         NEW q \in Reviews, q # r
  PROVE  ThreadSpares(q) /\ disturbed \subseteq disturbed'
<1>1. CASE Writes(r)
  BY <1>1, ThreadStirsSpares DEF Writes
<1>2. CASE Fails(r) /\ UNCHANGED thread
  BY <1>2, ThreadFailsType DEF ThreadSpares
<1> QED
  BY <1>1, <1>2 DEF Rewrites

LEMMA ThreadEndedLocals ==
  ASSUME ThreadTypes, NEW r \in Reviews, Ended(r), NEW q \in Reviews, q # r
  PROVE  /\ pc'[q] = pc[q] /\ report'[q] = report[q]
         /\ carried'[q] = carried[q] /\ plan'[q] = plan[q]
  BY DEF Ended, GoTo, ThreadTypes

LEMMA ThreadReviewLocals ==
  ASSUME ThreadTypes, NEW r \in Reviews, NEW q \in Reviews, q # r,
         Enqueue(r) \/ Dropped(r) \/ Checkout(r) \/ Review(r) \/ Sync(r)
  PROVE  ThreadLocals(q)
<1>1. CASE Enqueue(r)
  BY <1>1 DEF Enqueue, GoTo, ThreadTypes, ThreadLocals
<1>2. CASE Dropped(r)
  BY <1>2 DEF Dropped, GoTo, ThreadTypes, ThreadLocals, reviewRows
<1>3. CASE Checkout(r)
  BY <1>3 DEF Checkout, GoTo, ThreadTypes, ThreadLocals
<1>4. CASE Review(r)
  BY <1>4 DEF Review, GoTo, ThreadTypes, ThreadLocals, reviewRows
<1>5. CASE Window(r)
  <2>1. carried'[q] = carried[q]
    BY <1>5 DEF Window, ThreadTypes
  <2> QED
    BY <1>5, <2>1 DEF Window, GoTo, ThreadTypes, ThreadLocals, reviewRows
<1>6. CASE List(r)
  BY <1>6 DEF List, GoTo, ThreadTypes, ThreadLocals, reviewRows
<1>7. CASE Close(r)
  <2>1. plan'[q] = plan[q]
    BY <1>7 DEF Close, ThreadTypes
  <2> QED
    BY <1>7, <2>1 DEF Close, ThreadLocals, reviewRows
<1>8. CASE Update(r)
  <2>1. plan'[q] = plan[q]
    BY <1>8 DEF Update, ThreadTypes
  <2> QED
    BY <1>8, <2>1 DEF Update, ThreadLocals, reviewRows
<1>9. CASE Create(r)
  <2>1. CASE Ended(r)
    BY <1>9, <2>1, ThreadEndedLocals DEF Create, ThreadLocals, reviewRows
  <2>2. CASE GoTo(r, "inline") /\ UNCHANGED <<report, carried, plan>>
    BY <1>9, <2>2 DEF Create, GoTo, ThreadTypes, ThreadLocals, reviewRows
  <2> QED
    BY <1>9, <2>1, <2>2 DEF Create
<1>10. CASE Inline(r)
  BY <1>10 DEF Inline, ThreadTypes, ThreadLocals, reviewRows
<1>11. CASE Inlined(r)
  BY <1>11, ThreadEndedLocals DEF Inlined, ThreadLocals, reviewRows
<1> QED
  BY <1>1, <1>2, <1>3, <1>4, <1>5, <1>6, <1>7, <1>8, <1>9, <1>10, <1>11 DEF Sync

LEMMA ThreadReviewSpares ==
  ASSUME ThreadTypes, NEW r \in Reviews, NEW q \in Reviews, q # r,
         Enqueue(r) \/ Dropped(r) \/ Checkout(r) \/ Review(r) \/ Sync(r)
  PROVE  ThreadSpares(q) /\ disturbed \subseteq disturbed'
<1>1. CASE Enqueue(r) \/ Dropped(r) \/ Checkout(r) \/ Review(r)
  BY <1>1 DEF Enqueue, Dropped, Checkout, Review, ThreadSpares, github, history
<1>2. CASE Window(r) \/ List(r)
  <2>1. UNCHANGED <<thread, touched>>
    BY <1>2 DEF Window, List, github
  <2>2. disturbed \subseteq disturbed'
    BY <1>2, ThreadFailsType, ThreadWorksType DEF Window, List
  <2> QED
    BY <2>1, <2>2 DEF ThreadSpares
<1>3. CASE Close(r) \/ Update(r)
  <2>1. UNCHANGED touched
    BY <1>3 DEF Close, Update, github
  <2>2. \E i, open : Rewrites(r, i, open)
    BY <1>3 DEF Close, Update
  <2> QED
    BY <2>1, <2>2, ThreadRewritesSpares
<1>4. CASE Create(r)
  <2>1. UNCHANGED touched
    BY <1>4 DEF Create, github
  <2>2. CASE UNCHANGED <<thread, disturbed, budget>>
    BY <2>1, <2>2 DEF ThreadSpares
  <2>3. CASE DisturbsOthers(r)
    BY <2>3 DEF DisturbsOthers, ThreadSpares
  <2>4. CASE (IF r \in cancelled THEN Works ELSE Fails(r)) /\ UNCHANGED thread
    <3>1. disturbed \subseteq disturbed'
      BY <2>4, ThreadFailsType, ThreadWorksType
    <3> QED
      BY <2>1, <2>4, <3>1 DEF ThreadSpares
  <2> QED
    BY <1>4, <2>2, <2>3, <2>4 DEF Create
<1>5. CASE Inline(r)
  <2>1. UNCHANGED touched
    BY <1>5 DEF Inline, github
  <2>2. CASE Writes(r)
    BY <2>2, ThreadStirsSpares DEF Writes
  <2>3. CASE Fails(r) /\ UNCHANGED thread
    BY <2>1, <2>3, ThreadFailsType DEF ThreadSpares
  <2> QED
    BY <1>5, <2>2, <2>3 DEF Inline
<1>6. CASE Inlined(r)
  BY <1>6 DEF Inlined, ThreadSpares, github
<1> QED
  BY <1>1, <1>2, <1>3, <1>4, <1>5, <1>6 DEF Sync

LEMMA ThreadPushLocals ==
  ASSUME NEW q \in Reviews,
         \/ \E fs \in SUBSET Files : Push(fs)
         \/ \E i \in 1..Len(thread) : FixCloses(i)
  PROVE  ThreadLocals(q) /\ ThreadSpares(q) /\ disturbed \subseteq disturbed'
<1>1. Stirs(0)
  BY DEF Push, FixCloses
<1>2. q # 0
  BY ConstantsAssumption DEF Reviews
<1>3. ThreadSpares(q) /\ disturbed \subseteq disturbed'
  BY <1>1, <1>2, ThreadStirsSpares
<1> QED
  BY <1>3 DEF Push, FixCloses, ThreadLocals, reviewRows

(* What is to be created. *)

LEMMA ThreadOwnNumbers ==
  ASSUME ThreadTypes, NEW r \in Reviews, ThreadNumbered(r),
         Enqueue(r) \/ Dropped(r) \/ Checkout(r) \/ Review(r) \/ Sync(r)
  PROVE  ThreadNumbered(r)'
<1>1. plan \in [Reviews -> ThreadPlan] /\ plan[r] \in ThreadPlan /\ pc \in [Reviews -> ThreadPlaces]
  BY DEF ThreadTypes
<1>2. CASE Enqueue(r) \/ Dropped(r) \/ Checkout(r) \/ Review(r) \/ Window(r)
  <2>1. plan[r].create = {} /\ plan' = plan
    BY <1>2 DEF Enqueue, Dropped, Checkout, Review, Window, ThreadNumbered
  <2> QED
    BY <2>1 DEF ThreadNumbered
<1>3. CASE List(r)
  <2>1. PICK prior \in githubListPRReviewComments :
          plan' = [plan EXCEPT ![r] =
            planOPAReviewCommentActions(report[r], prior, carried[r])]
    BY <1>3 DEF List
  <2>2. prior \in Seq(ThreadComment) /\ report[r] \in ThreadFound
    <3>1. /\ thread \in Seq(ThreadComment) /\ <<>> \in Seq(ThreadComment)
          /\ report[r] \in ThreadFound
      BY DEF ThreadTypes
    <3> HIDE DEF ThreadComment
    <3> QED
      BY <2>1, <3>1 DEF githubListPRReviewComments
  <2>3. plan'[r].create \subseteq 1..Len(report[r])
    BY <1>1, <2>1, <2>2, ThreadPlanFacts
  <2>4. pc'[r] = "sync" /\ report' = report
    BY <1>1, <1>3 DEF List, GoTo
  <2> QED
    BY <2>3, <2>4 DEF ThreadNumbered
<1>4. CASE Close(r) \/ Update(r)
  <2>1. plan'[r].create = plan[r].create
    BY <1>1, <1>4 DEF Close, Update, ThreadPlan
  <2> QED
    BY <1>4, <2>1 DEF Close, Update, ThreadNumbered
<1>5. CASE Ended(r)
  <2>1. plan'[r] = NoPlan
    BY <1>1, <1>5 DEF Ended
  <2> QED
    BY <2>1, ThreadNothingFound DEF ThreadNumbered
<1>6. CASE GoTo(r, "inline") /\ UNCHANGED <<report, plan>>
  BY <1>1, <1>6 DEF GoTo, ThreadNumbered
<1>7. CASE Inline(r)
  <2>1. plan'[r].create \subseteq plan[r].create
    BY <1>1, <1>7 DEF Inline, ThreadPlan
  <2> QED
    BY <1>7, <2>1 DEF Inline, ThreadNumbered
<1> QED
  BY <1>2, <1>3, <1>4, <1>5, <1>6, <1>7 DEF Sync, Create, Inlined

LEMMA ThreadNumbersKept ==
  ASSUME ThreadTypes, ThreadNumbers, [ThreadNext]_threadVars
  PROVE  ThreadNumbers'
<1> SUFFICES ASSUME NEW q \in Reviews
             PROVE  ThreadNumbered(q)'
  BY DEF ThreadNumbers, Reviews
<1>1. ThreadNumbered(q)
  BY DEF ThreadNumbers
<1>2. ThreadLocals(q) => ThreadNumbered(q)'
  BY <1>1 DEF ThreadLocals, ThreadNumbered
<1>3. CASE UNCHANGED threadVars
  BY <1>2, <1>3 DEF threadVars, reviewRows, ThreadLocals
<1>4. CASE \/ \E fs \in (SUBSET Files) \ {{}} : Push(fs)
           \/ \E i \in 1..Len(thread) : FixCloses(i)
  BY <1>2, <1>4, ThreadPushLocals
<1>5. ASSUME NEW r \in Reviews,
             Enqueue(r) \/ Dropped(r) \/ Checkout(r) \/ Review(r) \/ Sync(r)
      PROVE  ThreadNumbered(q)'
  BY <1>1, <1>2, <1>5, ThreadReviewLocals, ThreadOwnNumbers
<1> QED
  BY <1>3, <1>4, <1>5 DEF ThreadNext

(* What a review's own steps make of its sync. *)

LEMMA ThreadWindowOwn ==
  ASSUME ThreadTypes, NEW r \in Reviews, Window(r), r \notin disturbed'
  PROVE  ThreadSyncInv(r)'
<1>1. carried'[r] = IF Compares(r)
                    THEN computeCarriedForwardKeys(thread, diffPaths(base[r], sha[r]))
                    ELSE {}
  BY ThreadFailsType DEF Window, ThreadTypes
<1>2. pc'[r] = "list" /\ UNCHANGED <<thread, touched, base, sha>>
  BY DEF Window, GoTo, ThreadTypes, github, reviewRows
<1>3. ASSUME Compares(r), NEW i \in 1..Len(thread),
             FileOf[thread[i].key] \notin diffPaths(base[r], sha[r])
      PROVE  thread[i].key \in carried'[r]
  <2>1. thread[i] \in ToSet(thread)
    BY DEF ToSet, ThreadTypes
  <2>2. thread[i].key \in computeCarriedForwardKeys(thread, diffPaths(base[r], sha[r]))
    BY <1>3, <2>1 DEF computeCarriedForwardKeys
  <2> QED
    BY <1>1, <1>3, <2>2
<1>4. ThreadCarries(r)'
  BY <1>2, <1>3 DEF ThreadCarries, Compares, diffPaths
<1> QED
  BY <1>2, <1>4 DEF ThreadSyncInv

LEMMA ThreadListOwn ==
  ASSUME ThreadTypes, NEW r \in Reviews, List(r), r \notin disturbed', ThreadSyncInv(r)
  PROVE  ThreadSyncInv(r)'
<1> DEFINE p == planOPAReviewCommentActions(report[r], thread, carried[r])
<1>1. plan' = [plan EXCEPT ![r] = p]
  <2>1. PICK prior \in githubListPRReviewComments :
          /\ IF prior = thread THEN Works ELSE Fails(r)
          /\ plan' = [plan EXCEPT ![r] =
               planOPAReviewCommentActions(report[r], prior, carried[r])]
    BY DEF List
  <2>2. prior = thread
    BY <2>1, ThreadFailsType
  <2> QED
    BY <2>1, <2>2
<1>2. report[r] \in ThreadFound /\ thread \in Seq(ThreadComment)
  BY DEF ThreadTypes
<1>3. /\ ThreadGrounds(report[r], p, thread) /\ ThreadCovers(report[r], p, thread)
      /\ \A i \in p.close : thread[i].key \notin carried[r]
  BY <1>2, ThreadPlanFacts
<1> HIDE DEF p
<1>4. pc[r] = "list" /\ pc'[r] = "sync" /\ plan'[r] = p
      /\ UNCHANGED <<thread, touched, base, sha, report>>
  BY <1>1 DEF List, GoTo, ThreadTypes, github, reviewRows
<1>5. ThreadCarries(r)
  BY <1>4 DEF ThreadSyncInv
<1>6. \A i \in p.close : i \in 1..Len(thread)
  BY <1>3 DEF ThreadGrounds, ThreadRewrite
<1>7. \A i \in p.close : Compares(r) => FileOf[thread[i].key] \in diffPaths(base[r], sha[r])
  BY <1>3, <1>5, <1>6 DEF ThreadCarries
<1>8. ThreadCauses(r)'
  BY <1>3, <1>4, <1>7 DEF ThreadCauses, Compares, diffPaths
<1>9. ThreadCovered(r)'
  BY <1>3, <1>4 DEF ThreadCovered
<1> QED
  BY <1>4, <1>8, <1>9 DEF ThreadSyncInv

(* A write changes only whether the comment is open. *)
LEMMA ThreadOwnWrite ==
  ASSUME ThreadTypes, NEW r \in Reviews, NEW i \in 1..Len(thread), NEW open \in BOOLEAN,
         Rewrites(r, i, open), r \notin disturbed'
  PROVE  /\ thread' \in Seq(ThreadComment) /\ Len(thread') = Len(thread)
         /\ \A j \in 1..Len(thread) :
              /\ thread'[j].key = thread[j].key /\ thread'[j].line = thread[j].line
              /\ thread'[j].open = IF j = i THEN open ELSE thread[j].open
<1>1. thread' = [thread EXCEPT ![i].open = open]
  BY ThreadFailsType DEF Rewrites
<1> QED
  BY <1>1, ThreadOneRewritten DEF ThreadTypes

LEMMA ThreadSyncOwn ==
  ASSUME ThreadTypes, NEW r \in Reviews, Close(r) \/ Update(r), r \notin disturbed',
         ThreadSyncInv(r)
  PROVE  ThreadSyncInv(r)'
<1> DEFINE f == report[r]
<1>1. /\ pc[r] = "sync" /\ ThreadCauses(r) /\ ThreadCovered(r)
      /\ ThreadGrounds(f, plan[r], thread)
      /\ UNCHANGED <<touched, pc, base, sha, report>>
  BY DEF Close, Update, ThreadSyncInv, ThreadCauses, github, reviewRows
<1>2. plan \in [Reviews -> ThreadPlan] /\ plan[r] \in ThreadPlan
  BY DEF ThreadTypes
<1>3. ASSUME NEW i \in 1..Len(thread), NEW open \in BOOLEAN, Rewrites(r, i, open),
             plan'[r].close \subseteq plan[r].close, plan'[r].update \subseteq plan[r].update,
             plan'[r].create = plan[r].create,
             \A j \in 1..Len(thread) :
               \/ j \in plan[r].close
               \/ \E u \in plan[r].update : u.at = j /\ ~u.open
               \/ j = i /\ open
               \/ /\ j # i
                  /\ \A u \in plan[r].update : u.at = j => u \in plan'[r].update
      PROVE  ThreadSyncInv(r)'
  <2>1. /\ Len(thread') = Len(thread)
        /\ \A j \in 1..Len(thread) :
             /\ thread'[j].key = thread[j].key /\ thread'[j].line = thread[j].line
             /\ thread'[j].open = IF j = i THEN open ELSE thread[j].open
    BY <1>3, ThreadOwnWrite
  <2>2. ThreadRewrite(plan'[r]) \subseteq ThreadRewrite(plan[r])
    BY <1>3 DEF ThreadRewrite
  <2>3. \A j \in ThreadRewrite(plan'[r]) :
          /\ j \in 1..Len(thread)
          /\ thread'[j].key = thread[j].key /\ thread'[j].line = thread[j].line
    BY <1>1, <2>1, <2>2 DEF ThreadGrounds
  <2>4. /\ \A j \in plan'[r].close : j \in ThreadRewrite(plan'[r])
        /\ \A u \in plan'[r].update : u.at \in ThreadRewrite(plan'[r])
    BY DEF ThreadRewrite
  <2>5. ThreadGrounds(f, plan'[r], thread')
    <3>1. \A j \in plan'[r].close : \A n \in 1..Len(f) : f[n].key # thread'[j].key
      BY <1>1, <1>3, <2>3, <2>4 DEF ThreadGrounds
    <3>2. \A u \in plan'[r].update :
            u.open \/ \E n \in 1..Len(f) :
                        f[n].key = thread'[u.at].key /\ f[n].line # thread'[u.at].line
      BY <1>1, <1>3, <2>3, <2>4 DEF ThreadGrounds
    <3>3. ThreadRewrite(plan'[r]) \subseteq 1..Len(thread')
      BY <2>1, <2>3
    <3> QED
      BY <3>1, <3>2, <3>3 DEF ThreadGrounds
  <2>6. ThreadCauses(r)'
    <3>1. /\ Compares(r)' <=> Compares(r)
          /\ diffPaths(base[r], sha[r])' = diffPaths(base[r], sha[r])
      BY <1>1 DEF Compares, diffPaths
    <3>2. \A j \in plan'[r].close :
            Compares(r) => FileOf[thread'[j].key] \in diffPaths(base[r], sha[r])
      BY <1>1, <1>3, <2>3, <2>4 DEF ThreadCauses
    <3> QED
      BY <1>1, <2>5, <3>1, <3>2 DEF ThreadCauses
  <2>7. ASSUME NEW n \in 1..Len(f), ThreadComing(f, n, plan[r], thread)
        PROVE  ThreadComing(f, n, plan'[r], thread')
    <3>1. CASE n \in plan[r].create
      BY <1>3, <3>1 DEF ThreadComing
    <3>2. CASE ThreadSafe(f[n], plan[r], thread)
      <4>1. PICK j \in 1..Len(thread) :
              /\ thread[j].key = f[n].key /\ thread[j].line = f[n].line
              /\ j \notin plan[r].close
              /\ \A u \in plan[r].update : u.at = j => u.open
              /\ thread[j].open \/ \E u \in plan[r].update : u.at = j
        BY <3>2 DEF ThreadSafe
      <4>2. \/ j = i /\ open
            \/ /\ j # i
               /\ \A u \in plan[r].update : u.at = j => u \in plan'[r].update
        BY <1>3, <4>1
      <4>3. thread'[j].open \/ \E u \in plan'[r].update : u.at = j
        BY <2>1, <4>1, <4>2
      <4>4. /\ j \in 1..Len(thread')
            /\ thread'[j].key = f[n].key /\ thread'[j].line = f[n].line
        BY <2>1, <4>1
      <4>5. j \notin plan'[r].close /\ \A u \in plan'[r].update : u.at = j => u.open
        BY <1>3, <4>1
      <4> QED
        BY <4>3, <4>4, <4>5 DEF ThreadSafe, ThreadComing
    <3> QED
      BY <2>7, <3>1, <3>2 DEF ThreadComing
  <2>8. ThreadCovers(f, plan'[r], thread')
    BY <1>1, <2>7, ThreadStillCovers DEF ThreadCovered
  <2>9. ThreadCovered(r)'
    BY <1>1, <2>8 DEF ThreadCovered
  <2> QED
    BY <1>1, <2>6, <2>9 DEF ThreadSyncInv
<1>4. CASE Close(r)
  <2>1. PICK i \in plan[r].close :
          Rewrites(r, i, FALSE) /\ plan' = [plan EXCEPT ![r].close = @ \ {i}]
    BY <1>4 DEF Close
  <2>2. i \in 1..Len(thread)
    BY <1>1, <2>1 DEF ThreadGrounds, ThreadRewrite
  <2>3. /\ plan'[r].close \subseteq plan[r].close
        /\ plan'[r].update = plan[r].update /\ plan'[r].create = plan[r].create
    BY <1>2, <2>1 DEF ThreadPlan
  <2> QED
    BY <1>3, <2>1, <2>2, <2>3
<1>5. CASE Update(r)
  <2>1. PICK u \in plan[r].update :
          Rewrites(r, u.at, u.open) /\ plan' = [plan EXCEPT ![r].update = @ \ {u}]
    BY <1>5 DEF Update
  <2>2. u.at \in 1..Len(thread) /\ u.open \in BOOLEAN
    <3>1. u.open \in BOOLEAN
      BY <1>2, <2>1, ThreadPlanFields
    <3> QED
      BY <1>1, <2>1, <3>1 DEF ThreadGrounds, ThreadRewrite
  <2>3. /\ plan'[r].close = plan[r].close
        /\ plan'[r].update = plan[r].update \ {u} /\ plan'[r].create = plan[r].create
    BY <1>2, <2>1 DEF ThreadPlan
  <2>4. \A j \in 1..Len(thread) :
          \/ \E v \in plan[r].update : v.at = j /\ ~v.open
          \/ j = u.at /\ u.open
          \/ /\ j # u.at
             /\ \A v \in plan[r].update : v.at = j => v \in plan'[r].update
    BY <2>1, <2>3
  <2> QED
    BY <1>3, <2>1, <2>2, <2>3, <2>4
<1> QED
  BY <1>4, <1>5

LEMMA ThreadCreateOwn ==
  ASSUME ThreadTypes, NEW r \in Reviews, Create(r), r \notin disturbed', ThreadSyncInv(r)
  PROVE  ThreadSyncInv(r)'
<1>1. CASE Ended(r)
  <2>1. pc'[r] = "done"
    BY <1>1 DEF Ended, GoTo, ThreadTypes
  <2> QED
    BY <2>1, ThreadIdle
<1>2. CASE GoTo(r, "inline") /\ UNCHANGED <<thread, report, carried, plan>>
  <2>1. pc[r] = "sync" /\ pc'[r] = "inline"
    BY <1>2 DEF Create, Rewritten, GoTo, ThreadTypes
  <2>2. ThreadRewrite(plan[r]) = {} /\ ThreadCovered(r)
    BY <2>1 DEF Create, Rewritten, ThreadSyncInv, ThreadRewrite
  <2> QED
    BY <1>2, <2>1, <2>2 DEF ThreadSyncInv, ThreadCovered
<1> QED
  BY <1>1, <1>2 DEF Create

(* The first of the comments that a review posts one by one is in the      *)
(* thread, the others are still to come.                                   *)
LEMMA ThreadInlineOwn ==
  ASSUME ThreadTypes, ThreadNumbers, NEW r \in Reviews, Inline(r), r \notin disturbed',
         ThreadSyncInv(r)
  PROVE  ThreadSyncInv(r)'
<1> DEFINE f == report[r]
<1>1. pc[r] = "inline" /\ pc'[r] = "inline" /\ report' = report
  BY DEF Inline
<1>2. ThreadRewrite(plan[r]) = {} /\ ThreadCovered(r)
  BY <1>1 DEF ThreadSyncInv
<1>3. PICK n \in plan[r].create :
        /\ githubPRInlineComment(Comment(f[n]))
        /\ plan' = [plan EXCEPT ![r].create = @ \ {n}]
  BY ThreadFailsType DEF Inline
<1>4. /\ plan'[r].close = plan[r].close /\ plan'[r].update = plan[r].update
      /\ plan'[r].create = plan[r].create \ {n}
  <2>1. plan \in [Reviews -> ThreadPlan] /\ plan[r] \in ThreadPlan
    BY DEF ThreadTypes
  <2> QED
    BY <1>3, <2>1 DEF ThreadPlan
<1>5. /\ thread' \in Seq(ThreadComment)
      /\ \A i \in 1..Len(thread) : i \in 1..Len(thread') /\ thread'[i] = thread[i]
      /\ \E i \in 1..Len(thread') : thread'[i] = Comment(f[n])
  BY <1>3, ThreadOneCreated
<1>6. plan[r].close = {} /\ plan[r].update = {}
  BY <1>2 DEF ThreadRewrite
<1>7. ASSUME NEW m \in 1..Len(f), ThreadComing(f, m, plan[r], thread)
      PROVE  ThreadComing(f, m, plan'[r], thread')
  <2>1. CASE m \in plan[r].create /\ m # n
    BY <1>4, <2>1 DEF ThreadComing
  <2>2. CASE m = n
    <3>1. PICK i \in 1..Len(thread') : thread'[i] = Comment(f[n])
      BY <1>5
    <3>2. thread'[i].key = f[n].key /\ thread'[i].line = f[n].line /\ thread'[i].open
      BY <3>1 DEF Comment
    <3>3. ThreadSafe(f[m], plan'[r], thread')
      BY <1>4, <1>6, <2>2, <3>2 DEF ThreadSafe
    <3> QED
      BY <3>3 DEF ThreadComing
  <2>3. CASE ThreadSafe(f[m], plan[r], thread)
    <3>1. PICK i \in 1..Len(thread) :
            thread[i].key = f[m].key /\ thread[i].line = f[m].line /\ thread[i].open
      BY <1>6, <2>3 DEF ThreadSafe
    <3>2. i \in 1..Len(thread') /\ thread'[i] = thread[i]
      BY <1>5
    <3>3. ThreadSafe(f[m], plan'[r], thread')
      BY <1>4, <1>6, <3>1, <3>2 DEF ThreadSafe
    <3> QED
      BY <3>3 DEF ThreadComing
  <2> QED
    BY <1>7, <2>1, <2>2, <2>3 DEF ThreadComing
<1>8. ThreadCovers(f, plan'[r], thread')
  BY <1>2, <1>7, ThreadStillCovers DEF ThreadCovered
<1>9. ThreadCovered(r)'
  BY <1>1, <1>8 DEF ThreadCovered
<1>10. ThreadRewrite(plan'[r]) = {}
  BY <1>4, <1>6 DEF ThreadRewrite
<1> QED
  BY <1>1, <1>9, <1>10 DEF ThreadSyncInv

LEMMA ThreadReviewOwn ==
  ASSUME ThreadTypes, ThreadNumbers, NEW r \in Reviews, r \notin disturbed', ThreadSyncInv(r),
         Enqueue(r) \/ Dropped(r) \/ Checkout(r) \/ Review(r) \/ Sync(r)
  PROVE  ThreadSyncInv(r)'
<1>1. CASE Enqueue(r) \/ Dropped(r) \/ Checkout(r) \/ Review(r) \/ Inlined(r)
  <2>1. pc'[r] \notin {"list", "sync", "inline"}
    BY <1>1 DEF Enqueue, Dropped, Checkout, Review, Inlined, Ended, GoTo, ThreadTypes
  <2> QED
    BY <2>1, ThreadIdle
<1> QED
  BY <1>1, ThreadWindowOwn, ThreadListOwn, ThreadSyncOwn, ThreadCreateOwn,
     ThreadInlineOwn DEF Sync

LEMMA ThreadSyncKept ==
  ASSUME ThreadTypes, ThreadNumbers, \A r \in Reviews \ disturbed : ThreadSyncInv(r),
         [ThreadNext]_threadVars
  PROVE  (\A r \in Reviews \ disturbed : ThreadSyncInv(r))'
<1> SUFFICES ASSUME NEW q \in Reviews \ disturbed'
             PROVE  ThreadSyncInv(q)'
  BY DEF Reviews
<1>1. CASE UNCHANGED threadVars
  <2>1. q \notin disturbed /\ ThreadLocals(q) /\ ThreadSpares(q)
    BY <1>1 DEF threadVars, github, reviewRows, history, ThreadLocals, ThreadSpares
  <2> QED
    BY <2>1, ThreadAside
<1>2. CASE \/ \E fs \in (SUBSET Files) \ {{}} : Push(fs)
           \/ \E i \in 1..Len(thread) : FixCloses(i)
  <2>1. ThreadLocals(q) /\ ThreadSpares(q) /\ disturbed \subseteq disturbed'
    BY <1>2, ThreadPushLocals
  <2> QED
    BY <2>1, ThreadAside
<1>3. ASSUME NEW r \in Reviews,
             Enqueue(r) \/ Dropped(r) \/ Checkout(r) \/ Review(r) \/ Sync(r)
      PROVE  ThreadSyncInv(q)'
  <2>1. CASE q # r
    <3>1. ThreadLocals(q) /\ ThreadSpares(q) /\ disturbed \subseteq disturbed'
      BY <1>3, <2>1, ThreadReviewLocals, ThreadReviewSpares
    <3> QED
      BY <3>1, ThreadAside
  <2>2. CASE q = r
    <3>1. disturbed \subseteq disturbed'
      BY <1>3 DEF Enqueue, Dropped, Checkout, Review, history, Sync, Window, List, Close,
        Update, Create, Inline, Inlined, Works, Fails, Rewrites, Writes, Stirs,
        DisturbsOthers
    <3> QED
      BY <1>3, <2>2, <3>1, ThreadReviewOwn
  <2> QED
    BY <2>1, <2>2
<1> QED
  BY <1>1, <1>2, <1>3 DEF ThreadNext

(* The promise: it is made by a sync nobody disturbed, whose findings are  *)
(* all in the thread by then, and withdrawn when anybody writes or pushes. *)

LEMMA ThreadPromiseAside ==
  ASSUME ReportedIsOpen, \/ promised' = NoReport
                         \/ UNCHANGED <<promised, thread>>
  PROVE  ReportedIsOpen'
<1>1. CASE promised' = NoReport
  BY <1>1, ThreadNothingFound DEF ReportedIsOpen
<1>2. CASE UNCHANGED <<promised, thread>>
  BY <1>2 DEF ReportedIsOpen, HasOpen
<1> QED
  BY <1>1, <1>2

LEMMA ThreadPromiseMade ==
  ASSUME ThreadTypes, NEW r \in Reviews, Ended(r),
         ThreadRewrite(plan[r]) = {}, r \notin disturbed => ThreadCovered(r),
         \A i \in 1..Len(thread) : i \in 1..Len(thread') /\ thread'[i] = thread[i],
         \A n \in plan[r].create :
           \E i \in 1..Len(thread') : thread'[i] = Comment(report[r][n])
  PROVE  ReportedIsOpen'
<1> DEFINE f == report[r]
<1>1. CASE r \in disturbed
  BY <1>1, ThreadNothingFound DEF Ended, ReportedIsOpen
<1>2. CASE r \notin disturbed
  <2>1. promised' = f /\ ThreadCovers(f, plan[r], thread)
    BY <1>2 DEF Ended, ThreadCovered
  <2>2. plan[r].close = {} /\ plan[r].update = {}
    BY DEF ThreadRewrite
  <2>3. ASSUME NEW n \in 1..Len(f), ThreadComing(f, n, plan[r], thread)
        PROVE  \E i \in 1..Len(thread') : thread'[i] = Comment(f[n])
    <3>1. CASE n \in plan[r].create
      BY <3>1
    <3>2. CASE ThreadSafe(f[n], plan[r], thread)
      <4>1. PICK i \in 1..Len(thread) :
              thread[i].key = f[n].key /\ thread[i].line = f[n].line /\ thread[i].open
        BY <2>2, <3>2 DEF ThreadSafe
      <4>2. thread[i] \in ThreadComment
        BY DEF ThreadTypes
      <4>3. thread[i] = Comment(f[n])
        BY <4>1, <4>2 DEF ThreadComment, Comment
      <4> QED
        BY <4>3
    <3> QED
      BY <2>3, <3>1, <3>2 DEF ThreadComing
  <2>4. \A n \in 1..Len(f) : \A m \in Twins(f, n) : m \in 1..Len(f)
    BY DEF Twins
  <2> DEFINE open(m) == \E i \in 1..Len(thread') : thread'[i] = Comment(f[m])
  <2>5. \A n \in 1..Len(f) :
          open(n) \/ (Twins(f, n) # {} /\ \A m \in Twins(f, n) : open(m))
    BY <2>1, <2>3, <2>4 DEF ThreadCovers
  <2> QED
    BY <2>1, <2>5 DEF ReportedIsOpen, HasOpen
<1> QED
  BY <1>1, <1>2

LEMMA ThreadCreatePromise ==
  ASSUME ThreadTypes, ThreadNumbers, NEW r \in Reviews, Create(r), ReportedIsOpen,
         r \notin disturbed => ThreadSyncInv(r)
  PROVE  ReportedIsOpen'
<1> DEFINE new == plan[r].create
<1>1. ThreadRewrite(plan[r]) = {} /\ (r \notin disturbed => ThreadCovered(r))
  BY DEF Create, Rewritten, ThreadRewrite, ThreadSyncInv
<1>2. CASE new = {} /\ Ended(r) /\ UNCHANGED thread
  BY <1>1, <1>2, ThreadPromiseMade
<1>3. CASE /\ \E s \in Ordered(new) :
                githubCreatePRReview([i \in 1..Len(s) |-> Comment(report[r][s[i]])])
           /\ Ended(r)
  <2>1. /\ \A i \in 1..Len(thread) : i \in 1..Len(thread') /\ thread'[i] = thread[i]
        /\ \A n \in new : \E i \in 1..Len(thread') : thread'[i] = Comment(report[r][n])
    BY <1>3, ThreadCreated
  <2> QED
    BY <1>1, <1>3, <2>1, ThreadPromiseMade
<1>4. CASE (IF r \in cancelled THEN Works ELSE Fails(r)) /\ UNCHANGED thread
  <2>1. UNCHANGED promised
    BY <1>4, ThreadFailsType, ThreadWorksType
  <2> QED
    BY <1>4, <2>1, ThreadPromiseAside
<1> QED
  BY <1>2, <1>3, <1>4 DEF Create

LEMMA ThreadPromiseKept ==
  ASSUME ThreadTypes, ThreadNumbers, \A r \in Reviews \ disturbed : ThreadSyncInv(r), ReportedIsOpen,
         [ThreadNext]_threadVars
  PROVE  ReportedIsOpen'
<1>1. CASE UNCHANGED threadVars
  BY <1>1, ThreadPromiseAside DEF threadVars, history
<1>2. CASE \/ \E fs \in (SUBSET Files) \ {{}} : Push(fs)
           \/ \E i \in 1..Len(thread) : FixCloses(i)
  <2>1. promised' = NoReport
    BY <1>2 DEF Push, FixCloses, Stirs
  <2> QED
    BY <2>1, ThreadPromiseAside
<1>3. ASSUME NEW r \in Reviews,
             Enqueue(r) \/ Dropped(r) \/ Checkout(r) \/ Review(r) \/ Sync(r)
      PROVE  ReportedIsOpen'
  <2>1. CASE Enqueue(r) \/ Dropped(r) \/ Checkout(r) \/ Review(r)
    BY <2>1, ThreadPromiseAside DEF Enqueue, Dropped, Checkout, Review, history
  <2>2. CASE Window(r) \/ List(r)
    <3>1. UNCHANGED <<promised, thread>>
      BY <2>2, ThreadFailsType, ThreadWorksType DEF Window, List
    <3> QED
      BY <3>1, ThreadPromiseAside
  <2>3. CASE Close(r) \/ Update(r) \/ Inline(r)
    <3>1. \/ promised' = NoReport
          \/ UNCHANGED <<promised, thread>>
      BY <2>3, ThreadFailsType, ThreadStirsType DEF Close, Update, Inline, Rewrites, Writes
    <3> QED
      BY <3>1, ThreadPromiseAside
  <2>4. CASE Create(r)
    BY <2>4, ThreadCreatePromise
  <2>5. CASE Inlined(r)
    <3>1. Ended(r) /\ UNCHANGED thread /\ pc[r] = "inline" /\ plan[r].create = {}
      BY <2>5 DEF Inlined
    <3>2. CASE r \in disturbed
      BY <3>1, <3>2, ThreadPromiseAside DEF Ended
    <3>3. CASE r \notin disturbed
      <4>1. ThreadRewrite(plan[r]) = {} /\ ThreadCovered(r)
        BY <3>1, <3>3 DEF ThreadSyncInv
      <4> QED
        BY <3>1, <4>1, ThreadPromiseMade
    <3> QED
      BY <3>2, <3>3
  <2> QED
    BY <1>3, <2>1, <2>2, <2>3, <2>4, <2>5 DEF Sync
<1> QED
  BY <1>1, <1>2, <1>3 DEF ThreadNext

LEMMA ThreadInvInit ==
  ASSUME ThreadInit
  PROVE  ThreadInv
<1>1. \A r \in Reviews : ThreadSyncInv(r)
  BY DEF ThreadInit, ThreadSyncInv
<1>2. ReportedIsOpen
  BY ThreadNothingFound DEF ThreadInit, ReportedIsOpen
<1>3. ThreadNumbers
  BY ThreadNothingFound DEF ThreadInit, ThreadNumbers, ThreadNumbered
<1> QED
  BY <1>1, <1>2, <1>3, ThreadInitTypes DEF ThreadInv

(* postOPAReviewFindings: after a sync that nobody disturbed and in which  *)
(* no call failed, every finding the review reported has an open comment   *)
(* at its line, save perhaps one of those that share their key, for any    *)
(* lists of findings, files, pushes and overlapping reviews.               *)
THEOREM ReportHolds == ThreadSpec => [](ThreadInv /\ ReportedIsOpen)
<1>1. ThreadInit => ThreadInv
  BY ThreadInvInit
<1>2. ThreadInv /\ [ThreadNext]_threadVars => ThreadInv'
  BY ThreadTypesKept, ThreadNumbersKept, ThreadSyncKept, ThreadPromiseKept DEF ThreadInv
<1>3. ThreadInv => ReportedIsOpen
  BY DEF ThreadInv
<1> QED
  BY <1>1, <1>2, <1>3, PTL DEF ThreadSpec

(* What a review that nobody disturbed closes while it syncs. *)
ThreadCause(r, i) ==
  LET k == thread[i].key
  IN  IF ReportedLines(r, k) # {}
      THEN \E l \in ReportedLines(r, k) : l # thread[i].line
      ELSE Compares(r) => FileOf[k] \in diffPaths(base[r], sha[r])

LEMMA ThreadCauseOfClosing ==
  ASSUME ThreadInv, [ThreadNext]_threadVars, NEW r \in Reviews, NEW i \in 1..Len(thread),
         pc[r] = "sync", plan'[r] # plan[r], r \notin disturbed,
         thread[i].open, ~thread'[i].open
  PROVE  ThreadCause(r, i)
<1>1. ThreadTypes /\ ThreadNumbers /\ ThreadCauses(r)
  BY DEF ThreadInv, ThreadSyncInv
<1>2. Close(r) \/ Update(r) \/ Create(r)
  <2>1. ~(UNCHANGED threadVars)
    BY DEF threadVars
  <2>2. ~\E fs \in (SUBSET Files) \ {{}} : Push(fs)
    BY DEF Push
  <2>3. ~\E j \in 1..Len(thread) : FixCloses(j)
    BY DEF FixCloses
  <2>4. PICK q \in Reviews :
          Enqueue(q) \/ Dropped(q) \/ Checkout(q) \/ Review(q) \/ Sync(q)
    BY <2>1, <2>2, <2>3 DEF ThreadNext
  <2>5. q = r
    BY <1>1, <2>4, ThreadReviewLocals DEF ThreadLocals
  <2> QED
    BY <2>4, <2>5 DEF Sync, Enqueue, Dropped, Checkout, Review, Window, List, Inline,
      Inlined
<1>3. ThreadGrounds(report[r], plan[r], thread)
  BY <1>1 DEF ThreadCauses
<1>4. ASSUME NEW j \in ThreadRewrite(plan[r]), NEW open \in BOOLEAN, Rewrites(r, j, open)
      PROVE  j = i /\ ~open
  <2>1. j \in 1..Len(thread)
    BY <1>3 DEF ThreadGrounds
  <2>2. thread' = [thread EXCEPT ![j].open = open]
    BY <1>4 DEF Rewrites
  <2>3. \A n \in 1..Len(thread) :
          thread'[n].open = IF n = j THEN open ELSE thread[n].open
    BY <1>1, <2>1, <2>2, ThreadOneRewritten DEF ThreadTypes
  <2> QED
    BY <2>3
<1>5. CASE Close(r)
  <2>1. PICK j \in plan[r].close : Rewrites(r, j, FALSE)
    BY <1>5 DEF Close
  <2>2. j = i
    BY <1>4, <2>1 DEF ThreadRewrite
  <2>3. ReportedLines(r, thread[i].key) = {}
    BY <1>3, <2>1, <2>2 DEF ThreadGrounds, ReportedLines
  <2> QED
    BY <1>1, <2>1, <2>2, <2>3 DEF ThreadCauses, ThreadCause
<1>6. CASE Update(r)
  <2>1. PICK u \in plan[r].update : Rewrites(r, u.at, u.open)
    BY <1>6 DEF Update
  <2>2. u.at \in ThreadRewrite(plan[r]) /\ u.open \in BOOLEAN
    <3>1. plan[r] \in ThreadPlan
      BY <1>1 DEF ThreadTypes
    <3> QED
      BY <2>1, <3>1, ThreadPlanFields DEF ThreadRewrite
  <2>3. u.at = i /\ ~u.open
    BY <1>4, <2>1, <2>2
  <2>4. PICK n \in 1..Len(report[r]) :
          report[r][n].key = thread[i].key /\ report[r][n].line # thread[i].line
    BY <1>3, <2>1, <2>3 DEF ThreadGrounds
  <2>5. report[r][n].line \in ReportedLines(r, thread[i].key)
    BY <2>4 DEF ReportedLines
  <2> QED
    BY <2>4, <2>5 DEF ThreadCause
<1>7. CASE Create(r)
  <2>1. thread'[i] = thread[i]
    BY <1>1, <1>7, ThreadCreated DEF Create
  <2> QED
    BY <2>1
<1> QED
  BY <1>2, <1>5, <1>6, <1>7

(* populateCarriedFindingKeys and the plan: an incremental sync closes a   *)
(* comment only when its file has changed since the commit that was        *)
(* analyzed before, or when the review reports the finding at another      *)
(* line.                                                                   *)
THEOREM ClosingHolds == ThreadSpec => ClosedForCause
<1>1. ThreadInv /\ [ThreadNext]_threadVars =>
        [\A r \in Reviews, i \in 1..Len(thread) :
           /\ pc[r] = "sync" /\ plan'[r] # plan[r] /\ r \notin disturbed
           /\ thread[i].open /\ ~thread'[i].open
           => LET k == thread[i].key
              IN  IF ReportedLines(r, k) # {}
                  THEN \E l \in ReportedLines(r, k) : l # thread[i].line
                  ELSE Compares(r) => FileOf[k] \in diffPaths(base[r], sha[r])]_threadVars
  BY ThreadCauseOfClosing DEF ThreadCause
<1>2. ThreadSpec => []ThreadInv
  BY ReportHolds, PTL
<1> QED
  BY <1>1, <1>2, PTL DEF ThreadSpec, ClosedForCause
=============================================================================
