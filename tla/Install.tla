------------------------------- MODULE Install -------------------------------
(***************************************************************************)
(* GitHub App installations and the connectors that bind each of them to   *)
(* one tenant: an organisation, or a person.  An installation reaches the  *)
(* program three ways, in any order: the browser comes back through the    *)
(* Setup URL, with or without the state that Connect signed; GitHub calls  *)
(* the installation webhook; the user returns to the console and finishes. *)
(* All of them look the connector up by installation, in memory and under  *)
(* one mutex.  The delete handler and whatever reads a row from the file   *)
(* are outside it: a row may be stored in memory long after it was read.   *)
(* When the process restarts, its memory is empty until the boot has read  *)
(* the rows, and it serves requests meanwhile.  What an installation       *)
(* watches is left out.                                                    *)
(***************************************************************************)
EXTENDS Integers, FiniteSets

CONSTANTS
  Installs,  \* GitHub App installations
  Tenants,   \* accounts: organisations and persons
  NoTenant,  \* no account
  Tokens,    \* claim tokens: how many may be minted
  Budgets    \* how often somebody may click Connect, how many connectors may
             \* be deleted and how often the process may restart: the cases

ASSUME InstallAssumption ==
  /\ NoTenant \notin Tenants
  /\ Tokens \in Nat
  /\ Budgets \subseteq [connects : Nat, deletes : Nat, restarts : Nat]

(* loadID: the id of a connector is a hash of who it was first made for    *)
(* and of the installation; <<i, NoTenant>> is that of a pending one, and  *)
(* keeps its id when it is claimed.                                        *)
Ids == Installs \X (Tenants \cup {NoTenant})

Row(status, tenant, nonce) == [status |-> status, tenant |-> tenant, nonce |-> nonce]
Pending(n) == Row("pending_claim", NoTenant, n)
Active(t) == Row("active", t, 0)
Gone == Row("deleted", NoTenant, 0)
NoRow == Row("none", NoTenant, 0)
Rows == {NoRow, Gone} \cup {Pending(n) : n \in 1..Tokens} \cup {Active(t) : t \in Tenants}

VARIABLES
  live,     \* connectorLive: ids to rows
  disk,     \* ids to the rows that share the latest updated_at on file
  reading,  \* ids to the rows some lookup has read and may yet store
  snapshot, \* ids to the row the boot has read and not looked at yet
  cold,     \* the boot of this process has not read the rows yet
  states,   \* tenants with a state from Connect that has not expired
  intent,   \* installIntents: tenants to what Connect left, if anything
  minted,   \* claim tokens so far
  handed,   \* those that somebody was shown
  used,     \* history: tokens: how many connectors each has bound
  revived,  \* history: tokens whose row was stored after the file had lost it
  doomed,   \* ids whose delete handler is between its two steps
  connects, \* clicks on Connect left
  deletes,  \* deletes left
  restarts  \* restarts left

vars == <<live, disk, reading, snapshot, cold, states, intent, minted, handed,
          used, revived, doomed, connects, deletes, restarts>>
rows == <<live, disk>>
lookups == <<reading, snapshot, cold, revived>>
grants == <<minted, handed, used>>
asked == <<states, intent>>
faults == <<doomed, connects, deletes, restarts>>

(* No intent, or the installations whose pending row is older than it.     *)
NoIntent == [asked |-> FALSE, older |-> {}]
Intent(old) == [asked |-> TRUE, older |-> old]

Init ==
  /\ live = [x \in Ids |-> NoRow]
  /\ disk = [x \in Ids |-> {}]
  /\ reading = [x \in Ids |-> {}] /\ snapshot = [x \in Ids |-> NoRow]
  /\ cold = TRUE
  /\ states = {}
  /\ intent = [t \in Tenants |-> NoIntent]
  /\ minted = 0 /\ handed = {} /\ used = [n \in 1..Tokens |-> 0] /\ revived = {}
  /\ doomed = {}
  /\ \E b \in Budgets :
        connects = b.connects /\ deletes = b.deletes /\ restarts = b.restarts

-----------------------------------------------------------------------------
(* Looking up and storing. *)

Of(i) == {x \in Ids : x[1] = i}
Alive(x) == live[x].status \in {"active", "pending_claim"}
In(i, status) == {x \in Of(i) : live[x].status = status}

(* findConnectorByInstallation: an active row first, else a pending one.   *)
Found(i) == IF In(i, "active") # {} THEN In(i, "active") ELSE In(i, "pending_claim")

(* softDeleteOtherInstallConnectors: what it deletes when x is kept.       *)
Others(x) == {y \in Of(x[1]) \ {x} : Alive(y)}

(* x becomes row; the others of its installation are deleted.  stored is   *)
(* what the file then holds for x.                                         *)
Keep(x, row, stored) ==
  /\ live' = [y \in Ids |-> IF y = x THEN row ELSE IF y \in Others(x) THEN Gone ELSE live[y]]
  /\ disk' = [y \in Ids |-> IF y = x THEN stored ELSE IF y \in Others(x) THEN {Gone} ELSE disk[y]]

(* mintGitHubInstallState and parseGitHubInstallState: a signed state says *)
(* whom it was made for, until it expires; nothing uses it up.             *)
Sign(t) == states' = states \cup {t}
Signed(t) == t \in states

(* rememberInstallIntent, peekInstallIntent, consumeInstallIntent.         *)
Remember(t, old) == intent' = [intent EXCEPT ![t] = Intent(old)]
Peek(t) == intent[t].asked
Consume(t) == intent' = [intent EXCEPT ![t] = NoIntent]

(* A pending row that is written now is no longer older than an intent.    *)
Touched(i) == [t \in Tenants |-> [intent[t] EXCEPT !.older = @ \ {i}]]

(* persistConnectorOrgMove: a row that was nobody's leaves a tombstone     *)
(* beside the new one, with the same updated_at.                           *)
Moved(t) == {Active(t), Gone}

(* Mutant: a bound row is not written to the file.                         *)
BindUnsaved(x, t) == Keep(x, Active(t), disk[x])

(* activatePendingConnectorLocked, and the same lines of the callback: x   *)
(* belongs to t.                                                           *)
Bind(x, t) == Keep(x, Active(t), Moved(t))

(* x becomes a pending row with the next claim token.                      *)
Await(x) ==
  /\ minted < Tokens
  /\ minted' = minted + 1
  /\ Keep(x, Pending(minted'), {Pending(minted')})

(* x stays as it is.                                                       *)
Stay(x) == Keep(x, live[x], disk[x])

-----------------------------------------------------------------------------
(* Connect, and the ways back. *)

(* handleGitHubInstallURL: a signed state, and an intent.  It may be that  *)
(* rows that are pending now are more than two minutes older.              *)
Connect(t) ==
  /\ connects > 0
  /\ connects' = connects - 1
  /\ Sign(t)
  /\ \E old \in SUBSET {i \in Installs : In(i, "pending_claim") # {}} : Remember(t, old)
  /\ UNCHANGED <<lookups, rows, grants, doomed, deletes, restarts>>

(* The state and the intent expire, each in its time.                      *)
Expire(t) ==
  /\ \/ t \in states /\ states' = states \ {t} /\ UNCHANGED intent
     \/ Peek(t) /\ Consume(t) /\ UNCHANGED states
  /\ UNCHANGED <<lookups, rows, grants, faults>>

(* handleGitHubCallback, the installation is bound: it stays bound.        *)
CallbackBound(i) ==
  \E x \in In(i, "active") :
     Stay(x) /\ UNCHANGED <<lookups, grants, asked, faults>>

(* The row a callback writes: the pending one, or one of id new.           *)
Slot(i, new) == IF Found(i) = {} THEN {<<i, new>>} ELSE Found(i)

(* Mutant: a state binds an installation that is bound already. *)
CallbackRebinds(i, t) ==
  /\ Signed(t)
  /\ \E x \in Slot(i, t) :
        Bind(x, t)
  /\ UNCHANGED <<lookups, grants, asked, faults>>

(* handleGitHubCallback with a valid state of t.  The state is not used up. *)
CallbackSigned(i, t) ==
  /\ In(i, "active") = {} /\ Signed(t)
  /\ \E x \in Slot(i, t) :
        Bind(x, t)
  /\ UNCHANGED <<lookups, grants, asked, faults>>

(* handleGitHubCallback without a state: a claim token goes to the browser. *)
CallbackOrphan(i) ==
  /\ In(i, "active") = {}
  /\ \E x \in Slot(i, NoTenant) :
        Await(x)
  /\ handed' = handed \cup {minted'}
  /\ intent' = Touched(i)
  /\ UNCHANGED <<lookups, states, used, faults>>

(* handleConnectorClaim by t, with token n.                                *)
Claim(x, n, t) ==
  /\ n \in handed /\ live[x] = Pending(n)
  /\ Bind(x, t)
  /\ used' = [used EXCEPT ![n] = IF @ < 2 THEN @ + 1 ELSE @]
  /\ UNCHANGED <<lookups, minted, handed, asked, faults>>

(* handleIssueClaimToken with force: without it, a row that has a token    *)
(* gets no other.                                                          *)
IssueClaimToken(i) ==
  /\ In(i, "active") = {} /\ minted < Tokens
  /\ \E x \in Found(i) :
        /\ live' = [live EXCEPT ![x] = Pending(minted + 1)]
        /\ disk' = [disk EXCEPT ![x] = {Pending(minted + 1)}]
  /\ minted' = minted + 1
  /\ handed' = handed \cup {minted'}
  /\ intent' = Touched(i)
  /\ UNCHANGED <<lookups, states, used, faults>>

(* handleGitHubFinishInstall by t, with the installation's id.             *)
FinishById(i, t) ==
  /\ In(i, "active") = {}
  /\ \E x \in Found(i) : Bind(x, t)
  /\ Consume(t)
  /\ UNCHANGED <<lookups, states, grants, faults>>

(* The pending rows that t's intent may be about. *)
Candidates(t) == {x \in Ids : live[x].status = "pending_claim" /\ x[1] \notin intent[t].older}

(* handleGitHubFinishInstall by t, who clicked Connect: the one row that   *)
(* became pending since.  With none, or several, it refuses.               *)
FinishByIntent(t) ==
  /\ Peek(t)
  /\ Cardinality(Candidates(t)) = 1
  /\ \E x \in Candidates(t) : Bind(x, t)
  /\ Consume(t)
  /\ UNCHANGED <<lookups, states, grants, faults>>

-----------------------------------------------------------------------------
(* The installation webhook. *)

(* ensureGitHubAppConnector: there is one, or a pending one is made, whose *)
(* token nobody is shown.                                                  *)
EnsureConnector(i) ==
  \/ \E x \in Found(i) : Stay(x) /\ UNCHANGED <<minted, intent>>
  \/ Found(i) = {} /\ Await(<<i, NoTenant>>) /\ intent' = Touched(i)

(* handleInstallationWebhook: deleted, suspend and removed leave the       *)
(* connector as it is, every other action ensures that there is one.       *)
Webhook(i) ==
  /\ EnsureConnector(i) \/ UNCHANGED <<rows, minted, intent>>
  /\ UNCHANGED <<lookups, handed, used, states, faults>>

-----------------------------------------------------------------------------
(* The owner's handlers. *)

(* denyConnectorIfImmutable lets t at x. *)
Owns(x, t) == live[x] = Active(t)

(* handleConnectorPatch stores the row with a later updated_at.            *)
Patch(x, t) ==
  /\ Owns(x, t)
  /\ disk' = [disk EXCEPT ![x] = {live[x]}]
  /\ UNCHANGED <<lookups, live, grants, asked, faults>>

(* handleConnectorDelete marks the row, without the mutex ...              *)
Delete(x, t) ==
  /\ Owns(x, t) /\ deletes > 0
  /\ live' = [live EXCEPT ![x] = Gone]
  /\ disk' = [disk EXCEPT ![x] = {Gone}]
  /\ doomed' = doomed \cup {x}
  /\ deletes' = deletes - 1
  /\ UNCHANGED <<lookups, grants, asked, connects, restarts>>

(* ... and then removes whatever row has the id by now.                    *)
DeleteEnds(x) ==
  /\ x \in doomed
  /\ live' = [live EXCEPT ![x] = NoRow]
  /\ doomed' = doomed \ {x}
  /\ UNCHANGED <<lookups, disk, grants, asked, connects, deletes, restarts>>

-----------------------------------------------------------------------------
(* The rows on file. *)

(* Reading x gives any of the rows with the latest updated_at; a deleted   *)
(* one is not loaded.  On all ids at once, misses are those that read one. *)
Stored(x) == disk[x] \ {Gone}

(* getOrHydrateConnector, on any lookup of an id that is not in memory,    *)
(* reads its row ...                                                       *)
HydrateReads(x) ==
  /\ live[x] = NoRow
  /\ reading' = [reading EXCEPT ![x] = @ \cup Stored(x)]
  /\ UNCHANGED <<rows, snapshot, cold, revived, grants, asked, faults>>

(* ... and stores it, whatever memory and the file hold by now             *)
(* (storeHydratedConnector, and the boot).  Any number of lookups may have *)
(* read the row, so another can store it again.                            *)
HydrateStores(x) ==
  /\ \E r \in reading[x] :
        /\ live' = [live EXCEPT ![x] = r]
        /\ revived' = IF r \in disk[x] THEN revived ELSE revived \cup ({r.nonce} \ {0})
  /\ UNCHANGED <<disk, reading, snapshot, cold, grants, asked, faults>>

(* The process restarts with an empty memory. *)
Restart ==
  /\ restarts > 0
  /\ live' = [x \in Ids |-> NoRow]
  /\ reading' = [x \in Ids |-> {}] /\ snapshot' = [x \in Ids |-> NoRow]
  /\ cold' = TRUE
  /\ intent' = [t \in Tenants |-> NoIntent]
  /\ doomed' = {}
  /\ restarts' = restarts - 1
  /\ UNCHANGED <<disk, revived, states, grants, connects, deletes>>

(* hydrateSCMOnBoot, two seconds later or more: one query for all ids,     *)
(* which may fail ...                                                      *)
BootReads ==
  /\ cold
  /\ cold' = FALSE
  /\ \E misses \in SUBSET {x \in Ids : Gone \in disk[x]} \cup {Ids} :
        snapshot' = [x \in Ids |-> IF x \in misses \/ Stored(x) = {} THEN NoRow
                                   ELSE CHOOSE r \in Stored(x) : TRUE]
  /\ UNCHANGED <<rows, reading, revived, grants, asked, faults>>

(* ... and then, row by row, a look whether memory has the id by now: if   *)
(* not, the row is about to be stored, as one that a lookup has read.      *)
BootTakes(x) ==
  /\ snapshot[x] # NoRow
  /\ reading' = [reading EXCEPT ![x] = IF live[x] = NoRow THEN @ \cup {snapshot[x]} ELSE @]
  /\ snapshot' = [snapshot EXCEPT ![x] = NoRow]
  /\ UNCHANGED <<rows, cold, revived, grants, asked, faults>>

Next ==
  \/ \E t \in Tenants : Connect(t) \/ Expire(t) \/ FinishByIntent(t)
  \/ \E i \in Installs :
        \/ CallbackBound(i) \/ CallbackOrphan(i) \/ IssueClaimToken(i)
        \/ Webhook(i)
        \/ \E t \in Tenants : CallbackSigned(i, t) \/ FinishById(i, t)
  \/ \E x \in Ids :
        \/ DeleteEnds(x) \/ HydrateReads(x) \/ HydrateStores(x) \/ BootTakes(x)
        \/ \E t \in Tenants :
              \/ Patch(x, t) \/ Delete(x, t)
              \/ \E n \in 1..Tokens : Claim(x, n, t)
  \/ BootReads \/ Restart

Spec == Init /\ [][Next]_vars

-----------------------------------------------------------------------------
(* Properties. *)

(* Rows, states, intents and tokens are what the handlers write; a row of  *)
(* status none is never on file, nor read from it.                         *)
TypeOK ==
  /\ live \in [Ids -> Rows]
  /\ disk \in [Ids -> SUBSET (Rows \ {NoRow})]
  /\ reading \in [Ids -> SUBSET (Rows \ {NoRow, Gone})]
  /\ snapshot \in [Ids -> Rows \ {Gone}]
  /\ cold \in BOOLEAN
  /\ states \subseteq Tenants
  /\ intent \in [Tenants -> [asked : BOOLEAN, older : SUBSET Installs]]
  /\ minted \in 0..Tokens
  /\ handed \subseteq 1..minted
  /\ used \in [1..Tokens -> 0..2]
  /\ revived \subseteq 1..Tokens
  /\ doomed \subseteq Ids
  /\ connects \in Nat /\ deletes \in Nat /\ restarts \in Nat

(* A claim token binds one connector, once: not another installation, and  *)
(* not the same one again after it was deleted, or its row was lost in a   *)
(* restart, unless its pending row was read before it was bound and stored *)
(* after (handleConnectorClaim: "one-time claim_token").                   *)
TokenBindsOnce == \A n \in 1..Tokens \ revived : used[n] <= 1

(* x waits for token n: in memory, in the file, or in what was read of it. *)
WaitsFor(x, n) == Pending(n) \in {live[x], snapshot[x]} \cup disk[x] \cup reading[x]

(* A token is minted for one id.  The file holds no row that waits for a   *)
(* used one, since what binds a row replaces the pending one there; and    *)
(* memory waits for what the file waits for, unless it was revived.        *)
TokenInv ==
  /\ \A x \in Ids, n \in 1..Tokens : WaitsFor(x, n) => n <= minted
  /\ \A x, y \in Ids, n \in 1..Tokens : WaitsFor(x, n) /\ WaitsFor(y, n) => x = y
  /\ \A x \in Ids, n \in 1..Tokens : Pending(n) \in disk[x] => used[n] = 0
  /\ \A x \in Ids, n \in 1..Tokens \ revived : live[x] = Pending(n) => Pending(n) \in disk[x]
  /\ \A n \in 1..Tokens : n > minted => used[n] = 0
  /\ \A n \in 1..Tokens \ revived : used[n] <= 1

(* Who holds an installation according to these rows of it.                *)
Holders(rs) == {r.tenant : r \in rs \ {NoRow, Gone}}
Held == [i \in Installs |-> Holders({live[x] : x \in Of(i)})]
Filed == [i \in Installs |-> Holders(UNION {disk[x] : x \in Of(i)})]

Read == [i \in Installs |-> Holders(UNION {reading[x] \cup {snapshot[x]} : x \in Of(i)})]

Abstract == INSTANCE Binding WITH
  Waiting <- NoTenant, held <- Held, file <- Filed, read <- Read

(* A tenant takes an installation only when nobody holds it or it waits to *)
(* be claimed, and then holds it alone; who else comes to hold it was read *)
(* from the file: through callbacks, claims, webhooks, deletions, restarts *)
(* and late hydrations in any order                                        *)
(* (softDeleteOtherInstallConnectors: "enforces one live binder").         *)
KeepsBinding == Abstract!Spec
=============================================================================
