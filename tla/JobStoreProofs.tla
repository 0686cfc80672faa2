--------------------------- MODULE JobStoreProofs ---------------------------
(* Proofs about JobStore for any number of external events and of inserts  *)
(* in flight: an end on file is final, the newest row of the table says    *)
(* what memory says, and a child that ran to its end has all its evidence. *)
EXTENDS JobStore, SequenceTheorems, TLAPS

(* Rows and the objects that hold them. *)

LEMMA RowKinds ==
  /\ NewJob \in Rows /\ NoRow \in Rows
  /\ NewJob.status = "queued" /\ NewJob.posts = 0 /\ NewJob.tail = 0 /\ NewJob.fin = 0
  /\ NoRow.status = "absent" /\ NoRow.fin = 0
  BY DEF NewJob, NoRow, NoEvidence, Rows, Evidences, Statuses, Active

LEMMA RowStatus ==
  ASSUME NEW r \in Rows, NEW s \in Statuses
  PROVE  [r EXCEPT !.status = s] \in Rows
  BY DEF Rows

LEMMA RowStamp ==
  ASSUME NEW r \in Rows, NEW s \in Statuses, NEW n \in Nat
  PROVE  [r EXCEPT !.status = s, !.fin = n] \in Rows
  BY DEF Rows

LEMMA RowSnapshots ==
  ASSUME NEW r \in Rows, NEW n \in Nat
  PROVE  applyLiveSummarySnap(r, n) \in Rows
  BY DEF applyLiveSummarySnap, Rows

LEMMA RowEvidence ==
  ASSUME NEW r \in Rows
  PROVE  /\ finalizeJobEvidence(r) \in Rows
         /\ evidenceFromJob(r) \in Rows
         /\ appendEvidencePost(r) \in Rows
<1>1. r.status \in Statuses /\ r.posts \in Nat
  BY DEF Rows
<1>2. [status |-> r.status, posts |-> r.posts] \in Evidences
  BY <1>1 DEF Evidences
<1>3. finalizeJobEvidence(r) \in Rows
  BY <1>2 DEF finalizeJobEvidence, Rows
<1>4. appendEvidencePost(r) \in Rows
  BY <1>1 DEF appendEvidencePost, Rows
<1> QED
  BY <1>3, <1>4 DEF evidenceFromJob

(* An object changes; the others stay what they are. *)
LEMMA Rewrite ==
  ASSUME TypeOK, NEW k \in 1..Len(objs), NEW r \in Rows, objs' = [objs EXCEPT ![k] = r]
  PROVE  /\ objs' \in Seq(Rows) /\ Len(objs') = Len(objs)
         /\ objs'[k] = r
         /\ \A i \in 1..Len(objs) : i # k => objs'[i] = objs[i]
  BY ExceptSeq DEF TypeOK

LEMMA ObjectFacts ==
  ASSUME TypeOK
  PROVE  /\ Len(objs) \in Nat
         /\ \A i \in 1..Len(objs) : objs[i] \in Rows
         /\ live # 0 => live \in 1..Len(objs)
         /\ \A a \in Actors : at[a] # 0 => at[a] \in 1..Len(objs)
<1>1. Len(objs) \in Nat /\ \A i \in 1..Len(objs) : objs[i] \in Rows
  BY LenProperties, ElementOfSeq DEF TypeOK
<1> QED
  BY <1>1 DEF TypeOK

LEMMA StoreFacts ==
  ASSUME TypeOK, NEW r \in Rows, Store(r)
  PROVE  /\ objs' \in Seq(Rows) /\ Len(objs') = Len(objs) + 1
         /\ live' = Len(objs) + 1 /\ live' # 0 /\ live' \in 0..Len(objs')
         /\ objs'[live'] = r
         /\ \A i \in 1..Len(objs) : objs'[i] = objs[i]
         /\ twins' \in BOOLEAN /\ made' \in Nat /\ heard' \in Nat
         /\ at \in [Actors -> 0..Len(objs')]
         /\ ~twins' => live = 0
<1>1. /\ objs' \in Seq(Rows) /\ Len(objs') = Len(objs) + 1
      /\ objs'[Len(objs) + 1] = r
      /\ \A i \in 1..Len(objs) : objs'[i] = objs[i]
  BY AppendProperties DEF TypeOK, Store
<1>2. Len(objs) \in Nat
  BY ObjectFacts
<1>3. at \in [Actors -> 0..Len(objs')]
  BY <1>1, <1>2 DEF TypeOK
<1>4. made' \in Nat /\ heard' \in Nat
  BY DEF Store, Rows
<1>5. twins' \in BOOLEAN /\ (~twins' => live = 0)
  BY DEF Store
<1> QED
  BY <1>1, <1>2, <1>3, <1>4, <1>5 DEF Store

(* Places. *)

LEMMA Places ==
  /\ Actors = {"request", "proc", "boot"}
  /\ PlacesOf["request"] = Writing \cup {"idle", "store", "do", "kick"}
  /\ PlacesOf["boot"] = Writing \cup {"idle", "up", "files", "storeFile", "query",
                                      "storeCopy", "recover", "dispatch"}
  /\ PlacesOf["proc"] = Writing \cup {"idle", "gate", "agent", "post", "end", "leave"}
  /\ NextOf["request"] = {"idle", "kick"}
  /\ NextOf["boot"] = {"idle", "dispatch"}
  /\ NextOf["proc"] = {"idle", "agent", "post", "leave"}
  /\ \A a \in Actors : Writing \subseteq PlacesOf[a]
  /\ \A a \in Actors : "idle" \in PlacesOf[a] /\ "idle" \in NextOf[a]
  /\ \A a \in Actors : NextOf[a] \subseteq PlacesOf[a]
  BY DEF Actors, PlacesOf, NextOf

PlacesOK == DOMAIN pc = Actors /\ \A a \in Actors : pc[a] \in PlacesOf[a]
NextsOK == DOMAIN then = Actors /\ \A a \in Actors : then[a] \in NextOf[a]

LEMMA GoToType ==
  ASSUME TypeOK, NEW a \in Actors, NEW p \in PlacesOf[a], GoTo(a, p)
  PROVE  PlacesOK' /\ pc'[a] = p /\ \A b \in Actors : b # a => pc'[b] = pc[b]
  BY DEF TypeOK, GoTo, PlacesOK

LEMMA RestType ==
  ASSUME TypeOK, NEW a \in Actors, Rest(a)
  PROVE  /\ PlacesOK' /\ pc'[a] = "idle" /\ \A b \in Actors : b # a => pc'[b] = pc[b]
         /\ at' \in [Actors -> 0..Len(objs)]
         /\ at'[a] = 0 /\ \A b \in Actors : b # a => at'[b] = at[b]
<1>1. PlacesOK' /\ pc'[a] = "idle" /\ \A b \in Actors : b # a => pc'[b] = pc[b]
  BY GoToType, Places DEF Rest
<1> QED
  BY <1>1, ObjectFacts DEF Rest, TypeOK

LEMMA KickType ==
  ASSUME TypeOK, NEW a \in Actors, a # "proc", NEW p \in PlacesOf[a], Kick(a, p)
  PROVE  /\ PlacesOK' /\ pc'[a] = p
         /\ at' \in [Actors -> 0..Len(objs)] /\ at'[a] = 0
         /\ \A b \in Actors : b # a /\ b # "proc" => pc'[b] = pc[b] /\ at'[b] = at[b]
         /\ \/ pc["proc"] = "idle" /\ pc'["proc"] = "gate" /\ at'["proc"] = live
            \/ pc["proc"] # "idle" /\ pc'["proc"] = pc["proc"] /\ at'["proc"] = at["proc"]
         /\ missed' \in BOOLEAN
  BY Places, ObjectFacts DEF TypeOK, Kick, PlacesOK

LEMMA ChangeType ==
  ASSUME TypeOK, NEW a \in Actors, at[a] # 0, NEW r \in Rows, NEW p \in NextOf[a],
         Change(a, r, p)
  PROVE  /\ objs' \in Seq(Rows) /\ Len(objs') = Len(objs) /\ objs'[at[a]] = r
         /\ \A i \in 1..Len(objs) : i # at[a] => objs'[i] = objs[i]
         /\ PlacesOK' /\ pc'[a] = "file" /\ \A b \in Actors : b # a => pc'[b] = pc[b]
         /\ NextsOK' /\ then'[a] = p /\ \A b \in Actors : b # a => then'[b] = then[b]
<1>1. at[a] \in 1..Len(objs)
  BY ObjectFacts
<1>2. "file" \in PlacesOf[a]
  BY Places DEF Writing
<1>3. NextsOK' /\ then'[a] = p /\ \A b \in Actors : b # a => then'[b] = then[b]
  BY DEF Change, TypeOK, NextsOK
<1> QED
  BY <1>1, <1>2, <1>3, Rewrite, GoToType DEF Change

LEMMA SpendType ==
  ASSUME TypeOK, NEW e \in Events, Spend(e)
  PROVE  budget' \in [Events -> Nat]
  BY DEF TypeOK, Spend

LEMMA FileType ==
  ASSUME TypeOK, NEW r \in Rows, persistSCMJobFile(r)
  PROVE  file' \in Rows /\ ended' \in Terminal \cup {NoEnd} /\ budget' \in [Events -> Nat]
  BY SpendType DEF TypeOK, persistSCMJobFile, EndOf, Events

-----------------------------------------------------------------------------
(* Type correctness. *)

(* What a step of any kind leaves of the types when it moves goroutines,   *)
(* objects or the file only.                                               *)
LEMMA TypeNext ==
  ASSUME TypeOK, ObjectInv, [Next]_vars
  PROVE  TypeOK'
<1>0. /\ "request" \in Actors /\ "proc" \in Actors /\ "boot" \in Actors
      /\ Len(objs) \in Nat /\ {"crash", "loss", "file", "drop"} \cup Asks \subseteq Events
  BY Places, ObjectFacts DEF Asks, Events
<1>t. TypeOK' <=> /\ objs' \in Seq(Rows) /\ live' \in 0..Len(objs')
                  /\ file' \in Rows /\ log' \in Nat
                  /\ inserts' \subseteq Copies /\ table' \subseteq Copies /\ clock' \in Nat
                  /\ PlacesOK' /\ at' \in [Actors -> 0..Len(objs')] /\ NextsOK'
                  /\ got' \in [Actors -> Rows] /\ ask' \in Asks
                  /\ made' \in Nat /\ heard' \in Nat /\ ended' \in Terminal \cup {NoEnd}
                  /\ twins' \in BOOLEAN /\ missed' \in BOOLEAN /\ gap' \in BOOLEAN
                  /\ budget' \in [Events -> Nat]
  BY DEF TypeOK, PlacesOK, NextsOK
<1>s. ASSUME UNCHANGED then PROVE NextsOK'
  BY <1>s DEF TypeOK, NextsOK
<1>g. ASSUME NEW a \in Actors, NEW r \in Rows, got' = [got EXCEPT ![a] = r]
      PROVE  got' \in [Actors -> Rows]
  BY <1>g DEF TypeOK
<1>c. clock + 1 \in Nat /\ 0 \in Nat /\ Active \cup Terminal \subseteq Statuses
      /\ {"queued", "running", "completed", "cancelled"} \subseteq Statuses
  BY DEF TypeOK, Statuses, Active, Terminal
<1>1. ASSUME NEW a \in Actors, WriteFile(a) PROVE TypeOK'
  <2>1. pc[a] = "file" /\ at[a] \in 1..Len(objs) /\ row(a) \in Rows
    BY <1>1, ObjectFacts DEF WriteFile, ObjectInv, Writing, row
  <2>2. /\ file' \in Rows /\ ended' \in Terminal \cup {NoEnd}
        /\ budget' \in [Events -> Nat]
    BY <1>1, <2>1, FileType DEF WriteFile
  <2>3. PlacesOK'
    BY <1>1, GoToType, Places DEF WriteFile, Writing
  <2> QED
    BY <1>t, <1>s, <1>1, <2>2, <2>3 DEF WriteFile, TypeOK, memory, copies
<1>2. ASSUME NEW a \in Actors, WriteCopy(a) PROVE TypeOK'
  <2>1. pc[a] = "copy" /\ at[a] \in 1..Len(objs) /\ row(a) \in Rows
    BY <1>2, ObjectFacts DEF WriteCopy, ObjectInv, Writing, row
  <2>2. clock' \in Nat /\ chFinished(row(a), clock + 1) \in Nat
    BY <1>2, <2>1 DEF WriteCopy, chFinished, TypeOK, Rows
  <2>3. inserts' \subseteq Copies
    BY <1>2, <2>1, <2>2 DEF WriteCopy, Copies, TypeOK
  <2>4. NextsOK'
    BY <1>2, Places DEF WriteCopy, TypeOK, NextsOK
  <2>5. then[a] \in PlacesOf[a]
    BY Places DEF TypeOK
  <2>6. PlacesOK' /\ at' \in [Actors -> 0..Len(objs)]
    BY <1>2, <2>5, RestType, GoToType DEF WriteCopy, TypeOK
  <2> QED
    BY <1>t, <1>2, <2>2, <2>3, <2>4, <2>6 DEF WriteCopy, TypeOK, memory
<1>3. ASSUME NEW x \in inserts, Insert(x) PROVE TypeOK'
  <2>1. inserts' \subseteq Copies
    BY <1>3 DEF Insert, TypeOK
  <2>2. table' \subseteq Copies /\ gap' \in BOOLEAN /\ budget' \in [Events -> Nat]
    <3>1. CASE Spend("drop") /\ gap' = TRUE /\ UNCHANGED table
      BY <1>0, <3>1, SpendType DEF TypeOK
    <3>2. CASE /\ table' = newest(table \cup {x}) \cup active(table \cup {x})
               /\ UNCHANGED <<gap, budget>>
      BY <3>2 DEF TypeOK, newest, active
    <3> QED
      BY <1>3, <3>1, <3>2 DEF Insert
  <2> QED
    BY <1>t, <1>s, <1>3, <2>1, <2>2 DEF Insert, TypeOK, memory, places, PlacesOK
<1>4. ASSUME NEW e \in Asks, Ask(e) PROVE TypeOK'
  <2>1. budget' \in [Events -> Nat]
    BY <1>0, <1>4, SpendType DEF Ask
  <2>2. PlacesOK' /\ at' \in [Actors -> 0..Len(objs)] /\ got' \in [Actors -> Rows]
    <3>1. CASE /\ live # 0 /\ GoTo("request", "do")
               /\ at' = [at EXCEPT !["request"] = live] /\ UNCHANGED got
      BY <1>0, <3>1, GoToType, Places DEF TypeOK
    <3>2. CASE /\ GoTo("request", "store") /\ UNCHANGED at
               /\ got' = [got EXCEPT !["request"] = file]
      BY <1>0, <3>2, GoToType, Places DEF TypeOK
    <3> QED
      BY <1>4, <3>1, <3>2 DEF Ask
  <2> QED
    BY <1>t, <1>s, <1>4, <2>1, <2>2 DEF Ask, TypeOK, memory, copies, history
<1>5. ASSUME StoreAsked PROVE TypeOK'
  <2>1. Store(got["request"]) /\ got["request"] \in Rows
    BY <1>0, <1>5 DEF StoreAsked, TypeOK
  <2>2. PlacesOK'
    BY <1>0, <1>5, GoToType, Places DEF StoreAsked
  <2>3. at' \in [Actors -> 0..Len(objs')]
    BY <1>0, <1>5, <2>1, StoreFacts DEF StoreAsked
  <2>4. got' \in [Actors -> Rows]
    BY <1>0, <1>g, <1>5, RowKinds DEF StoreAsked
  <2> QED
    BY <1>t, <1>s, <1>5, <2>1, <2>2, <2>3, <2>4, StoreFacts DEF StoreAsked, TypeOK, copies
<1>6. ASSUME HydrateFile PROVE TypeOK'
  <2>1. PlacesOK' /\ got' \in [Actors -> Rows]
    BY <1>0, <1>6, GoToType, Places DEF HydrateFile, TypeOK
  <2> QED
    BY <1>t, <1>s, <1>6, <2>1 DEF HydrateFile, TypeOK, memory, copies, history
<1>7. ASSUME StoreFile PROVE TypeOK'
  <2>1. Store(got["boot"]) /\ got["boot"] \in Rows
    BY <1>0, <1>7 DEF StoreFile, TypeOK
  <2>2. PlacesOK'
    BY <1>0, <1>7, GoToType, Places DEF StoreFile
  <2>3. got' \in [Actors -> Rows]
    BY <1>0, <1>g, <1>7, RowKinds DEF StoreFile
  <2> QED
    BY <1>t, <1>s, <1>7, <2>1, <2>2, <2>3, StoreFacts DEF StoreFile, TypeOK, copies
<1>8. ASSUME HydrateCopy PROVE TypeOK'
  <2>1. PlacesOK'
    BY <1>0, <1>8, GoToType, Places DEF HydrateCopy
  <2>2. got' \in [Actors -> Rows]
    <3>1. ASSUME NEW x \in answers PROVE scmJobFromCHRow(x) \in Rows
      <4>1. x.row \in Rows /\ x.ver \in Nat
        BY <3>1 DEF answers, active, TypeOK, Copies
      <4> QED
        BY <4>1 DEF scmJobFromCHRow, Rows
    <3> QED
      BY <1>0, <1>8, <3>1 DEF HydrateCopy, TypeOK
  <2>3. budget' \in [Events -> Nat]
    BY <1>0, <1>8, SpendType DEF HydrateCopy, TypeOK
  <2> QED
    BY <1>t, <1>s, <1>8, <2>1, <2>2, <2>3 DEF HydrateCopy, TypeOK, memory, copies, history
<1>9. ASSUME StoreCopy PROVE TypeOK'
  <2>1. Store(got["boot"]) /\ got["boot"] \in Rows
    BY <1>0, <1>9 DEF StoreCopy, TypeOK
  <2>2. PlacesOK'
    BY <1>0, <1>9, GoToType, Places DEF StoreCopy
  <2>3. got' \in [Actors -> Rows]
    BY <1>0, <1>g, <1>9, RowKinds DEF StoreCopy
  <2>4. file' \in Rows /\ ended' \in Terminal \cup {NoEnd} /\ budget' \in [Events -> Nat]
    BY <1>9, <2>1, FileType DEF StoreCopy
  <2> QED
    BY <1>t, <1>s, <1>9, <2>1, <2>2, <2>3, <2>4, StoreFacts DEF StoreCopy, TypeOK, copies
<1>10. ASSUME Recover PROVE TypeOK'
  <2>1. CASE /\ live # 0 /\ objs' = [objs EXCEPT ![live].status = "queued"]
             /\ at' = [at EXCEPT !["boot"] = live]
             /\ GoTo("boot", "file") /\ then' = [then EXCEPT !["boot"] = "dispatch"]
    <3>1. live \in 1..Len(objs) /\ objs[live] \in Rows
      BY <2>1, ObjectFacts
    <3>2. [objs[live] EXCEPT !.status = "queued"] \in Rows
      BY <1>c, <3>1, RowStatus, RowStamp
    <3>3. objs' \in Seq(Rows) /\ Len(objs') = Len(objs)
      BY <2>1, <3>1, <3>2, Rewrite
    <3>4. PlacesOK' /\ NextsOK' /\ at' \in [Actors -> 0..Len(objs)]
      BY <1>0, <2>1, GoToType, Places DEF TypeOK, Writing, NextsOK
    <3> QED
      BY <1>t, <1>10, <3>3, <3>4 DEF Recover, TypeOK, copies, history
  <2>2. CASE GoTo("boot", "dispatch") /\ UNCHANGED <<objs, at, then>>
    <3>1. PlacesOK'
      BY <1>0, <2>2, GoToType, Places
    <3> QED
      BY <1>t, <1>s, <1>10, <2>2, <3>1 DEF Recover, TypeOK, copies, history
  <2> QED
    BY <1>10, <2>1, <2>2 DEF Recover
<1>11. ASSUME Dispatch PROVE TypeOK'
  <2>1. PlacesOK' /\ at' \in [Actors -> 0..Len(objs)] /\ missed' \in BOOLEAN
    <3>1. CASE Kick("boot", "up")
      BY <1>0, <3>1, KickType, Places
    <3>2. CASE /\ GoTo("boot", "up") /\ at' = [at EXCEPT !["boot"] = 0]
               /\ UNCHANGED missed
      BY <1>0, <3>2, GoToType, Places DEF TypeOK
    <3> QED
      BY <1>11, <3>1, <3>2 DEF Dispatch
  <2> QED
    BY <1>t, <1>s, <1>11, <2>1 DEF Dispatch, TypeOK, memory, copies
<1>12. ASSUME Cancel PROVE TypeOK'
  <2>1. at["request"] # 0 /\ at["request"] \in 1..Len(objs) /\ row("request") \in Rows
    BY <1>0, <1>12, ObjectFacts DEF Cancel, ObjectInv, row
  <2>2. CASE /\ Change("request", [row("request") EXCEPT !.status = "cancelled", !.fin = clock + 1],
                       "idle")
             /\ clock' = clock + 1 /\ UNCHANGED at
    <3>1. [row("request") EXCEPT !.status = "cancelled", !.fin = clock + 1] \in Rows
      BY <1>c, <2>1, RowStatus, RowStamp
    <3> QED
      BY <1>0, <1>t, <1>12, <2>1, <2>2, <3>1, ChangeType, Places DEF Cancel, TypeOK, history
  <2>3. CASE Rest("request") /\ UNCHANGED <<objs, then, clock>>
    BY <1>0, <1>t, <1>s, <1>12, <2>3, RestType DEF Cancel, TypeOK, history
  <2> QED
    BY <1>12, <2>2, <2>3 DEF Cancel
<1>13. ASSUME Retry PROVE TypeOK'
  <2>1. at["request"] # 0 /\ at["request"] \in 1..Len(objs) /\ row("request") \in Rows
    BY <1>0, <1>13, ObjectFacts DEF Retry, ObjectInv, row
  <2>2. [row("request") EXCEPT !.status = "queued", !.fin = 0] \in Rows
    BY <1>c, <2>1, RowStatus, RowStamp
  <2>3. /\ objs' \in Seq(Rows) /\ Len(objs') = Len(objs) /\ PlacesOK' /\ NextsOK'
    BY <1>0, <1>13, <2>1, <2>2, ChangeType, Places DEF Retry
  <2> QED
    BY <1>t, <1>13, <2>3 DEF Retry, TypeOK, copies
<1>14. ASSUME RetryKick PROVE TypeOK'
  <2>1. PlacesOK' /\ at' \in [Actors -> 0..Len(objs)] /\ missed' \in BOOLEAN
    BY <1>0, <1>14, KickType, Places DEF RetryKick
  <2> QED
    BY <1>t, <1>s, <1>14, <2>1 DEF RetryKick, TypeOK, memory, copies
<1>15. ASSUME Look PROVE TypeOK'
  <2>1. at["request"] \in 1..Len(objs) /\ objs[at["request"]] \in Rows
    BY <1>0, <1>15, ObjectFacts DEF Look, ObjectInv
  <2>2. evidenceFromJob(objs[at["request"]]) \in Rows
    BY <2>1, RowEvidence
  <2>3. objs' \in Seq(Rows) /\ Len(objs') = Len(objs)
    BY <1>15, <2>1, <2>2, Rewrite DEF Look
  <2> QED
    BY <1>0, <1>t, <1>s, <1>15, <2>3, RestType DEF Look, TypeOK, copies, history
<1>16. ASSUME Start PROVE TypeOK'
  <2>1. at["proc"] # 0 /\ at["proc"] \in 1..Len(objs) /\ row("proc") \in Rows
    BY <1>0, <1>16, ObjectFacts DEF Start, ObjectInv, row
  <2>2. CASE Rest("proc") /\ UNCHANGED <<objs, then>>
    BY <1>0, <1>t, <1>s, <1>16, <2>2, RestType DEF Start, TypeOK, copies, history
  <2>3. CASE Change("proc", [row("proc") EXCEPT !.status = "running"], "agent") /\ UNCHANGED at
    <3>1. [row("proc") EXCEPT !.status = "running"] \in Rows
      BY <1>c, <2>1, RowStatus, RowStamp
    <3>2. objs' \in Seq(Rows) /\ Len(objs') = Len(objs) /\ PlacesOK' /\ NextsOK'
      BY <1>0, <2>1, <2>3, <3>1, ChangeType, Places
    <3> QED
      BY <1>t, <1>16, <2>3, <3>2 DEF Start, TypeOK, copies, history
  <2> QED
    BY <1>16, <2>2, <2>3 DEF Start
<1>17. ASSUME Box PROVE TypeOK'
  <2>1. live \in 1..Len(objs) /\ objs[live] \in Rows
    BY <1>0, <1>17, ObjectFacts DEF Box, ObjectInv
  <2>2. log' \in Nat
    BY <1>17 DEF Box, TypeOK
  <2>3. applyLiveSummarySnap(objs[live], log') \in Rows
    BY <2>1, <2>2, RowSnapshots
  <2>4. objs' \in Seq(Rows) /\ Len(objs') = Len(objs)
    BY <1>17, <2>1, <2>3, Rewrite DEF Box
  <2>5. PlacesOK' /\ NextsOK'
    BY <1>0, <1>17, GoToType, Places DEF Box, TypeOK, NextsOK, Writing
  <2> QED
    BY <1>t, <1>17, <2>2, <2>4, <2>5 DEF Box, TypeOK, copies
<1>18. ASSUME Post PROVE TypeOK'
  <2>1. at["proc"] \in 1..Len(objs) /\ objs[at["proc"]] \in Rows
    BY <1>0, <1>18, ObjectFacts DEF Post, ObjectInv
  <2>2. appendEvidencePost(objs[at["proc"]]) \in Rows
    BY <2>1, RowEvidence
  <2>3. objs' \in Seq(Rows) /\ Len(objs') = Len(objs)
    BY <1>18, <2>1, <2>2, Rewrite DEF Post
  <2>4. PlacesOK' /\ made' \in Nat
    BY <1>0, <1>18, GoToType, Places DEF Post, TypeOK
  <2> QED
    BY <1>t, <1>s, <1>18, <2>3, <2>4 DEF Post, TypeOK, copies
<1>19. ASSUME Finish PROVE TypeOK'
  <2>1. live \in 1..Len(objs) /\ objs[live] \in Rows
    BY <1>0, <1>19, ObjectFacts DEF Finish, ObjectInv
  <2>2. at' \in [Actors -> 0..Len(objs)]
    BY <1>19, <2>1 DEF Finish, TypeOK
  <2>3. CASE GoTo("proc", "leave") /\ UNCHANGED <<objs, clock, then>>
    <3>1. PlacesOK'
      BY <1>0, <2>3, GoToType, Places
    <3> QED
      BY <1>t, <1>s, <1>19, <2>2, <2>3, <3>1 DEF Finish, TypeOK, history
  <2>4. CASE /\ objs' = [objs EXCEPT ![live] =
                           finalizeJobEvidence([@ EXCEPT !.status = "completed", !.fin = clock + 1])]
             /\ GoTo("proc", "file") /\ then' = [then EXCEPT !["proc"] = "leave"]
             /\ clock' = clock + 1
    <3>1. [objs[live] EXCEPT !.status = "completed", !.fin = clock + 1] \in Rows
      BY <1>c, <2>1, RowStatus, RowStamp
    <3>2. finalizeJobEvidence([objs[live] EXCEPT !.status = "completed", !.fin = clock + 1]) \in Rows
      BY <3>1, RowEvidence
    <3>3. objs' \in Seq(Rows) /\ Len(objs') = Len(objs)
      BY <2>1, <2>4, <3>2, Rewrite
    <3>4. PlacesOK' /\ NextsOK' /\ clock' \in Nat
      BY <1>0, <2>4, GoToType, Places DEF TypeOK, NextsOK, Writing
    <3> QED
      BY <1>t, <1>19, <2>2, <3>3, <3>4 DEF Finish, TypeOK, history
  <2> QED
    BY <1>19, <2>3, <2>4 DEF Finish
<1>20. ASSUME Leave PROVE TypeOK'
  BY <1>0, <1>t, <1>s, <1>20, RestType DEF Leave, TypeOK, memory, copies, history
<1>21. ASSUME Crash PROVE TypeOK'
  <2>1. /\ file' \in Rows /\ log' \in Nat /\ ended' \in Terminal \cup {NoEnd}
        /\ budget' \in [Events -> Nat]
    BY <1>0, <1>21, SpendType, RowKinds DEF Crash, TypeOK, EndOf
  <2>2. objs' \in Seq(Rows) /\ live' \in 0..Len(objs') /\ at' \in [Actors -> 0..Len(objs')]
    BY <1>21, EmptySeq DEF Crash
  <2>3. PlacesOK' /\ NextsOK' /\ got' \in [Actors -> Rows]
    BY <1>21, Places, RowKinds DEF Crash, PlacesOK, NextsOK
  <2> QED
    BY <1>t, <1>21, <2>1, <2>2, <2>3 DEF Crash, TypeOK, Asks
<1>22. ASSUME UNCHANGED vars PROVE TypeOK'
  BY <1>22 DEF TypeOK, vars, memory, copies, places, history
<1> QED
  BY <1>1, <1>2, <1>3, <1>4, <1>5, <1>6, <1>7, <1>8, <1>9, <1>10, <1>11, <1>12, <1>13,
     <1>14, <1>15, <1>16, <1>17, <1>18, <1>19, <1>20, <1>21, <1>22
  DEF Next, Hydrate, Request, Processor, Persist

-----------------------------------------------------------------------------
(* Who works on the row has its object. *)

LEMMA ObjectNext ==
  ASSUME TypeOK, ObjectInv, [Next]_vars
  PROVE  ObjectInv'
<1>0. /\ "request" \in Actors /\ "proc" \in Actors /\ "boot" \in Actors
      /\ \A a \in Actors : a \in {"request", "proc", "boot"}
  BY Places
<1>w. \A a \in Actors : pc[a] \in Writing => at[a] # 0 /\ live # 0
  BY DEF ObjectInv
<1>o. \A a \in Actors : at[a] # 0 => live # 0
  BY DEF ObjectInv
<1>1. ASSUME NEW a \in Actors, WriteFile(a) PROVE ObjectInv'
  BY <1>1, <1>w, GoToType, Places DEF WriteFile, ObjectInv, memory, Writing
<1>2. ASSUME NEW a \in Actors, WriteCopy(a) PROVE ObjectInv'
  <2>1. pc[a] = "copy" /\ UNCHANGED <<live, twins>>
    BY <1>2 DEF WriteCopy, memory
  <2>2. at[a] # 0 /\ live # 0
    BY <1>w, <2>1 DEF Writing
  <2>3. CASE Rest(a)
    BY <2>1, <2>2, <2>3, RestType DEF ObjectInv, Writing
  <2>4. CASE GoTo(a, then[a]) /\ UNCHANGED at
    <3>1. then[a] \in PlacesOf[a]
      BY Places DEF TypeOK
    <3> QED
      BY <2>1, <2>2, <2>4, <3>1, GoToType DEF ObjectInv
  <2> QED
    BY <1>2, <2>3, <2>4 DEF WriteCopy
<1>3. ASSUME NEW x \in inserts, Insert(x) PROVE ObjectInv'
  BY <1>3 DEF Insert, ObjectInv, memory, places
<1>4. ASSUME NEW e \in Asks, Ask(e) PROVE ObjectInv'
  <2>1. UNCHANGED <<live, twins>>
    BY <1>4 DEF Ask, memory, history
  <2>2. CASE live # 0 /\ GoTo("request", "do") /\ at' = [at EXCEPT !["request"] = live]
    BY <1>0, <2>1, <2>2, GoToType, Places DEF ObjectInv, TypeOK
  <2>3. CASE GoTo("request", "store") /\ UNCHANGED at
    BY <1>0, <2>1, <2>3, GoToType, Places DEF ObjectInv, Writing
  <2> QED
    BY <1>4, <2>2, <2>3 DEF Ask
<1>5. ASSUME StoreAsked PROVE ObjectInv'
  <2>1. Store(got["request"]) /\ got["request"] \in Rows
    BY <1>0, <1>5 DEF StoreAsked, TypeOK
  <2>2. /\ live' # 0 /\ (~twins' => live = 0) /\ live' = Len(objs) + 1
    BY <2>1, StoreFacts
  <2>3. pc'["request"] = "do" /\ \A b \in Actors : b # "request" => pc'[b] = pc[b]
    BY <1>0, <1>5, GoToType, Places DEF StoreAsked
  <2>4. at'["request"] = live' /\ \A b \in Actors : b # "request" => at'[b] = at[b]
    BY <1>0, <1>5, <2>2 DEF StoreAsked, TypeOK
  <2> QED
    BY <2>2, <2>3, <2>4 DEF ObjectInv, Writing
<1>6. ASSUME HydrateFile PROVE ObjectInv'
  <2>1. pc'["boot"] \in {"storeFile", "query"}
        /\ \A b \in Actors : b # "boot" => pc'[b] = pc[b]
    BY <1>0, <1>6, GoToType, Places DEF HydrateFile
  <2> QED
    BY <1>0, <1>6, <2>1 DEF HydrateFile, ObjectInv, memory, history, Writing
<1>7. ASSUME StoreFile \/ StoreCopy PROVE ObjectInv'
  <2>1. Store(got["boot"]) /\ got["boot"] \in Rows /\ at' = at
    BY <1>0, <1>7 DEF StoreFile, StoreCopy, TypeOK
  <2>2. live' # 0 /\ (~twins' => live = 0)
    BY <2>1, StoreFacts
  <2>3. pc'["boot"] \in {"query", "recover"}
        /\ \A b \in Actors : b # "boot" => pc'[b] = pc[b]
    BY <1>0, <1>7, GoToType, Places DEF StoreFile, StoreCopy
  <2> QED
    BY <1>0, <2>1, <2>2, <2>3 DEF ObjectInv, Writing
<1>8. ASSUME HydrateCopy PROVE ObjectInv'
  <2>1. pc'["boot"] \in {"storeCopy", "recover"}
        /\ \A b \in Actors : b # "boot" => pc'[b] = pc[b]
    BY <1>0, <1>8, GoToType, Places DEF HydrateCopy
  <2> QED
    BY <1>0, <1>8, <2>1 DEF HydrateCopy, ObjectInv, memory, history, Writing
<1>9. ASSUME Recover PROVE ObjectInv'
  <2>1. UNCHANGED <<live, twins>>
    BY <1>9 DEF Recover, history
  <2>2. CASE /\ live # 0 /\ at' = [at EXCEPT !["boot"] = live] /\ GoTo("boot", "file")
    BY <1>0, <2>1, <2>2, GoToType, Places DEF ObjectInv, TypeOK, Writing
  <2>3. CASE GoTo("boot", "dispatch") /\ UNCHANGED at
    BY <1>0, <2>1, <2>3, GoToType, Places DEF ObjectInv, Writing
  <2> QED
    BY <1>9, <2>2, <2>3 DEF Recover
<1>10. ASSUME NEW a \in {"request", "boot"}, NEW p \in {"idle", "up"}, p \in PlacesOf[a],
              Kick(a, p), live # 0, UNCHANGED <<live, twins>>
       PROVE  ObjectInv'
  BY <1>0, <1>10, KickType DEF ObjectInv, Writing
<1>11. ASSUME Dispatch PROVE ObjectInv'
  <2>1. UNCHANGED <<live, twins>>
    BY <1>11 DEF Dispatch, memory
  <2>2. CASE live # 0 /\ Kick("boot", "up")
    BY <1>10, <2>1, <2>2, Places
  <2>3. CASE GoTo("boot", "up") /\ at' = [at EXCEPT !["boot"] = 0]
    BY <1>0, <2>1, <2>3, GoToType, Places DEF ObjectInv, TypeOK, Writing
  <2> QED
    BY <1>11, <2>2, <2>3 DEF Dispatch
<1>12. ASSUME RetryKick PROVE ObjectInv'
  <2>1. live # 0 /\ UNCHANGED <<live, twins>>
    BY <1>0, <1>12 DEF RetryKick, ObjectInv, memory
  <2> QED
    BY <1>10, <1>12, <2>1, Places DEF RetryKick
<1>13. ASSUME NEW a \in Actors, Rest(a), UNCHANGED <<live, twins>> PROVE ObjectInv'
  BY <1>0, <1>13, RestType DEF ObjectInv, Writing
<1>14. ASSUME NEW a \in Actors, at[a] # 0, GoTo(a, "file"), UNCHANGED <<at, live, twins>>
       PROVE  ObjectInv'
  <2>1. pc'[a] = "file" /\ \A b \in Actors : b # a => pc'[b] = pc[b]
    BY <1>14, GoToType, Places DEF Writing
  <2> QED
    BY <1>14, <2>1 DEF ObjectInv
<1>15. ASSUME Cancel \/ Retry \/ Look PROVE ObjectInv'
  <2>1. at["request"] # 0 /\ UNCHANGED <<live, twins>>
    BY <1>0, <1>15 DEF Cancel, Retry, Look, ObjectInv, history
  <2>2. \/ Rest("request")
        \/ GoTo("request", "file") /\ UNCHANGED at
    BY <1>15 DEF Cancel, Retry, Look, Change
  <2> QED
    BY <1>0, <1>13, <1>14, <2>1, <2>2
<1>16. ASSUME Start PROVE ObjectInv'
  <2>1. at["proc"] # 0 /\ UNCHANGED <<live, twins>>
    BY <1>0, <1>16 DEF Start, ObjectInv, history
  <2>2. \/ Rest("proc")
        \/ GoTo("proc", "file") /\ UNCHANGED at
    BY <1>16 DEF Start, Change
  <2> QED
    BY <1>0, <1>13, <1>14, <2>1, <2>2
<1>17. ASSUME Box PROVE ObjectInv'
  <2>1. at["proc"] # 0
    BY <1>0, <1>17 DEF Box, ObjectInv
  <2> QED
    BY <1>0, <1>14, <1>17, <2>1 DEF Box
<1>18. ASSUME Post PROVE ObjectInv'
  <2>1. live # 0
    BY <1>0, <1>18 DEF Post, ObjectInv
  <2>2. pc'["proc"] = "end" /\ \A b \in Actors : b # "proc" => pc'[b] = pc[b]
    BY <1>0, <1>18, GoToType, Places DEF Post
  <2> QED
    BY <1>0, <1>18, <2>1, <2>2 DEF Post, ObjectInv, Writing
<1>19. ASSUME Finish PROVE ObjectInv'
  <2>1. live # 0 /\ UNCHANGED <<live, twins>>
    BY <1>0, <1>19 DEF Finish, ObjectInv, history
  <2>2. at'["proc"] = live /\ \A b \in Actors : b # "proc" => at'[b] = at[b]
    BY <1>0, <1>19 DEF Finish, TypeOK
  <2>3. pc'["proc"] \in {"leave", "file"} /\ \A b \in Actors : b # "proc" => pc'[b] = pc[b]
    BY <1>0, <1>19, GoToType, Places DEF Finish, Writing
  <2> QED
    BY <2>1, <2>2, <2>3 DEF ObjectInv, Writing
<1>20. ASSUME Leave PROVE ObjectInv'
  BY <1>0, <1>13, <1>20 DEF Leave, memory, history
<1>21. ASSUME Crash PROVE ObjectInv'
  BY <1>0, <1>21 DEF Crash, ObjectInv, Writing
<1>22. ASSUME UNCHANGED vars PROVE ObjectInv'
  BY <1>22 DEF vars, memory, places, history, ObjectInv
<1> QED
  BY <1>1, <1>2, <1>3, <1>4, <1>5, <1>6, <1>7, <1>8, <1>9, <1>11, <1>12, <1>15, <1>16,
     <1>17, <1>18, <1>19, <1>20, <1>21, <1>22
  DEF Next, Hydrate, Request, Processor, Persist

(* Rows, copies, places and times are of their kinds, and who works on the *)
(* row has an object of this process.                                      *)
THEOREM TypeCorrect == Spec => [](TypeOK /\ ObjectInv)
<1>1. Init => TypeOK
  <2>1. Init => objs \in Seq(Rows) /\ live \in 0..Len(objs) /\ Len(objs) = 1
    BY RowKinds DEF Init
  <2>2. Init => at \in [Actors -> 0..Len(objs)]
    BY <2>1 DEF Init, Actors
  <2>3. Init => DOMAIN pc = Actors /\ \A a \in Actors : pc[a] \in PlacesOf[a]
    BY Places DEF Init, Writing
  <2>4. Init => DOMAIN then = Actors /\ \A a \in Actors : then[a] \in NextOf[a]
    BY Places DEF Init
  <2>5. Init => got \in [Actors -> Rows] /\ file \in Rows
    BY RowKinds DEF Init
  <2>6. Init => /\ log \in Nat /\ clock \in Nat /\ inserts = {} /\ table = {}
                /\ ask \in Asks /\ made \in Nat /\ heard \in Nat
                /\ ended \in Terminal \cup {NoEnd}
    BY DEF Init, Asks
  <2>7. Init => twins \in BOOLEAN /\ missed \in BOOLEAN /\ gap \in BOOLEAN
    BY Zenon DEF Init
  <2>8. Init => budget \in [Events -> Nat]
    BY JobStoreAssumption DEF Init
  <2> QED
    BY <2>1, <2>2, <2>3, <2>4, <2>5, <2>6, <2>7, <2>8 DEF TypeOK
<1>2. Init => ObjectInv
  BY DEF Init, ObjectInv, Writing, Actors
<1> QED
  BY <1>1, <1>2, TypeNext, ObjectNext, PTL DEF Spec
-----------------------------------------------------------------------------
(* What the helpers make of a row. *)

LEMMA Finalized ==
  ASSUME NEW r \in Rows
  PROVE  LET f == finalizeJobEvidence(r)
         IN  /\ f.status = r.status /\ f.fin = r.fin /\ f.posts = r.posts /\ f.tail = r.tail
             /\ Complete(f)
  BY DEF finalizeJobEvidence, Rows, Complete

LEMMA Evidenced ==
  ASSUME NEW r \in Rows
  PROVE  LET f == evidenceFromJob(r)
         IN  /\ f.status = r.status /\ f.fin = r.fin /\ f.posts = r.posts /\ f.tail = r.tail
             /\ Complete(r) => Complete(f)
  BY Finalized DEF evidenceFromJob

LEMMA Appended ==
  ASSUME NEW r \in Rows
  PROVE  LET f == appendEvidencePost(r)
         IN  /\ f.status = r.status /\ f.fin = r.fin /\ f.tail = r.tail
             /\ f.posts = r.posts + 1
             /\ r.status # "completed" => Complete(f)
  BY DEF appendEvidencePost, Rows, Complete

LEMMA Snapped ==
  ASSUME NEW r \in Rows, NEW n
  PROVE  LET f == applyLiveSummarySnap(r, n)
         IN  /\ f.status = r.status /\ f.fin = r.fin /\ f.posts = r.posts /\ f.tail = n
             /\ Complete(r) => Complete(f)
  BY DEF applyLiveSummarySnap, Rows, Complete

LEMMA Restatused ==
  ASSUME NEW r \in Rows, NEW s
  PROVE  LET f == [r EXCEPT !.status = s]
         IN  /\ f.status = s /\ f.fin = r.fin /\ f.posts = r.posts /\ f.tail = r.tail
             /\ s # "completed" => Complete(f)
  BY DEF Rows, Complete

-----------------------------------------------------------------------------
(* The ways a step changes the row: which object, and what of it. *)

Keeps(r, s) == s.status = r.status /\ s.fin = r.fin

(* A step that gives its object another status: a cancel, a retry, a start,*)
(* an end or a recovery.  It goes on to write the file.                    *)
Decides(a, k) ==
  LET r == objs[k]
      s == objs'[k]
  IN  /\ k # 0 /\ k \in 1..Len(objs) /\ Len(objs') = Len(objs)
      /\ pc'[a] = "file"
      /\ s.posts = r.posts /\ s.tail = r.tail
      /\ UNCHANGED <<live, file, log, inserts, table, got, made, heard, twins, gap>>
      /\ \/ s.status \in Active /\ s.fin <= r.fin /\ clock' = clock
         \/ s.status \in Terminal /\ s.fin = clock + 1 /\ clock' = clock + 1
      /\ \A i \in 1..Len(objs) : i # k => objs'[i] = objs[i]
      /\ \A b \in Actors : b # a => pc'[b] = pc[b] /\ then'[b] = then[b]

LEMMA CancelDecides ==
  ASSUME TypeOK, ObjectInv, Cancel
  PROVE  \/ /\ Decides("request", at["request"]) /\ at' = at /\ ended' = ended
            /\ objs[at["request"]].status \in Active
            /\ objs'[at["request"]].status = "cancelled"
         \/ /\ Rest("request") /\ UNCHANGED <<objs, clock, then>>
<1>0. "request" \in Actors /\ clock + 1 \in Nat
  BY Places DEF TypeOK
<1>1. /\ at["request"] # 0 /\ at["request"] \in 1..Len(objs)
      /\ row("request") \in Rows /\ row("request") = objs[at["request"]]
  BY <1>0, ObjectFacts DEF Cancel, ObjectInv, row
<1>2. CASE /\ row("request").status \in Active
           /\ Change("request", [row("request") EXCEPT !.status = "cancelled", !.fin = clock + 1],
                     "idle")
           /\ clock' = clock + 1 /\ UNCHANGED at
  <2> DEFINE new == [row("request") EXCEPT !.status = "cancelled", !.fin = clock + 1]
  <2>1. new \in Rows
    BY <1>0, <1>1, RowStatus, RowStamp DEF Statuses, Terminal
  <2>2. /\ new.status = "cancelled" /\ new.fin = clock + 1
        /\ new.posts = row("request").posts /\ new.tail = row("request").tail
    BY <1>1 DEF Rows
  <2> HIDE DEF new
  <2>3. /\ objs'[at["request"]] = new /\ Len(objs') = Len(objs) /\ pc'["request"] = "file"
        /\ \A i \in 1..Len(objs) : i # at["request"] => objs'[i] = objs[i]
        /\ \A b \in Actors : b # "request" => pc'[b] = pc[b] /\ then'[b] = then[b]
    BY <1>0, <1>1, <1>2, <2>1, ChangeType, Places DEF new
  <2> QED
    BY <1>1, <1>2, <2>2, <2>3 DEF Cancel, Decides, history, Terminal
<1> QED
  BY <1>2 DEF Cancel

LEMMA RetryDecides ==
  ASSUME TypeOK, ObjectInv, Retry
  PROVE  /\ Decides("request", at["request"]) /\ at' = at
         /\ objs'[at["request"]].status = "queued" /\ ended' = NoEnd
<1>0. "request" \in Actors /\ 0 \in Nat
  BY Places
<1>1. /\ at["request"] # 0 /\ at["request"] \in 1..Len(objs)
      /\ row("request") \in Rows /\ row("request") = objs[at["request"]]
  BY <1>0, ObjectFacts DEF Retry, ObjectInv, row
<1> DEFINE new == [row("request") EXCEPT !.status = "queued", !.fin = 0]
<1>2. new \in Rows /\ 0 <= row("request").fin
  <2>1. "queued" \in Statuses /\ row("request").fin \in Nat
    BY <1>1 DEF Statuses, Active, Rows
  <2>2. new \in Rows
    BY <1>1, <2>1 DEF Rows
  <2> QED
    BY <2>1, <2>2
<1>3. /\ new.status = "queued" /\ new.fin = 0
      /\ new.posts = row("request").posts /\ new.tail = row("request").tail
  BY <1>1 DEF Rows
<1>4. Change("request", new, "kick")
  BY DEF Retry
<1> HIDE DEF new
<1>5. /\ objs'[at["request"]] = new /\ Len(objs') = Len(objs) /\ pc'["request"] = "file"
      /\ \A i \in 1..Len(objs) : i # at["request"] => objs'[i] = objs[i]
      /\ \A b \in Actors : b # "request" => pc'[b] = pc[b] /\ then'[b] = then[b]
  BY <1>0, <1>1, <1>2, <1>4, ChangeType, Places
<1> QED
  BY <1>1, <1>2, <1>3, <1>5 DEF Retry, Decides, Active, copies

LEMMA StartDecides ==
  ASSUME TypeOK, ObjectInv, Start
  PROVE  \/ /\ Decides("proc", at["proc"]) /\ at' = at /\ ended' = ended
            /\ objs[at["proc"]].status \notin Terminal
            /\ objs'[at["proc"]].status = "running"
         \/ /\ Rest("proc") /\ UNCHANGED <<objs, then>>
<1>0. "proc" \in Actors
  BY Places
<1>1. /\ at["proc"] # 0 /\ at["proc"] \in 1..Len(objs)
      /\ row("proc") \in Rows /\ row("proc") = objs[at["proc"]]
  BY <1>0, ObjectFacts DEF Start, ObjectInv, row
<1>2. CASE /\ row("proc").status \notin Terminal
           /\ Change("proc", [row("proc") EXCEPT !.status = "running"], "agent")
           /\ UNCHANGED at
  <2> DEFINE new == [row("proc") EXCEPT !.status = "running"]
  <2>1. new \in Rows /\ row("proc").fin <= row("proc").fin
    BY <1>1, RowStatus DEF Statuses, Active, Rows
  <2>2. /\ new.status = "running" /\ new.fin = row("proc").fin
        /\ new.posts = row("proc").posts /\ new.tail = row("proc").tail
    BY <1>1 DEF Rows
  <2> HIDE DEF new
  <2>3. /\ objs'[at["proc"]] = new /\ Len(objs') = Len(objs) /\ pc'["proc"] = "file"
        /\ \A i \in 1..Len(objs) : i # at["proc"] => objs'[i] = objs[i]
        /\ \A b \in Actors : b # "proc" => pc'[b] = pc[b] /\ then'[b] = then[b]
    BY <1>0, <1>1, <1>2, <2>1, ChangeType, Places DEF new
  <2> QED
    BY <1>1, <1>2, <2>1, <2>2, <2>3 DEF Start, Decides, history, Active, copies
<1> QED
  BY <1>2 DEF Start

LEMMA RecoverDecides ==
  ASSUME TypeOK, ObjectInv, Recover
  PROVE  \/ /\ Decides("boot", live) /\ live # 0 /\ ended' = ended
            /\ objs[live].status = "running" /\ objs'[live].status = "queued"
            /\ at' = [at EXCEPT !["boot"] = live]
         \/ /\ GoTo("boot", "dispatch") /\ UNCHANGED <<objs, at, then>>
<1>0. "boot" \in Actors
  BY Places
<1>1. CASE /\ live # 0 /\ objs[live].status = "running"
           /\ objs' = [objs EXCEPT ![live].status = "queued"]
           /\ at' = [at EXCEPT !["boot"] = live] /\ GoTo("boot", "file")
           /\ then' = [then EXCEPT !["boot"] = "dispatch"]
  <2>1. live \in 1..Len(objs) /\ objs[live] \in Rows
    BY <1>1, ObjectFacts
  <2> DEFINE new == [objs[live] EXCEPT !.status = "queued"]
  <2>2. new \in Rows /\ objs[live].fin <= objs[live].fin
    BY <2>1, RowStatus DEF Statuses, Active, Rows
  <2>3. /\ new.status = "queued" /\ new.fin = objs[live].fin
        /\ new.posts = objs[live].posts /\ new.tail = objs[live].tail
    BY <2>1, Restatused
  <2>4. objs' = [objs EXCEPT ![live] = new]
    BY <1>1
  <2> HIDE DEF new
  <2>5. /\ objs'[live] = new /\ Len(objs') = Len(objs)
        /\ \A i \in 1..Len(objs) : i # live => objs'[i] = objs[i]
    BY <2>1, <2>2, <2>4, Rewrite
  <2>6. /\ pc'["boot"] = "file"
        /\ \A b \in Actors : b # "boot" => pc'[b] = pc[b] /\ then'[b] = then[b]
    BY <1>0, <1>1, GoToType, Places DEF Writing, TypeOK
  <2> QED
    BY <1>1, <2>1, <2>2, <2>3, <2>5, <2>6 DEF Recover, Decides, history, Active, copies
<1> QED
  BY <1>1 DEF Recover, stuck

LEMMA FinishDecides ==
  ASSUME TypeOK, ObjectInv, Finish
  PROVE  /\ pc["proc"] = "end" /\ live # 0 /\ ended' = ended
         /\ at' = [at EXCEPT !["proc"] = live]
         /\ \/ /\ Decides("proc", live) /\ then'["proc"] = "leave"
               /\ objs[live].status # "cancelled"
               /\ objs'[live].status = "completed" /\ Complete(objs'[live])
            \/ /\ GoTo("proc", "leave") /\ UNCHANGED <<objs, clock, then>>
<1>0. "proc" \in Actors /\ clock + 1 \in Nat
  BY Places DEF TypeOK
<1>1. live # 0 /\ live \in 1..Len(objs) /\ objs[live] \in Rows
  BY ObjectFacts DEF Finish, ObjectInv
<1>2. CASE /\ objs[live].status # "cancelled"
           /\ objs' = [objs EXCEPT ![live] =
                         finalizeJobEvidence([@ EXCEPT !.status = "completed", !.fin = clock + 1])]
           /\ GoTo("proc", "file") /\ then' = [then EXCEPT !["proc"] = "leave"]
           /\ clock' = clock + 1
  <2> DEFINE mid == [objs[live] EXCEPT !.status = "completed", !.fin = clock + 1]
             new == finalizeJobEvidence(mid)
  <2>1. mid \in Rows
    BY <1>0, <1>1, RowStatus, RowStamp DEF Statuses, Terminal
  <2>2. /\ mid.status = "completed" /\ mid.fin = clock + 1
        /\ mid.posts = objs[live].posts /\ mid.tail = objs[live].tail
    BY <1>1 DEF Rows
  <2>3. objs' = [objs EXCEPT ![live] = new]
    BY <1>2
  <2> HIDE DEF mid
  <2>4. /\ new \in Rows /\ new.status = "completed" /\ new.fin = clock + 1
        /\ new.posts = objs[live].posts /\ new.tail = objs[live].tail /\ Complete(new)
    BY <2>1, <2>2, RowEvidence, Finalized
  <2> HIDE DEF new
  <2>5. /\ objs'[live] = new /\ Len(objs') = Len(objs)
        /\ \A i \in 1..Len(objs) : i # live => objs'[i] = objs[i]
    BY <1>1, <2>3, <2>4, Rewrite
  <2>6. /\ pc'["proc"] = "file" /\ then'["proc"] = "leave"
        /\ \A b \in Actors : b # "proc" => pc'[b] = pc[b] /\ then'[b] = then[b]
    BY <1>0, <1>2, GoToType, Places DEF Writing, TypeOK
  <2> QED
    BY <1>1, <1>2, <2>4, <2>5, <2>6 DEF Finish, Decides, history, Terminal
<1> QED
  BY <1>1, <1>2 DEF Finish, stopped, history

(* A step that changes what a row says of the work, not what it is. *)
Annotates(k) ==
  /\ k # 0 /\ k \in 1..Len(objs) /\ Len(objs') = Len(objs)
  /\ objs'[k].status = objs[k].status /\ objs'[k].fin = objs[k].fin
  /\ Complete(objs[k]) => Complete(objs'[k])
  /\ UNCHANGED <<live, file, inserts, table, clock, got, ended, twins, gap>>
  /\ \A i \in 1..Len(objs) : i # k => objs'[i] = objs[i]

LEMMA LookAnnotates ==
  ASSUME TypeOK, ObjectInv, Look
  PROVE  /\ Annotates(at["request"]) /\ Rest("request") /\ UNCHANGED <<made, heard, then>>
         /\ objs'[at["request"]].posts = objs[at["request"]].posts
         /\ objs'[at["request"]].tail = objs[at["request"]].tail
<1>1. /\ at["request"] # 0 /\ at["request"] \in 1..Len(objs)
      /\ objs[at["request"]] \in Rows
  BY Places, ObjectFacts DEF Look, ObjectInv
<1>2. evidenceFromJob(objs[at["request"]]) \in Rows
  BY <1>1, RowEvidence
<1>3. /\ objs'[at["request"]] = evidenceFromJob(objs[at["request"]])
      /\ Len(objs') = Len(objs)
      /\ \A i \in 1..Len(objs) : i # at["request"] => objs'[i] = objs[i]
  BY <1>1, <1>2, Rewrite DEF Look
<1> QED
  BY <1>1, <1>3, Evidenced DEF Look, Annotates, copies, history

LEMMA BoxAnnotates ==
  ASSUME TypeOK, ObjectInv, Box
  PROVE  /\ Annotates(live) /\ live # 0 /\ pc["proc"] = "agent" /\ GoTo("proc", "file")
         /\ then' = [then EXCEPT !["proc"] = "post"] /\ UNCHANGED <<made, at>>
         /\ objs'[live].posts = objs[live].posts /\ objs'[live].tail = heard'
<1>1. live # 0 /\ live \in 1..Len(objs) /\ objs[live] \in Rows
  BY Places, ObjectFacts DEF Box, ObjectInv
<1>2. log' \in Nat /\ heard' = log'
  BY DEF Box, TypeOK
<1>3. applyLiveSummarySnap(objs[live], log') \in Rows
  BY <1>1, <1>2, RowSnapshots
<1>4. /\ Len(objs') = Len(objs) /\ objs'[live] = applyLiveSummarySnap(objs[live], log')
      /\ \A i \in 1..Len(objs) : i # live => objs'[i] = objs[i]
  BY <1>1, <1>3, Rewrite DEF Box
<1> QED
  BY <1>1, <1>2, <1>4, Snapped DEF Box, Annotates, copies

(* No agent works on a completed row. *)
LEMMA PostAnnotates ==
  ASSUME TypeOK, ObjectInv, EvidenceInv, Post
  PROVE  /\ Annotates(at["proc"]) /\ pc["proc"] = "post" /\ GoTo("proc", "end")
         /\ UNCHANGED <<heard, at, then>>
         /\ objs[at["proc"]].status # "completed"
         /\ objs'[at["proc"]].posts = objs[at["proc"]].posts + 1 /\ made' = made + 1
         /\ objs'[at["proc"]].tail = objs[at["proc"]].tail
<1>1. /\ at["proc"] # 0 /\ at["proc"] \in 1..Len(objs) /\ objs[at["proc"]] \in Rows
      /\ objs[at["proc"]].status # "completed"
  BY Places, ObjectFacts DEF Post, ObjectInv, EvidenceInv, AgentAtWork
<1>2. appendEvidencePost(objs[at["proc"]]) \in Rows
  BY <1>1, RowEvidence
<1>3. /\ Len(objs') = Len(objs) /\ objs'[at["proc"]] = appendEvidencePost(objs[at["proc"]])
      /\ \A i \in 1..Len(objs) : i # at["proc"] => objs'[i] = objs[i]
  BY <1>1, <1>2, Rewrite DEF Post
<1> QED
  BY <1>1, <1>3, Appended DEF Post, Annotates, copies

(* The steps that leave rows, file and copies alone. *)
Moves == UNCHANGED <<objs, live, file, inserts, table, clock, made, heard, ended, twins, gap>>

LEMMA OnlyMoves ==
  ASSUME \/ \E e \in Asks : Ask(e)
         \/ HydrateFile \/ HydrateCopy \/ Dispatch \/ RetryKick \/ Leave \/ UNCHANGED vars
  PROVE  Moves
<1>1. CASE \E e \in Asks : Ask(e)
  BY <1>1 DEF Ask, Moves, memory, copies, history
<1>2. CASE HydrateFile \/ HydrateCopy
  BY <1>2 DEF HydrateFile, HydrateCopy, Moves, memory, copies, history
<1>3. CASE Dispatch \/ RetryKick
  BY <1>3 DEF Dispatch, RetryKick, Moves, memory, copies
<1>4. CASE Leave
  BY <1>4 DEF Leave, Moves, memory, copies, history
<1>5. CASE UNCHANGED vars
  BY <1>5 DEF vars, Moves, memory, copies, history
<1> QED
  BY <1>1, <1>2, <1>3, <1>4, <1>5

-----------------------------------------------------------------------------
(* What was read is on file until somebody has stored it; an end on file   *)
(* is the end of the row.                                                  *)

LEMMA ReadNext ==
  ASSUME TypeOK, ObjectInv, ReadInv, [Next]_vars
  PROVE  ReadInv'
<1>0. /\ "request" \in Actors /\ "proc" \in Actors /\ "boot" \in Actors
      /\ \A a \in Actors : a \in {"request", "proc", "boot"}
  BY Places
<1>l. live = 0 => /\ \A a \in Actors : at[a] = 0
                  /\ \A a \in Actors : pc[a] \notin Writing
                  /\ pc["request"] \notin {"do", "kick"}
                  /\ pc["proc"] \notin {"gate", "agent", "post", "end", "leave"}
  BY <1>0 DEF ObjectInv
<1>1. ASSUME NEW a \in Actors, WriteFile(a) \/ WriteCopy(a) PROVE ReadInv'
  BY <1>1, <1>l DEF WriteFile, WriteCopy, ReadInv, memory, Writing
<1>2. ASSUME NEW x \in inserts, Insert(x) PROVE ReadInv'
  BY <1>2 DEF Insert, ReadInv, memory, places
<1>3. ASSUME NEW e \in Asks, Ask(e) PROVE ReadInv'
  <2>1. Moves
    BY <1>3, OnlyMoves
  <2>2. CASE live = 0
    <3>1. GoTo("request", "store") /\ got' = [got EXCEPT !["request"] = file]
      BY <1>3, <2>2 DEF Ask
    <3>2. /\ pc'["request"] = "store" /\ pc'["boot"] = pc["boot"]
          /\ got'["request"] = file /\ got'["boot"] = got["boot"]
      BY <1>0, <3>1, GoToType, Places DEF TypeOK
    <3> QED
      BY <2>1, <3>2 DEF ReadInv, Moves
  <2> QED
    BY <2>1, <2>2 DEF ReadInv, Moves
<1>4. ASSUME StoreAsked \/ StoreFile \/ StoreCopy PROVE ReadInv'
  <2>1. \E r \in Rows : Store(r)
    BY <1>0, <1>4 DEF StoreAsked, StoreFile, StoreCopy, TypeOK
  <2>2. live' # 0
    BY <2>1, StoreFacts
  <2> QED
    BY <2>2 DEF ReadInv
<1>5. ASSUME HydrateFile PROVE ReadInv'
  <2>1. Moves
    BY <1>5, OnlyMoves
  <2>2. CASE live = 0 /\ file # NoRow
    <3>1. /\ pc'["boot"] = "storeFile" /\ pc'["request"] = pc["request"]
          /\ got'["boot"] = file /\ got'["request"] = got["request"]
      BY <1>0, <1>5, <2>2, GoToType, Places DEF HydrateFile, TypeOK
    <3> QED
      BY <2>1, <3>1 DEF ReadInv, Moves
  <2>3. CASE ~(live = 0 /\ file # NoRow)
    <3>1. pc'["boot"] = "query" /\ pc'["request"] = pc["request"] /\ got' = got
      BY <1>0, <1>5, <2>3, GoToType, Places DEF HydrateFile, TypeOK
    <3> QED
      BY <2>1, <2>3, <3>1 DEF ReadInv, Moves
  <2> QED
    BY <2>2, <2>3
<1>6. ASSUME HydrateCopy PROVE ReadInv'
  <2>1. Moves /\ pc["boot"] = "query"
    BY <1>6, OnlyMoves DEF HydrateCopy
  <2>2. pc'["boot"] \in {"storeCopy", "recover"} /\ pc'["request"] = pc["request"]
    BY <1>0, <1>6, GoToType, Places DEF HydrateCopy
  <2>3. got'["request"] = got["request"]
    BY <1>0, <1>6 DEF HydrateCopy, TypeOK
  <2> QED
    BY <2>1, <2>2, <2>3 DEF ReadInv, Moves
<1>7. ASSUME Recover PROVE ReadInv'
  <2>1. CASE live # 0
    BY <1>7, <2>1 DEF Recover, ReadInv
  <2>2. CASE live = 0
    <3>1. /\ GoTo("boot", "dispatch")
          /\ UNCHANGED <<live, file, got, ended, gap>>
      BY <1>7, <2>2 DEF Recover, history
    <3>2. pc'["boot"] = "dispatch" /\ pc'["request"] = pc["request"]
      BY <1>0, <3>1, GoToType, Places
    <3> QED
      BY <3>1, <3>2 DEF ReadInv
  <2> QED
    BY <2>1, <2>2
<1>8. ASSUME Dispatch PROVE ReadInv'
  <2>1. Moves /\ got' = got
    BY <1>8, OnlyMoves DEF Dispatch
  <2>2. CASE live = 0
    <3>1. GoTo("boot", "up")
      BY <1>8, <2>2 DEF Dispatch
    <3>2. pc'["boot"] = "up" /\ pc'["request"] = pc["request"]
      BY <1>0, <3>1, GoToType, Places
    <3> QED
      BY <2>1, <3>2 DEF ReadInv, Moves
  <2> QED
    BY <2>1, <2>2 DEF ReadInv, Moves
<1>9. ASSUME Cancel \/ Retry \/ RetryKick \/ Look PROVE ReadInv'
  <2>1. live # 0 /\ live' = live
    BY <1>l, <1>9 DEF Cancel, Retry, RetryKick, Look, memory
  <2> QED
    BY <2>1 DEF ReadInv
<1>10. ASSUME Processor PROVE ReadInv'
  <2>1. live # 0 /\ live' = live
    BY <1>l, <1>10 DEF Processor, Start, Box, Post, Finish, Leave, memory
  <2> QED
    BY <2>1 DEF ReadInv
<1>11. ASSUME Crash PROVE ReadInv'
  <2>1. NoRow.status = "absent" /\ EndOf(NoRow) = NoEnd
    BY RowKinds DEF EndOf, Terminal
  <2>2. pc'["request"] = "idle" /\ pc'["boot"] = "files"
    BY <1>0, <1>11 DEF Crash
  <2>3. ended' = EndOf(file') /\ gap'
    BY <1>11, <2>1 DEF Crash
  <2> QED
    BY <2>2, <2>3 DEF ReadInv
<1>12. ASSUME UNCHANGED vars PROVE ReadInv'
  BY <1>12 DEF vars, memory, places, history, ReadInv
<1> QED
  BY <1>1, <1>2, <1>3, <1>4, <1>5, <1>6, <1>7, <1>8, <1>9, <1>10, <1>11, <1>12
  DEF Next, Hydrate, Request, Persist

LEMMA OneObject ==
  ASSUME ObjectInv, ~twins, NEW a \in Actors, at[a] # 0
  PROVE  at[a] = live
  BY DEF ObjectInv

LEMMA EndNext ==
  ASSUME TypeOK, ObjectInv, ReadInv, EvidenceInv, EndIsFinal, [Next]_vars
  PROVE  EndIsFinal'
<1>0. /\ "request" \in Actors /\ "proc" \in Actors /\ "boot" \in Actors
      /\ ended \in Terminal \cup {NoEnd}
      /\ \A s : s \in Active => s \notin Terminal
  BY Places DEF TypeOK, Active, Terminal
<1>1. ASSUME NEW a \in Actors, WriteFile(a) PROVE EndIsFinal'
  <2>1. UNCHANGED <<objs, live, twins>> /\ at[a] # 0
    BY <1>1 DEF WriteFile, memory, ObjectInv, Writing
  <2>2. ended' \in {ended, EndOf(objs[at[a]])}
    BY <1>1 DEF WriteFile, persistSCMJobFile, row
  <2> QED
    BY <2>1, <2>2, OneObject DEF EndIsFinal, EndOf
<1>2. ASSUME NEW a \in Actors, WriteCopy(a) PROVE EndIsFinal'
  BY <1>2 DEF WriteCopy, EndIsFinal, memory
<1>3. ASSUME NEW x \in inserts, Insert(x) PROVE EndIsFinal'
  BY <1>3 DEF Insert, EndIsFinal, memory
<1>4. ASSUME Moves PROVE EndIsFinal'
  BY <1>4 DEF Moves, EndIsFinal
<1>5. ASSUME StoreAsked PROVE EndIsFinal'
  <2>1. /\ Store(got["request"]) /\ got["request"] \in Rows /\ pc["request"] = "store"
        /\ ended' = ended
    BY <1>0, <1>5 DEF StoreAsked, TypeOK
  <2>2. objs'[live'] = got["request"] /\ (~twins' => live = 0)
    BY <2>1, StoreFacts
  <2> QED
    BY <2>1, <2>2 DEF EndIsFinal, ReadInv, EndOf
<1>6. ASSUME StoreFile PROVE EndIsFinal'
  <2>1. /\ Store(got["boot"]) /\ got["boot"] \in Rows /\ pc["boot"] = "storeFile"
        /\ ended' = ended
    BY <1>0, <1>6 DEF StoreFile, TypeOK
  <2>2. objs'[live'] = got["boot"] /\ (~twins' => live = 0)
    BY <2>1, StoreFacts
  <2> QED
    BY <2>1, <2>2 DEF EndIsFinal, ReadInv, EndOf
<1>7. ASSUME StoreCopy PROVE EndIsFinal'
  <2>1. /\ Store(got["boot"]) /\ got["boot"] \in Rows /\ pc["boot"] = "storeCopy"
        /\ ended' \in {ended, EndOf(got["boot"])}
    BY <1>0, <1>7 DEF StoreCopy, TypeOK, persistSCMJobFile
  <2>2. objs'[live'] = got["boot"] /\ (~twins' => live = 0)
    BY <2>1, StoreFacts
  <2>3. live = 0 => ended = NoEnd
    BY <2>1, RowKinds DEF ReadInv, EndOf, Terminal
  <2> QED
    BY <2>1, <2>2, <2>3 DEF EndIsFinal, EndOf
<1>8. ASSUME Cancel PROVE EndIsFinal'
  <2>1. CASE /\ Decides("request", at["request"]) /\ ended' = ended
             /\ objs[at["request"]].status \in Active
    BY <1>0, <2>1, OneObject DEF EndIsFinal, Decides
  <2>2. CASE UNCHANGED objs
    BY <1>8, <2>2 DEF Cancel, EndIsFinal, history
  <2> QED
    BY <1>8, <2>1, <2>2, CancelDecides
<1>9. ASSUME Retry PROVE EndIsFinal'
  BY <1>9 DEF Retry, EndIsFinal
<1>10. ASSUME Start PROVE EndIsFinal'
  <2>1. CASE /\ Decides("proc", at["proc"]) /\ ended' = ended
             /\ objs[at["proc"]].status \notin Terminal
    BY <1>0, <2>1, OneObject DEF EndIsFinal, Decides
  <2>2. CASE UNCHANGED objs
    BY <1>10, <2>2 DEF Start, EndIsFinal, history
  <2> QED
    BY <1>10, <2>1, <2>2, StartDecides
<1>11. ASSUME Recover PROVE EndIsFinal'
  <2>1. CASE Decides("boot", live) /\ ended' = ended /\ objs[live].status = "running"
    BY <1>0, <2>1 DEF EndIsFinal, Decides, Terminal
  <2>2. CASE UNCHANGED objs
    BY <1>11, <2>2 DEF Recover, EndIsFinal, history
  <2> QED
    BY <1>11, <2>1, <2>2, RecoverDecides
<1>12. ASSUME Finish PROVE EndIsFinal'
  <2>1. CASE /\ Decides("proc", live) /\ ended' = ended
             /\ objs[live].status # "cancelled" /\ objs'[live].status = "completed"
    BY <1>0, <2>1 DEF EndIsFinal, Decides, Terminal
  <2>2. CASE UNCHANGED objs
    BY <1>12, <2>2 DEF Finish, EndIsFinal, history
  <2> QED
    BY <1>12, <2>1, <2>2, FinishDecides
<1>13. ASSUME NEW k, Annotates(k) PROVE EndIsFinal'
  BY <1>13, ObjectFacts DEF Annotates, EndIsFinal
<1>14. ASSUME Crash PROVE EndIsFinal'
  BY <1>14 DEF Crash, EndIsFinal
<1> QED
  BY <1>1, <1>2, <1>3, <1>4, <1>5, <1>6, <1>7, <1>8, <1>9, <1>10, <1>11, <1>12, <1>13,
     <1>14, OnlyMoves, LookAnnotates, BoxAnnotates, PostAnnotates
  DEF Next, Hydrate, Request, Processor, Persist

-----------------------------------------------------------------------------
(* A completed row has the evidence of its posts. *)

LEMMA EvidenceNext ==
  ASSUME TypeOK, ObjectInv, EvidenceInv, [Next]_vars
  PROVE  EvidenceInv'
<1>0. /\ "request" \in Actors /\ "proc" \in Actors /\ "boot" \in Actors
      /\ \A a \in Actors : a \in {"request", "proc", "boot"}
      /\ \A s : s \in Active => s # "completed" /\ s # "absent"
      /\ \A s : s \in Terminal => s # "absent"
  BY Places DEF Active, Terminal
<1>a. AgentAtWork => at["proc"] # 0 /\ at["proc"] \in 1..Len(objs)
  BY <1>0, ObjectFacts DEF AgentAtWork, ObjectInv
<1>m. ASSUME Moves,
             AgentAtWork' => AgentAtWork /\ at'["proc"] = at["proc"],
             pc'["request"] = "store" => Sound(got'["request"]),
             pc'["boot"] \in {"storeFile", "storeCopy"} => Sound(got'["boot"])
      PROVE  EvidenceInv'
  BY <1>m DEF Moves, EvidenceInv
<1>d. ASSUME NEW a \in Actors, NEW k, Decides(a, k), Sound(objs'[k]),
             Len(objs') = Len(objs),
             AgentAtWork' => /\ k = at["proc"] => objs'[k].status # "completed"
                             /\ k # at["proc"] => AgentAtWork
                             /\ at'["proc"] = at["proc"] /\ at["proc"] \in 1..Len(objs)
      PROVE  EvidenceInv'
  <2>1. \A i \in 1..Len(objs') : Sound(objs'[i])
    BY <1>d DEF Decides, EvidenceInv
  <2>2. AgentAtWork' => objs'[at'["proc"]].status # "completed"
    BY <1>d DEF Decides, EvidenceInv
  <2>3. live # 0 /\ ~twins => made = objs'[live].posts /\ heard = objs'[live].tail
    BY <1>d, ObjectFacts DEF Decides, EvidenceInv
  <2>4. /\ pc'["request"] = "store" => pc["request"] = "store"
        /\ pc'["boot"] \in {"storeFile", "storeCopy"} => pc["boot"] = pc'["boot"]
        /\ UNCHANGED <<file, got, live, made, heard, twins>>
    BY <1>0, <1>d DEF Decides
  <2> QED
    BY <2>1, <2>2, <2>3, <2>4 DEF EvidenceInv
<1>n. ASSUME NEW k, Annotates(k), Len(objs') = Len(objs),
             \A i \in 1..Len(objs) : Complete(objs[i]) => Complete(objs'[i]),
             AgentAtWork' => AgentAtWork /\ at'["proc"] = at["proc"],
             pc'["request"] # "store" \/ pc["request"] = "store",
             pc'["boot"] = pc["boot"],
             live # 0 /\ ~twins => made' = objs'[live].posts /\ heard' = objs'[live].tail
      PROVE  EvidenceInv'
  <2>1. \A i \in 1..Len(objs) : objs'[i].status = objs[i].status
    BY <1>n DEF Annotates
  <2>2. \A i \in 1..Len(objs') : Sound(objs'[i])
    BY <1>n, <2>1 DEF EvidenceInv, Sound
  <2>3. AgentAtWork' => objs'[at'["proc"]].status # "completed"
    BY <1>a, <1>n, <2>1 DEF EvidenceInv
  <2>4. UNCHANGED <<file, got, live, twins>>
    BY <1>n DEF Annotates
  <2> QED
    BY <1>n, <2>2, <2>3, <2>4 DEF EvidenceInv
<1>n2. ASSUME NEW k, Annotates(k)
       PROVE  \A i \in 1..Len(objs) : Complete(objs[i]) => Complete(objs'[i])
  BY <1>n2 DEF Annotates
<1>1. ASSUME NEW a \in Actors, WriteFile(a) PROVE EvidenceInv'
  <2>1. /\ pc[a] = "file" /\ at[a] \in 1..Len(objs)
        /\ UNCHANGED <<objs, live, at, then, got, made, heard, twins>>
    BY <1>1, ObjectFacts DEF WriteFile, ObjectInv, Writing, memory
  <2>2. pc'[a] = "copy" /\ \A b \in Actors : b # a => pc'[b] = pc[b]
    BY <1>1, GoToType, Places DEF WriteFile, Writing
  <2>3. file' = file \/ Sound(file')
    BY <1>1, <2>1 DEF WriteFile, persistSCMJobFile, row, EvidenceInv
  <2>4. /\ AgentAtWork' => AgentAtWork
        /\ pc'["request"] = "store" => pc["request"] = "store"
        /\ pc'["boot"] \in {"storeFile", "storeCopy"} => pc'["boot"] = pc["boot"]
    BY <1>0, <2>1, <2>2 DEF AgentAtWork, Writing
  <2> QED
    BY <2>1, <2>3, <2>4 DEF EvidenceInv
<1>2. ASSUME NEW a \in Actors, WriteCopy(a) PROVE EvidenceInv'
  <2>1. /\ pc[a] = "copy"
        /\ UNCHANGED <<objs, live, file, got, made, heard, twins>>
    BY <1>2 DEF WriteCopy, memory
  <2>2. CASE Rest(a)
    <3>1. /\ pc'[a] = "idle" /\ \A b \in Actors : b # a => pc'[b] = pc[b] /\ at'[b] = at[b]
          /\ \A b \in Actors : b # a => then'[b] = then[b]
      BY <1>2, <2>2, RestType DEF WriteCopy, TypeOK
    <3>2. /\ AgentAtWork' => AgentAtWork /\ at'["proc"] = at["proc"]
          /\ pc'["request"] = "store" => pc["request"] = "store"
          /\ pc'["boot"] \in {"storeFile", "storeCopy"} => pc'["boot"] = pc["boot"]
      BY <1>0, <3>1 DEF AgentAtWork, Writing
    <3> QED
      BY <2>1, <3>2 DEF EvidenceInv
  <2>3. CASE GoTo(a, then[a]) /\ UNCHANGED at
    <3>1. /\ pc'[a] = then[a] /\ \A b \in Actors : b # a => pc'[b] = pc[b]
          /\ then'[a] = "idle" /\ \A b \in Actors : b # a => then'[b] = then[b]
          /\ then[a] \in NextOf[a]
      BY <1>2, <2>3, GoToType, Places DEF WriteCopy, TypeOK
    <3>2. /\ AgentAtWork' => AgentAtWork
          /\ pc'["request"] = "store" => pc["request"] = "store"
          /\ pc'["boot"] \in {"storeFile", "storeCopy"} => pc'["boot"] = pc["boot"]
      BY <1>0, <2>1, <3>1, Places DEF AgentAtWork, Writing
    <3> QED
      BY <2>1, <2>3, <3>2 DEF EvidenceInv
  <2> QED
    BY <1>2, <2>2, <2>3 DEF WriteCopy
<1>3. ASSUME NEW x \in inserts, Insert(x) PROVE EvidenceInv'
  BY <1>3 DEF Insert, EvidenceInv, AgentAtWork, memory, places
<1>4. ASSUME NEW e \in Asks, Ask(e) PROVE EvidenceInv'
  <2>1. Moves /\ then' = then
    BY <1>4, OnlyMoves DEF Ask
  <2>2. pc'["proc"] = pc["proc"] /\ pc'["boot"] = pc["boot"]
    BY <1>0, <1>4, GoToType, Places DEF Ask
  <2>3. at'["proc"] = at["proc"] /\ got'["boot"] = got["boot"]
    BY <1>0, <1>4 DEF Ask, TypeOK
  <2>4. pc'["request"] = "store" => Sound(got'["request"])
    <3>1. CASE GoTo("request", "do")
      BY <1>0, <3>1, GoToType, Places
    <3>2. CASE file # NoRow /\ got' = [got EXCEPT !["request"] = file]
      BY <1>0, <3>2 DEF TypeOK, EvidenceInv
    <3> QED
      BY <1>4, <3>1, <3>2 DEF Ask
  <2> QED
    BY <1>m, <2>1, <2>2, <2>3, <2>4 DEF EvidenceInv, AgentAtWork
<1>5. ASSUME NEW a \in {"request", "boot"}, Store(got[a]), Sound(got[a]),
             got' = [got EXCEPT ![a] = NoRow],
             \A b \in Actors : b # a => pc'[b] = pc[b] /\ at'[b] = at[b],
             pc'[a] \notin {"store", "storeFile", "storeCopy"},
             then' = then, file' = file \/ file' = got[a]
      PROVE  EvidenceInv'
  <2>1. got[a] \in Rows /\ a \in Actors
    BY <1>0, <1>5 DEF TypeOK
  <2>2. /\ Len(objs') = Len(objs) + 1 /\ live' = Len(objs) + 1 /\ objs'[live'] = got[a]
        /\ \A i \in 1..Len(objs) : objs'[i] = objs[i]
    BY <1>5, <2>1, StoreFacts
  <2>3. \A i \in 1..Len(objs') : Sound(objs'[i])
    <3>1. Len(objs) \in Nat
      BY ObjectFacts
    <3>2. \A i \in 1..Len(objs') : i \in 1..Len(objs) \/ i = live'
      BY <2>2, <3>1
    <3> QED
      BY <1>5, <2>2, <3>2 DEF EvidenceInv
  <2>4. AgentAtWork' => objs'[at'["proc"]].status # "completed"
    BY <1>0, <1>5, <1>a, <2>2 DEF AgentAtWork, EvidenceInv
  <2>5. made' = objs'[live'].posts /\ heard' = objs'[live'].tail
    BY <1>5, <2>2 DEF Store
  <2>6. \A b \in Actors : b # a => got'[b] = got[b]
    BY <1>5 DEF TypeOK
  <2>7. /\ pc'["request"] = "store" => a # "request" /\ pc["request"] = "store"
        /\ pc'["boot"] \in {"storeFile", "storeCopy"} => a # "boot" /\ pc["boot"] = pc'["boot"]
    BY <1>0, <1>5
  <2> QED
    BY <1>0, <1>5, <2>3, <2>4, <2>5, <2>6, <2>7 DEF EvidenceInv
<1>6. ASSUME StoreAsked PROVE EvidenceInv'
  <2>1. /\ pc'["request"] = "do" /\ \A b \in Actors : b # "request" => pc'[b] = pc[b]
        /\ \A b \in Actors : b # "request" => at'[b] = at[b]
    BY <1>0, <1>6, GoToType, Places DEF StoreAsked, TypeOK
  <2>2. Sound(got["request"])
    BY <1>6 DEF StoreAsked, EvidenceInv
  <2> QED
    BY <1>5, <1>6, <2>1, <2>2 DEF StoreAsked
<1>7. ASSUME StoreFile \/ StoreCopy PROVE EvidenceInv'
  <2>1. /\ pc'["boot"] \in {"query", "recover"}
        /\ \A b \in Actors : b # "boot" => pc'[b] = pc[b]
    BY <1>0, <1>7, GoToType, Places DEF StoreFile, StoreCopy
  <2>2. Sound(got["boot"])
    BY <1>7 DEF StoreFile, StoreCopy, EvidenceInv
  <2>3. /\ Store(got["boot"]) /\ got' = [got EXCEPT !["boot"] = NoRow]
        /\ UNCHANGED <<at, then>> /\ file' \in {file, got["boot"]}
    BY <1>7 DEF StoreFile, StoreCopy, persistSCMJobFile
  <2> QED
    BY <1>5, <2>1, <2>2, <2>3
<1>8. ASSUME HydrateFile \/ HydrateCopy PROVE EvidenceInv'
  <2>1. Moves /\ at' = at /\ then' = then
    BY <1>8, OnlyMoves DEF HydrateFile, HydrateCopy
  <2>2. pc'["proc"] = pc["proc"] /\ pc'["request"] = pc["request"]
    BY <1>0, <1>8, GoToType, Places DEF HydrateFile, HydrateCopy
  <2>3. got'["request"] = got["request"]
    BY <1>0, <1>8 DEF HydrateFile, HydrateCopy, TypeOK
  <2>4. pc'["boot"] \in {"storeFile", "storeCopy"} => Sound(got'["boot"])
    <3>1. CASE file # NoRow /\ got' = [got EXCEPT !["boot"] = file]
      BY <1>0, <3>1 DEF TypeOK, EvidenceInv
    <3>2. CASE \E x \in answers : got' = [got EXCEPT !["boot"] = scmJobFromCHRow(x)]
      <4>1. PICK x \in answers : got' = [got EXCEPT !["boot"] = scmJobFromCHRow(x)]
        BY <3>2
      <4>2. x.row \in Rows /\ x.row.status \in Active
        BY DEF answers, active, TypeOK, Copies
      <4>3. scmJobFromCHRow(x).status = x.row.status
        BY <4>2 DEF scmJobFromCHRow, Rows
      <4> QED
        BY <1>0, <4>1, <4>2, <4>3 DEF TypeOK, Sound, Complete
    <3>3. CASE GoTo("boot", "query") \/ GoTo("boot", "recover")
      BY <1>0, <3>3, GoToType, Places
    <3> QED
      BY <1>8, <3>1, <3>2, <3>3 DEF HydrateFile, HydrateCopy
  <2> QED
    BY <1>m, <2>1, <2>2, <2>3, <2>4 DEF EvidenceInv, AgentAtWork
<1>9. ASSUME Dispatch PROVE EvidenceInv'
  <2>1. Moves /\ then' = then /\ got' = got
    BY <1>9, OnlyMoves DEF Dispatch
  <2>2. /\ pc'["boot"] = "up" /\ pc'["request"] = pc["request"]
        /\ \/ pc'["proc"] = "gate"
           \/ pc'["proc"] = pc["proc"] /\ at'["proc"] = at["proc"]
    <3>1. CASE Kick("boot", "up")
      BY <1>0, <3>1, KickType, Places
    <3>2. CASE GoTo("boot", "up") /\ at' = [at EXCEPT !["boot"] = 0]
      BY <1>0, <3>2, GoToType, Places DEF TypeOK
    <3> QED
      BY <1>9, <3>1, <3>2 DEF Dispatch
  <2> QED
    BY <1>m, <2>1, <2>2 DEF EvidenceInv, AgentAtWork, Writing
<1>10. ASSUME RetryKick PROVE EvidenceInv'
  <2>1. Moves /\ then' = then /\ got' = got
    BY <1>10, OnlyMoves DEF RetryKick
  <2>2. /\ pc'["request"] = "idle" /\ pc'["boot"] = pc["boot"]
        /\ \/ pc'["proc"] = "gate"
           \/ pc'["proc"] = pc["proc"] /\ at'["proc"] = at["proc"]
    BY <1>0, <1>10, KickType, Places DEF RetryKick
  <2> QED
    BY <1>m, <2>1, <2>2 DEF EvidenceInv, AgentAtWork, Writing
<1>11. ASSUME NEW a \in Actors, Rest(a), Moves, UNCHANGED <<got, then>> PROVE EvidenceInv'
  <2>1. pc'[a] = "idle" /\ \A b \in Actors : b # a => pc'[b] = pc[b] /\ at'[b] = at[b]
    BY <1>11, RestType
  <2>2. /\ AgentAtWork' => AgentAtWork /\ at'["proc"] = at["proc"]
        /\ pc'["request"] = "store" => pc["request"] = "store"
        /\ pc'["boot"] \in {"storeFile", "storeCopy"} => pc'["boot"] = pc["boot"]
    BY <1>0, <1>11, <2>1 DEF AgentAtWork, Writing
  <2> QED
    BY <1>m, <1>11, <2>2 DEF EvidenceInv
<1>12. ASSUME Leave PROVE EvidenceInv'
  BY <1>0, <1>11, <1>12, OnlyMoves DEF Leave
<1>13. ASSUME Cancel PROVE EvidenceInv'
  <2>1. CASE /\ Decides("request", at["request"]) /\ at' = at
             /\ objs'[at["request"]].status = "cancelled"
    <3>1. Sound(objs'[at["request"]])
      BY <2>1 DEF Sound, Complete
    <3>2. AgentAtWork' => AgentAtWork
      BY <1>0, <2>1 DEF Decides, AgentAtWork
    <3> QED
      BY <1>0, <1>a, <1>d, <2>1, <3>1, <3>2 DEF Decides
  <2>2. CASE Rest("request") /\ UNCHANGED <<objs, clock, then>>
    BY <1>0, <1>11, <1>13, <2>2 DEF Cancel, Moves, history
  <2> QED
    BY <1>13, <2>1, <2>2, CancelDecides
<1>14. ASSUME Retry PROVE EvidenceInv'
  <2>1. /\ Decides("request", at["request"]) /\ at' = at
        /\ objs'[at["request"]].status = "queued"
    BY <1>14, RetryDecides
  <2>2. Sound(objs'[at["request"]])
    BY <2>1 DEF Sound, Complete
  <2>3. AgentAtWork' => AgentAtWork
    BY <1>0, <2>1 DEF Decides, AgentAtWork
  <2> QED
    BY <1>0, <1>a, <1>d, <2>1, <2>2, <2>3 DEF Decides
<1>15. ASSUME Look PROVE EvidenceInv'
  <2>1. /\ Annotates(at["request"]) /\ Rest("request") /\ UNCHANGED <<made, heard, then>>
        /\ objs'[at["request"]].posts = objs[at["request"]].posts
        /\ objs'[at["request"]].tail = objs[at["request"]].tail
    BY <1>15, LookAnnotates
  <2>2. /\ pc'["request"] = "idle" /\ pc'["proc"] = pc["proc"] /\ pc'["boot"] = pc["boot"]
        /\ at'["proc"] = at["proc"]
    BY <1>0, <2>1, RestType
  <2>3. live # 0 /\ ~twins => made' = objs'[live].posts /\ heard' = objs'[live].tail
    BY <2>1, ObjectFacts DEF Annotates, EvidenceInv
  <2>4. AgentAtWork' => AgentAtWork
    BY <2>1, <2>2 DEF AgentAtWork
  <2>5. Len(objs') = Len(objs)
    BY <2>1 DEF Annotates
  <2> QED
    BY <1>n, <1>n2, <2>1, <2>2, <2>3, <2>4, <2>5
<1>16. ASSUME Start PROVE EvidenceInv'
  <2>1. CASE /\ Decides("proc", at["proc"]) /\ at' = at
             /\ objs'[at["proc"]].status = "running"
    <3>1. Sound(objs'[at["proc"]])
      BY <2>1 DEF Sound, Complete
    <3> QED
      BY <1>0, <1>d, <2>1, <3>1 DEF Decides
  <2>2. CASE Rest("proc") /\ UNCHANGED <<objs, then>>
    BY <1>0, <1>11, <1>16, <2>2 DEF Start, Moves, copies, history
  <2> QED
    BY <1>16, <2>1, <2>2, StartDecides
<1>17. ASSUME Recover PROVE EvidenceInv'
  <2>1. CASE /\ Decides("boot", live) /\ at' = [at EXCEPT !["boot"] = live]
             /\ objs'[live].status = "queued"
    <3>1. Sound(objs'[live])
      BY <2>1 DEF Sound, Complete
    <3>2. AgentAtWork' => AgentAtWork
      BY <1>0, <2>1 DEF Decides, AgentAtWork
    <3>3. at'["proc"] = at["proc"]
      BY <1>0, <2>1 DEF TypeOK
    <3> QED
      BY <1>0, <1>a, <1>d, <2>1, <3>1, <3>2, <3>3 DEF Decides
  <2>2. CASE GoTo("boot", "dispatch") /\ UNCHANGED <<objs, at, then>>
    <3>1. Moves /\ got' = got
      BY <1>17, <2>2 DEF Recover, Moves, copies, history
    <3>2. /\ pc'["boot"] = "dispatch" /\ pc'["proc"] = pc["proc"]
          /\ pc'["request"] = pc["request"]
      BY <1>0, <2>2, GoToType, Places
    <3> QED
      BY <1>m, <2>2, <3>1, <3>2 DEF EvidenceInv, AgentAtWork
  <2> QED
    BY <1>17, <2>1, <2>2, RecoverDecides
<1>18. ASSUME Finish PROVE EvidenceInv'
  <2>1. CASE /\ Decides("proc", live) /\ then'["proc"] = "leave"
             /\ objs'[live].status = "completed" /\ Complete(objs'[live])
    <3>1. Sound(objs'[live])
      BY <2>1 DEF Sound
    <3>2. ~AgentAtWork'
      BY <2>1 DEF Decides, AgentAtWork
    <3> QED
      BY <1>0, <1>d, <2>1, <3>1, <3>2 DEF Decides
  <2>2. CASE GoTo("proc", "leave") /\ UNCHANGED <<objs, clock, then>>
    <3>1. Moves /\ got' = got
      BY <1>18, <2>2 DEF Finish, Moves, history
    <3>2. /\ pc'["proc"] = "leave" /\ pc'["boot"] = pc["boot"]
          /\ pc'["request"] = pc["request"]
      BY <1>0, <2>2, GoToType, Places
    <3> QED
      BY <1>m, <3>1, <3>2 DEF EvidenceInv, AgentAtWork, Writing
  <2> QED
    BY <1>18, <2>1, <2>2, FinishDecides
<1>19. ASSUME Box PROVE EvidenceInv'
  <2>1. /\ Annotates(live) /\ live # 0 /\ pc["proc"] = "agent" /\ GoTo("proc", "file")
        /\ UNCHANGED <<made, at>>
        /\ objs'[live].posts = objs[live].posts /\ objs'[live].tail = heard'
    BY <1>19, BoxAnnotates
  <2>2. pc'["request"] = pc["request"] /\ pc'["boot"] = pc["boot"]
    BY <1>0, <2>1, GoToType, Places DEF Writing
  <2>3. live # 0 /\ ~twins => made' = objs'[live].posts /\ heard' = objs'[live].tail
    BY <2>1 DEF EvidenceInv
  <2>4. AgentAtWork
    BY <2>1 DEF AgentAtWork
  <2>5. Len(objs') = Len(objs)
    BY <2>1 DEF Annotates
  <2> QED
    BY <1>n, <1>n2, <2>1, <2>2, <2>3, <2>4, <2>5
<1>20. ASSUME Post PROVE EvidenceInv'
  <2>1. /\ Annotates(at["proc"]) /\ pc["proc"] = "post" /\ GoTo("proc", "end")
        /\ UNCHANGED <<heard, at, then>>
        /\ objs'[at["proc"]].posts = objs[at["proc"]].posts + 1 /\ made' = made + 1
        /\ objs'[at["proc"]].tail = objs[at["proc"]].tail
    BY <1>20, PostAnnotates
  <2>2. /\ pc'["request"] = pc["request"] /\ pc'["boot"] = pc["boot"]
        /\ pc'["proc"] = "end"
    BY <1>0, <2>1, GoToType, Places
  <2>3. live # 0 /\ ~twins => made' = objs'[live].posts /\ heard' = objs'[live].tail
    BY <1>0, <2>1, OneObject DEF EvidenceInv, Annotates
  <2>4. ~AgentAtWork'
    BY <2>2 DEF AgentAtWork, Writing
  <2>5. Len(objs') = Len(objs)
    BY <2>1 DEF Annotates
  <2> QED
    BY <1>n, <1>n2, <2>1, <2>2, <2>3, <2>4, <2>5
<1>21. ASSUME Crash PROVE EvidenceInv'
  <2>1. /\ pc'["request"] = "idle" /\ pc'["boot"] = "files" /\ pc'["proc"] = "idle"
        /\ objs' = <<>> /\ live' = 0 /\ file' \in {file, NoRow}
    BY <1>0, <1>21 DEF Crash
  <2>2. \A i \in 1..Len(objs') : Sound(objs'[i])
    BY <2>1, EmptySeq
  <2>3. ~AgentAtWork'
    BY <2>1 DEF AgentAtWork, Writing
  <2> QED
    BY <2>1, <2>2, <2>3 DEF EvidenceInv
<1>22. ASSUME UNCHANGED vars PROVE EvidenceInv'
  BY <1>22 DEF vars, memory, places, history, EvidenceInv, AgentAtWork
<1> QED
  BY <1>1, <1>2, <1>3, <1>4, <1>6, <1>7, <1>8, <1>9, <1>10, <1>12, <1>13,
     <1>14, <1>15, <1>16, <1>17, <1>18, <1>19, <1>20, <1>21, <1>22
  DEF Next, Hydrate, Request, Processor, Persist

-----------------------------------------------------------------------------
(* The newest copy says what memory says. *)

(* The newest of the copies outlives a merge. *)
LEMMA MirrorOutlivesMerge ==
  ASSUME NEW r, Mirrored(r), NEW x \in inserts, inserts' = inserts \ {x},
         table' = newest(table \cup {x}) \cup active(table \cup {x})
  PROVE  Mirrored(r)'
<1>1. PICK z \in Sent : \A y \in Sent : /\ y.ver <= z.ver
                                        /\ y.ver = z.ver => y.row.status = r.status
  BY DEF Mirrored
<1>2. Sent' \subseteq Sent
  BY DEF Sent, newest, active
<1>3. z \in Sent'
  BY <1>1 DEF Sent, newest
<1> QED
  BY <1>1, <1>2, <1>3 DEF Mirrored

(* A fresh row that is sent is the newest copy. *)
LEMMA SendingMirrors ==
  ASSUME NEW r \in Rows, r.status # "absent", Fresh(r), clock \in Nat,
         Sent \subseteq Copies, \A x \in Sent : x.ver <= clock,
         inserts' = inserts \cup {[ver |-> chFinished(r, clock + 1), row |-> r]},
         table' = table
  PROVE  Mirrored(r)' /\ Fresh(r)'
<1> DEFINE c == [ver |-> chFinished(r, clock + 1), row |-> r]
<1>1. Sent' = Sent \cup {c}
  BY DEF Sent
<1>2. c.row.status = r.status /\ c.ver = chFinished(r, clock + 1)
  OBVIOUS
<1>3. \A x \in Sent : x.ver \in Nat
  BY DEF Copies
<1>4. r.fin \in Nat /\ (r.status \in Active \/ r.status \in Terminal)
  BY DEF Rows, Statuses
<1>5. r.status \in Terminal => r.status \notin Active
  BY DEF Active, Terminal
<1> HIDE DEF c
<1>6. CASE r.status \in Active
  <2>1. c.ver = clock + 1
    BY <1>2, <1>6 DEF chFinished
  <2>2. \A x \in Sent : x.ver < c.ver
    BY <1>3, <2>1
  <2> QED
    BY <1>1, <1>2, <1>3, <1>5, <1>6, <2>1, <2>2 DEF Mirrored, Fresh
<1>7. CASE r.status \in Terminal
  <2>1. c.ver = r.fin
    BY <1>2, <1>5, <1>7 DEF chFinished
  <2> QED
    BY <1>1, <1>2, <1>3, <1>4, <1>7, <2>1 DEF Mirrored, Fresh
<1> QED
  BY <1>4, <1>6, <1>7

Copying == Unsent \/ pc["proc"] \in {"agent", "post", "end"}

LEMMA CopyNext ==
  ASSUME TypeOK, ObjectInv, ReadInv, EvidenceInv, CopyInv, [Next]_vars
  PROVE  CopyInv'
<1>0. /\ "request" \in Actors /\ "proc" \in Actors /\ "boot" \in Actors
      /\ \A a \in Actors : a \in {"request", "proc", "boot"}
      /\ clock \in Nat /\ Len(objs) \in Nat
      /\ \A i \in 1..Len(objs) : objs[i] \in Rows /\ objs[i].fin \in Nat
      /\ \A s : s \in Active => s \notin Terminal
      /\ live # 0 => live \in 1..Len(objs)
  BY Places, ObjectFacts DEF TypeOK, Rows, Active, Terminal
<1>w. \A a \in Actors : pc[a] \in Writing => live # 0 /\ at[a] # 0 /\ at[a] \in 1..Len(objs)
  BY ObjectFacts DEF ObjectInv
<1>c. CopyInv <=>
        /\ \A x \in Sent : x.ver <= clock
        /\ \A i \in 1..Len(objs) : objs[i].fin <= clock
        /\ file.fin <= clock /\ \A a \in Actors : got[a].fin <= clock
        /\ live # 0 /\ ~twins => /\ Copying => Fresh(objs[live])
                                 /\ ~gap /\ ~Unsent => Mirrored(objs[live])
  BY DEF CopyInv, Copying
<1>p. CopyInv' <=>
        /\ \A x \in Sent' : x.ver <= clock'
        /\ \A i \in 1..Len(objs') : objs'[i].fin <= clock'
        /\ file'.fin <= clock' /\ \A a \in Actors : got'[a].fin <= clock'
        /\ live' # 0 /\ ~twins' => /\ Copying' => Fresh(objs[live])'
                                   /\ ~gap' /\ ~Unsent' => Mirrored(objs[live])'
  BY DEF CopyInv, Copying
<1>n. NoRow.fin = 0 /\ 0 <= clock
  BY <1>0, RowKinds
<1>m. ASSUME Moves, \A a \in Actors : got'[a].fin <= clock,
             Copying' => Copying, Unsent' <=> Unsent
      PROVE  CopyInv'
  BY <1>m, <1>c, <1>p DEF Moves, Fresh, Mirrored, Sent
<1>d. ASSUME NEW a \in Actors, NEW k, Decides(a, k), ~twins => k = live
      PROVE  CopyInv'
  <2>1. Unsent'
    BY <1>d DEF Decides, Unsent, Writing
  <2>2. Sent' = Sent
    BY <1>d DEF Decides, Sent
  <2>3. clock <= clock' /\ clock' \in Nat /\ objs'[k].fin <= clock'
    <3>1. k \in 1..Len(objs) /\ objs[k].fin <= clock /\ objs[k].fin \in Nat
      BY <1>0, <1>c, <1>d DEF Decides
    <3>2. objs'[k] \in Rows
      BY <1>d, <3>1, TypeNext DEF Decides, TypeOK
    <3>3. objs'[k].fin \in Nat
      BY <3>2 DEF Rows
    <3> QED
      BY <1>0, <1>d, <3>1, <3>3 DEF Decides
  <2>4. \A i \in 1..Len(objs') : objs'[i].fin <= clock'
    BY <1>0, <1>c, <1>d, <2>3 DEF Decides
  <2>5. \A x \in Sent : x.ver \in Nat
    BY DEF Sent, TypeOK, Copies
  <2>6. ASSUME live # 0, ~twins PROVE Fresh(objs[live])'
    <3>1. live' = live /\ k = live /\ live \in 1..Len(objs)
      BY <1>d, <2>6 DEF Decides
    <3>2. CASE objs'[k].status \in Active /\ clock' = clock
      BY <1>0, <2>2, <3>1, <3>2 DEF Fresh
    <3>3. CASE objs'[k].status \in Terminal /\ objs'[k].fin = clock + 1
      <4>1. \A x \in Sent : x.ver < objs'[k].fin
        BY <1>0, <1>c, <2>5, <3>3
      <4>2. \A x \in Sent : x.ver <= objs'[k].fin /\ x.ver # objs'[k].fin
        BY <1>0, <2>5, <3>3, <4>1
      <4> QED
        BY <2>2, <3>1, <4>2 DEF Fresh
    <3> QED
      BY <1>d, <3>2, <3>3 DEF Decides
  <2>7. file.fin \in Nat /\ \A b \in Actors : got[b].fin \in Nat
    BY DEF TypeOK, Rows
  <2> QED
    BY <1>0, <1>c, <1>d, <1>p, <2>1, <2>2, <2>3, <2>4, <2>5, <2>6, <2>7 DEF Decides
<1>a. ASSUME NEW k, Annotates(k), Copying' => Copying, Unsent => Unsent'
      PROVE  CopyInv'
  <2>1. Sent' = Sent
    BY <1>a DEF Annotates, Sent
  <2>2. \A i \in 1..Len(objs) : objs'[i].fin = objs[i].fin /\ objs'[i].status = objs[i].status
    BY <1>a DEF Annotates
  <2> QED
    BY <1>0, <1>a, <1>c, <1>p, <2>1, <2>2 DEF Annotates, Fresh, Mirrored
<1>1. ASSUME NEW a \in Actors, WriteFile(a) PROVE CopyInv'
  <2>1. /\ pc[a] = "file" /\ UNCHANGED <<objs, live, inserts, table, clock, got, twins, gap>>
        /\ file' \in {file, objs[at[a]]}
    BY <1>1 DEF WriteFile, memory, copies, persistSCMJobFile, row
  <2>2. pc'[a] = "copy" /\ \A b \in Actors : b # a => pc'[b] = pc[b]
    BY <1>1, GoToType, Places DEF WriteFile, Writing
  <2>3. Unsent /\ Unsent'
    BY <2>1, <2>2 DEF Unsent, Writing
  <2>4. file'.fin <= clock
    BY <1>c, <1>w, <2>1 DEF Writing
  <2> QED
    BY <1>c, <1>p, <2>1, <2>3, <2>4 DEF Copying, Fresh, Sent
<1>2. ASSUME NEW a \in Actors, WriteCopy(a) PROVE CopyInv'
  <2> DEFINE c == [ver |-> chFinished(row(a), clock + 1), row |-> row(a)]
  <2>1. /\ pc[a] = "copy" /\ UNCHANGED <<objs, live, file, table, got, twins>>
        /\ inserts' = inserts \cup {c} /\ clock' = clock + 1
    BY <1>2 DEF WriteCopy, memory
  <2>2. Unsent /\ at[a] \in 1..Len(objs) /\ at[a] # 0 /\ live # 0 /\ row(a) = objs[at[a]]
    BY <1>w, <2>1 DEF Unsent, Writing, row
  <2>3. Sent' = Sent \cup {c}
    BY <2>1 DEF Sent
  <2>4. c.ver <= clock + 1
    BY <1>0, <1>c, <2>2 DEF chFinished
  <2>5. \A x \in Sent : x.ver \in Nat
    BY DEF Sent, TypeOK, Copies
  <2>6. file.fin \in Nat /\ \A b \in Actors : got[b].fin \in Nat
    BY DEF TypeOK, Rows
  <2>7. ASSUME ~twins PROVE Mirrored(objs[live])' /\ Fresh(objs[live])'
    <3>1. row(a) = objs[live] /\ objs'[live'] = objs[live]
      BY <2>1, <2>2, <2>7, OneObject
    <3>2. Fresh(objs[live]) /\ objs[live].status # "absent"
      BY <1>0, <1>c, <2>2, <2>7 DEF Copying, EvidenceInv, Sound
    <3>3. Sent \subseteq Copies
      BY DEF Sent, TypeOK
    <3> QED
      BY <1>0, <1>c, <2>1, <2>2, <3>1, <3>2, <3>3, SendingMirrors DEF Mirrored, Fresh
  <2> HIDE DEF c
  <2> QED
    BY <1>0, <1>c, <1>p, <2>1, <2>3, <2>4, <2>5, <2>6, <2>7
<1>3. ASSUME NEW x \in inserts, Insert(x) PROVE CopyInv'
  <2>1. UNCHANGED <<objs, live, file, clock, got, twins, pc>> /\ inserts' = inserts \ {x}
    BY <1>3 DEF Insert, memory, places
  <2>2. \/ gap' = TRUE /\ UNCHANGED table
        \/ /\ gap' = gap
           /\ table' = newest(table \cup {x}) \cup active(table \cup {x})
    BY <1>3 DEF Insert
  <2>3. Sent' \subseteq Sent
    BY <2>1, <2>2 DEF Sent, newest, active
  <2>4. Copying' = Copying /\ Unsent' = Unsent
    BY <2>1 DEF Copying, Unsent
  <2>5. \A r : Fresh(r) => Fresh(r)'
    BY <2>3 DEF Fresh
  <2>6. \A r : Mirrored(r) /\ ~gap' => Mirrored(r)'
    BY <2>1, <2>2, MirrorOutlivesMerge
  <2>7. ~gap' => ~gap
    BY <2>2
  <2>8. live # 0 /\ ~twins => /\ Copying => Fresh(objs[live])'
                              /\ ~gap' /\ ~Unsent => Mirrored(objs[live])'
    BY <1>c, <2>1, <2>5, <2>6, <2>7 DEF Fresh, Mirrored
  <2> QED
    BY <1>c, <1>p, <2>1, <2>3, <2>4, <2>8
<1>4. ASSUME NEW a \in {"request", "boot"}, Store(got[a]),
             got' = [got EXCEPT ![a] = NoRow],
             \A b \in Actors : b # a => pc'[b] = pc[b],
             pc'[a] \notin Writing,
             UNCHANGED <<inserts, table, clock, gap>>, file' = file \/ file' = got[a]
      PROVE  CopyInv'
  <2>1. got[a] \in Rows /\ a \in Actors
    BY <1>0, <1>4 DEF TypeOK
  <2>2. /\ Len(objs') = Len(objs) + 1 /\ live' = Len(objs) + 1 /\ objs'[live'] = got[a]
        /\ \A i \in 1..Len(objs) : objs'[i] = objs[i]
        /\ ~twins' => live = 0
    BY <1>4, <2>1, StoreFacts
  <2>3. \A i \in 1..Len(objs') : objs'[i].fin <= clock
    <3>1. \A i \in 1..Len(objs') : i \in 1..Len(objs) \/ i = live'
      BY <1>0, <2>2
    <3> QED
      BY <1>c, <2>1, <2>2, <3>1
  <2>4. ~twins' => ~Copying' /\ gap'
    <3>1. live = 0 => /\ gap /\ \A b \in Actors : pc[b] \notin Writing
                      /\ pc["proc"] \notin {"agent", "post", "end"}
      BY <1>0, <1>w DEF ReadInv, ObjectInv
    <3> QED
      BY <1>0, <1>4, <2>2, <3>1 DEF Copying, Unsent
  <2>5. \A b \in Actors : got'[b].fin <= clock
    BY <1>4, <1>c, <1>n DEF TypeOK
  <2>6. file'.fin <= clock
    BY <1>4, <1>c, <2>1
  <2> QED
    BY <1>4, <1>c, <1>p, <2>3, <2>4, <2>5, <2>6 DEF Sent
<1>5. ASSUME StoreAsked PROVE CopyInv'
  <2>1. pc'["request"] = "do" /\ \A b \in Actors : b # "request" => pc'[b] = pc[b]
    BY <1>0, <1>5, GoToType, Places DEF StoreAsked
  <2> QED
    BY <1>4, <1>5, <2>1 DEF StoreAsked, Writing, copies
<1>6. ASSUME StoreFile \/ StoreCopy PROVE CopyInv'
  <2>1. /\ pc'["boot"] \in {"query", "recover"}
        /\ \A b \in Actors : b # "boot" => pc'[b] = pc[b]
    BY <1>0, <1>6, GoToType, Places DEF StoreFile, StoreCopy
  <2>2. /\ Store(got["boot"]) /\ got' = [got EXCEPT !["boot"] = NoRow]
        /\ UNCHANGED <<inserts, table, clock, gap>> /\ file' \in {file, got["boot"]}
    BY <1>6 DEF StoreFile, StoreCopy, persistSCMJobFile, copies
  <2> QED
    BY <1>4, <2>1, <2>2 DEF Writing
<1>7. ASSUME NEW a \in Actors, pc[a] \notin Writing, pc'[a] \notin Writing,
             \A b \in Actors : b # a /\ b # "proc" => pc'[b] = pc[b],
             \/ pc'["proc"] = pc["proc"]
             \/ pc["proc"] \notin Writing /\ pc'["proc"] \in {"idle", "gate", "leave"}
      PROVE  (Copying' => Copying) /\ (Unsent' <=> Unsent)
  <2>1. Unsent' <=> Unsent
    BY <1>0, <1>7 DEF Unsent, Writing
  <2> QED
    BY <1>0, <1>7, <2>1 DEF Copying
<1>8. ASSUME NEW e \in Asks, Ask(e) PROVE CopyInv'
  <2>1. Moves /\ pc["request"] = "idle"
    BY <1>8, OnlyMoves DEF Ask
  <2>2. pc'["request"] \in {"do", "store"} /\ \A b \in Actors : b # "request" => pc'[b] = pc[b]
    BY <1>0, <1>8, GoToType, Places DEF Ask
  <2>3. \A b \in Actors : got'[b].fin <= clock
    BY <1>0, <1>8, <1>c DEF Ask, TypeOK
  <2>4. (Copying' => Copying) /\ (Unsent' <=> Unsent)
    BY <1>0, <1>7, <2>1, <2>2 DEF Writing
  <2> QED
    BY <1>m, <2>1, <2>3, <2>4
<1>9. ASSUME HydrateFile \/ HydrateCopy PROVE CopyInv'
  <2>1. Moves /\ pc["boot"] \in {"files", "query"}
    BY <1>9, OnlyMoves DEF HydrateFile, HydrateCopy
  <2>2. /\ pc'["boot"] \in {"storeFile", "query", "storeCopy", "recover"}
        /\ \A b \in Actors : b # "boot" => pc'[b] = pc[b]
    BY <1>0, <1>9, GoToType, Places DEF HydrateFile, HydrateCopy
  <2>3. \A b \in Actors : got'[b].fin <= clock
    <3>1. ASSUME NEW x \in answers PROVE scmJobFromCHRow(x).fin <= clock
      <4>1. x \in Sent /\ x.row \in Rows
        BY DEF answers, active, Sent, TypeOK, Copies
      <4>2. scmJobFromCHRow(x).fin = x.ver
        BY <4>1 DEF scmJobFromCHRow, Rows
      <4> QED
        BY <1>c, <4>1, <4>2
    <3> QED
      BY <1>0, <1>9, <1>c, <3>1 DEF HydrateFile, HydrateCopy, TypeOK
  <2>4. (Copying' => Copying) /\ (Unsent' <=> Unsent)
    BY <1>0, <1>7, <2>1, <2>2 DEF Writing
  <2> QED
    BY <1>m, <2>1, <2>3, <2>4
<1>10. ASSUME Dispatch PROVE CopyInv'
  <2>1. Moves /\ got' = got /\ pc["boot"] = "dispatch"
    BY <1>10, OnlyMoves DEF Dispatch
  <2>2. /\ pc'["boot"] = "up" /\ pc'["request"] = pc["request"]
        /\ \/ pc["proc"] = "idle" /\ pc'["proc"] = "gate"
           \/ pc'["proc"] = pc["proc"]
    <3>1. CASE Kick("boot", "up")
      BY <1>0, <3>1, KickType, Places
    <3>2. CASE GoTo("boot", "up")
      BY <1>0, <3>2, GoToType, Places
    <3> QED
      BY <1>10, <3>1, <3>2 DEF Dispatch
  <2>3. (Copying' => Copying) /\ (Unsent' <=> Unsent)
    BY <1>0, <1>7, <2>1, <2>2 DEF Writing
  <2> QED
    BY <1>c, <1>m, <2>1, <2>3
<1>11. ASSUME RetryKick PROVE CopyInv'
  <2>1. Moves /\ got' = got /\ pc["request"] = "kick"
    BY <1>11, OnlyMoves DEF RetryKick
  <2>2. /\ pc'["request"] = "idle" /\ pc'["boot"] = pc["boot"]
        /\ \/ pc["proc"] = "idle" /\ pc'["proc"] = "gate"
           \/ pc'["proc"] = pc["proc"]
    BY <1>0, <1>11, KickType, Places DEF RetryKick
  <2>3. (Copying' => Copying) /\ (Unsent' <=> Unsent)
    BY <1>0, <1>7, <2>1, <2>2 DEF Writing
  <2> QED
    BY <1>c, <1>m, <2>1, <2>3
<1>12. ASSUME NEW a \in Actors, pc[a] \notin Writing, Rest(a), Moves, got' = got
       PROVE  CopyInv'
  <2>1. pc'[a] = "idle" /\ \A b \in Actors : b # a => pc'[b] = pc[b]
    BY <1>12, RestType
  <2>2. (Copying' => Copying) /\ (Unsent' <=> Unsent)
    BY <1>0, <1>7, <1>12, <2>1 DEF Writing
  <2> QED
    BY <1>c, <1>m, <1>12, <2>2
<1>13. ASSUME Leave PROVE CopyInv'
  BY <1>0, <1>12, <1>13, OnlyMoves DEF Leave, Writing
<1>14. ASSUME Cancel PROVE CopyInv'
  <2>1. CASE Decides("request", at["request"])
    BY <1>0, <1>d, <2>1, OneObject DEF Decides
  <2>2. CASE Rest("request") /\ UNCHANGED <<objs, clock, then>>
    <3>1. Moves /\ got' = got /\ pc["request"] \notin Writing
      BY <1>14, <2>2 DEF Cancel, Moves, history, Writing
    <3> QED
      BY <1>0, <1>12, <2>2, <3>1
  <2> QED
    BY <1>14, <2>1, <2>2, CancelDecides
<1>15. ASSUME Retry PROVE CopyInv'
  <2>1. Decides("request", at["request"])
    BY <1>15, RetryDecides
  <2> QED
    BY <1>0, <1>d, <2>1, OneObject DEF Decides
<1>16. ASSUME Start PROVE CopyInv'
  <2>1. CASE Decides("proc", at["proc"])
    BY <1>0, <1>d, <2>1, OneObject DEF Decides
  <2>2. CASE Rest("proc") /\ UNCHANGED <<objs, then>>
    <3>1. Moves /\ got' = got /\ pc["proc"] \notin Writing
      BY <1>16, <2>2 DEF Start, Moves, copies, history, Writing
    <3> QED
      BY <1>0, <1>12, <2>2, <3>1
  <2> QED
    BY <1>16, <2>1, <2>2, StartDecides
<1>17. ASSUME Recover PROVE CopyInv'
  <2>1. CASE Decides("boot", live)
    BY <1>0, <1>d, <2>1
  <2>2. CASE GoTo("boot", "dispatch") /\ UNCHANGED <<objs, at, then>>
    <3>1. Moves /\ got' = got /\ pc["boot"] = "recover"
      BY <1>17, <2>2 DEF Recover, Moves, copies, history
    <3>2. pc'["boot"] = "dispatch" /\ \A b \in Actors : b # "boot" => pc'[b] = pc[b]
      BY <1>0, <2>2, GoToType, Places
    <3>3. (Copying' => Copying) /\ (Unsent' <=> Unsent)
      BY <1>0, <1>7, <3>1, <3>2 DEF Writing
    <3> QED
      BY <1>c, <1>m, <3>1, <3>3
  <2> QED
    BY <1>17, <2>1, <2>2, RecoverDecides
<1>18. ASSUME Finish PROVE CopyInv'
  <2>1. CASE Decides("proc", live)
    BY <1>0, <1>d, <2>1
  <2>2. CASE GoTo("proc", "leave") /\ UNCHANGED <<objs, clock, then>>
    <3>1. Moves /\ got' = got /\ pc["proc"] = "end"
      BY <1>18, <2>2 DEF Finish, Moves, history
    <3>2. pc'["proc"] = "leave" /\ \A b \in Actors : b # "proc" => pc'[b] = pc[b]
      BY <1>0, <2>2, GoToType, Places
    <3>3. (Copying' => Copying) /\ (Unsent' <=> Unsent)
      BY <1>0, <1>7, <3>1, <3>2 DEF Writing
    <3> QED
      BY <1>c, <1>m, <3>1, <3>3
  <2> QED
    BY <1>18, <2>1, <2>2, FinishDecides
<1>19. ASSUME Look PROVE CopyInv'
  <2>1. Annotates(at["request"]) /\ Rest("request") /\ pc["request"] = "do"
    BY <1>19, LookAnnotates DEF Look
  <2>2. pc'["request"] = "idle" /\ \A b \in Actors : b # "request" => pc'[b] = pc[b]
    BY <1>0, <2>1, RestType
  <2>3. (Copying' => Copying) /\ (Unsent' <=> Unsent)
    BY <1>0, <1>7, <2>1, <2>2 DEF Writing
  <2> QED
    BY <1>a, <2>1, <2>3
<1>20. ASSUME Box \/ Post PROVE CopyInv'
  <2>1. /\ \E k : Annotates(k)
        /\ pc["proc"] \in {"agent", "post"} /\ (GoTo("proc", "file") \/ GoTo("proc", "end"))
    BY <1>20, BoxAnnotates, PostAnnotates
  <2>2. \A b \in Actors : b # "proc" => pc'[b] = pc[b]
    BY <1>0, <2>1, GoToType, Places DEF Writing
  <2>3. Copying /\ (Unsent => Unsent')
    BY <1>0, <2>1, <2>2 DEF Copying, Unsent, Writing
  <2> QED
    BY <1>a, <2>1, <2>3
<1>21. ASSUME Crash PROVE CopyInv'
  <2>1. /\ objs' = <<>> /\ live' = 0 /\ inserts' = {} /\ UNCHANGED <<table, clock>>
        /\ file' \in {file, NoRow} /\ got' = [a \in Actors |-> NoRow]
    BY <1>21 DEF Crash
  <2>2. Len(objs') = 0 /\ Sent' \subseteq Sent
    BY <2>1 DEF Sent
  <2> QED
    BY <1>c, <1>n, <1>p, <2>1, <2>2
<1>22. ASSUME UNCHANGED vars PROVE CopyInv'
  BY <1>22 DEF vars, memory, copies, places, history, CopyInv, Unsent, Fresh, Mirrored, Sent
<1> QED
  BY <1>1, <1>2, <1>3, <1>5, <1>6, <1>8, <1>9, <1>10, <1>11, <1>13, <1>14,
     <1>15, <1>16, <1>17, <1>18, <1>19, <1>20, <1>21, <1>22
  DEF Next, Hydrate, Request, Processor, Persist

-----------------------------------------------------------------------------
(* Together. *)

LEMMA InvInductive == Spec => [](TypeOK /\ JobStoreInv)
<1>1. Init => JobStoreInv
  <2>1. Init => ObjectInv
    BY DEF Init, ObjectInv, Writing, Actors
  <2>2. Init => ReadInv /\ EndIsFinal
    BY DEF Init, ReadInv, EndIsFinal
  <2>3. Init => Len(objs) = 1 /\ objs[1] = NewJob
    BY RowKinds DEF Init
  <2>4. Init => EvidenceInv
    <3>1. Sound(NewJob)
      BY RowKinds DEF Sound, Complete
    <3> QED
      BY <2>3, <3>1, RowKinds DEF Init, EvidenceInv, AgentAtWork, Actors
  <2>5. Init => CopyInv
    <3>1. Init => /\ Unsent /\ Sent = {} /\ clock = 0 /\ live = 1 /\ file = NoRow
                  /\ got = [a \in Actors |-> NoRow]
      BY DEF Init, Unsent, Sent, Writing, Actors
    <3>2. Fresh(NewJob)
      BY RowKinds DEF Fresh, Terminal
    <3> QED
      BY <2>3, <3>1, <3>2, RowKinds DEF CopyInv
  <2> QED
    BY <2>1, <2>2, <2>4, <2>5 DEF JobStoreInv
<1>2. TypeOK /\ JobStoreInv /\ [Next]_vars => JobStoreInv'
  BY ObjectNext, ReadNext, EndNext, EvidenceNext, CopyNext DEF JobStoreInv
<1>3. Spec => []TypeOK
  BY TypeCorrect, PTL
<1> QED
  BY <1>1, <1>2, <1>3, PTL DEF Spec

(* hydrateSCMJobsFromCH: a job whose end is on file is in memory with that *)
(* end, or not at all, until somebody retries it.                          *)
THEOREM EndHolds == Spec => []EndIsFinal
<1>1. JobStoreInv => EndIsFinal
  BY DEF JobStoreInv
<1> QED
  BY <1>1, InvInductive, PTL

(* persistSCMJob: when nothing is being written and the last copy got      *)
(* through, the newest row of the table says what memory says.             *)
THEOREM NewestHolds == Spec => []NewestIsCurrent
<1>1. TypeOK /\ JobStoreInv => NewestIsCurrent
  <2> SUFFICES ASSUME TypeOK, JobStoreInv, live # 0, inserts = {}, ~gap, ~twins,
                      \A a \in Actors : pc[a] \notin {"file", "copy"},
                      NEW x \in newest(table)
               PROVE  x.row.status = objs[live].status
    BY DEF NewestIsCurrent
  <2>1. Sent = table /\ ~Unsent
    BY DEF Sent, Unsent, Writing
  <2>2. Mirrored(objs[live])
    BY <2>1 DEF JobStoreInv, CopyInv
  <2>3. \A y \in table : y.ver \in Nat
    BY DEF TypeOK, Copies
  <2> QED
    BY <2>1, <2>2, <2>3 DEF Mirrored, newest
<1> QED
  BY <1>1, InvInductive, PTL

(* processAgentChild: a child that ran to its end shows every post it has  *)
(* made, with the status it has, and the output to its last line.          *)
THEOREM RowHolds == Spec => []RowTellsAll
<1>1. TypeOK /\ JobStoreInv => RowTellsAll
  <2> SUFFICES ASSUME TypeOK, JobStoreInv, live # 0, ~twins,
                      objs[live].status = "completed"
               PROVE  /\ objs[live].evidence = [status |-> objs[live].status, posts |-> made]
                      /\ objs[live].tail = heard
    BY DEF RowTellsAll
  <2>1. Complete(objs[live]) /\ made = objs[live].posts /\ heard = objs[live].tail
    BY ObjectFacts DEF JobStoreInv, EvidenceInv, Sound
  <2> QED
    BY <2>1 DEF Complete
<1> QED
  BY <1>1, InvInductive, PTL

=============================================================================
