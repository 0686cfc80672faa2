-------------------------- MODULE ReviewStackProofs --------------------------
(* Proofs about ReviewStack for any items, jobs, slots and budgets of      *)
(* cancels, crashes, resumes and webhooks: types, the bound on processors, *)
(* and that a stack which says done is done.                               *)
EXTENDS ReviewStack, FiniteSetTheorems, TLAPS

ItemRows == [job : Jobs \cup {NoJob}, status : JobStatus, started : BOOLEAN]
StackStatus == {"none", "queued", "running", "completed", "failed"}

-----------------------------------------------------------------------------
(* What the stack code computes. *)

LEMMA FoldType ==
  ASSUME NEW items, NEW old
  PROVE  foldStack(items, old) \in {"queued", "running", "completed", "failed"}
  BY DEF foldStack

LEMMA RefreshItemType ==
  ASSUME NEW it \in ItemRows, NEW jobs \in [Jobs -> JobStatus]
  PROVE  refreshItem(it, jobs) \in ItemRows /\ refreshItem(it, jobs).job = it.job
  BY ConstantsAssumption DEF refreshItem, ItemRows, JobStatus, Backlog

LEMMA RefreshItemsType ==
  ASSUME NEW items \in [Items -> ItemRows], NEW jobs \in [Jobs -> JobStatus]
  PROVE  /\ refreshItems(items, jobs) \in [Items -> ItemRows]
         /\ \A i \in Items : refreshItems(items, jobs)[i].job = items[i].job
  BY RefreshItemType DEF refreshItems

LEMMA RefreshType ==
  ASSUME NEW items \in [Items -> ItemRows], NEW jobs \in [Jobs -> JobStatus],
         Refresh(items, jobs)
  PROVE  /\ item' \in [Items -> ItemRows] /\ stack' \in StackStatus \ {"none"}
         /\ \A i \in Items : item'[i].job = items[i].job
  BY RefreshItemsType, FoldType DEF Refresh, StackStatus

(* Slots: an item keeps its job; it waits or is queued if its row does,    *)
(* and a row that waits or is queued goes on to.                           *)
LEMMA SlotsFacts ==
  ASSUME NEW items \in [Items -> ItemRows], NEW jobs \in [Jobs -> JobStatus]
  PROVE  LET a == assignStackConcurrencySlots(items, jobs)
         IN  /\ a.items \in [Items -> ItemRows] /\ a.jobs \in [Jobs -> JobStatus]
             /\ \A i \in Items : a.items[i].job = items[i].job
             /\ \A i \in Items :
                  /\ items[i].status # "absent"
                  /\ items[i].job # NoJob => jobs[items[i].job] # "absent"
                  => a.items[i].status # "absent"
             /\ \A i \in Items :
                  items[i].job # NoJob /\ jobs[items[i].job] \in Backlog =>
                    a.items[i].status \in Backlog
             /\ \A j \in Jobs : jobs[j] \in Backlog => a.jobs[j] \in Backlog
             /\ \A j \in Jobs : jobs[j] \notin Backlog => a.jobs[j] = jobs[j]
<1> DEFINE in(i, S) == items[i].job # NoJob /\ jobs[items[i].job] \in S
           before(i) == {k \in 1..(i - 1) : in(k, InFlight)}
           place(i) == IF Cardinality(before(i)) < Conc THEN "queued" ELSE "waiting"
           behind(j) == {i \in Items : items[i].job = j}
           last(j) == CHOOSE i \in behind(j) : \A k \in behind(j) : k <= i
           its == [i \in Items |->
                    IF in(i, Backlog)
                    THEN [items[i] EXCEPT !.status = place(i), !.started = FALSE]
                    ELSE IF in(i, StackFinal \cup {"running"})
                    THEN [items[i] EXCEPT !.status = jobs[items[i].job],
                                          !.started = TRUE]
                    ELSE items[i]]
           jbs == [j \in Jobs |-> IF jobs[j] \in Backlog /\ behind(j) # {}
                                THEN place(last(j)) ELSE jobs[j]]
<1>1. assignStackConcurrencySlots(items, jobs) = [items |-> its, jobs |-> jbs]
  BY DEF assignStackConcurrencySlots
<1>2. \A i : place(i) \in {"queued", "waiting"}
  OBVIOUS
<1> HIDE DEF place, last
<1>3. its \in [Items -> ItemRows] /\ \A i \in Items : its[i].job = items[i].job
  <2> SUFFICES ASSUME NEW i \in Items PROVE its[i] \in ItemRows /\ its[i].job = items[i].job
    OBVIOUS
  <2>1. items[i] \in ItemRows /\ (items[i].job # NoJob => jobs[items[i].job] \in JobStatus)
    BY DEF ItemRows
  <2>2. CASE in(i, Backlog)
    <3>1. its[i] = [items[i] EXCEPT !.status = place(i), !.started = FALSE]
      BY <2>2
    <3>2. place(i) \in JobStatus
      BY <1>2 DEF JobStatus
    <3> HIDE DEF its
    <3> QED
      BY <2>1, <3>1, <3>2 DEF ItemRows
  <2>3. CASE ~in(i, Backlog) /\ in(i, StackFinal \cup {"running"})
    <3>1. its[i] = [items[i] EXCEPT !.status = jobs[items[i].job], !.started = TRUE]
      BY <2>3
    <3> HIDE DEF its
    <3> QED
      BY <2>1, <2>3, <3>1 DEF ItemRows
  <2>4. CASE ~in(i, Backlog) /\ ~in(i, StackFinal \cup {"running"})
    <3>1. its[i] = items[i]
      BY <2>4
    <3> QED
      BY <2>1, <3>1
  <2> QED
    BY <2>2, <2>3, <2>4
<1>4. \A i \in Items : in(i, Backlog) => its[i].status \in Backlog
  BY <1>2 DEF ItemRows, Backlog
<1>5. jbs \in [Jobs -> JobStatus]
  BY <1>2 DEF JobStatus
<1>6. /\ \A j \in Jobs : jobs[j] \in Backlog => jbs[j] \in Backlog
      /\ \A j \in Jobs : jobs[j] \notin Backlog => jbs[j] = jobs[j]
  BY <1>2 DEF Backlog
<1>7. \A i \in Items :
         /\ items[i].status # "absent"
         /\ items[i].job # NoJob => jobs[items[i].job] # "absent"
         => its[i].status # "absent"
  BY <1>2 DEF ItemRows
<1> HIDE DEF its, jbs
<1> QED
  BY <1>1, <1>3, <1>4, <1>5, <1>6, <1>7

(* An item that has a job is listed, and the row is there.                 *)
Fits(items, jobs) ==
  \A i \in Items : items[i].job # NoJob =>
    items[i].status # "absent" /\ jobs[items[i].job] # "absent"

SameJobs(new, old) == \A i \in Items : new[i].job = old[i].job
SameAbsent(new, old) == \A j \in Jobs : new[j] = "absent" <=> old[j] = "absent"

(* What rewriting items and rows keeps. *)
Kept(newItems, newJobs, items, jobs) ==
  /\ newItems \in [Items -> ItemRows] /\ newJobs \in [Jobs -> JobStatus]
  /\ Fits(newItems, newJobs)
  /\ SameJobs(newItems, items) /\ SameAbsent(newJobs, jobs)

LEMMA RefreshFits ==
  ASSUME NEW items \in [Items -> ItemRows], NEW jobs \in [Jobs -> JobStatus],
         Fits(items, jobs)
  PROVE  Fits(refreshItems(items, jobs), jobs)
<1> SUFFICES ASSUME NEW i \in Items, refreshItems(items, jobs)[i].job # NoJob
             PROVE  /\ refreshItems(items, jobs)[i].status # "absent"
                    /\ jobs[refreshItems(items, jobs)[i].job] # "absent"
  BY DEF Fits
<1>1. items[i].job # NoJob /\ items[i] \in ItemRows
  BY RefreshItemsType
<1>2. items[i].status # "absent" /\ jobs[items[i].job] # "absent"
  BY <1>1 DEF Fits
<1>3. refreshItems(items, jobs)[i] = refreshItem(items[i], jobs)
  BY <1>2 DEF refreshItems, Listed
<1>4. refreshItem(items[i], jobs).status # "absent"
  BY <1>1, <1>2 DEF refreshItem, ItemRows, Backlog
<1> QED
  BY <1>2, <1>3, <1>4, RefreshItemsType

LEMMA SlotsKeep ==
  ASSUME NEW items \in [Items -> ItemRows], NEW jobs \in [Jobs -> JobStatus],
         Fits(items, jobs)
  PROVE  LET a == assignStackConcurrencySlots(items, jobs)
         IN  Kept(a.items, a.jobs, items, jobs)
<1> DEFINE a == assignStackConcurrencySlots(items, jobs)
<1>1. /\ a.items \in [Items -> ItemRows] /\ a.jobs \in [Jobs -> JobStatus]
      /\ \A i \in Items : a.items[i].job = items[i].job
      /\ \A i \in Items : /\ items[i].status # "absent"
                          /\ items[i].job # NoJob => jobs[items[i].job] # "absent"
                          => a.items[i].status # "absent"
      /\ \A j \in Jobs : jobs[j] \in Backlog => a.jobs[j] \in Backlog
      /\ \A j \in Jobs : jobs[j] \notin Backlog => a.jobs[j] = jobs[j]
  BY SlotsFacts
<1> HIDE DEF a
<1>2. SameAbsent(a.jobs, jobs)
  BY <1>1 DEF SameAbsent, Backlog
<1>3. \A i \in Items : items[i].job # NoJob => items[i].job \in Jobs
  BY DEF ItemRows
<1>4. Fits(a.items, a.jobs)
  BY <1>1, <1>2, <1>3 DEF Fits, SameAbsent
<1>5. Kept(a.items, a.jobs, items, jobs)
  BY <1>1, <1>2, <1>4 DEF Kept, SameJobs
<1> QED
  BY <1>5 DEF a

LEMMA PrepareKeeps ==
  ASSUME NEW items \in [Items -> ItemRows], NEW jobs \in [Jobs -> JobStatus],
         Fits(items, jobs)
  PROVE  LET a == prepareStackForResume(items, jobs)
         IN  Kept(a.items, a.jobs, items, jobs)
<1> DEFINE demoted == [j \in Jobs |-> IF jobs[j] = "running" /\
                                         (\E i \in Items : items[i].job = j)
                                      THEN "waiting" ELSE jobs[j]]
           prepared == [i \in Items |->
             IF items[i].job = NoJob THEN items[i]
             ELSE LET s == demoted[items[i].job]
                  IN  IF s \in Backlog
                      THEN [items[i] EXCEPT !.status = "waiting", !.started = FALSE]
                      ELSE IF s \in StackFinal
                      THEN [items[i] EXCEPT !.status = s, !.started = TRUE]
                      ELSE items[i]]
           a == assignStackConcurrencySlots(prepared, demoted)
<1>1. prepareStackForResume(items, jobs) = a
  BY DEF prepareStackForResume
<1>2. demoted \in [Jobs -> JobStatus] /\ SameAbsent(demoted, jobs)
  BY DEF JobStatus, SameAbsent
<1>3. \A i \in Items : items[i].job # NoJob =>
         items[i].job \in Jobs /\ demoted[items[i].job] \in JobStatus \ {"absent"}
  BY <1>2 DEF Fits, ItemRows, SameAbsent
<1> HIDE DEF demoted
<1>4. \A i \in Items : /\ prepared[i] \in ItemRows /\ prepared[i].job = items[i].job
                       /\ prepared[i].job # NoJob => prepared[i].status # "absent"
  <2> SUFFICES ASSUME NEW i \in Items
               PROVE  /\ prepared[i] \in ItemRows /\ prepared[i].job = items[i].job
                      /\ prepared[i].job # NoJob => prepared[i].status # "absent"
    OBVIOUS
  <2>1. items[i] \in ItemRows
    OBVIOUS
  <2>2. CASE items[i].job = NoJob
    <3>1. prepared[i] = items[i]
      BY <2>2
    <3> QED
      BY <2>1, <2>2, <3>1
  <2>3. CASE items[i].job # NoJob
    <3>1. \/ prepared[i] = [items[i] EXCEPT !.status = "waiting", !.started = FALSE]
          \/ prepared[i] = [items[i] EXCEPT !.status = demoted[items[i].job], !.started = TRUE]
          \/ prepared[i] = items[i]
      BY <2>3
    <3>2. items[i].status # "absent" /\ "waiting" \in JobStatus
      BY <2>3 DEF Fits, JobStatus
    <3> HIDE DEF prepared
    <3> QED
      BY <2>1, <2>3, <3>1, <3>2, <1>3 DEF ItemRows
  <2> QED
    BY <2>2, <2>3
<1>5. prepared \in [Items -> ItemRows]
  BY <1>4
<1> HIDE DEF prepared
<1>6. Fits(prepared, demoted)
  BY <1>3, <1>4 DEF Fits
<1>7. Kept(a.items, a.jobs, prepared, demoted)
  BY <1>2, <1>5, <1>6, SlotsKeep
<1> HIDE DEF a
<1>8. Kept(a.items, a.jobs, items, jobs)
  BY <1>2, <1>4, <1>7 DEF Kept, SameJobs, SameAbsent
<1> QED
  BY <1>1, <1>8

-----------------------------------------------------------------------------
(* Types and rows: one lemma per process.                                  *)

Sound == TypeOK /\ RowInv

LEMMA SoundFits ==
  ASSUME Sound
  PROVE  item \in [Items -> ItemRows] /\ job \in [Jobs -> JobStatus] /\ Fits(item, job)
<1>1. item \in [Items -> ItemRows] /\ job \in [Jobs -> JobStatus]
  BY DEF Sound, TypeOK, ItemRows
<1>2. \A i \in Items : item[i].job # NoJob => item[i].job \in Jobs
  BY <1>1 DEF ItemRows
<1> QED
  BY <1>1, <1>2 DEF Fits, Sound, RowInv

(* A processor that is new has a row that is there. *)
RowsFor(places) ==
  \A j \in Jobs : places[j] # "idle" => proc[j] # "idle" \/ job[j] # "absent"

LEMMA KeptRows ==
  ASSUME Sound, Kept(item', job', item, job), tagged' = tagged, RowsFor(proc'),
         UNCHANGED <<held, making>>
  PROVE  /\ job' \in [Jobs -> JobStatus] /\ RowInv'
         /\ item' \in [Items -> [job : Jobs \cup {NoJob}, status : JobStatus,
                                 started : BOOLEAN]]
<1>1. item' \in [Items -> [job : Jobs \cup {NoJob}, status : JobStatus, started : BOOLEAN]]
  BY DEF Kept, ItemRows
<1>2. \A j \in Jobs : j \in tagged' \/ proc'[j] # "idle" => job'[j] # "absent"
  BY DEF Kept, SameAbsent, Sound, RowInv, RowsFor
<1>3. held' # NoJob => job'[held'] # "absent" /\ making' \in Items
  BY DEF Kept, SameAbsent, Sound, TypeOK, RowInv
<1>4. \A i \in Items : item'[i].job # NoJob =>
         item'[i].job \in tagged' /\ item'[i].status # "absent"
  BY DEF Kept, SameJobs, Fits, Sound, RowInv
<1> QED
  BY <1>1, <1>2, <1>3, <1>4 DEF Kept, RowInv

LEMMA SameKept ==
  ASSUME Sound
  PROVE  Kept(item, job, item, job)
  BY SoundFits DEF Kept, SameJobs, SameAbsent

(* Rows that change, but not from or to being absent, and then a refresh.  *)
LEMMA RefreshKeeps ==
  ASSUME Sound, NEW items \in [Items -> ItemRows], SameJobs(items, item),
         Fits(items, job), NEW jobs \in [Jobs -> JobStatus], SameAbsent(jobs, job),
         Refresh(items, jobs)
  PROVE  /\ Kept(item', jobs, item, job)
         /\ stack' \in StackStatus \ {"none"}
<1>1. \A i \in Items : items[i].job # NoJob => items[i].job \in Jobs
  BY DEF ItemRows
<1>2. Fits(items, jobs)
  BY <1>1 DEF Fits, SameAbsent
<1>3. Fits(item', jobs)
  BY <1>2, RefreshFits DEF Refresh
<1> QED
  BY <1>3, RefreshType DEF Kept, SameJobs

LEMMA SpendType ==
  ASSUME TypeOK, NEW e \in Events, Spend(e)
  PROVE  budget' \in [Events -> Nat]
  BY DEF TypeOK, Spend

LEMMA StackEnqueueSound ==
  ASSUME Sound, StackEnqueue
  PROVE  Sound'
<1>0. making \in Items /\ held = NoJob /\ UNCHANGED <<tagged, proc, stack, dpc, work, budget>>
  BY DEF StackEnqueue
<1>1. ASSUME NEW j \in enqueueManualAIReview(making) \ {NoJob},
             held' = j, UNCHANGED <<item, making>>,
             job' = [job EXCEPT ![j] = IF @ = "absent" THEN "queued" ELSE @]
      PROVE  Sound'
  <2>1. j \in Jobs
    BY <1>0, <1>1, ConstantsAssumption DEF enqueueManualAIReview
  <2>2. job' \in [Jobs -> JobStatus] /\ job'[j] # "absent"
    BY <1>1, <2>1 DEF Sound, TypeOK, JobStatus
  <2>3. \A k \in Jobs : job[k] # "absent" => job'[k] # "absent"
    BY <1>1, <2>1 DEF Sound, TypeOK
  <2>4. RowInv'
    BY <1>0, <1>1, <2>1, <2>2, <2>3 DEF Sound, RowInv
  <2> QED
    BY <1>0, <1>1, <2>1, <2>2, <2>4 DEF Sound, TypeOK
<1>2. ASSUME NEW s \in {"failed", "skipped"}, UNCHANGED <<held, job>>, making' = making + 1,
             item' = [item EXCEPT ![making] = [NoItem EXCEPT !.status = s]]
      PROVE  Sound'
  <2>1. /\ [NoItem EXCEPT !.status = s] \in
             [job : Jobs \cup {NoJob}, status : JobStatus, started : BOOLEAN]
        /\ [NoItem EXCEPT !.status = s].job = NoJob
    BY DEF NoItem, JobStatus
  <2>2. item' \in [Items -> [job : Jobs \cup {NoJob}, status : JobStatus,
                             started : BOOLEAN]]
    BY <1>2, <2>1 DEF Sound, TypeOK
  <2>3. RowInv'
    BY <1>0, <1>2, <2>1 DEF Sound, TypeOK, RowInv
  <2>4. making' \in 1..(NumItems + 2)
    BY <1>0, <1>2, ConstantsAssumption DEF Items
  <2> QED
    BY <1>0, <1>2, <2>2, <2>3, <2>4 DEF Sound, TypeOK
<1> QED
  BY <1>1, <1>2 DEF StackEnqueue

LEMMA StackTagSound ==
  ASSUME Sound, StackTag
  PROVE  Sound'
<1>0. /\ held \in Jobs /\ making \in Items /\ held' = NoJob /\ making' = making + 1
      /\ tagged' = tagged \cup {held} /\ job[held] # "absent"
      /\ UNCHANGED <<proc, stack, dpc, work, budget>>
  BY DEF StackTag, Sound, TypeOK, RowInv
<1>1. making' \in 1..(NumItems + 2)
  BY <1>0, ConstantsAssumption DEF Items
<1>2. PICK s \in Backlog :
         /\ item' = [item EXCEPT ![making] = [job |-> held, status |-> s, started |-> FALSE]]
         /\ job' = [job EXCEPT ![held] = IF s = "waiting" THEN "waiting" ELSE @]
  BY DEF StackTag, Backlog
<1>3. [job |-> held, status |-> s, started |-> FALSE] \in
         [job : Jobs \cup {NoJob}, status : JobStatus, started : BOOLEAN]
  BY <1>0 DEF Backlog, JobStatus
<1>4. /\ job' \in [Jobs -> JobStatus] /\ tagged' \subseteq Jobs
      /\ item' \in [Items -> [job : Jobs \cup {NoJob}, status : JobStatus,
                              started : BOOLEAN]]
  BY <1>0, <1>2, <1>3 DEF Sound, TypeOK, JobStatus
<1>5. \A k \in Jobs : k \in tagged' \/ proc'[k] # "idle" => job'[k] # "absent"
  BY <1>0, <1>2 DEF Sound, TypeOK, RowInv
<1>6. \A i \in Items : item'[i].job # NoJob =>
         item'[i].job \in tagged' /\ item'[i].status # "absent"
  BY <1>0, <1>2 DEF Sound, TypeOK, RowInv, Backlog
<1> QED
  BY <1>0, <1>1, <1>4, <1>5, <1>6 DEF Sound, TypeOK, RowInv

LEMMA StackStoreSound ==
  ASSUME Sound, StackStore
  PROVE  Sound'
<1>1. making' \in 1..(NumItems + 2)
  BY ConstantsAssumption DEF StackStore
<1>2. stack' \in StackStatus /\ dpc' \in [Drains -> {"idle", "new", "drain"}]
  BY DEF Sound, TypeOK, StackStore, StackStatus
<1>3. UNCHANGED <<job, tagged, proc, item, held, work, budget>>
  BY DEF StackStore
<1>4. held = NoJob
  BY ConstantsAssumption DEF StackStore, Sound, RowInv, Items
<1> QED
  BY <1>1, <1>2, <1>3, <1>4 DEF Sound, TypeOK, RowInv, StackStatus

(* From what an action does to rows and items, to the rest. *)
LEMMA KeptSound ==
  ASSUME Sound, Kept(item', job', item, job), tagged' = tagged,
         proc' \in [Jobs -> {"idle", "gate", "run"}], RowsFor(proc'),
         stack' \in StackStatus, UNCHANGED <<held, making>>, dpc' \in [Drains -> {"idle", "new", "drain"}],
         work' \in [Drains -> [Items -> Places]], budget' \in [Events -> Nat]
  PROVE  Sound'
<1>1. RowInv'
  BY KeptRows
<1>2. TypeOK'
  <2>1. /\ tagged' \subseteq Jobs /\ held' \in Jobs \cup {NoJob}
        /\ making' \in 1..(NumItems + 2)
    BY DEF Sound, TypeOK
  <2> QED
    BY <2>1, KeptRows DEF TypeOK, StackStatus
<1> QED
  BY <1>1, <1>2 DEF Sound

LEMMA DrainSound ==
  ASSUME Sound, NEW d \in Drains, DrainBegin(d) \/ DrainEnd(d)
  PROVE  Sound'
<1>0. /\ item \in [Items -> ItemRows] /\ job \in [Jobs -> JobStatus] /\ Fits(item, job)
      /\ stack' \in StackStatus \ {"none"}
  BY SoundFits, RefreshType DEF DrainBegin, DrainEnd, StackStatus
<1>1. CASE DrainBegin(d)
  <2>1. Kept(item', job', item, job)
    BY <1>0, <1>1, SlotsKeep DEF DrainBegin
  <2>2. work' \in [Drains -> [Items -> Places]]
    BY <1>1 DEF DrainBegin, Sound, TypeOK, Places
  <2>3. UNCHANGED <<tagged, proc, making, held, budget>> /\ dpc' = [dpc EXCEPT ![d] = "drain"]
    BY <1>1 DEF DrainBegin
  <2>4. dpc' \in [Drains -> {"idle", "new", "drain"}]
    BY <2>3 DEF Sound, TypeOK
  <2> QED
    BY <1>0, <2>1, <2>2, <2>3, <2>4, KeptSound DEF RowsFor, Sound, TypeOK
<1>2. CASE DrainEnd(d)
  <2>1. Kept(item', job, item, job)
    BY <1>0, <1>2, RefreshKeeps DEF DrainEnd, SameJobs, SameAbsent
  <2>2. dpc' \in [Drains -> {"idle", "new", "drain"}]
    BY <1>2 DEF DrainEnd, Sound, TypeOK
  <2> QED
    BY <1>0, <1>2, <2>1, <2>2, KeptSound DEF RowsFor, DrainEnd, Sound, TypeOK
<1> QED
  BY <1>1, <1>2

LEMMA GoToType ==
  ASSUME Sound, NEW d \in Drains, NEW i \in Items, NEW p \in Places, GoTo(d, i, p)
  PROVE  work' \in [Drains -> [Items -> Places]]
  BY DEF Sound, TypeOK, GoTo

(* Rows whose jobs are the same, none of them newly absent, still fit a job   *)
(* table that lists the same jobs.                                            *)
LEMMA FitsKept ==
  ASSUME NEW items \in [Items -> ItemRows], NEW olds \in [Items -> ItemRows],
         NEW jobs \in [Jobs -> JobStatus], NEW was \in [Jobs -> JobStatus],
         Fits(olds, was), SameJobs(items, olds), SameAbsent(jobs, was),
         \A k \in Items : items[k].status = "absent" => olds[k].status = "absent"
  PROVE  Fits(items, jobs)
<1>1. SUFFICES ASSUME NEW k \in Items, items[k].job # NoJob
               PROVE  items[k].status # "absent" /\ jobs[items[k].job] # "absent"
  BY DEF Fits
<1>2. items[k].job = olds[k].job
  BY DEF SameJobs
<1>3. items[k].job \in Jobs
  <2>1. items[k] \in ItemRows
    OBVIOUS
  <2> QED
    BY <1>1, <2>1 DEF ItemRows
<1>4. olds[k].status # "absent" /\ was[items[k].job] # "absent"
  BY <1>1, <1>2 DEF Fits
<1>5. jobs[items[k].job] # "absent"
  BY <1>3, <1>4 DEF SameAbsent
<1> QED
  BY <1>4, <1>5

(* A worker at work on i, with a row for it. *)
LEMMA WorkerSound ==
  ASSUME Sound, NEW d \in Drains, NEW i \in Items, item[i].job # NoJob, WorkerStep(d, i)
  PROVE  Sound'
<1>0. /\ item \in [Items -> ItemRows] /\ job \in [Jobs -> JobStatus] /\ Fits(item, job)
      /\ item[i].job \in Jobs /\ item[i].status # "absent" /\ job[item[i].job] # "absent"
      /\ Kept(item, job, item, job)
  BY SoundFits, SameKept DEF Fits, ItemRows
<1>p. {"none", "check", "demote", "sem", "slot", "call", "busy", "after"} \subseteq Places
  BY DEF Places
<1>1. CASE WorkerStops(d, i)
  <2> DEFINE its == [item EXCEPT ![i].status = "cancelled", ![i].started = TRUE]
  <2>1. its \in [Items -> ItemRows] /\ SameJobs(its, item) /\ Fits(its, job)
    BY <1>0 DEF ItemRows, JobStatus, SameJobs, Fits
  <2>2. Refresh(its, job)
    BY <1>1 DEF WorkerStops
  <2> HIDE DEF its
  <2>3. Kept(item', job, item, job) /\ stack' \in StackStatus \ {"none"}
    BY <1>0, <2>1, <2>2, RefreshKeeps DEF SameAbsent
  <2>4. work' \in [Drains -> [Items -> Places]]
    BY <1>1, <1>p, GoToType DEF WorkerStops
  <2> QED
    BY <1>1, <2>3, <2>4, KeptSound DEF RowsFor, WorkerStops, Sound, TypeOK
<1>2. CASE WorkerChecks(d, i) \/ WorkerTakesSlot(d, i)
  <2>1. work' \in [Drains -> [Items -> Places]]
    BY <1>2, <1>p, GoToType DEF WorkerChecks, WorkerTakesSlot
  <2> QED
    BY <1>0, <1>2, <2>1, KeptSound DEF RowsFor, WorkerChecks, WorkerTakesSlot, Sound, TypeOK, StackStatus
<1>3. CASE WorkerDemotes(d, i)
  <2>1. job' \in [Jobs -> JobStatus] /\ SameAbsent(job', job)
    BY <1>0, <1>3 DEF WorkerDemotes, JobStatus, SameAbsent
  <2>2. \/ item' = item
        \/ item' = [item EXCEPT ![i] = [@ EXCEPT !.status = "waiting", !.started = FALSE]]
    BY <1>0, <1>3 DEF WorkerDemotes
  <2>3. item' \in [Items -> ItemRows] /\ SameJobs(item', item)
    <3>1. [item[i] EXCEPT !.status = "waiting", !.started = FALSE] \in ItemRows
      BY <1>0 DEF ItemRows, JobStatus
    <3>2. [item[i] EXCEPT !.status = "waiting", !.started = FALSE].job = item[i].job
      BY <1>0 DEF ItemRows
    <3> QED
      BY <1>0, <2>2, <3>1, <3>2 DEF SameJobs
  <2>4. Fits(item', job')
    <3>1. ASSUME NEW k \in Items, item'[k].status = "absent"
          PROVE  item[k].status = "absent"
      <4>1. CASE k = i
        <5>1. item[i] \in ItemRows
          BY <1>0
        <5>2. [item[i] EXCEPT !.status = "waiting", !.started = FALSE].status = "waiting"
          BY <5>1 DEF ItemRows
        <5> QED
          BY <1>0, <2>2, <3>1, <4>1, <5>2
      <4>2. CASE k # i
        BY <1>0, <2>2, <3>1, <4>2
      <4> QED
        BY <4>1, <4>2
    <3> QED
      BY <1>0, <2>1, <2>3, <3>1, FitsKept
  <2>5. work' \in [Drains -> [Items -> Places]]
    BY <1>3, <1>p, GoToType DEF WorkerDemotes
  <2>6. Kept(item', job', item, job)
    BY <2>1, <2>3, <2>4 DEF Kept
  <2> QED
    BY <1>3, <2>5, <2>6, KeptSound DEF RowsFor, WorkerDemotes, Sound, TypeOK, StackStatus
<1>4. CASE WorkerPromotes(d, i)
  <2>1. job' \in [Jobs -> JobStatus] /\ SameAbsent(job', job)
    BY <1>0, <1>4 DEF WorkerPromotes, JobStatus, SameAbsent, Backlog
  <2>2. item' = [item EXCEPT ![i].status = "queued", ![i].started = TRUE]
    BY <1>4 DEF WorkerPromotes
  <2>3. item' \in [Items -> ItemRows] /\ SameJobs(item', item)
    BY <1>0, <2>2 DEF ItemRows, JobStatus, SameJobs
  <2>4. Fits(item', job')
    <3>1. ASSUME NEW k \in Items, item'[k].status = "absent"
          PROVE  item[k].status = "absent"
      <4>1. CASE k = i
        <5>1. item[i] \in ItemRows
          BY <1>0
        <5>2. item'[i].status = "queued"
          BY <1>0, <2>2, <5>1 DEF ItemRows
        <5> QED
          BY <3>1, <4>1, <5>2
      <4>2. CASE k # i
        BY <1>0, <2>2, <3>1, <4>2
      <4> QED
        BY <4>1, <4>2
    <3> QED
      BY <1>0, <2>1, <2>3, <3>1, FitsKept
  <2>5. work' \in [Drains -> [Items -> Places]]
    BY <1>4, <1>p, GoToType DEF WorkerPromotes
  <2>6. Kept(item', job', item, job)
    BY <2>1, <2>3, <2>4 DEF Kept
  <2> QED
    BY <1>4, <2>5, <2>6, KeptSound DEF RowsFor, WorkerPromotes, Sound, TypeOK, StackStatus
<1>5. CASE WorkerCalls(d, i)
  <2>1. work' \in [Drains -> [Items -> Places]]
    BY <1>5, <1>p, GoToType DEF WorkerCalls
  <2>2. proc' \in [Jobs -> {"idle", "gate", "run"}] /\ RowsFor(proc')
    BY <1>0, <1>5 DEF WorkerCalls, RowsFor, Sound, TypeOK
  <2> QED
    BY <1>0, <1>5, <2>1, <2>2, KeptSound DEF RowsFor, WorkerCalls, Sound, TypeOK, StackStatus
<1>6. CASE WorkerReturns(d, i)
  <2>1. Refresh(item, job)
    BY <1>6 DEF WorkerReturns
  <2>2. Kept(item', job, item, job) /\ stack' \in StackStatus \ {"none"}
    BY <1>0, <2>1, RefreshKeeps DEF SameAbsent, SameJobs
  <2>3. work' \in [Drains -> [Items -> Places]]
    BY <1>6, <1>p, GoToType DEF WorkerReturns
  <2> QED
    BY <1>6, <2>2, <2>3, KeptSound DEF RowsFor, WorkerReturns, Sound, TypeOK
<1> QED
  BY <1>1, <1>2, <1>3, <1>4, <1>5, <1>6 DEF WorkerStep

LEMMA ReleasedType ==
  ASSUME Sound, NEW j
  PROVE  Released(j) \in [Drains -> [Items -> Places]]
  BY DEF Sound, TypeOK, Released, Places

(* A row is rewritten that is there. *)
LEMMA RowKept ==
  ASSUME Sound, NEW j \in Jobs, job[j] # "absent", NEW s \in JobStatus \ {"absent"},
         job' = [job EXCEPT ![j] = s], UNCHANGED item
  PROVE  Kept(item', job', item, job)
<1>1. item \in [Items -> ItemRows] /\ job \in [Jobs -> JobStatus] /\ Fits(item, job)
  BY SoundFits
<1>2. SameAbsent(job', job)
  BY <1>1 DEF SameAbsent, Sound, RowInv
<1> QED
  BY <1>1, <1>2 DEF Kept, SameJobs, SameAbsent, Fits, ItemRows

LEMMA ProcSound ==
  ASSUME Sound, NEW j \in Jobs, ProcStep(j)
  PROVE  Sound'
<1>0. job[j] # "absent"
  BY DEF Sound, RowInv, ProcStep, ProcSkips, ProcAdmits, ProcEnds
<1>1. \E s \in JobStatus \ {"absent"} : job' = [job EXCEPT ![j] = s]
  <2>1. CASE ProcSkips(j)
    BY <2>1 DEF ProcSkips, JobStatus
  <2>2. CASE ProcAdmits(j)
    BY <2>2 DEF ProcAdmits, JobStatus
  <2>3. ASSUME NEW end \in Ends, ProcEnds(j, end)
        PROVE  \E s \in JobStatus \ {"absent"} : job' = [job EXCEPT ![j] = s]
    <3>1. job' = [job EXCEPT ![j] = IF job[j] = "cancelled" THEN job[j] ELSE end]
      BY <2>3 DEF ProcEnds, Sound, TypeOK
    <3>2. (IF job[j] = "cancelled" THEN job[j] ELSE end) \in JobStatus \ {"absent"}
      BY ConstantsAssumption DEF JobStatus
    <3> QED
      BY <3>1, <3>2
  <2> QED
    BY <2>1, <2>2, <2>3 DEF ProcStep
<1>2. Kept(item', job', item, job)
  BY <1>0, <1>1, RowKept DEF ProcStep, ProcSkips, ProcAdmits, ProcEnds
<1>3. /\ proc' \in [Jobs -> {"idle", "gate", "run"}] /\ RowsFor(proc')
      /\ work' \in [Drains -> [Items -> Places]]
  <2>1. \/ proc' = [proc EXCEPT ![j] = "idle"] /\ work' = Released(j)
        \/ proc' = [proc EXCEPT ![j] = "run"] /\ work' = work
    BY DEF ProcStep, ProcSkips, ProcAdmits, ProcEnds
  <2> QED
    <3>1. proc' \in [Jobs -> {"idle", "gate", "run"}] /\ RowsFor(proc')
      BY <1>0, <2>1 DEF RowsFor, Sound, TypeOK
    <3>2. work' \in [Drains -> [Items -> Places]]
      BY <2>1, ReleasedType DEF Sound, TypeOK
    <3> QED
      BY <3>1, <3>2
<1>4. UNCHANGED <<tagged, stack, making, held, dpc, budget>>
  BY DEF ProcStep, ProcSkips, ProcAdmits, ProcEnds
<1> QED
  BY <1>2, <1>3, <1>4, KeptSound DEF RowsFor, Sound, TypeOK, StackStatus

LEMMA CancelledAbsent ==
  ASSUME Sound, NEW js
  PROVE  CancelledRows(js) \in [Jobs -> JobStatus] /\ SameAbsent(CancelledRows(js), job)
  BY DEF Sound, TypeOK, CancelledRows, SameAbsent, JobStatus, InFlight, Backlog

LEMMA CancelSound ==
  ASSUME Sound, CancelStack \/ ShowStack \/ \E j \in Jobs : CancelJob(j) \/ Webhook(j)
  PROVE  Sound'
<1>0. /\ item \in [Items -> ItemRows] /\ job \in [Jobs -> JobStatus] /\ Fits(item, job)
      /\ Kept(item, job, item, job) /\ SameJobs(item, item)
  BY SoundFits, SameKept DEF SameJobs
<1>1. CASE \E j \in Jobs : CancelJob(j)
  <2>1. PICK j \in Jobs : CancelJob(j)
    BY <1>1
  <2>2. job' \in [Jobs -> JobStatus] /\ SameAbsent(job', job) /\ budget' \in [Events -> Nat]
    BY <2>1, CancelledAbsent, SpendType DEF CancelJob, Sound, Events
  <2>3. Kept(item', job', item, job) /\ stack' \in StackStatus
    <3>1. CASE Refresh(item, job')
      BY <1>0, <2>2, <3>1, RefreshKeeps
    <3>2. CASE UNCHANGED <<item, stack>>
      BY <1>0, <2>2, <3>2 DEF Kept, SameAbsent, Fits, ItemRows, Sound, TypeOK, StackStatus
    <3> QED
      BY <2>1, <3>1, <3>2 DEF CancelJob
  <2> QED
    BY <2>1, <2>2, <2>3, KeptSound DEF RowsFor, CancelJob, Sound, TypeOK
<1>2. CASE CancelStack
  <2>1. job' \in [Jobs -> JobStatus] /\ SameAbsent(job', job) /\ budget' \in [Events -> Nat]
    BY <1>2, CancelledAbsent, SpendType DEF CancelStack, Sound, Events
  <2>2. Kept(item', job', item, job) /\ stack' \in StackStatus
    BY <1>0, <1>2, <2>1, RefreshKeeps DEF CancelStack
  <2> QED
    BY <1>2, <2>1, <2>2, KeptSound DEF RowsFor, CancelStack, Sound, TypeOK
<1>3. CASE ShowStack
  <2>1. Kept(item', job, item, job) /\ stack' \in StackStatus
    BY <1>0, <1>3, RefreshKeeps DEF ShowStack, SameAbsent
  <2> QED
    BY <1>3, <2>1, KeptSound DEF RowsFor, ShowStack, Sound, TypeOK
<1>4. CASE \E j \in Jobs : Webhook(j)
  <2>1. /\ budget' \in [Events -> Nat]
        /\ proc' \in [Jobs -> {"idle", "gate", "run"}] /\ RowsFor(proc')
    BY <1>4, SpendType DEF Webhook, RowsFor, InFlight, Backlog, Sound, TypeOK, Events
  <2> QED
    BY <1>0, <1>4, <2>1, KeptSound DEF RowsFor, Webhook, Sound, TypeOK, StackStatus
<1> QED
  BY <1>1, <1>2, <1>3, <1>4

LEMMA ResumeSound ==
  ASSUME Sound, Resume
  PROVE  Sound'
<1> DEFINE a == prepareStackForResume(item, job)
<1>1. Kept(a.items, a.jobs, item, job) /\ Kept(item, job, item, job)
  BY SoundFits, PrepareKeeps, SameKept
<1>2. \/ /\ item' = a.items /\ job' = a.jobs /\ stack' = "queued"
         /\ \E d \in Drains : dpc' = [dpc EXCEPT ![d] = "new"]
      \/ UNCHANGED <<job, item, stack, dpc>>
  BY DEF Resume
<1>3. /\ proc' \in [Jobs -> {"idle", "gate", "run"}] /\ RowsFor(proc')
      /\ budget' \in [Events -> Nat]
  BY SpendType DEF Resume, RowsFor, Sound, TypeOK, Events
<1>4. UNCHANGED <<tagged, making, held, work>>
  BY DEF Resume
<1> HIDE DEF a
<1>5. Kept(item', job', item, job)
  BY <1>1, <1>2
<1>6. stack' \in StackStatus /\ dpc' \in [Drains -> {"idle", "new", "drain"}]
  BY <1>2 DEF Sound, TypeOK, StackStatus
<1> QED
  BY <1>3, <1>4, <1>5, <1>6, KeptSound DEF RowsFor, Sound, TypeOK

-----------------------------------------------------------------------------
(* The restart. *)

LEMMA RecoveredFacts ==
  ASSUME Sound
  PROVE  /\ Recovered \in [Jobs -> JobStatus \ {"running"}]
         /\ SameAbsent(Recovered, job) /\ Fits(item, Recovered)
         /\ \A j \in Jobs : job[j] # "running" => Recovered[j] = job[j]
<1>1. /\ Recovered \in [Jobs -> JobStatus \ {"running"}]
      /\ SameAbsent(Recovered, job)
      /\ \A j \in Jobs : job[j] # "running" => Recovered[j] = job[j]
  BY DEF Sound, TypeOK, Recovered, SameAbsent, JobStatus
<1>2. Fits(item, Recovered)
  BY <1>1, SoundFits DEF Fits, SameAbsent, ItemRows
<1> QED
  BY <1>1, <1>2

LEMMA ItemUpdate ==
  ASSUME NEW it \in ItemRows, NEW s \in JobStatus, NEW b \in BOOLEAN
  PROVE  /\ [it EXCEPT !.status = s, !.started = b] \in ItemRows
         /\ [it EXCEPT !.status = s, !.started = b].job = it.job
         /\ [it EXCEPT !.status = s, !.started = b].status = s
  BY DEF ItemRows

(* A reconstructed stack has the items that were, without those it drops.  *)
LEMMA ReconstructedFacts ==
  ASSUME NEW rows \in [Jobs -> JobStatus], Sound, SameAbsent(rows, job)
  PROVE  /\ Reconstructed(rows) \in [Items -> ItemRows]
         /\ Fits(Reconstructed(rows), rows)
         /\ \A i \in Items : Reconstructed(rows)[i].job \in {item[i].job, NoJob}
<1> SUFFICES ASSUME NEW i \in Items
             PROVE  LET r == Reconstructed(rows)[i]
                    IN  /\ r \in ItemRows /\ r.job \in {item[i].job, NoJob}
                        /\ r.job # NoJob => r.status # "absent" /\ rows[r.job] # "absent"
  BY DEF Fits, Reconstructed
<1> DEFINE r == Reconstructed(rows)[i]
<1>1. \/ r = NoItem
      \/ /\ item[i].job \in tagged
         /\ r = [item[i] EXCEPT !.status = rows[item[i].job],
                                !.started = rows[item[i].job] \in StackFinal]
  BY DEF Reconstructed
<1>2. item[i] \in ItemRows /\ tagged \subseteq Jobs
  BY SoundFits DEF Sound, TypeOK
<1>3. \A j \in tagged : rows[j] \in JobStatus \ {"absent"}
  BY <1>2 DEF SameAbsent, Sound, RowInv
<1>4. CASE r = NoItem
  <2>1. r \in ItemRows /\ r.job = NoJob
    BY <1>4 DEF NoItem, ItemRows, JobStatus
  <2> HIDE DEF r
  <2>2. r.job \in {item[i].job, NoJob} /\ ~(r.job # NoJob)
    BY <2>1
  <2> QED
    BY <2>1, <2>2 DEF r
<1>5. CASE /\ item[i].job \in tagged
           /\ r = [item[i] EXCEPT !.status = rows[item[i].job],
                                  !.started = rows[item[i].job] \in StackFinal]
  <2> HIDE DEF r
  <2>1. r \in ItemRows /\ r.job = item[i].job /\ r.status = rows[item[i].job]
    <3> DEFINE b == rows[item[i].job] \in StackFinal
    <3>1. r = [item[i] EXCEPT !.status = rows[item[i].job], !.started = b]
      BY <1>5
    <3>2. b \in BOOLEAN
      OBVIOUS
    <3>3. rows[item[i].job] \in JobStatus
      BY <1>3, <1>5
    <3>4. item[i] \in ItemRows
      BY <1>2
    <3> DEFINE s == rows[item[i].job]
    <3> HIDE DEF b, s
    <3>5. /\ [item[i] EXCEPT !.status = s, !.started = b] \in ItemRows
          /\ [item[i] EXCEPT !.status = s, !.started = b].job = item[i].job
          /\ [item[i] EXCEPT !.status = s, !.started = b].status = s
      <4>1. s \in JobStatus
        BY <3>3 DEF s
      <4> QED
        BY <4>1, <3>2, <3>4, ItemUpdate
    <3> QED
      BY <3>1, <3>5 DEF s
  <2>2. r.status # "absent" /\ rows[r.job] # "absent"
    BY <1>3, <1>5, <2>1
  <2> QED
    BY <2>1, <2>2 DEF r
<1> QED
  BY <1>1, <1>4, <1>5

(* What the boot does to the rows it has recovered and the items it has    *)
(* found; a stack it leaves alone has no item whose row is in flight.      *)
LEMMA BootKeeps ==
  ASSUME NEW items \in [Items -> ItemRows], NEW rows \in [Jobs -> JobStatus \ {"running"}],
         Fits(items, rows), NEW status \in StackStatus,
         tagged \subseteq Jobs, \A i \in Items : items[i].job # NoJob => items[i].job \in tagged,
         status = "none" => \A i \in Items : items[i].job = NoJob
  PROVE  LET a == resumeIncompleteOPAReviewStacks(normalizeAllStackJobSlots(items, rows), status)
         IN  /\ Kept(a.items, a.jobs, items, rows)
             /\ a.stack \in StackStatus /\ a.drains \subseteq {1}
             /\ a.stack \in {"completed", "failed"} =>
                  /\ a.stack = status
                  /\ \A i \in Items : items[i].job # NoJob =>
                       /\ rows[items[i].job] \in Finished
                       /\ a.jobs[items[i].job] = rows[items[i].job]
             /\ a.stack = "none" => \A i \in Items : items[i].job = NoJob
<1> DEFINE n == normalizeAllStackJobSlots(items, rows)
           a == resumeIncompleteOPAReviewStacks(n, status)
<1>1. rows \in [Jobs -> JobStatus]
  OBVIOUS
<1>2. \A i \in Items : items[i].job # NoJob =>
         items[i].job \in tagged /\ rows[items[i].job] \in JobStatus \ {"running", "absent"}
  BY DEF Fits, ItemRows
<1>3. Kept(items, rows, items, rows)
  BY <1>1 DEF Kept, SameJobs, SameAbsent
<1>4. /\ Kept(n.items, n.jobs, items, rows)
      /\ \A i \in Items : items[i].job # NoJob /\ rows[items[i].job] \in Backlog =>
           n.items[i].status \in Backlog
      /\ \A j \in Jobs : rows[j] \notin Backlog => n.jobs[j] = rows[j]
  <2>1. CASE \E j \in tagged : rows[j] \in Backlog
    <3>1. n = assignStackConcurrencySlots(items, rows)
      BY <2>1 DEF normalizeAllStackJobSlots
    <3> HIDE DEF n
    <3>2. Kept(n.items, n.jobs, items, rows)
      BY <1>1, <3>1, SlotsKeep
    <3>3. /\ \A i \in Items : items[i].job # NoJob /\ rows[items[i].job] \in Backlog =>
               n.items[i].status \in Backlog
          /\ \A j \in Jobs : rows[j] \notin Backlog => n.jobs[j] = rows[j]
      BY <1>1, <3>1, SlotsFacts
    <3> QED
      BY <3>2, <3>3
  <2>2. CASE ~\E j \in tagged : rows[j] \in Backlog
    <3>1. n.items = items /\ n.jobs = rows
      BY <2>2 DEF normalizeAllStackJobSlots
    <3> HIDE DEF n
    <3> QED
      BY <1>2, <1>3, <2>2, <3>1
  <2> QED
    BY <2>1, <2>2
<1> HIDE DEF n
<1>5. CASE stackNeedsResume(n.items, status)
  <2> DEFINE p == prepareStackForResume(n.items, n.jobs)
  <2>1. a = [items |-> p.items, jobs |-> p.jobs, stack |-> "queued", drains |-> {1}]
    BY <1>5 DEF resumeIncompleteOPAReviewStacks
  <2>2. Kept(p.items, p.jobs, n.items, n.jobs)
    BY <1>4, PrepareKeeps DEF Kept
  <2> HIDE DEF p, a
  <2>3. Kept(a.items, a.jobs, items, rows)
    BY <1>4, <2>1, <2>2 DEF Kept, SameJobs, SameAbsent
  <2>4. a.stack = "queued" /\ a.drains = {1}
    BY <2>1
  <2> QED
    BY <2>3, <2>4 DEF StackStatus, a, n
<1>6. CASE ~stackNeedsResume(n.items, status)
  <2>1. a = [items |-> n.items, jobs |-> n.jobs, stack |-> status, drains |-> {}]
    BY <1>6 DEF resumeIncompleteOPAReviewStacks
  <2>2. \A i \in Items : items[i].job # NoJob => rows[items[i].job] \notin Backlog
    <3> SUFFICES ASSUME NEW i \in Items, items[i].job # NoJob, rows[items[i].job] \in Backlog
                 PROVE  FALSE
      OBVIOUS
    <3>1. n.items[i].status \in Backlog /\ status # "none"
      BY <1>4
    <3> QED
      BY <1>6, <3>1 DEF stackNeedsResume, InFlight
  <2>3. \A i \in Items : items[i].job # NoJob =>
           items[i].job \in Jobs /\ rows[items[i].job] \in Finished
    BY <1>2, <2>2 DEF Finished, InFlight
  <2>4. \A i \in Items : items[i].job # NoJob => n.jobs[items[i].job] = rows[items[i].job]
    BY <1>4, <2>2, <2>3
  <2> HIDE DEF a
  <2>5. a.items = n.items /\ a.jobs = n.jobs /\ a.stack = status /\ a.drains = {}
    BY <2>1
  <2> QED
    BY <1>4, <2>3, <2>4, <2>5 DEF a, n
<1> QED
  BY <1>5, <1>6

(* The boot as a whole. *)
LEMMA RestartFacts ==
  ASSUME Sound, Restart
  PROVE  /\ Sound'
         /\ \A d \in Drains : work'[d] = NoWork
         /\ \A d \in Drains : dpc'[d] # "idle" => d = 1 /\ dpc'[d] = "new"
         /\ \A j \in tagged' : proc'[j] = "idle"
         /\ making' = NumItems + 2
         /\ stack' \in {"completed", "failed"} =>
              /\ stack' = stack
              /\ \A i \in Items : item'[i].job # NoJob =>
                   /\ item'[i].job = item[i].job
                   /\ job'[item[i].job] \in Finished
                   /\ job'[item[i].job] = job[item[i].job]
<1> DEFINE rows == Recovered
           items == IF stack = "none" THEN Reconstructed(rows) ELSE item
           status == IF stack # "none" THEN stack
                     ELSE IF Listed(items) = {} THEN "none" ELSE "queued"
           a == resumeIncompleteOPAReviewStacks(normalizeAllStackJobSlots(items, rows), status)
<1>1. /\ job' = a.jobs /\ item' = a.items /\ stack' = a.stack
      /\ dpc' = [d \in Drains |-> IF d \in a.drains THEN "new" ELSE "idle"]
      /\ work' = [d \in Drains |-> NoWork]
      /\ making' = NumItems + 2 /\ held' = NoJob
      /\ tagged' = tagged
  BY DEF Restart
<1>2. /\ rows \in [Jobs -> JobStatus \ {"running"}] /\ SameAbsent(rows, job) /\ Fits(item, rows)
      /\ \A j \in Jobs : job[j] # "running" => rows[j] = job[j]
  BY RecoveredFacts
<1>3. tagged \subseteq Jobs /\ \A j \in tagged : rows[j] # "absent"
  BY <1>2 DEF Sound, TypeOK, RowInv, SameAbsent
<1>4. /\ proc' \in [Jobs -> {"idle", "gate"}] /\ \A j \in tagged : proc'[j] = "idle"
      /\ \A j \in Jobs : proc'[j] # "idle" => rows[j] # "absent"
  BY <1>3 DEF Restart, scmJobBelongsToStack
<1>5. budget' \in [Events -> Nat]
  BY SpendType DEF Restart, Sound, Events
<1> HIDE DEF rows
<1>6. /\ items \in [Items -> ItemRows] /\ Fits(items, rows)
      /\ \A i \in Items : items[i].job \in {item[i].job, NoJob}
      /\ stack # "none" => items = item
  BY <1>2, ReconstructedFacts, SoundFits
<1>13. \A i \in Items : items[i].job # NoJob => items[i].job \in tagged
  BY <1>6 DEF Sound, RowInv
<1> HIDE DEF items
<1>7. /\ status \in StackStatus
      /\ status \in {"completed", "failed"} => status = stack
      /\ status = "none" => \A i \in Items : items[i].job = NoJob
  BY <1>6 DEF Sound, TypeOK, StackStatus, Listed, Fits
<1> HIDE DEF status
<1>8. /\ Kept(a.items, a.jobs, items, rows)
      /\ a.stack \in StackStatus /\ a.drains \subseteq {1}
      /\ a.stack \in {"completed", "failed"} =>
           /\ a.stack = status
           /\ \A i \in Items : items[i].job # NoJob =>
                /\ rows[items[i].job] \in Finished
                /\ a.jobs[items[i].job] = rows[items[i].job]
  BY <1>2, <1>3, <1>6, <1>7, <1>13, BootKeeps
<1> HIDE DEF a
<1>9. \A i \in Items : item'[i].job # NoJob => item'[i].job = items[i].job /\ items[i].job = item[i].job
  BY <1>1, <1>6, <1>8 DEF Kept, SameJobs
<1>10. RowInv'
  <2>1. \A j \in Jobs : j \in tagged' \/ proc'[j] # "idle" => job'[j] # "absent"
    BY <1>1, <1>3, <1>4, <1>8 DEF Kept, SameAbsent
  <2>2. \A i \in Items : item'[i].job # NoJob =>
           item'[i].job \in tagged' /\ item'[i].status # "absent"
    BY <1>1, <1>8, <1>9 DEF Kept, Fits, Sound, RowInv
  <2> QED
    BY <1>1, <2>1, <2>2 DEF RowInv
<1>11. TypeOK'
  <2>1. /\ item' \in [Items -> [job : Jobs \cup {NoJob}, status : JobStatus, started : BOOLEAN]]
        /\ job' \in [Jobs -> JobStatus] /\ stack' \in StackStatus
    BY <1>1, <1>8 DEF Kept, ItemRows
  <2>2. /\ dpc' \in [Drains -> {"idle", "new", "drain"}]
        /\ work' \in [Drains -> [Items -> Places]]
    BY <1>1 DEF NoWork, Places
  <2>3. making' \in 1..(NumItems + 2)
    BY <1>1, ConstantsAssumption
  <2> QED
    BY <1>1, <1>3, <1>4, <1>5, <2>1, <2>2, <2>3 DEF TypeOK, StackStatus
<1>12. ASSUME stack' \in {"completed", "failed"}
       PROVE  /\ stack' = stack
              /\ \A i \in Items : item'[i].job # NoJob =>
                   /\ item'[i].job = item[i].job
                   /\ job'[item[i].job] \in Finished
                   /\ job'[item[i].job] = job[item[i].job]
  <2>1. stack' = stack
    BY <1>1, <1>7, <1>8, <1>12
  <2> SUFFICES ASSUME NEW i \in Items, item'[i].job # NoJob
               PROVE  /\ item'[i].job = item[i].job
                      /\ job'[item[i].job] \in Finished
                      /\ job'[item[i].job] = job[item[i].job]
    BY <2>1
  <2>2. item'[i].job = item[i].job /\ items[i].job = item[i].job
    BY <1>9
  <2>3. job'[item[i].job] = rows[item[i].job] /\ rows[item[i].job] \in Finished
    BY <1>1, <1>8, <1>12, <2>2
  <2>4. item[i].job \in Jobs /\ job[item[i].job] \in JobStatus
    BY <2>2 DEF Sound, TypeOK
  <2>5. rows[item[i].job] = job[item[i].job]
    <3>1. job[item[i].job] = "running" => rows[item[i].job] \in Backlog
      BY <2>4 DEF rows, Recovered, Backlog
    <3> QED
      BY <1>2, <2>3, <2>4, <3>1 DEF Finished, InFlight
  <2> QED
    BY <2>2, <2>3, <2>5
<1> QED
  BY <1>1, <1>4, <1>8, <1>10, <1>11, <1>12 DEF Sound

-----------------------------------------------------------------------------
(* The budget: what has not happened yet had not happened before.          *)

BudgetInv == \A e \in Events : budget[e] <= Budget[e]

LEMMA BudgetStep ==
  ASSUME TypeOK, BudgetInv, [Next]_vars
  PROVE  /\ BudgetInv'
         /\ \A e \in Events : budget'[e] = Budget[e] => budget[e] = Budget[e]
<1>0. budget \in [Events -> Nat] /\ Budget \in [Events -> Nat]
  BY ConstantsAssumption DEF TypeOK
<1>1. CASE \E e \in Events : Spend(e)
  BY <1>0, <1>1 DEF Spend, BudgetInv
<1>2. CASE budget' = budget
  BY <1>2 DEF BudgetInv
<1>3. budget' = budget \/ \E e \in Events : Spend(e)
  <2>1. CASE Handler
    BY <2>1 DEF Handler, StackEnqueue, StackTag, StackStore
  <2>2. ASSUME NEW d \in Drains, DrainBegin(d) \/ DrainEnd(d)
        PROVE  budget' = budget
    BY <2>2 DEF DrainBegin, DrainEnd
  <2>3. ASSUME NEW d \in Drains, NEW i \in Items, WorkerStep(d, i)
        PROVE  budget' = budget
    BY <2>3 DEF WorkerStep, WorkerStops, WorkerChecks, WorkerDemotes, WorkerTakesSlot,
       WorkerPromotes, WorkerCalls, WorkerReturns
  <2>4. ASSUME NEW j \in Jobs, ProcStep(j)
        PROVE  budget' = budget
    BY <2>4 DEF ProcStep, ProcSkips, ProcAdmits, ProcEnds
  <2>5. CASE User
    BY <2>5 DEF User, CancelJob, CancelStack, ShowStack, Webhook, Resume, Restart, Events
  <2>6. CASE UNCHANGED vars
    BY <2>6 DEF vars
  <2> QED
    BY <2>1, <2>2, <2>3, <2>4, <2>5, <2>6 DEF Next
<1> QED
  BY <1>1, <1>2, <1>3

(* What happened, has happened since. *)
LEMMA SpendShows ==
  ASSUME TypeOK, BudgetInv, NEW e \in Events, Spend(e)
  PROVE  budget'[e] # Budget[e]
<1>1. budget \in [Events -> Nat] /\ Budget \in [Events -> Nat]
  BY ConstantsAssumption DEF TypeOK
<1> QED
  BY <1>1 DEF Spend, BudgetInv

-----------------------------------------------------------------------------
(* The drain. *)

Based ==
  /\ DrainsAfterStore /\ WorkersInDrain /\ WorkersHaveJobs /\ SlotsInBounds

Awake == OneDrain /\ NothingRunsYet /\ ProcessorsAwaited

LEMMA SlotsFinite ==
  ASSUME NEW d
  PROVE  IsFiniteSet(SlotsTaken(d)) /\ Cardinality(SlotsTaken(d)) \in Nat
<1>1. IsFiniteSet(Items)
  BY FS_Interval, ConstantsAssumption DEF Items
<1>2. IsFiniteSet(SlotsTaken(d))
  BY <1>1, FS_Subset DEF SlotsTaken
<1> QED
  BY <1>2, FS_CardinalityType

(* The drain whose worker is at work is not idle. *)
LEMMA DrainOf ==
  ASSUME Based, NEW d \in Drains, NEW i \in Items, work[d][i] # "none"
  PROVE  /\ dpc[d] = "drain" /\ item[i].job # NoJob
         /\ making \notin 1..(NumItems + 1)
  BY DEF Based, DrainsAfterStore, WorkersInDrain, WorkersHaveJobs, NoWork

(* When no drain is at work, no worker is, and the drain alone runs none.  *)
LEMMA NothingRuns ==
  ASSUME Based, \A d \in Drains : dpc[d] # "drain"
  PROVE  (\A d \in Drains : work[d] = NoWork) /\ (Awake => Working = {})
  BY DEF Based, Awake, WorkersInDrain, ProcessorsAwaited, NoWork

LEMMA EmptyFits ==
  \A S : S = {} => Cardinality(S) <= Conc
  BY FS_EmptySet, ConstantsAssumption

(* Workers do not change, or stop; no drain has more past its semaphore.   *)
LEMMA QuietBased ==
  ASSUME \A d \in Drains : work'[d] = NoWork,
         DrainsAfterStore'
  PROVE  Based'
<1>1. SlotsInBounds'
  <2>1. \A d \in Drains : {i \in Items : work'[d][i] \in HoldsSem} = {}
    BY DEF NoWork, HoldsSem
  <2> QED
    BY <2>1, EmptyFits DEF SlotsInBounds, SlotsTaken
<1>2. WorkersInDrain' /\ WorkersHaveJobs'
  BY DEF WorkersInDrain, WorkersHaveJobs, NoWork
<1> QED
  BY <1>1, <1>2 DEF Based

LEMMA HandlerPlace ==
  ASSUME Sound, Handler
  PROVE  making \in 1..(NumItems + 1)
  BY ConstantsAssumption DEF Handler, StackEnqueue, StackTag, StackStore, Items, Sound, RowInv

LEMMA HandlerDrains ==
  ASSUME Sound, Based, Handler, Sound'
  PROVE  Based' /\ (Awake => Awake')
<1>1. making \in 1..(NumItems + 1)
  BY HandlerPlace
<1>2. stack = "none" /\ \A d \in Drains : dpc[d] = "idle"
  BY <1>1 DEF Based, DrainsAfterStore
<1>3. \A d \in Drains : work[d] = NoWork
  BY <1>2, NothingRuns
<1>4. \A d \in Drains : work'[d] = NoWork
  BY <1>3 DEF Handler, StackEnqueue, StackTag, StackStore
<1>5. Awake => \A j \in Jobs : proc'[j] = "idle"
  BY <1>1 DEF Awake, NothingRunsYet, Handler, StackEnqueue, StackTag, StackStore
<1>6. OneDrain' /\ DrainsAfterStore'
  <2>1. CASE StackEnqueue \/ StackTag
    BY <1>2, <2>1 DEF StackEnqueue, StackTag, OneDrain, DrainsAfterStore
  <2>2. CASE StackStore
    <3>1. making' \notin 1..(NumItems + 1)
      BY <2>2, ConstantsAssumption DEF StackStore
    <3>2. \/ UNCHANGED dpc
          \/ \E d \in Drains : dpc' = [dpc EXCEPT ![d] = "new"]
      BY <2>2 DEF StackStore
    <3>3. OneDrain'
      BY <1>2, <3>2 DEF OneDrain, Sound, TypeOK
    <3> QED
      BY <3>1, <3>3 DEF DrainsAfterStore
  <2> QED
    BY <2>1, <2>2 DEF Handler
<1>7. Awake => NothingRunsYet' /\ ProcessorsAwaited'
  BY <1>5 DEF NothingRunsYet, ProcessorsAwaited, Working, Sound, TypeOK
<1> QED
  BY <1>4, <1>6, <1>7, QuietBased DEF Awake

LEMMA DrainBeginDrains ==
  ASSUME Sound, Based, NEW d \in Drains, DrainBegin(d)
  PROVE  Based' /\ (Awake => Awake')
<1>1. /\ dpc[d] = "new" /\ dpc' = [dpc EXCEPT ![d] = "drain"]
      /\ UNCHANGED <<proc, making, tagged>>
  BY DEF DrainBegin
<1>2. making \notin 1..(NumItems + 1)
  BY <1>1 DEF Based, DrainsAfterStore
<1> DEFINE a == assignStackConcurrencySlots(item, job)
<1>3. \A i \in Items : a.items[i].job = item[i].job
  BY SlotsFacts, SoundFits
<1>4. /\ item' = a.items
      /\ \E W \in [Items -> {"check", "none"}] :
           /\ work' = [work EXCEPT ![d] = W]
           /\ \A i \in Items : W[i] = "check" => a.items[i].job # NoJob
  <2> DEFINE todo(i) == /\ a.items[i].job # NoJob
                        /\ a.items[i].status \notin {"failed", "cancelled"}
                        /\ a.jobs[a.items[i].job] \notin StackFinal
             W == [i \in Items |-> IF todo(i) THEN "check" ELSE "none"]
  <2>1. item' = a.items /\ work' = [work EXCEPT ![d] = W]
    BY DEF DrainBegin
  <2>2. W \in [Items -> {"check", "none"}] /\ \A i \in Items : W[i] = "check" => a.items[i].job # NoJob
    OBVIOUS
  <2> QED
    BY <2>1, <2>2
<1> HIDE DEF a
<1>5. PICK W \in [Items -> {"check", "none"}] :
         /\ work' = [work EXCEPT ![d] = W]
         /\ \A i \in Items : W[i] = "check" => a.items[i].job # NoJob
  BY <1>4
<1>6. work'[d] = W /\ \A e \in Drains : e # d => work'[e] = work[e]
  BY <1>5 DEF Sound, TypeOK
<1>7. DrainsAfterStore' /\ WorkersInDrain'
  BY <1>1, <1>2, <1>6 DEF Based, DrainsAfterStore, WorkersInDrain, Sound, TypeOK
<1>8. WorkersHaveJobs'
  BY <1>3, <1>4, <1>5, <1>6 DEF Based, WorkersHaveJobs
<1>9. SlotsInBounds'
  <2>1. {i \in Items : work'[d][i] \in HoldsSem} = {}
    BY <1>5, <1>6 DEF HoldsSem
  <2>2. \A e \in Drains : e # d => {i \in Items : work'[e][i] \in HoldsSem} = SlotsTaken(e)
    BY <1>6 DEF SlotsTaken
  <2>3. \A e \in Drains : Cardinality({i \in Items : work'[e][i] \in HoldsSem}) <= Conc
    BY <2>1, <2>2, EmptyFits DEF Based, SlotsInBounds
  <2> QED
    BY <2>3 DEF SlotsInBounds, SlotsTaken
<1>10. ASSUME Awake PROVE Awake'
  <2>1. \A e \in Drains : e # d => dpc[e] = "idle"
    BY <1>1, <1>10 DEF Awake, OneDrain
  <2>2. Working = {}
    <3>1. \A e \in Drains : dpc[e] # "drain"
      BY <1>1, <2>1
    <3> QED
      BY <1>10, <3>1, NothingRuns
  <2>3. OneDrain' /\ NothingRunsYet' /\ ProcessorsAwaited'
    BY <1>1, <1>2, <2>1, <2>2 DEF OneDrain, NothingRunsYet, ProcessorsAwaited, Working, Sound, TypeOK
  <2> QED
    BY <2>3 DEF Awake
<1> QED
  BY <1>7, <1>8, <1>9, <1>10 DEF Based

LEMMA DrainEndDrains ==
  ASSUME Sound, Based, NEW d \in Drains, DrainEnd(d)
  PROVE  Based' /\ (Awake => Awake' /\ Working' = {})
<1>1. /\ dpc[d] = "drain" /\ work[d] = NoWork /\ dpc' = [dpc EXCEPT ![d] = "idle"]
      /\ UNCHANGED <<job, proc, work, making, tagged>> /\ Refresh(item, job)
  BY DEF DrainEnd
<1>2. \A i \in Items : item'[i].job = item[i].job
  BY <1>1, SoundFits, RefreshType
<1>3. making \notin 1..(NumItems + 1)
  BY <1>1 DEF Based, DrainsAfterStore
<1>4. DrainsAfterStore' /\ WorkersInDrain' /\ WorkersHaveJobs'
  BY <1>1, <1>2, <1>3 DEF Based, DrainsAfterStore, WorkersInDrain, WorkersHaveJobs, Sound, TypeOK
<1>5. SlotsInBounds'
  BY <1>1 DEF Based, SlotsInBounds, SlotsTaken
<1>6. ASSUME Awake PROVE Awake' /\ Working' = {}
  <2>1. \A e \in Drains : e # d => dpc[e] = "idle"
    BY <1>1, <1>6 DEF Awake, OneDrain
  <2>2. \A e \in Drains : work[e] = NoWork
    BY <1>1, <2>1 DEF Based, WorkersInDrain
  <2>3. Working = {}
    BY <1>6, <2>2 DEF Awake, ProcessorsAwaited, NoWork
  <2> QED
    BY <1>1, <1>3, <2>1, <2>3 DEF Awake, OneDrain, NothingRunsYet, ProcessorsAwaited, Working,
       Sound, TypeOK
<1> QED
  BY <1>4, <1>5, <1>6 DEF Based

(* A worker of d goes from one place to another; it may take a processor.  *)
LEMMA MoveDrains ==
  ASSUME Sound, Based, NEW d \in Drains, NEW i \in Items, NEW p \in Places, GoTo(d, i, p),
         work[d][i] \notin {"none", "busy"},
         p \in HoldsSem => work[d][i] \in HoldsSem \/ Cardinality(SlotsTaken(d)) < Conc,
         Working' \subseteq Working \cup {j \in {item[i].job} : p = "busy"},
         \A k \in Items : item'[k].job = item[k].job,
         UNCHANGED <<dpc, making, tagged>>
  PROVE  Based' /\ (Awake => Awake')
<1>1. /\ dpc[d] = "drain" /\ item[i].job # NoJob
      /\ making \notin 1..(NumItems + 1)
  BY DrainOf
<1>2. /\ work'[d] = [work[d] EXCEPT ![i] = p]
      /\ \A e \in Drains : e # d => work'[e] = work[e]
      /\ work[d] \in [Items -> Places]
  BY DEF GoTo, Sound, TypeOK
<1>3. DrainsAfterStore' /\ NothingRunsYet'
  BY <1>1 DEF DrainsAfterStore, NothingRunsYet
<1>4. WorkersInDrain' /\ WorkersHaveJobs'
  BY <1>1, <1>2 DEF Based, WorkersInDrain, WorkersHaveJobs
<1>5. ASSUME ProcessorsAwaited PROVE ProcessorsAwaited'
  <2> SUFFICES ASSUME NEW j \in Working'
               PROVE  \E e \in Drains, k \in Items : work'[e][k] = "busy" /\ item'[k].job = j
    BY DEF ProcessorsAwaited
  <2>1. CASE j \in Working
    <3>1. PICK e \in Drains, k \in Items : work[e][k] = "busy" /\ item[k].job = j
      BY <1>5, <2>1 DEF ProcessorsAwaited
    <3>2. work'[e][k] = "busy"
      BY <1>2, <3>1
    <3> QED
      BY <3>1, <3>2
  <2>2. CASE j = item[i].job /\ p = "busy"
    <3>1. work'[d][i] = "busy"
      BY <1>2, <2>2
    <3> QED
      BY <2>2, <3>1
  <2> QED
    BY <2>1, <2>2
<1>6. ASSUME NEW e \in Drains
      PROVE  Cardinality({k \in Items : work'[e][k] \in HoldsSem}) <= Conc
  <2> DEFINE new == {k \in Items : work'[e][k] \in HoldsSem}
  <2>0. /\ IsFiniteSet(SlotsTaken(e)) /\ Cardinality(SlotsTaken(e)) \in Nat
        /\ Cardinality(SlotsTaken(e)) <= Conc
    BY SlotsFinite DEF Based, SlotsInBounds
  <2>1. CASE e # d
    <3>1. new = SlotsTaken(e)
      BY <1>2, <2>1 DEF SlotsTaken
    <3> QED
      BY <2>0, <3>1
  <2>2. CASE e = d /\ (p \in HoldsSem => work[d][i] \in HoldsSem)
    <3>1. new \subseteq SlotsTaken(d)
      BY <1>2, <2>2 DEF SlotsTaken
    <3> HIDE DEF new
    <3>2. IsFiniteSet(new) /\ Cardinality(new) <= Cardinality(SlotsTaken(d))
      BY <2>0, <2>2, <3>1, FS_Subset
    <3>3. Cardinality(new) \in Nat
      BY <3>2, FS_CardinalityType
    <3> QED
      BY <2>0, <2>2, <3>2, <3>3, ConstantsAssumption DEF new
  <2>3. CASE e = d /\ Cardinality(SlotsTaken(d)) < Conc
    <3>1. new \subseteq SlotsTaken(d) \cup {i}
      BY <1>2, <2>3 DEF SlotsTaken
    <3> HIDE DEF new
    <3>2. /\ IsFiniteSet(SlotsTaken(d) \cup {i})
          /\ Cardinality(SlotsTaken(d) \cup {i}) <= Cardinality(SlotsTaken(d)) + 1
      <4>1. /\ IsFiniteSet(SlotsTaken(d) \cup {i})
            /\ Cardinality(SlotsTaken(d) \cup {i}) =
                 IF i \in SlotsTaken(d) THEN Cardinality(SlotsTaken(d))
                 ELSE Cardinality(SlotsTaken(d)) + 1
        BY <2>0, <2>3, FS_AddElement
      <4> QED
        BY <2>0, <2>3, <4>1
    <3>3. /\ IsFiniteSet(new)
          /\ Cardinality(new) <= Cardinality(SlotsTaken(d) \cup {i})
      BY <3>1, <3>2, FS_Subset
    <3>4. Cardinality(new) \in Nat /\ Cardinality(SlotsTaken(d) \cup {i}) \in Nat
      BY <3>2, <3>3, FS_CardinalityType
    <3> QED
      BY <2>0, <2>3, <3>2, <3>3, <3>4, ConstantsAssumption DEF new
  <2> QED
    BY <2>1, <2>2, <2>3
<1>7. SlotsInBounds'
  BY <1>6 DEF SlotsInBounds, SlotsTaken
<1> QED
  BY <1>3, <1>4, <1>5, <1>7 DEF Based, Awake, OneDrain

(* What each step of a worker does to the places and the processors. *)
LEMMA WorkerShape ==
  ASSUME Sound, NEW d \in Drains, NEW i \in Items, item[i].job # NoJob, WorkerStep(d, i)
  PROVE  /\ work[d][i] \notin {"none", "busy"}
         /\ \A k \in Items : item'[k].job = item[k].job
         /\ UNCHANGED <<dpc, making, tagged, budget>>
         /\ \E p \in Places :
              /\ GoTo(d, i, p)
              /\ p \in HoldsSem => work[d][i] \in HoldsSem \/ Cardinality(SlotsTaken(d)) < Conc
              /\ Working' \subseteq Working \cup {j \in {item[i].job} : p = "busy"}
<1>0. item \in [Items -> ItemRows] /\ job \in [Jobs -> JobStatus] /\ item[i].job \in Jobs
  BY SoundFits DEF ItemRows
<1>1. CASE WorkerStops(d, i)
  <2> DEFINE its == [item EXCEPT ![i].status = "cancelled", ![i].started = TRUE]
  <2>1. its \in [Items -> ItemRows] /\ \A k \in Items : its[k].job = item[k].job
    BY <1>0 DEF ItemRows, JobStatus
  <2>2. Refresh(its, job)
    BY <1>1 DEF WorkerStops
  <2> HIDE DEF its
  <2>3. \A k \in Items : item'[k].job = item[k].job
    BY <1>0, <2>1, <2>2, RefreshType
  <2>4. /\ work[d][i] \in {"check", "slot"} /\ GoTo(d, i, "none") /\ Working' = Working
        /\ UNCHANGED <<dpc, making, tagged, budget>>
    BY <1>1 DEF WorkerStops, Working
  <2> QED
    BY <2>3, <2>4 DEF Places, HoldsSem
<1>2. CASE WorkerChecks(d, i)
  <2>1. /\ work[d][i] = "check" /\ GoTo(d, i, "demote") /\ Working' = Working
        /\ UNCHANGED <<dpc, making, tagged, budget, item>>
    BY <1>2 DEF WorkerChecks, Working
  <2> QED
    BY <2>1 DEF Places, HoldsSem
<1>3. CASE WorkerDemotes(d, i)
  <2>1. /\ work[d][i] = "demote" /\ GoTo(d, i, "sem") /\ Working' = Working
        /\ UNCHANGED <<dpc, making, tagged, budget>>
    BY <1>3 DEF WorkerDemotes, Working
  <2>2. \A k \in Items : item'[k].job = item[k].job
    BY <1>0, <1>3 DEF WorkerDemotes, ItemRows
  <2> QED
    BY <2>1, <2>2 DEF Places, HoldsSem
<1>4. CASE WorkerTakesSlot(d, i)
  <2>1. /\ work[d][i] = "sem" /\ GoTo(d, i, "slot") /\ Working' = Working
        /\ Cardinality(SlotsTaken(d)) < Conc
        /\ UNCHANGED <<dpc, making, tagged, budget, item>>
    BY <1>4 DEF WorkerTakesSlot, Working
  <2> QED
    BY <2>1 DEF Places, HoldsSem
<1>5. CASE WorkerPromotes(d, i)
  <2>1. /\ work[d][i] = "slot" /\ GoTo(d, i, "call") /\ Working' = Working
        /\ UNCHANGED <<dpc, making, tagged, budget>>
    BY <1>5 DEF WorkerPromotes, Working
  <2>2. \A k \in Items : item'[k].job = item[k].job
    BY <1>0, <1>5 DEF WorkerPromotes, ItemRows
  <2> QED
    BY <2>1, <2>2 DEF Places, HoldsSem
<1>6. CASE WorkerCalls(d, i)
  <2>1. /\ work[d][i] = "call" /\ UNCHANGED <<dpc, making, tagged, budget, item>>
        /\ \/ GoTo(d, i, "busy") /\ proc' = [proc EXCEPT ![item[i].job] = "gate"]
           \/ GoTo(d, i, "after") /\ proc' = proc
    BY <1>6 DEF WorkerCalls
  <2>2. CASE GoTo(d, i, "busy") /\ proc' = [proc EXCEPT ![item[i].job] = "gate"]
    <3>1. Working' \subseteq Working \cup {item[i].job}
      BY <2>1, <2>2 DEF Working, Sound, TypeOK
    <3> QED
      BY <2>1, <2>2, <3>1 DEF Places, HoldsSem
  <2>3. CASE GoTo(d, i, "after") /\ proc' = proc
    BY <2>1, <2>3 DEF Places, HoldsSem, Working
  <2> QED
    BY <2>1, <2>2, <2>3
<1>7. CASE WorkerReturns(d, i)
  <2>1. /\ work[d][i] = "after" /\ GoTo(d, i, "none") /\ Working' = Working
        /\ UNCHANGED <<dpc, making, tagged, budget>>
        /\ Refresh(item, job)
    BY <1>7 DEF WorkerReturns, Working
  <2>2. \A k \in Items : item'[k].job = item[k].job
    BY <1>0, <2>1, RefreshType
  <2> QED
    BY <2>1, <2>2 DEF Places, HoldsSem
<1> QED
  BY <1>1, <1>2, <1>3, <1>4, <1>5, <1>6, <1>7 DEF WorkerStep

LEMMA WorkerDrains ==
  ASSUME Sound, Based, NEW d \in Drains, NEW i \in Items, item[i].job # NoJob,
         WorkerStep(d, i)
  PROVE  Based' /\ (Awake => Awake')
<1>1. PICK p \in Places :
         /\ GoTo(d, i, p)
         /\ p \in HoldsSem => work[d][i] \in HoldsSem \/ Cardinality(SlotsTaken(d)) < Conc
         /\ Working' \subseteq Working \cup {j \in {item[i].job} : p = "busy"}
  BY WorkerShape
<1> QED
  BY <1>1, WorkerShape, MoveDrains

(* A processor that ends releases its workers. *)
LEMMA ProcDrains ==
  ASSUME Sound, Based, NEW j \in Jobs, ProcStep(j)
  PROVE  Based' /\ (Awake => Awake')
<1>1. UNCHANGED <<dpc, making, item, stack, tagged>>
  BY DEF ProcStep, ProcSkips, ProcAdmits, ProcEnds
<1>2. \/ work' = work /\ Working' = Working
      \/ work' = Released(j) /\ Working' = Working \ {j}
  <2>1. CASE ProcAdmits(j)
    <3>1. Working' = Working
      BY <2>1 DEF ProcAdmits, Working, Sound, TypeOK
    <3> QED
      BY <2>1, <3>1 DEF ProcAdmits
  <2>2. CASE ~ProcAdmits(j)
    <3>1. proc' = [proc EXCEPT ![j] = "idle"] /\ work' = Released(j)
      BY <2>2 DEF ProcStep, ProcSkips, ProcEnds
    <3>2. Working' = Working \ {j}
      BY <1>1, <3>1 DEF Working, Sound, TypeOK
    <3> QED
      BY <3>1, <3>2
  <2> QED
    BY <2>1, <2>2
<1>3. \A d \in Drains, i \in Items :
         /\ work'[d][i] = "none" <=> work[d][i] = "none"
         /\ work'[d][i] \in HoldsSem <=> work[d][i] \in HoldsSem
         /\ item[i].job # j => work'[d][i] = work[d][i]
  BY <1>2 DEF Released, HoldsSem
<1>4. \A d \in Drains : work[d] = NoWork => work'[d] = NoWork
  BY <1>2 DEF Released, NoWork
<1>5. DrainsAfterStore' /\ WorkersInDrain' /\ WorkersHaveJobs'
  BY <1>1, <1>2, <1>3, <1>4 DEF Based, DrainsAfterStore, WorkersInDrain, WorkersHaveJobs
<1>8. ASSUME NothingRunsYet PROVE NothingRunsYet'
  <2>1. proc[j] # "idle"
    BY DEF ProcStep, ProcSkips, ProcAdmits, ProcEnds
  <2> QED
    BY <1>1, <1>8, <2>1 DEF NothingRunsYet
<1>6. ASSUME ProcessorsAwaited PROVE ProcessorsAwaited'
  <2>1. CASE work' = work /\ Working' = Working
    BY <1>1, <1>6, <2>1 DEF ProcessorsAwaited
  <2>2. CASE Working' = Working \ {j}
    BY <1>1, <1>3, <1>6, <2>2 DEF ProcessorsAwaited
  <2> QED
    BY <1>2, <2>1, <2>2
<1>7. SlotsInBounds'
  <2>1. \A d \in Drains : {i \in Items : work'[d][i] \in HoldsSem} = SlotsTaken(d)
    BY <1>3 DEF SlotsTaken
  <2>2. \A d \in Drains : Cardinality({i \in Items : work'[d][i] \in HoldsSem}) <= Conc
    BY <2>1 DEF Based, SlotsInBounds
  <2> QED
    BY <2>2 DEF SlotsInBounds, SlotsTaken
<1> QED
  BY <1>1, <1>5, <1>6, <1>7, <1>8 DEF Based, Awake, OneDrain

(* A cancel or a look at the stack changes rows and items, no place.       *)
LEMMA CancelDrains ==
  ASSUME Sound, Based, CancelStack \/ ShowStack \/ \E j \in Jobs : CancelJob(j)
  PROVE  Based' /\ (Awake => Awake') /\ UNCHANGED <<proc, dpc, work, making>>
<1>1. UNCHANGED <<proc, dpc, work, making, tagged>> /\ (stack' # stack => stack # "none")
  BY DEF CancelStack, ShowStack, CancelJob, BelongsTo
<1>2. \A k \in Items : item'[k].job = item[k].job
  <2>1. item \in [Items -> ItemRows] /\ job \in [Jobs -> JobStatus]
    BY SoundFits
  <2>2. \A js : CancelledRows(js) \in [Jobs -> JobStatus]
    BY CancelledAbsent
  <2>3. UNCHANGED item \/ \E rows \in [Jobs -> JobStatus] : Refresh(item, rows)
    <3>1. CASE CancelStack
      BY <2>2, <3>1 DEF CancelStack
    <3>2. CASE ShowStack
      BY <2>1, <3>2 DEF ShowStack
    <3>3. CASE \E j \in Jobs : CancelJob(j)
      BY <2>2, <3>3 DEF CancelJob
    <3> QED
      BY <3>1, <3>2, <3>3
  <2> QED
    BY <2>1, <2>3, RefreshType
<1>3. SlotsInBounds'
  BY <1>1 DEF Based, SlotsInBounds, SlotsTaken
<1> QED
  BY <1>1, <1>2, <1>3 DEF Based, Awake, OneDrain, DrainsAfterStore, WorkersInDrain,
     WorkersHaveJobs, NothingRunsYet, ProcessorsAwaited, Working

(* A webhook gives a row that is in flight a processor of its own, a       *)
(* resume gives the stack another drain.                                   *)
LEMMA AdminDrains ==
  ASSUME Sound, Based, Resume \/ \E j \in Jobs : Webhook(j)
  PROVE  Based'
<1>1. CASE \E j \in Jobs : Webhook(j)
  <2>1. PICK j \in Jobs : Webhook(j)
    BY <1>1
  <2>2. UNCHANGED <<job, tagged, item, stack, making, dpc, work>>
    BY <2>1 DEF Webhook
  <2> QED
    BY <2>2 DEF Based, DrainsAfterStore, WorkersInDrain, WorkersHaveJobs,
       SlotsInBounds, SlotsTaken
<1>2. CASE Resume
  <2> DEFINE a == prepareStackForResume(item, job)
  <2>1. \A i \in Items : a.items[i].job = item[i].job
    BY SoundFits, PrepareKeeps DEF Kept, SameJobs
  <2>2. /\ \/ /\ item' = a.items
              /\ \E d \in Drains : dpc[d] = "idle" /\ dpc' = [dpc EXCEPT ![d] = "new"]
              /\ stackNeedsResume(item, stack)
           \/ UNCHANGED <<item, stack, dpc>>
        /\ UNCHANGED <<tagged, making, work>>
    BY <1>2 DEF Resume
  <2> HIDE DEF a
  <2>5. \A i \in Items : item'[i].job = item[i].job
    BY <2>1, <2>2
  <2>6. DrainsAfterStore'
    BY <2>2 DEF Based, DrainsAfterStore, stackNeedsResume
  <2>7. WorkersInDrain' /\ WorkersHaveJobs'
    BY <2>2, <2>5 DEF Based, WorkersInDrain, WorkersHaveJobs, Sound, TypeOK
  <2>8. SlotsInBounds'
    BY <2>2 DEF Based, SlotsInBounds, SlotsTaken
  <2> QED
    BY <2>6, <2>7, <2>8 DEF Based
<1> QED
  BY <1>1, <1>2

LEMMA RestartDrains ==
  ASSUME Sound, Restart
  PROVE  Based' /\ Awake' /\ Working' = {}
<1>1. Working' = {} /\ \A d \in Drains : work'[d] = NoWork
  BY RestartFacts DEF Working
<1>2. OneDrain' /\ NothingRunsYet' /\ DrainsAfterStore'
  BY RestartFacts, ConstantsAssumption DEF OneDrain, NothingRunsYet, DrainsAfterStore
<1> QED
  BY <1>1, <1>2, QuietBased DEF Awake, ProcessorsAwaited

-----------------------------------------------------------------------------
(* All of it together, and what TypeOK and ProcessorsBounded rest on.      *)

DrainsOK == Sound /\ BudgetInv /\ DrainInv

LEMMA DrainsNext ==
  ASSUME DrainsOK, [Next]_vars
  PROVE  DrainsOK'
<1>0. Sound /\ Based /\ (DrainAlone => Awake) /\ TypeOK
  BY DEF DrainsOK, DrainInv, Based, Awake, Sound
<1>1. /\ BudgetInv'
      /\ \A e \in Events : budget'[e] = Budget[e] => budget[e] = Budget[e]
  BY <1>0, BudgetStep DEF DrainsOK
<1>2. DrainAlone' => DrainAlone
  BY <1>1 DEF DrainAlone, Events
<1>3. SUFFICES Sound' /\ Based' /\ (DrainAlone' /\ Awake => Awake')
  BY <1>0, <1>1, <1>2 DEF DrainsOK, DrainInv, Based, Awake
<1>4. CASE Handler
  BY <1>0, <1>4, StackEnqueueSound, StackTagSound, StackStoreSound, HandlerDrains DEF Handler
<1>5. ASSUME NEW d \in Drains, DrainBegin(d) \/ DrainEnd(d)
      PROVE  Sound' /\ Based' /\ (Awake => Awake')
  BY <1>0, <1>5, DrainSound, DrainBeginDrains, DrainEndDrains
<1>6. ASSUME NEW d \in Drains, NEW i \in Items, WorkerStep(d, i)
      PROVE  Sound' /\ Based' /\ (Awake => Awake')
  <2>1. work[d][i] # "none"
    BY <1>6 DEF WorkerStep, WorkerStops, WorkerChecks, WorkerDemotes, WorkerTakesSlot,
       WorkerPromotes, WorkerCalls, WorkerReturns
  <2>2. item[i].job # NoJob
    BY <1>0, <2>1, DrainOf
  <2> QED
    BY <1>0, <1>6, <2>2, WorkerSound, WorkerDrains
<1>7. ASSUME NEW j \in Jobs, ProcStep(j)
      PROVE  Sound' /\ Based' /\ (Awake => Awake')
  BY <1>0, <1>7, ProcSound, ProcDrains
<1>8. CASE CancelStack \/ ShowStack \/ \E j \in Jobs : CancelJob(j)
  BY <1>0, <1>8, CancelSound, CancelDrains
<1>9. CASE Resume \/ \E j \in Jobs : Webhook(j)
  <2>1. \E e \in {"resume", "webhook"} : Spend(e)
    BY <1>9 DEF Resume, Webhook
  <2>2. ~DrainAlone'
    BY <1>0, <2>1, SpendShows DEF DrainAlone, DrainsOK, Events
  <2> QED
    BY <1>0, <1>9, <2>2, ResumeSound, CancelSound, AdminDrains
<1>10. CASE Restart
  BY <1>0, <1>10, RestartFacts, RestartDrains
<1>11. CASE UNCHANGED vars
  BY <1>0, <1>11 DEF vars, Sound, TypeOK, RowInv, Based, DrainsAfterStore, WorkersInDrain,
     WorkersHaveJobs, SlotsInBounds, SlotsTaken, Working, Awake, OneDrain, NothingRunsYet,
     ProcessorsAwaited
<1> QED
  BY <1>4, <1>5, <1>6, <1>7, <1>8, <1>9, <1>10, <1>11 DEF Next, User

LEMMA DrainsInit ==
  ASSUME Init
  PROVE  DrainsOK
<1>1. TypeOK
  BY ConstantsAssumption DEF Init, TypeOK, NoItem, NoWork, Places, JobStatus
<1>2. RowInv
  BY DEF Init, RowInv, NoItem
<1>3. BudgetInv
  BY ConstantsAssumption DEF Init, BudgetInv
<1>4. DrainsAfterStore /\ WorkersInDrain /\ WorkersHaveJobs /\ Working = {}
  BY DEF Init, DrainsAfterStore, WorkersInDrain, WorkersHaveJobs, NoWork, Working
<1>5. SlotsInBounds
  <2>1. \A d \in Drains : SlotsTaken(d) = {}
    BY DEF Init, SlotsTaken, NoWork, HoldsSem
  <2> QED
    BY <2>1, EmptyFits DEF SlotsInBounds
<1>6. OneDrain /\ NothingRunsYet /\ ProcessorsAwaited
  BY <1>4 DEF Init, OneDrain, NothingRunsYet, ProcessorsAwaited
<1> QED
  BY <1>1, <1>2, <1>3, <1>4, <1>5, <1>6 DEF DrainsOK, Sound, DrainInv

LEMMA DrainsHold == Spec => []DrainsOK
  BY DrainsInit, DrainsNext, PTL DEF Spec

(* Rows, items, drains, workers and processors of review stacks stay in    *)
(* the states scm_review_stack.go names, for any items, jobs and events.   *)
THEOREM TypeCorrect == Spec => []TypeOK
<1>1. DrainsOK => TypeOK
  BY DEF DrainsOK, Sound
<1> QED
  BY <1>1, DrainsHold, PTL

(* Each processor has a worker of its own past the semaphore. *)
LEMMA WorkingFits ==
  ASSUME DrainsOK, DrainAlone
  PROVE  Cardinality(Working) <= Conc
<1>1. Based /\ OneDrain /\ ProcessorsAwaited
  BY DEF DrainsOK, DrainInv, Based
<1>2. CASE Working = {}
  BY <1>2, EmptyFits
<1>3. CASE Working # {}
  <2>1. PICK d \in Drains : \E i \in Items : work[d][i] = "busy"
    BY <1>1, <1>3 DEF ProcessorsAwaited
  <2>2. dpc[d] = "drain"
    BY <1>1, <2>1, DrainOf
  <2>3. \A e \in Drains, i \in Items : work[e][i] = "busy" => e = d
    BY <1>1, <2>2, DrainOf DEF OneDrain
  <2>4. \A j \in Working : \E i \in SlotsTaken(d) : item[i].job = j
    BY <1>1, <2>3 DEF ProcessorsAwaited, SlotsTaken, HoldsSem
  <2> DEFINE f == [j \in Working |-> CHOOSE i \in SlotsTaken(d) : item[i].job = j]
  <2>5. \A j \in Working : f[j] \in SlotsTaken(d) /\ item[f[j]].job = j
    BY <2>4
  <2> HIDE DEF f
  <2>6. f \in Injection(Working, SlotsTaken(d))
    <3>1. f \in [Working -> SlotsTaken(d)]
      BY <2>5 DEF f
    <3>2. \A j, k \in Working : f[j] = f[k] => j = k
      BY <2>5
    <3> QED
      BY <3>1, <3>2 DEF Injection, IsInjective
  <2>7. IsFiniteSet(SlotsTaken(d)) /\ Cardinality(SlotsTaken(d)) \in Nat
    BY SlotsFinite
  <2>8. IsFiniteSet(Working) /\ Cardinality(Working) <= Cardinality(SlotsTaken(d))
    BY <2>6, <2>7, FS_Injection
  <2>9. Cardinality(Working) \in Nat /\ Cardinality(SlotsTaken(d)) <= Conc
    BY <1>1, <2>8, FS_CardinalityType DEF Based, SlotsInBounds
  <2> QED
    BY <2>7, <2>8, <2>9, ConstantsAssumption
<1> QED
  BY <1>2, <1>3

(* drainOPAReviewStack works off no more than scmProcessConcurrency() runs *)
(* of a stack at once, through every cancel and crash, for any number of   *)
(* items, jobs and slots, until somebody else starts work.                 *)
THEOREM ProcessorsAreBounded == Spec => []ProcessorsBounded
<1>1. DrainsOK => ProcessorsBounded
  BY WorkingFits DEF ProcessorsBounded
<1> QED
  BY <1>1, DrainsHold, PTL

-----------------------------------------------------------------------------
(* A status that says done. *)

(* What a refreshed stack says of the rows it was refreshed from. *)
LEMMA RefreshSays ==
  ASSUME NEW items \in [Items -> ItemRows], NEW jobs \in [Jobs -> JobStatus],
         Fits(items, jobs), Refresh(items, jobs)
  PROVE  /\ stack' \in {"completed", "failed"} =>
              \A i \in Items : items[i].job # NoJob => jobs[items[i].job] \in Finished
         /\ stack' = "completed" =>
              \A i \in Items : items[i].job # NoJob =>
                jobs[items[i].job] \in {"completed", "cancelled"}
         /\ \A i \in Items : item'[i].job = items[i].job
<1> DEFINE new == refreshItems(items, jobs)
<1>0. /\ new \in [Items -> ItemRows] /\ \A i \in Items : new[i].job = items[i].job
      /\ item' = new /\ stack' = foldStack(new, stack)
  BY RefreshItemsType DEF Refresh
<1>1. \A i \in Items : items[i].job # NoJob =>
         /\ items[i].job \in Jobs
         /\ i \in Listed(items) /\ i \in Listed(new)
         /\ new[i].status \notin Backlog => new[i].status = jobs[items[i].job]
  <2> SUFFICES ASSUME NEW i \in Items, items[i].job # NoJob
               PROVE  /\ items[i].job \in Jobs
                      /\ i \in Listed(items) /\ i \in Listed(new)
                      /\ new[i].status \notin Backlog => new[i].status = jobs[items[i].job]
    OBVIOUS
  <2>1. items[i].job \in Jobs /\ i \in Listed(items)
    BY DEF ItemRows, Listed, Fits
  <2>2. i \in Listed(new)
    BY <1>0, RefreshFits DEF Listed, Fits
  <2>3. new[i] = refreshItem(items[i], jobs)
    BY <2>1 DEF refreshItems
  <2> HIDE DEF new
  <2>4. new[i].status \notin Backlog => new[i].status = jobs[items[i].job]
    BY <2>3 DEF refreshItem, Backlog, ItemRows
  <2> QED
    BY <2>1, <2>2, <2>4
<1> HIDE DEF new
<1>2. stack' \in {"completed", "failed"} =>
         \A i \in Listed(new) : new[i].status \in StackFinal
  BY <1>0 DEF foldStack
<1>3. stack' = "completed" =>
         \A i \in Listed(new) : new[i].status \in StackFinal \ {"failed", "error"}
  BY <1>0, <1>2 DEF foldStack
<1>4. stack' \in {"completed", "failed"} =>
         \A i \in Items : items[i].job # NoJob => jobs[items[i].job] \in Finished
  BY <1>1, <1>2 DEF StackFinal, Finished, InFlight, Backlog, JobStatus
<1>5. stack' = "completed" =>
         \A i \in Items : items[i].job # NoJob =>
           jobs[items[i].job] \in {"completed", "cancelled"}
  BY <1>1, <1>3 DEF StackFinal, Backlog
<1> QED
  BY <1>0, <1>4, <1>5

(* A refresh that leaves the processors as they are. *)
LEMMA RefreshDone ==
  ASSUME Sound, NEW items \in [Items -> ItemRows], SameJobs(items, item), Fits(items, job),
         job' \in [Jobs -> JobStatus], SameAbsent(job', job), Refresh(items, job'),
         NoCancel' /\ DrainAlone' => \A j \in Working' : job'[j] \in InFlight
  PROVE  DoneInv'
<1>1. Fits(items, job')
  BY DEF Fits, SameAbsent, ItemRows
<1>2. /\ stack' \in {"completed", "failed"} =>
              \A i \in Items : items[i].job # NoJob => job'[items[i].job] \in Finished
      /\ stack' = "completed" =>
              \A i \in Items : items[i].job # NoJob =>
                job'[items[i].job] \in {"completed", "cancelled"}
      /\ \A i \in Items : item'[i].job = items[i].job
  BY <1>1, RefreshSays
<1>3. /\ stack' \in {"completed", "failed"} => RowsOf(Finished)'
      /\ stack' = "completed" => RowsOf({"completed", "cancelled"})'
  BY <1>2 DEF RowsOf
<1> QED
  BY <1>3 DEF DoneInv, DoneMeansDone, Uncancelled

WithinBacklog ==
  \A j \in Jobs : job'[j] = job[j] \/ (job[j] \in Backlog /\ job'[j] \in Backlog)

(* A drain or a worker at work changes rows only within the backlog, and   *)
(* a processor it starts is one for a row that is in flight.               *)
LEMMA BusyDone ==
  ASSUME Sound, DoneInv, DrainAlone, NoCancel' => NoCancel,
         NEW d \in Drains, dpc'[d] # "idle",
         \A i \in Items : item'[i].job = item[i].job,
         WithinBacklog, tagged' = tagged,
         \A j \in Working' : j \in Working \/ job[j] \in InFlight,
         stack' \in {stack, "running"}
  PROVE  DoneInv'
<1>1. DoneMeansDone'
  BY DEF DoneMeansDone
<1>2. ASSUME NoCancel' PROVE \A j \in Working' : job'[j] \in InFlight
  <2>1. \A j \in Working' : j \in Jobs /\ job[j] \in InFlight
    BY <1>2 DEF DoneInv, Uncancelled, Working, Sound, TypeOK
  <2> QED
    BY <2>1 DEF InFlight, WithinBacklog
<1>3. ASSUME NoCancel', stack' = "completed" PROVE RowsOf({"completed", "cancelled"})'
  <2>1. RowsOf({"completed", "cancelled"})
    BY <1>3 DEF DoneInv, Uncancelled
  <2>2. \A i \in Items : item[i].job # NoJob => item[i].job \in Jobs
    BY SoundFits DEF ItemRows
  <2> QED
    BY <2>1, <2>2 DEF RowsOf, Backlog, WithinBacklog
<1> QED
  BY <1>1, <1>2, <1>3 DEF DoneInv, Uncancelled

LEMMA HandlerDone ==
  ASSUME Sound, Based, Awake, Handler, Sound'
  PROVE  DoneInv'
<1>1. making \in 1..(NumItems + 1)
  BY HandlerPlace
<1>2. stack = "none" /\ \A j \in Jobs : proc[j] = "idle"
  BY <1>1 DEF Based, DrainsAfterStore, Awake, NothingRunsYet
<1>3. Working' = {}
  BY <1>2 DEF Handler, StackEnqueue, StackTag, StackStore, Working, Sound, TypeOK
<1>4. \/ stack' \in {"none", "queued"}
      \/ stack' = "failed" /\ \A i \in Items : item'[i].job = NoJob
  <2>1. CASE StackEnqueue \/ StackTag
    BY <1>2, <2>1 DEF StackEnqueue, StackTag
  <2>2. CASE StackStore
    <3>1. CASE \E i \in Items : item[i].job # NoJob
      BY <2>2, <3>1 DEF StackStore
    <3>2. CASE ~\E i \in Items : item[i].job # NoJob
      BY <2>2, <3>2 DEF StackStore
    <3> QED
      BY <3>1, <3>2
  <2> QED
    BY <2>1, <2>2 DEF Handler
<1> QED
  BY <1>3, <1>4 DEF DoneInv, DoneMeansDone, Uncancelled, RowsOf

LEMMA DrainDone ==
  ASSUME Sound, Based, Awake, DoneInv, DrainAlone, NoCancel' => NoCancel,
         NEW d \in Drains, DrainBegin(d) \/ DrainEnd(d)
  PROVE  DoneInv'
<1>0. item \in [Items -> ItemRows] /\ job \in [Jobs -> JobStatus] /\ Fits(item, job)
  BY SoundFits
<1>1. CASE DrainBegin(d)
  <2> DEFINE a == assignStackConcurrencySlots(item, job)
  <2>1. /\ item' = a.items /\ job' = a.jobs /\ stack' = "running"
        /\ dpc' = [dpc EXCEPT ![d] = "drain"] /\ proc' = proc /\ tagged' = tagged
    BY <1>1 DEF DrainBegin
  <2>2. /\ \A i \in Items : a.items[i].job = item[i].job
        /\ \A j \in Jobs : job[j] \in Backlog => a.jobs[j] \in Backlog
        /\ \A j \in Jobs : job[j] \notin Backlog => a.jobs[j] = job[j]
    BY <1>0, SlotsFacts
  <2> HIDE DEF a
  <2>3. dpc'[d] # "idle" /\ Working' = Working
    BY <2>1 DEF Sound, TypeOK, Working
  <2>4. WithinBacklog /\ \A i \in Items : item'[i].job = item[i].job
    BY <2>1, <2>2 DEF WithinBacklog
  <2>5. (\A j \in Working' : j \in Working \/ job[j] \in InFlight) /\ stack' \in {stack, "running"}
    BY <2>1, <2>3
  <2> QED
    BY <2>1, <2>3, <2>4, <2>5, BusyDone
<1>2. CASE DrainEnd(d)
  <2>1. Refresh(item, job') /\ job' = job /\ Working' = {}
    BY <1>2, DrainEndDrains DEF DrainEnd
  <2> QED
    BY <1>0, <2>1, RefreshDone DEF SameJobs, SameAbsent
<1> QED
  BY <1>1, <1>2

LEMMA WorkerDone ==
  ASSUME Sound, Based, Awake, DoneInv, DrainAlone, NoCancel' => NoCancel,
         NEW d \in Drains, NEW i \in Items, WorkerStep(d, i)
  PROVE  DoneInv'
<1>1. work[d][i] # "none"
  BY DEF WorkerStep, WorkerStops, WorkerChecks, WorkerDemotes, WorkerTakesSlot,
     WorkerPromotes, WorkerCalls, WorkerReturns
<1>2. dpc[d] = "drain" /\ item[i].job # NoJob
  BY <1>1, DrainOf
<1>3. /\ item \in [Items -> ItemRows] /\ job \in [Jobs -> JobStatus] /\ Fits(item, job)
      /\ item[i].job \in Jobs
  BY <1>2, SoundFits DEF ItemRows
<1>4. dpc' = dpc /\ tagged' = tagged /\ \A k \in Items : item'[k].job = item[k].job
  BY <1>2, WorkerShape
<1>5. ASSUME job' = job, Working' = Working, NEW items \in [Items -> ItemRows],
             SameJobs(items, item), Fits(items, job), Refresh(items, job)
      PROVE  DoneInv'
  <2>1. NoCancel' /\ DrainAlone' => \A j \in Working' : job'[j] \in InFlight
    BY <1>5 DEF DoneInv, Uncancelled
  <2> QED
    BY <1>3, <1>5, <2>1, RefreshDone DEF SameAbsent
<1>12. ASSUME WithinBacklog, stack' = stack,
              \A j \in Working' : j \in Working \/ job[j] \in InFlight
       PROVE  DoneInv'
  <2>1. dpc'[d] # "idle" /\ stack' \in {stack, "running"}
    BY <1>2, <1>4, <1>12
  <2> QED
    BY <1>4, <1>12, <2>1, BusyDone
<1>6. CASE WorkerStops(d, i)
  <2> DEFINE its == [item EXCEPT ![i].status = "cancelled", ![i].started = TRUE]
  <2>1. its \in [Items -> ItemRows] /\ SameJobs(its, item) /\ Fits(its, job)
    BY <1>3 DEF ItemRows, JobStatus, SameJobs, Fits
  <2>2. Refresh(its, job) /\ job' = job /\ Working' = Working
    BY <1>6 DEF WorkerStops, Working
  <2> HIDE DEF its
  <2> QED
    BY <1>5, <2>1, <2>2
<1>7. CASE WorkerReturns(d, i)
  BY <1>3, <1>5, <1>7 DEF WorkerReturns, Working, SameJobs
<1>8. CASE WorkerChecks(d, i) \/ WorkerTakesSlot(d, i)
  <2>1. WithinBacklog /\ stack' = stack /\ Working' = Working
    BY <1>8 DEF WorkerChecks, WorkerTakesSlot, WithinBacklog, Working
  <2> QED
    BY <1>12, <2>1
<1>9. CASE WorkerDemotes(d, i)
  <2>1. WithinBacklog
    BY <1>3, <1>9 DEF WorkerDemotes, Backlog, WithinBacklog
  <2>2. stack' = stack /\ Working' = Working
    BY <1>9 DEF WorkerDemotes, Working
  <2> QED
    BY <1>12, <2>1, <2>2
<1>10. CASE WorkerPromotes(d, i)
  <2>1. WithinBacklog
    BY <1>3, <1>10 DEF WorkerPromotes, Backlog, WithinBacklog
  <2>2. stack' = stack /\ Working' = Working
    BY <1>10 DEF WorkerPromotes, Working
  <2> QED
    BY <1>12, <2>1, <2>2
<1>11. CASE WorkerCalls(d, i)
  <2>1. job' = job /\ stack' = stack
    BY <1>11 DEF WorkerCalls
  <2>2. \A j \in Working' : j \in Working \/ (j = item[i].job /\ job[j] \notin Finished)
    BY <1>3, <1>11 DEF WorkerCalls, Working, Sound, TypeOK
  <2>3. job[item[i].job] # "absent"
    BY <1>2, <1>3 DEF Fits
  <2>4. \A j \in Working' : j \in Working \/ job[j] \in InFlight
    BY <1>3, <2>2, <2>3 DEF Finished, InFlight
  <2> QED
    BY <1>12, <2>1, <2>4 DEF WithinBacklog
<1> QED
  BY <1>6, <1>7, <1>8, <1>9, <1>10, <1>11 DEF WorkerStep

(* A processor of a row of the stack. *)
LEMMA MemberDone ==
  ASSUME Sound, Based, Awake, DoneInv, DrainAlone, NoCancel' => NoCancel,
         NEW j \in tagged, ProcStep(j)
  PROVE  DoneInv'
<1>1. j \in Jobs /\ j \in Working /\ UNCHANGED <<item, stack, dpc, tagged>>
  BY DEF ProcStep, ProcSkips, ProcAdmits, ProcEnds, Working, Sound, TypeOK
<1>2. PICK d \in Drains, i \in Items : work[d][i] = "busy" /\ item[i].job = j
  BY <1>1 DEF Awake, ProcessorsAwaited
<1>3. dpc[d] = "drain" /\ item[i].job # NoJob
  BY <1>2, DrainOf
<1>4. DoneMeansDone'
  BY <1>1, <1>3 DEF DoneMeansDone
<1>5. ASSUME NoCancel', DrainAlone'
      PROVE  (\A k \in Working' : job'[k] \in InFlight) /\ stack' # "completed"
  <2>1. (\A k \in Working : job[k] \in InFlight) /\ job[j] \in InFlight
    BY <1>1, <1>5 DEF DoneInv, Uncancelled
  <2>2. stack # "completed"
    BY <1>2, <1>3, <1>5, <2>1 DEF DoneInv, Uncancelled, RowsOf, InFlight, Backlog
  <2>3. \/ /\ job' = [job EXCEPT ![j] = "running"] /\ Working' \subseteq Working
        \/ \E s : job' = [job EXCEPT ![j] = s] /\ Working' \subseteq Working \ {j}
    <3>1. CASE ProcAdmits(j)
      BY <1>1, <3>1 DEF ProcAdmits, Working
    <3>2. CASE ProcSkips(j)
      BY <1>1, <3>2 DEF ProcSkips, Working, Sound, TypeOK
    <3>3. CASE \E end \in Ends : ProcEnds(j, end)
      <4>1. proc' = [proc EXCEPT ![j] = "idle"] /\ \E s : job' = [job EXCEPT ![j] = s]
        BY <3>3 DEF ProcEnds
      <4>2. Working' \subseteq Working \ {j}
        BY <1>1, <4>1 DEF Working, Sound, TypeOK
      <4> QED
        BY <4>1, <4>2
    <3> QED
      BY <3>1, <3>2, <3>3 DEF ProcStep
  <2>4. \A k \in Working' : job'[k] \in InFlight
    BY <1>1, <2>1, <2>3 DEF Sound, TypeOK, InFlight, Working
  <2> QED
    BY <1>1, <2>2, <2>4
<1> QED
  BY <1>4, <1>5 DEF DoneInv, Uncancelled

LEMMA ProcDone ==
  ASSUME Sound, Based, Awake, DoneInv, DrainAlone, NoCancel' => NoCancel,
         NEW j \in Jobs, ProcStep(j)
  PROVE  DoneInv'
<1>1. UNCHANGED <<item, stack, dpc, tagged>>
  BY DEF ProcStep, ProcSkips, ProcAdmits, ProcEnds
<1>2. CASE j \in tagged
  BY <1>2, MemberDone
<1>3. CASE j \notin tagged
  <2>1. /\ \A k \in Jobs : k # j => job'[k] = job[k] /\ proc'[k] = proc[k]
    BY DEF ProcStep, ProcSkips, ProcAdmits, ProcEnds, Sound, TypeOK
  <2>2. \A i \in Items : item[i].job # NoJob => item[i].job \in Jobs /\ item[i].job # j
    BY <1>3, SoundFits DEF Sound, RowInv, ItemRows
  <2>3. \A S : RowsOf(S)' <=> RowsOf(S)
    BY <1>1, <2>1, <2>2 DEF RowsOf
  <2>4. /\ Working' = Working /\ \A k \in Working : job'[k] = job[k]
        /\ budget' = budget
    BY <1>1, <1>3, <2>1 DEF Working, Sound, TypeOK, ProcStep, ProcSkips, ProcAdmits, ProcEnds
  <2> QED
    BY <1>1, <2>3, <2>4 DEF DoneInv, DoneMeansDone, Uncancelled, DrainAlone, NoCancel,
       AnswersFolded
<1> QED
  BY <1>2, <1>3

LEMMA ShowDone ==
  ASSUME Sound, Based, DoneInv, DrainAlone, BudgetInv,
         \A e \in Events : budget'[e] = Budget[e] => budget[e] = Budget[e],
         CancelStack \/ ShowStack \/ \E j \in Jobs : CancelJob(j)
  PROVE  DoneInv'
<1>0. /\ item \in [Items -> ItemRows] /\ job \in [Jobs -> JobStatus] /\ Fits(item, job)
      /\ SameJobs(item, item) /\ TypeOK
  BY SoundFits DEF SameJobs, Sound
<1>1. CASE ShowStack
  <2>1. job' = job /\ Refresh(item, job) /\ Working' = Working /\ budget' = budget
    BY <1>1 DEF ShowStack, Working
  <2>2. NoCancel' /\ DrainAlone' => \A j \in Working' : job'[j] \in InFlight
    BY <2>1 DEF DoneInv, Uncancelled, NoCancel
  <2> QED
    BY <1>0, <2>1, <2>2, RefreshDone DEF SameAbsent
<1>2. CASE CancelStack
  <2>1. ~NoCancel'
    BY <1>0, <1>2, SpendShows DEF CancelStack, NoCancel, Events
  <2>2. job' \in [Jobs -> JobStatus] /\ SameAbsent(job', job) /\ Refresh(item, job')
    BY <1>2, CancelledAbsent DEF CancelStack
  <2> QED
    BY <1>0, <2>1, <2>2, RefreshDone
<1>3. CASE \E j \in Jobs : CancelJob(j)
  <2>1. PICK j \in Jobs : CancelJob(j)
    BY <1>3
  <2>2. ~NoCancel'
    BY <1>0, <2>1, SpendShows DEF CancelJob, NoCancel, Events
  <2>3. job' \in [Jobs -> JobStatus] /\ SameAbsent(job', job) /\ job' = CancelledRows({j})
    BY <2>1, CancelledAbsent DEF CancelJob
  <2>4. CASE BelongsTo(j)
    <3>1. Refresh(item, job')
      BY <2>1, <2>4 DEF CancelJob
    <3> QED
      BY <1>0, <2>2, <2>3, <3>1, RefreshDone
  <2>5. CASE ~BelongsTo(j)
    <3>1. UNCHANGED <<item, stack, dpc>>
      BY <2>1, <2>5 DEF CancelJob
    <3>2. stack # "none" => \A i \in Items : item[i].job # NoJob =>
             item[i].job \in Jobs /\ job'[item[i].job] = job[item[i].job]
      BY <1>0, <2>3, <2>5 DEF BelongsTo, CancelledRows, ItemRows
    <3>3. AnswersFolded' => AnswersFolded
      BY <2>2 DEF AnswersFolded, Events
    <3>4. DoneMeansDone'
      BY <3>1, <3>2, <3>3 DEF DoneInv, DoneMeansDone, RowsOf
    <3> QED
      BY <2>2, <3>4 DEF DoneInv, Uncancelled
  <2> QED
    BY <2>4, <2>5
<1> QED
  BY <1>1, <1>2, <1>3

LEMMA RestartDone ==
  ASSUME Sound, DoneInv, DrainAlone, NoCancel' => NoCancel, BudgetInv, Restart
  PROVE  DoneInv'
<1>1. /\ Working' = {}
      /\ stack' \in {"completed", "failed"} =>
           /\ stack' = stack
           /\ \A i \in Items : item'[i].job # NoJob =>
                /\ item'[i].job = item[i].job
                /\ job'[item[i].job] \in Finished
                /\ job'[item[i].job] = job[item[i].job]
  BY RestartFacts, RestartDrains
<1>2. AnswersFolded' => NoCancel'
  BY SpendShows DEF Restart, AnswersFolded, Events, Sound
<1>3. stack' \in {"completed", "failed"} => RowsOf(Finished)'
  BY <1>1 DEF RowsOf
<1>4. stack' = "completed" /\ NoCancel' => RowsOf({"completed", "cancelled"})'
  BY <1>1 DEF RowsOf, DoneInv, Uncancelled
<1> QED
  BY <1>1, <1>2, <1>3, <1>4 DEF DoneInv, DoneMeansDone, Uncancelled

LEMMA DoneNext ==
  ASSUME DrainsOK, DoneInv, [Next]_vars
  PROVE  DoneInv'
<1>0. Sound /\ Based /\ (DrainAlone => Awake) /\ TypeOK /\ BudgetInv
  BY DEF DrainsOK, DrainInv, Based, Awake, Sound
<1>1. \A e \in Events : budget'[e] = Budget[e] => budget[e] = Budget[e]
  BY <1>0, BudgetStep
<1>2. CASE ~DrainAlone'
  BY <1>2 DEF DoneInv, DoneMeansDone, Uncancelled
<1>3. CASE DrainAlone'
  <2>1. DrainAlone /\ Awake /\ (NoCancel' => NoCancel)
    BY <1>0, <1>1, <1>3 DEF DrainAlone, NoCancel, Events
  <2>2. ~(Resume \/ \E j \in Jobs : Webhook(j))
    BY <1>0, <1>3, SpendShows DEF Resume, Webhook, DrainAlone, Events
  <2>3. CASE Next
    <3>1. Sound'
      BY DrainsNext DEF DrainsOK
    <3>2. CASE Handler
      BY <1>0, <2>1, <3>1, <3>2, HandlerDone
    <3>3. CASE ~Handler
      BY <1>0, <1>1, <2>1, <2>2, <2>3, <3>3, DrainDone, WorkerDone, ProcDone, ShowDone,
         RestartDone DEF Next, User
    <3> QED
      BY <3>2, <3>3
  <2>4. CASE UNCHANGED vars
    BY <2>4 DEF vars, DoneInv, DoneMeansDone, Uncancelled, DrainAlone, NoCancel, AnswersFolded,
       RowsOf, Working
  <2> QED
    BY <2>3, <2>4
<1> QED
  BY <1>2, <1>3

(* A stack without a drain that says completed or failed has no run left,  *)
(* and completed means that none failed, through every cancel and crash:   *)
(* refreshOPAReviewStack at the end of the drain.                          *)
THEOREM DoneIsDone == Spec => []DoneMeansDone
<1>1. Init => DoneInv
  BY DEF Init, DoneInv, DoneMeansDone, Uncancelled, Working
<1>2. DoneInv => DoneMeansDone
  BY DEF DoneInv
<1> QED
  BY <1>1, <1>2, DrainsHold, DoneNext, PTL DEF Spec
=============================================================================
