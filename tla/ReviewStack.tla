----------------------------- MODULE ReviewStack -----------------------------
(***************************************************************************)
(* An OPA Review stack: a batch of pull-request reviews that one drain     *)
(* goroutine works off with bounded concurrency.  The drain starts one     *)
(* worker per item; a worker waits for one of the drain's slots and then   *)
(* runs processSCMJob on the item's job.  Statuses live twice, on the job  *)
(* row and on the stack's item, and both are rewritten by the workers, by  *)
(* the cancel and progress endpoints, by the boot and by the admin resume. *)
(*                                                                         *)
(* The run graph under a job (module RunGraph) is reduced to what a stack  *)
(* sees of it: a processor that checks the status, writes "running" later, *)
(* and ends the row.                                                       *)
(***************************************************************************)
EXTENDS Integers, FiniteSets

CONSTANTS
  NumItems,   \* items of the request
  Jobs,       \* job rows
  NoJob,      \* no job row: the item was refused
  JobOf,      \* the row enqueueManualAIReview returns for an item, or NoJob
  Conc,       \* scmProcessConcurrency()
  Ends,       \* the statuses a run that is not cancelled may end with
  NumDrains,  \* how many drains may be at work at once
  Budget,     \* how often each external event may happen
  Mixes       \* the sets of external events that may happen together

Items == 1..NumItems
Drains == 1..NumDrains

(* A crash and reboot, an admin resume, a cancel of one job (by hand, or   *)
(* because a newer commit supersedes it), a cancel of the stack, a webhook *)
(* for the commit of a job.                                                *)
Events == {"boot", "resume", "cancel", "cancelStack", "webhook"}

JobStatus == {"absent", "queued", "waiting", "running", "completed", "failed",
              "error", "cancelled", "skipped", "completed_with_errors"}

ASSUME ConstantsAssumption ==
  /\ NumItems \in Nat
  /\ NoJob \notin Jobs
  /\ JobOf \in [Items -> Jobs \cup {NoJob}]
  /\ Conc \in 1..4
  /\ Ends \subseteq JobStatus \ {"absent", "queued", "waiting", "running"}
  /\ NumDrains \in Nat
  /\ Budget \in [Events -> Nat]
  /\ Mixes \subseteq SUBSET Events

Backlog == {"queued", "waiting"}
InFlight == Backlog \cup {"running"}
Finished == JobStatus \ (InFlight \cup {"absent"})

(* The statuses the stack code takes for final. *)
StackFinal == {"cancelled", "completed", "failed", "error"}

(* The places of a worker.  "check": it looks for a cancel; "demote": it   *)
(* puts its job back to waiting; "sem": it waits for a slot; "slot": it    *)
(* has one; "call": about to call processSCMJob; "busy": its call is at    *)
(* work; "after": the call has returned.                                   *)
Places == {"none", "check", "demote", "sem", "slot", "call", "busy", "after"}
HoldsSem == {"slot", "call", "busy", "after"}

VARIABLES
  job,      \* job rows: status
  tagged,   \* job rows: summary.stack_id is set
  proc,     \* job rows: place of the processor (scmProcessing)
  item,     \* stack.Items: job, status and Started of each; "absent" if not there
  stack,    \* stack.Status; "none" until the stack is stored
  making,   \* the item the request handler is at
  held,     \* the row it has enqueued for that item and not yet tagged, or NoJob
  dpc,      \* drains: "idle", "new" (goroutine started), "drain"
  work,     \* drains: place of each worker
  budget    \* external events still to come

vars == <<job, tagged, proc, item, stack, making, held, dpc, work, budget>>

NoItem == [job |-> NoJob, status |-> "absent", started |-> FALSE]
NoWork == [i \in Items |-> "none"]
Listed(items) == {i \in Items : items[i].status # "absent"}

Init ==
  /\ job = [j \in Jobs |-> "absent"]
  /\ tagged = {}
  /\ proc = [j \in Jobs |-> "idle"]
  /\ item = [i \in Items |-> NoItem]
  /\ stack = "none"
  /\ making = 1
  /\ held = NoJob
  /\ dpc = [d \in Drains |-> "idle"]
  /\ work = [d \in Drains |-> NoWork]
  /\ budget = Budget

Happened == {e \in Events : budget[e] # Budget[e]}

Spend(e) ==
  /\ budget[e] > 0
  /\ \E mix \in Mixes : Happened \cup {e} \subseteq mix
  /\ budget' = [budget EXCEPT ![e] = @ - 1]

-----------------------------------------------------------------------------
(* What the stack code computes from rows and items.                       *)

refreshItem(it, jobs) ==
  IF it.job = NoJob THEN [it EXCEPT !.status = "failed"]
  ELSE LET s == jobs[it.job]
       IN  IF ~it.started /\ s \in Backlog
           THEN [it EXCEPT !.status = IF s = "waiting" \/ it.status # "queued"
                                      THEN "waiting" ELSE "queued"]
           ELSE [it EXCEPT !.status = s]

refreshItems(items, jobs) ==
  [i \in Items |-> IF i \in Listed(items) THEN refreshItem(items[i], jobs)
                   ELSE items[i]]

(* Mutant: "cancelled" is not final for the fold. *)
foldForgetsCancelled(items, old) ==
  LET has(S) == \E i \in Listed(items) : items[i].status \in S
      allDone == \A i \in Listed(items) : items[i].status \in {"completed", "failed", "error"}
  IN  IF has({"running"}) \/ (has({"queued"}) /\ old = "running") THEN "running"
      ELSE IF allDone /\ has({"failed", "error"}) THEN "failed"
      ELSE IF allDone THEN "completed"
      ELSE IF has({"queued"}) THEN "queued"
      ELSE "running"

(* Mutant: a failed item does not count once all are done. *)
foldHidesFailures(items, old) ==
  IF \A i \in Listed(items) : items[i].status \in StackFinal THEN "completed"
  ELSE "running"

(* The stack's status from its refreshed items.  An item that waits though *)
(* it was started only keeps the stack from being done.                    *)
foldStack(items, old) ==
  LET has(S) == \E i \in Listed(items) : items[i].status \in S
      waits == \E i \in Listed(items) : items[i].status = "waiting" /\ ~items[i].started
      allDone == \A i \in Listed(items) : items[i].status \in StackFinal
  IN  IF has({"running"}) \/ waits \/ (has({"queued"}) /\ old = "running")
      THEN "running"
      ELSE IF allDone /\ has({"failed", "error"}) THEN "failed"
      ELSE IF allDone THEN "completed"
      ELSE IF has({"queued"}) THEN "queued"
      ELSE "running"

(* refreshOPAReviewStack, on the rows jobs and the items items. *)
Refresh(items, jobs) ==
  /\ item' = refreshItems(items, jobs)
  /\ stack' = foldStack(refreshItems(items, jobs), stack)

(* assignStackConcurrencySlots: in the order of the items, the first Conc  *)
(* that are not final are queued, the others wait; rows are rewritten too. *)
(* A row may stand behind two items; the later one has the last word.      *)
assignStackConcurrencySlots(items, jobs) ==
  LET in(i, S) == items[i].job # NoJob /\ jobs[items[i].job] \in S
      before(i) == {k \in 1..(i - 1) : in(k, InFlight)}
      place(i) == IF Cardinality(before(i)) < Conc THEN "queued" ELSE "waiting"
      behind(j) == {i \in Items : items[i].job = j}
      last(j) == CHOOSE i \in behind(j) : \A k \in behind(j) : k <= i
  IN  [items |-> [i \in Items |->
                    IF in(i, Backlog)
                    THEN [items[i] EXCEPT !.status = place(i), !.started = FALSE]
                    ELSE IF in(i, StackFinal \cup {"running"})
                    THEN [items[i] EXCEPT !.status = jobs[items[i].job],
                                          !.started = TRUE]
                    ELSE items[i]],
       jobs |-> [j \in Jobs |-> IF jobs[j] \in Backlog /\ behind(j) # {}
                                THEN place(last(j)) ELSE jobs[j]]]

stackNeedsResume(items, status) ==
  \/ status \in {"queued", "running"}
  \/ status # "none" /\ \E i \in Items : items[i].status \in InFlight

(* prepareStackForResume: rows that run are taken for interrupted. *)
prepareStackForResume(items, jobs) ==
  LET demoted == [j \in Jobs |-> IF jobs[j] = "running" /\
                                    (\E i \in Items : items[i].job = j)
                                 THEN "waiting" ELSE jobs[j]]
      prepared == [i \in Items |->
        IF items[i].job = NoJob THEN items[i]
        ELSE LET s == demoted[items[i].job]
             IN  IF s \in Backlog
                 THEN [items[i] EXCEPT !.status = "waiting", !.started = FALSE]
                 ELSE IF s \in StackFinal
                 THEN [items[i] EXCEPT !.status = s, !.started = TRUE]
                 ELSE items[i]]
  IN  assignStackConcurrencySlots(prepared, demoted)

-----------------------------------------------------------------------------
(* The request handler: handleOPAReviewStack.                              *)

(* enqueueManualAIReview: the row of the item's pull request, or none: there *)
(* is no connector, it is merged, or its commit was reviewed by now.       *)
enqueueManualAIReview(i) ==
  {NoJob} \cup {j \in {JobOf[i]} \ {NoJob} : job[j] \notin Finished}

(* One turn of its loop.  The item's job is enqueued, or the one in flight *)
(* for the commit taken, and its row stored, queued and without the        *)
(* stack's id.  An item without a job is only noted.                       *)
StackEnqueue ==
  /\ making \in Items
  /\ held = NoJob
  /\ \/ \E j \in enqueueManualAIReview(making) \ {NoJob} :
          /\ held' = j
          /\ job' = [job EXCEPT ![j] = IF @ = "absent" THEN "queued" ELSE @]
          /\ UNCHANGED <<item, making>>
     \/ /\ NoJob \in enqueueManualAIReview(making)
        /\ \E s \in {"failed", "skipped"} :
             item' = [item EXCEPT ![making] = [NoItem EXCEPT !.status = s]]
        /\ making' = making + 1
        /\ UNCHANGED <<held, job>>
  /\ UNCHANGED <<tagged, proc, stack, dpc, work, budget>>

(* The row gets the stack's id, and waits if the slots are taken, whatever *)
(* it says by now.                                                         *)
StackTag ==
  /\ held # NoJob
  /\ LET taken == Cardinality({k \in 1..(making - 1) : item[k].status = "queued"})
         status == IF taken < Conc THEN "queued" ELSE "waiting"
     IN  /\ item' = [item EXCEPT ![making] = [job |-> held, status |-> status,
                                              started |-> FALSE]]
         /\ job' = [job EXCEPT ![held] = IF status = "waiting" THEN "waiting" ELSE @]
  /\ tagged' = tagged \cup {held}
  /\ held' = NoJob
  /\ making' = making + 1
  /\ UNCHANGED <<proc, stack, dpc, work, budget>>

(* The stack is stored and its drain is started, unless it has no job. *)
StackStore ==
  /\ making = NumItems + 1
  /\ stack = "none"
  /\ making' = NumItems + 2
  /\ IF \E i \in Items : item[i].job # NoJob
     THEN \E d \in Drains : /\ dpc[d] = "idle"
                            /\ stack' = "queued"
                            /\ dpc' = [dpc EXCEPT ![d] = "new"]
     ELSE stack' = "failed" /\ UNCHANGED dpc
  /\ UNCHANGED <<job, tagged, proc, item, held, work, budget>>

-----------------------------------------------------------------------------
(* The drain: drainOPAReviewStack.                                         *)

(* Assign the slots once more, pick the items that have work left. *)
DrainBegin(d) ==
  LET a == assignStackConcurrencySlots(item, job)
      todo(i) == /\ a.items[i].job # NoJob
                 /\ a.items[i].status \notin {"failed", "cancelled"}
                 /\ a.jobs[a.items[i].job] \notin StackFinal
  IN  /\ dpc[d] = "new"
      /\ job' = a.jobs
      /\ item' = a.items
      /\ stack' = "running"
      /\ dpc' = [dpc EXCEPT ![d] = "drain"]
      /\ work' = [work EXCEPT ![d] = [i \in Items |-> IF todo(i) THEN "check"
                                                      ELSE "none"]]
      /\ UNCHANGED <<tagged, proc, making, held, budget>>

DrainEnd(d) ==
  /\ dpc[d] = "drain"
  /\ work[d] = NoWork
  /\ dpc' = [dpc EXCEPT ![d] = "idle"]
  /\ Refresh(item, job)
  /\ UNCHANGED <<job, tagged, proc, making, held, work, budget>>

GoTo(d, i, place) == work' = [work EXCEPT ![d][i] = place]

(* A worker that finds its job cancelled notes it and returns. *)
WorkerStops(d, i) ==
  /\ work[d][i] \in {"check", "slot"}
  /\ job[item[i].job] = "cancelled"
  /\ Refresh([item EXCEPT ![i].status = "cancelled", ![i].started = TRUE], job)
  /\ GoTo(d, i, "none")
  /\ UNCHANGED <<job, tagged, proc, making, held, dpc, budget>>

WorkerChecks(d, i) ==
  /\ work[d][i] = "check"
  /\ job[item[i].job] # "cancelled"
  /\ GoTo(d, i, "demote")
  /\ UNCHANGED <<job, tagged, proc, item, stack, making, held, dpc, budget>>

(* The backlog waits until the worker holds a slot. *)
WorkerDemotes(d, i) ==
  /\ work[d][i] = "demote"
  /\ job' = [job EXCEPT ![item[i].job] = IF @ = "queued" THEN "waiting" ELSE @]
  /\ item' = [item EXCEPT ![i] = IF @.status = "queued"
                                 THEN [@ EXCEPT !.status = "waiting", !.started = FALSE]
                                 ELSE @]
  /\ GoTo(d, i, "sem")
  /\ UNCHANGED <<tagged, proc, stack, making, held, dpc, budget>>

SlotsTaken(d) == {i \in Items : work[d][i] \in HoldsSem}

(* Mutant: no slot is waited for. *)
WorkerRushes(d, i) ==
  /\ work[d][i] = "sem"
  /\ GoTo(d, i, "slot")
  /\ UNCHANGED <<job, tagged, proc, item, stack, making, held, dpc, budget>>

WorkerTakesSlot(d, i) ==
  /\ work[d][i] = "sem"
  /\ Cardinality(SlotsTaken(d)) < Conc
  /\ GoTo(d, i, "slot")
  /\ UNCHANGED <<job, tagged, proc, item, stack, making, held, dpc, budget>>

WorkerPromotes(d, i) ==
  /\ work[d][i] = "slot"
  /\ job[item[i].job] # "cancelled"
  /\ item' = [item EXCEPT ![i].status = "queued", ![i].started = TRUE]
  /\ job' = [job EXCEPT ![item[i].job] = IF @ \in Backlog THEN "queued" ELSE @]
  /\ GoTo(d, i, "call")
  /\ UNCHANGED <<tagged, proc, stack, making, held, dpc, budget>>

(* processSCMJob: return at once when the job has a processor or is over. *)
WorkerCalls(d, i) ==
  LET j == item[i].job
      free == proc[j] = "idle" /\ job[j] \notin Finished
  IN  /\ work[d][i] = "call"
      /\ proc' = IF free THEN [proc EXCEPT ![j] = "gate"] ELSE proc
      /\ GoTo(d, i, IF free THEN "busy" ELSE "after")
      /\ UNCHANGED <<job, tagged, item, stack, making, held, dpc, budget>>

WorkerReturns(d, i) ==
  /\ work[d][i] = "after"
  /\ Refresh(item, job)
  /\ GoTo(d, i, "none")
  /\ UNCHANGED <<job, tagged, proc, making, held, dpc, budget>>

-----------------------------------------------------------------------------
(* The processor of a job, as far as a stack sees it: processPRRun.        *)

(* The worker that waits for the processor of j goes on. *)
Released(j) ==
  [d \in Drains |-> [i \in Items |->
     IF work[d][i] = "busy" /\ item[i].job = j THEN "after" ELSE work[d][i]]]

(* The skip gate: the commit is reviewed or the pull request merged. *)
ProcSkips(j) ==
  /\ "skipped" \in Ends
  /\ proc[j] = "gate"
  /\ job' = [job EXCEPT ![j] = "skipped"]
  /\ proc' = [proc EXCEPT ![j] = "idle"]
  /\ work' = Released(j)
  /\ UNCHANGED <<tagged, item, stack, making, held, dpc, budget>>

(* "running" is written over whatever the row says by now. *)
ProcAdmits(j) ==
  /\ proc[j] = "gate"
  /\ job' = [job EXCEPT ![j] = "running"]
  /\ proc' = [proc EXCEPT ![j] = "run"]
  /\ UNCHANGED <<tagged, item, stack, making, held, dpc, work, budget>>

ProcEnds(j, end) ==
  /\ proc[j] = "run"
  /\ end \in Ends
  /\ job' = [job EXCEPT ![j] = IF @ = "cancelled" THEN @ ELSE end]
  /\ proc' = [proc EXCEPT ![j] = "idle"]
  /\ work' = Released(j)
  /\ UNCHANGED <<tagged, item, stack, making, held, dpc, budget>>

-----------------------------------------------------------------------------
(* External events.                                                        *)

(* The job is behind an item of the stored stack. *)
BelongsTo(j) == stack # "none" /\ \E i \in Items : item[i].job = j

scmJobBelongsToStack(j) == j \in tagged \/ BelongsTo(j)

CancelledRows(js) ==
  [j \in Jobs |-> IF j \in js /\ job[j] \in InFlight THEN "cancelled" ELSE job[j]]

(* cancelSCMJob with its refresh of the stacks the job is in. *)
CancelJob(j) ==
  /\ Spend("cancel")
  /\ job[j] \in InFlight
  /\ job' = CancelledRows({j})
  /\ IF BelongsTo(j)
     THEN Refresh(item, job')
     ELSE UNCHANGED <<item, stack>>
  /\ UNCHANGED <<tagged, proc, making, held, dpc, work>>

(* handleOPAReviewStackCancel; one that is interrupted between two of its  *)
(* jobs is a sequence of CancelJob.                                        *)
CancelStack ==
  /\ stack # "none"
  /\ Spend("cancelStack")
  /\ job' = CancelledRows({item[i].job : i \in Items})
  /\ Refresh(item, job')
  /\ UNCHANGED <<tagged, proc, making, held, dpc, work>>

(* handleOPAReviewStackGet refreshes what it shows. *)
ShowStack ==
  /\ stack # "none"
  /\ Refresh(item, job)
  /\ UNCHANGED <<job, tagged, proc, making, held, dpc, work, budget>>

(* A webhook for the commit of an in-flight job: enqueuePRRun returns the  *)
(* job and the caller starts processSCMJob on it.                          *)
Webhook(j) ==
  /\ Spend("webhook")
  /\ job[j] \in InFlight
  /\ proc[j] = "idle"
  /\ proc' = [proc EXCEPT ![j] = "gate"]
  /\ UNCHANGED <<job, tagged, item, stack, making, held, dpc, work>>

(* POST /api/scm/jobs/resume: a drain for the stack whether or not one is  *)
(* at work; queued jobs outside the stack get processors.                  *)
Resume ==
  LET a == prepareStackForResume(item, job)
      strays == {j \in Jobs : job[j] = "queued" /\ ~scmJobBelongsToStack(j)}
  IN  /\ Spend("resume")
      /\ proc' = [j \in Jobs |-> IF j \in strays /\ proc[j] = "idle" THEN "gate"
                                 ELSE proc[j]]
      /\ IF stackNeedsResume(item, stack)
         THEN /\ job' = a.jobs
              /\ item' = a.items
              /\ stack' = "queued"
              /\ \E d \in Drains : dpc[d] = "idle" /\ dpc' = [dpc EXCEPT ![d] = "new"]
         ELSE UNCHANGED <<job, item, stack, dpc>>
      /\ UNCHANGED <<tagged, making, held, work>>

(* recoverStuckRunningSCMJobs: members of the stack wait, others queue. *)
Recovered ==
  [j \in Jobs |-> IF job[j] # "running" THEN job[j]
                  ELSE IF scmJobBelongsToStack(j) THEN "waiting" ELSE "queued"]

(* Mutant: a stack that was not stored stays lost. *)
ReconstructedNever(jobs) == [i \in Items |-> NoItem]

(* reconstructOrphanStacksFromJobs: a stack that was not stored gets one   *)
(* item for each tagged job, if one of them has work left.                 *)
Reconstructed(jobs) ==
  LET orphans == \E j \in tagged : jobs[j] \in Backlog
      takes(i) == /\ orphans
                  /\ item[i].job \in tagged
                  /\ jobs[item[i].job] \in Backlog \cup StackFinal
                  /\ \A k \in 1..(i - 1) : item[k].job # item[i].job
  IN  [i \in Items |->
         IF takes(i) THEN [item[i] EXCEPT !.status = jobs[item[i].job],
                                          !.started = jobs[item[i].job] \in StackFinal]
         ELSE NoItem]

(* normalizeAllStackJobSlots: the rows that are left of a stack share the  *)
(* slots anew.  Nothing runs at boot, so that the order of the items, by   *)
(* which they are dealt out last, settles it.                              *)
normalizeAllStackJobSlots(items, rows) ==
  IF \E j \in tagged : rows[j] \in Backlog THEN assignStackConcurrencySlots(items, rows)
  ELSE [items |-> items, jobs |-> rows]

(* resumeIncompleteOPAReviewStacks: a drain for a stack with work left.    *)
resumeIncompleteOPAReviewStacks(slots, status) ==
  IF stackNeedsResume(slots.items, status)
  THEN LET a == prepareStackForResume(slots.items, slots.jobs)
       IN  [items |-> a.items, jobs |-> a.jobs, stack |-> "queued", drains |-> {1}]
  ELSE [items |-> slots.items, jobs |-> slots.jobs, stack |-> status, drains |-> {}]

(* The process dies and comes back (hydrateSCMJobsAndStacksOnBoot): rows   *)
(* that ran go back to the backlog, a stack that was never stored is put   *)
(* together from its jobs, the slots are assigned, a stack that is not     *)
(* done gets a drain, and every queued row that is no member of a stack is *)
(* dispatched.  (The children it dispatches too are RunGraph's.)           *)
Restart ==
  LET rows == Recovered
      items == IF stack = "none" THEN Reconstructed(rows) ELSE item
      status == IF stack # "none" THEN stack
                ELSE IF Listed(items) = {} THEN "none" ELSE "queued"
      a == resumeIncompleteOPAReviewStacks(normalizeAllStackJobSlots(items, rows), status)
      strays == {j \in Jobs : rows[j] = "queued" /\ ~scmJobBelongsToStack(j)}
  IN  /\ Spend("boot")
      /\ job' = a.jobs
      /\ item' = a.items
      /\ stack' = a.stack
      /\ dpc' = [d \in Drains |-> IF d \in a.drains THEN "new" ELSE "idle"]
      /\ work' = [d \in Drains |-> NoWork]
      /\ proc' = [j \in Jobs |-> IF j \in strays THEN "gate" ELSE "idle"]
      /\ making' = NumItems + 2
      /\ held' = NoJob
      /\ UNCHANGED tagged

-----------------------------------------------------------------------------
Handler == StackEnqueue \/ StackTag \/ StackStore

WorkerStep(d, i) ==
  \/ WorkerStops(d, i) \/ WorkerChecks(d, i) \/ WorkerDemotes(d, i)
  \/ WorkerTakesSlot(d, i) \/ WorkerPromotes(d, i) \/ WorkerCalls(d, i)
  \/ WorkerReturns(d, i)

ProcStep(j) == ProcSkips(j) \/ ProcAdmits(j) \/ \E end \in Ends : ProcEnds(j, end)

User ==
  \/ \E j \in Jobs : CancelJob(j) \/ Webhook(j)
  \/ CancelStack
  \/ ShowStack
  \/ Resume
  \/ Restart

Next ==
  \/ Handler
  \/ \E d \in Drains : DrainBegin(d) \/ DrainEnd(d)
  \/ \E d \in Drains, i \in Items : WorkerStep(d, i)
  \/ \E j \in Jobs : ProcStep(j)
  \/ User

Spec == Init /\ [][Next]_vars

(* Goroutines keep running: the request handler, drains, workers and       *)
(* processors.  Nothing is assumed of the order in which workers get a     *)
(* slot, nor of anybody looking at the stack.                              *)
Fairness ==
  /\ WF_vars(Handler)
  /\ \A d \in Drains : WF_vars(DrainBegin(d)) /\ WF_vars(DrainEnd(d))
  /\ \A d \in Drains, i \in Items : WF_vars(WorkerStep(d, i))
  /\ \A j \in Jobs : WF_vars(ProcStep(j))

FairSpec == Spec /\ Fairness

-----------------------------------------------------------------------------
(* Rows, items, drains and workers are in the states the code names. *)
TypeOK ==
  /\ job \in [Jobs -> JobStatus]
  /\ tagged \subseteq Jobs
  /\ proc \in [Jobs -> {"idle", "gate", "run"}]
  /\ item \in [Items -> [job : Jobs \cup {NoJob}, status : JobStatus,
                         started : BOOLEAN]]
  /\ stack \in {"none", "queued", "running", "completed", "failed"}
  /\ making \in 1..(NumItems + 2)
  /\ held \in Jobs \cup {NoJob}
  /\ dpc \in [Drains -> {"idle", "new", "drain"}]
  /\ work \in [Drains -> [Items -> Places]]
  /\ budget \in [Events -> Nat]

(* The runs at work that carry the stack's id. *)
Working == {j \in tagged : proc[j] # "idle"}

(* Neither an admin resume nor a webhook has started work of its own. *)
DrainAlone == \A e \in {"resume", "webhook"} : budget[e] = Budget[e]

(* A row is there once a request has enqueued it, for a processor and for  *)
(* a stack, and an item with a job is listed.                              *)
RowInv ==
  /\ \A j \in Jobs : j \in tagged \/ proc[j] # "idle" => job[j] # "absent"
  /\ held # NoJob => job[held] # "absent" /\ making \in Items
  /\ \A i \in Items : item[i].job # NoJob =>
       item[i].job \in tagged /\ item[i].status # "absent"

(* No drain before the stack is stored; workers are a drain's, and have    *)
(* jobs; no more than Conc of a drain are past its semaphore.              *)
DrainsAfterStore ==
  making \in 1..(NumItems + 1) => stack = "none" /\ \A d \in Drains : dpc[d] = "idle"
WorkersInDrain == \A d \in Drains : dpc[d] # "drain" => work[d] = NoWork
WorkersHaveJobs == \A d \in Drains, i \in Items : work[d][i] # "none" => item[i].job # NoJob
SlotsInBounds == \A d \in Drains : Cardinality(SlotsTaken(d)) <= Conc

(* Until somebody else starts work there is one drain at most, nothing     *)
(* runs before the stack is stored, and each processor of a row of the     *)
(* stack has a worker that waits for it.                                   *)
OneDrain == \A d, e \in Drains : dpc[d] # "idle" /\ dpc[e] # "idle" => d = e
NothingRunsYet == making \in 1..(NumItems + 1) => \A j \in Jobs : proc[j] = "idle"
ProcessorsAwaited ==
  \A j \in Working : \E d \in Drains, i \in Items : work[d][i] = "busy" /\ item[i].job = j

DrainInv ==
  /\ DrainsAfterStore /\ WorkersInDrain /\ WorkersHaveJobs /\ SlotsInBounds
  /\ DrainAlone => OneDrain /\ NothingRunsYet /\ ProcessorsAwaited

(* drainOPAReviewStack: no more than Conc runs that carry the stack's id   *)
(* are processed at once, through cancels and crashes, until somebody else *)
(* starts one.  (A crash between the row of an item and its tag leaves a   *)
(* row of no stack, which the boot starts beside the drain.)               *)
ProcessorsBounded == DrainAlone => Cardinality(Working) <= Conc

(* No processor writes its answer over a cancel and dies before the stack  *)
(* is folded anew: nothing was cancelled, or the process never died.       *)
NoCancel == \A e \in {"cancel", "cancelStack"} : budget[e] = Budget[e]
AnswersFolded == NoCancel \/ budget["boot"] = Budget["boot"]

(* The job of every item is in S. *)
RowsOf(S) == \A i \in Items : item[i].job # NoJob => job[item[i].job] \in S

(* refreshOPAReviewStack at the end of the drain: a stack without a drain  *)
(* that says completed or failed has no job left to run, and completed     *)
(* means that none failed, until somebody else starts one.  (The second is *)
(* lost when a job that was cancelled goes on, fails, and the process dies *)
(* before its worker comes back: nothing folds that stack at boot.)        *)
DoneMeansDone ==
  DrainAlone /\ (\A d \in Drains : dpc[d] = "idle") =>
    /\ stack \in {"completed", "failed"} => RowsOf(Finished)
    /\ stack = "completed" /\ AnswersFolded => RowsOf({"completed", "cancelled"})

(* Without a cancel, a processor's row is in flight, and a stack says      *)
(* completed only when its jobs are, while a drain is at work too.         *)
Uncancelled ==
  DrainAlone /\ NoCancel =>
    /\ \A j \in Working : job[j] \in InFlight
    /\ stack = "completed" => RowsOf({"completed", "cancelled"})

DoneInv == DoneMeansDone /\ Uncancelled

-----------------------------------------------------------------------------
(* Liveness. *)

(* refreshOPAReviewStack: a stack does not stay running when nothing is    *)
(* left to run, whatever is cancelled and wherever the process crashes.    *)
(* The default branch of its switch makes two exceptions: a run that ends  *)
(* as skipped or as completed_with_errors keeps its stack running; and a   *)
(* run somebody else has started may outlive the drain.                    *)
Unfolded == {"skipped", "completed_with_errors"}

StackSettles ==
  <>[](\/ ~DrainAlone
       \/ stack \in {"none", "completed", "failed"}
       \/ \E i \in Items : item[i].job # NoJob /\ job[item[i].job] \in Unfolded)

(* handleOPAReviewStack, the drain and the boot: every row a request has   *)
(* enqueued for a stack, tagged or not, is worked off in the end, whatever *)
(* is cancelled and wherever the process crashes.                          *)
StackDrains == <>[](\A j \in Jobs : job[j] \in Finished \cup {"absent"})
=============================================================================
