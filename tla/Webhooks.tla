------------------------------ MODULE Webhooks ------------------------------
(***************************************************************************)
(* GitHub deliveries on their way to job rows.  Each HTTP request has a    *)
(* handler that verifies and deduplicates the delivery, supersedes what is *)
(* in flight for the pull request, enqueues a run, stores a receipt, tells *)
(* the peer products and starts the processor.  A receipt follows the      *)
(* status of its job.  After a crash the server answers at once, while a   *)
(* goroutine still loads watches, jobs and receipts one after the other.   *)
(*                                                                         *)
(* There is one pull request and one default branch.  A job is named after *)
(* the request that created it; its run is reduced to a processor that     *)
(* ends in one of Ends.                                                    *)
(***************************************************************************)
EXTENDS Integers, FiniteSets, FiniteSetsExt

CONSTANTS
  Requests,  \* HTTP requests to the webhook endpoint
  NoJob,     \* no job row
  Cases,     \* what GitHub sends: functions from Requests to deliveries
  Ends,      \* statuses in which a processor may leave a row
  Crashes    \* how often the process may die

Statuses == {"queued", "running", "completed", "completed_with_errors",
             "failed", "error", "cancelled", "skipped"}
InFlight == {"queued", "running"}
Finished == Statuses \ InFlight

(* "commit": opened, synchronize, ...; "unadmitted": the same, but the     *)
(* trigger mode does not admit the event; "edited": an action that makes   *)
(* no job.  Events that only leave a receipt (a ping, a push to another    *)
(* branch, a repository nobody watches, peer checks only) are left out.    *)
Kinds == {"commit", "unadmitted", "edited", "merged", "push"}

Outcomes == {"queued", "ok", "error", "skipped", "ignored", "duplicate"}

(* newSCMWebhookReceipt makes live receipts, the boot makes backfills.     *)
Receipts == {"live", "backfill"} \X Requests
NoReceipt == [outcome |-> "none", job |-> NoJob]

ASSUME RequestsAssumption ==
  /\ IsFiniteSet(Requests)
  /\ NoJob \notin Requests
  /\ Ends \subseteq Finished
  /\ Crashes \in Nat
  /\ \A c \in Cases : \A r \in Requests : c[r].kind \in Kinds

VARIABLES
  sent,     \* requests: what they deliver
  hpc,      \* requests: place of the handler
  target,   \* requests: the job the handler enqueued or found
  job,      \* job rows: status, in memory and on file
  started,  \* job rows: StartedAt
  loaded,   \* scmJobLive: the rows that are in memory
  proc,     \* job rows: place of the processor (scmProcessing)
  reviewed, \* job rows: the bugbot child was successful
  receipt,  \* receipts, in memory and on file
  seen,     \* scmWebhookLive: the receipts that are in memory
  boot,     \* place of hydrateSCMOnBoot
  crashes   \* crashes left

vars == <<sent, hpc, target, job, started, loaded, proc, reviewed,
          receipt, seen, boot, crashes>>
rows == <<job, started, loaded, proc, reviewed>>
notes == <<receipt, seen>>

Init ==
  /\ sent \in Cases
  /\ hpc = [r \in Requests |-> "unsent"]
  /\ target = [r \in Requests |-> NoJob]
  /\ job = [r \in Requests |-> "absent"]
  /\ started = [r \in Requests |-> 0]
  /\ loaded = {}
  /\ proc = [r \in Requests |-> "idle"]
  /\ reviewed = {}
  /\ receipt = [x \in Receipts |-> NoReceipt]
  /\ seen = {}
  /\ boot = "up"
  /\ crashes = Crashes

-----------------------------------------------------------------------------
(* Job rows. *)

OfPR(j) == sent[j].kind \in {"commit", "unadmitted"}

InFlightPR == {j \in loaded : OfPR(j) /\ job[j] \in InFlight}

(* The rows js get a new StartedAt.  Stamps are compared among the runs in *)
(* flight only, so each is kept as its rank among theirs.                  *)
Stamp(js) ==
  LET now == 1 + Max({started[j] : j \in Requests})
      stamp(j) == IF j \in js THEN now ELSE started[j]
      runs == {j \in Requests : OfPR(j) /\ job'[j] \in InFlight}
      before(j) == {stamp(k) : k \in {k \in runs : stamp(k) < stamp(j)}}
  IN  started' = [j \in Requests |-> IF j \in runs THEN 1 + Cardinality(before(j)) ELSE 0]

(* Mutant: only what runs is superseded, not what is queued. *)
SupersededRunning(c) == {j \in InFlightPR : sent[j].commit # c /\ job[j] = "running"}

(* cancelInFlightJobsForPRExceptSHA: what a run of commit c supersedes. *)
Superseded(c) == {j \in InFlightPR : sent[j].commit # c}

(* jobTerminalWebhookOutcome; "queued" when it has none for the status.    *)
jobTerminalWebhookOutcome(status) ==
  CASE status = "completed" -> "ok"
    [] status \in {"failed", "error"} -> "error"
    [] status \in {"cancelled", "skipped"} -> "skipped"
    [] OTHER -> "queued"

(* reconcileSCMWebhookWithJob for the receipts xs, on the rows jobs. *)
reconciled(xs, jobs) ==
  [x \in Receipts |->
     IF x \in xs /\ receipt[x].outcome = "queued" /\ receipt[x].job # NoJob
     THEN [receipt[x] EXCEPT !.outcome = jobTerminalWebhookOutcome(jobs[receipt[x].job])]
     ELSE receipt[x]]

(* persistSCMJob of the rows js: reconcileWebhooksForJob for the receipts  *)
(* in memory.                                                              *)
persisted(js, jobs) == reconciled({x \in seen : receipt[x].job \in js}, jobs)

(* cancelSCMJobWithReason for each of js. *)
Cancel(js) ==
  /\ job' = [j \in Requests |-> IF j \in js THEN "cancelled" ELSE job[j]]
  /\ Stamp({})
  /\ UNCHANGED <<loaded, proc, reviewed>>

(* processSCMJob on the rows jobs: returns at once when the job has a      *)
(* processor or is over, and for a push that is running already.           *)
Starts(js, jobs) ==
  [j \in Requests |->
     IF /\ j \in js
        /\ proc[j] = "idle"
        /\ jobs[j] \in IF OfPR(j) THEN InFlight ELSE {"queued"}
     THEN "gate" ELSE proc[j]]

-----------------------------------------------------------------------------
(* The handler of request r (ingressGitHubWebhook). *)

At(r, place) == hpc[r] = place

(* finishWebhookReceipt, on the receipts as they are after the handler's   *)
(* other writes.                                                           *)
Finish(r, old, outcome, j) ==
  /\ receipt' = [old EXCEPT ![<<"live", r>>] = [outcome |-> outcome, job |-> j]]
  /\ seen' = seen \cup {<<"live", r>>}

Done(r) == hpc' = [hpc EXCEPT ![r] = "done"]

(* findSCMWebhookByDelivery *)
Prior(r) == {x \in seen : x[1] = "live" /\ x[2] # r /\ sent[x[2]].delivery = sent[r].delivery}

(* As long as the watch is not loaded its own secret is not known and the  *)
(* signature is verified against the other one.                            *)
Refuse(r) ==
  /\ At(r, "unsent")
  /\ boot = "cold"
  /\ Finish(r, receipt, "error", NoJob)
  /\ Done(r)
  /\ UNCHANGED <<sent, target, rows, boot, crashes>>

Repeat(r) ==
  /\ At(r, "unsent")
  /\ \E x \in Prior(r) : Finish(r, receipt, "duplicate", receipt[x].job)
  /\ Done(r)
  /\ UNCHANGED <<sent, target, rows, boot, crashes>>

Receive(r) ==
  /\ At(r, "unsent")
  /\ Prior(r) = {}
  /\ hpc' = [hpc EXCEPT ![r] = "route"]
  /\ UNCHANGED <<sent, target, rows, notes, boot, crashes>>

(* handlePRWebhookIngress: a merged pull request needs no more runs. *)
Merged(r) ==
  /\ At(r, "route")
  /\ sent[r].kind = "merged"
  /\ Cancel(InFlightPR)
  /\ Finish(r, persisted(InFlightPR, job'), "skipped", NoJob)
  /\ Done(r)
  /\ UNCHANGED <<sent, target, boot, crashes>>

(* lookupSuccessfulAIReviewForSHA, in the index or in the rows in memory. *)
WasReviewed(c) == \E j \in reviewed \cap loaded : sent[j].commit = c

(* The commit was reviewed before: its run is not made again.  Before the  *)
(* action is looked at, the runs of other commits are superseded.          *)
Reviewed(r) ==
  LET js == Superseded(sent[r].commit)
  IN  /\ At(r, "route")
      /\ sent[r].kind \in {"commit", "unadmitted", "edited"}
      /\ WasReviewed(sent[r].commit)
      /\ Cancel(js)
      /\ Finish(r, persisted(js, job'), "skipped", NoJob)
      /\ Done(r)
      /\ UNCHANGED <<sent, target, boot, crashes>>

(* An action that makes no job, or a repository whose watch is not loaded  *)
(* yet.                                                                    *)
Answer(r) ==
  /\ At(r, "route")
  /\ \/ /\ sent[r].kind = "edited"
        /\ ~WasReviewed(sent[r].commit)
        /\ Finish(r, receipt, "skipped", NoJob)
     \/ /\ sent[r].kind \in {"commit", "unadmitted", "push"}
        /\ boot = "cold"
        /\ Finish(r, receipt, "ignored", NoJob)
  /\ Done(r)
  /\ UNCHANGED <<sent, target, rows, boot, crashes>>

(* The watch is found, the tenant resolved and the checks read. *)
Route(r) ==
  /\ At(r, "route")
  /\ OfPR(r) \/ sent[r].kind = "push"
  /\ OfPR(r) => ~WasReviewed(sent[r].commit)
  /\ boot # "cold"
  /\ hpc' = [hpc EXCEPT ![r] = "enqueue"]
  /\ UNCHANGED <<sent, target, rows, notes, boot, crashes>>

(* findInFlightPRRunForSHA: a newest run of the commit. *)
Newest(js) == {j \in js : \A k \in js : started[k] <= started[j]}

InFlightForSHA(c) == {j \in InFlightPR : sent[j].commit = c}

(* enqueuePRRun with a run of the commit in flight: it is used again. *)
Reuse(r) ==
  /\ At(r, "enqueue")
  /\ OfPR(r)
  /\ \E j \in Newest(InFlightForSHA(sent[r].commit)) :
       target' = [target EXCEPT ![r] = j]
  /\ hpc' = [hpc EXCEPT ![r] = "finish"]
  /\ UNCHANGED <<sent, rows, notes, boot, crashes>>

(* enqueuePRRun under the lock of the pull request, and enqueueSCMJob for  *)
(* a push: supersede, then make the row.                                   *)
Enqueue(r) ==
  LET js == IF OfPR(r) THEN Superseded(sent[r].commit) ELSE {}
      status == IF sent[r].kind = "unadmitted" THEN "skipped" ELSE "queued"
  IN  /\ At(r, "enqueue")
      /\ OfPR(r) => InFlightForSHA(sent[r].commit) = {}
      /\ job' = [j \in Requests |-> IF j = r THEN status
                                    ELSE IF j \in js THEN "cancelled" ELSE job[j]]
      /\ Stamp({r})
      /\ loaded' = loaded \cup {r}
      /\ receipt' = persisted(js, job')
      /\ target' = [target EXCEPT ![r] = r]
      /\ hpc' = [hpc EXCEPT ![r] = "finish"]
      /\ UNCHANGED <<sent, proc, reviewed, seen, boot, crashes>>

(* The receipt of a job that was queued. *)
Note(r) ==
  /\ At(r, "finish")
  /\ Finish(r, receipt, "queued", target[r])
  /\ hpc' = [hpc EXCEPT ![r] = "fanout"]
  /\ UNCHANGED <<sent, target, rows, boot, crashes>>

(* Mutant: the row is not stored again after the peers answered. *)
FanOutOnly(r) ==
  /\ At(r, "fanout")
  /\ proc' = Starts({target[r]}, job)
  /\ target' = [target EXCEPT ![r] = NoJob]
  /\ Done(r)
  /\ UNCHANGED <<sent, job, started, loaded, reviewed, receipt, seen, boot, crashes>>

(* finishSCMIngressPipeline: the peers have answered or the 45 seconds are *)
(* over; the row is stored again and the processor starts.                 *)
FanOut(r) ==
  /\ At(r, "fanout")
  /\ receipt' = persisted({target[r]}, job)
  /\ proc' = Starts({target[r]}, job)
  /\ target' = [target EXCEPT ![r] = NoJob]
  /\ Done(r)
  /\ UNCHANGED <<sent, job, started, loaded, reviewed, seen, boot, crashes>>

-----------------------------------------------------------------------------
(* The processor of a job: processPRRun or processContinuousSCMJob.        *)

Leaves(j, status, place) ==
  /\ job' = [job EXCEPT ![j] = status]
  /\ receipt' = persisted({j}, job')
  /\ proc' = [proc EXCEPT ![j] = place]
  /\ UNCHANGED <<sent, hpc, target, loaded, reviewed, seen, boot, crashes>>

(* scmRunSkipGate; like "running", the status is written over a cancel     *)
(* that came after the row was looked at.                                  *)
ProcSkips(j) ==
  /\ proc[j] = "gate"
  /\ Leaves(j, "skipped", "idle")
  /\ Stamp({})

ProcAdmits(j) ==
  /\ proc[j] = "gate"
  /\ Leaves(j, "running", "run")
  /\ Stamp(IF job[j] = "running" THEN {} ELSE {j})

(* recordSuccessfulAIReview, when the bugbot child of the run is through.  *)
ProcReviews(j) ==
  /\ proc[j] = "run"
  /\ OfPR(j)
  /\ reviewed' = reviewed \cup {j}
  /\ UNCHANGED <<sent, hpc, target, job, started, loaded, proc, notes, boot, crashes>>

ProcEnds(j) ==
  /\ proc[j] = "run"
  /\ \E end \in Ends : Leaves(j, IF job[j] = "cancelled" THEN "cancelled" ELSE end, "idle")
  /\ Stamp({})

ProcStep(j) == ProcSkips(j) \/ ProcAdmits(j) \/ ProcEnds(j)

Processor(j) == ProcStep(j) \/ ProcReviews(j)

(* handleSCMWebhooksList reconciles what it shows. *)
ShowList ==
  /\ receipt' = reconciled(seen, job)
  /\ UNCHANGED <<sent, hpc, target, rows, seen, boot, crashes>>

-----------------------------------------------------------------------------
(* The process dies and comes back.  Rows and receipts are on file; the    *)
(* server listens before anything is loaded (main, hydrateSCMOnBoot).      *)

Crash ==
  /\ crashes > 0
  /\ crashes' = crashes - 1
  /\ hpc' = [r \in Requests |-> IF hpc[r] = "unsent" THEN "unsent" ELSE "done"]
  /\ target' = [r \in Requests |-> NoJob]
  /\ loaded' = {}
  /\ seen' = {}
  /\ proc' = [j \in Requests |-> "idle"]
  /\ boot' = "cold"
  /\ UNCHANGED <<sent, job, started, reviewed, receipt>>

Boot(from, to) == boot = from /\ boot' = to

HydrateWatches ==
  /\ Boot("cold", "jobs")
  /\ UNCHANGED <<sent, hpc, target, rows, notes, crashes>>

HydrateJobs ==
  /\ Boot("jobs", "hooks")
  /\ loaded' = {j \in Requests : job[j] # "absent"}
  /\ UNCHANGED <<sent, hpc, target, job, started, proc, reviewed, notes, crashes>>

OnFile == {x \in Receipts : receipt[x].outcome # "none"}

(* dedupeSCMWebhookBackfills *)
Doubled ==
  {x \in OnFile : /\ x[1] = "backfill"
                  /\ \E y \in OnFile : y[1] = "live" /\ receipt[y].job = receipt[x].job}

(* Mutant: nothing is filled in. *)
NoBackfill == {}

(* backfillSCMWebhooksFromJobs: jobs in memory without a receipt. *)
Backfilled == {j \in loaded : \A x \in OnFile : receipt[x].job # j}

HydrateHooks ==
  LET new == {"backfill"} \X Backfilled
  IN  /\ Boot("hooks", "recover")
      /\ receipt' = [x \in Receipts |->
           IF x \in Doubled THEN NoReceipt
           ELSE IF x \in new
                THEN [outcome |-> jobTerminalWebhookOutcome(job[x[2]]), job |-> x[2]]
                ELSE receipt[x]]
      /\ seen' = (OnFile \ Doubled) \cup new
      /\ UNCHANGED <<sent, hpc, target, rows, crashes>>

(* recoverStuckRunningSCMJobs: every row that runs is queued, the one a    *)
(* request of this process has started by now included.                    *)
Recover ==
  LET js == {j \in loaded : job[j] = "running"}
  IN  /\ Boot("recover", "dispatch")
      /\ job' = [j \in Requests |-> IF j \in js THEN "queued" ELSE job[j]]
      /\ Stamp(js)
      /\ UNCHANGED <<sent, hpc, target, loaded, proc, reviewed, notes, crashes>>

(* pruneSupersededInFlightPRRuns keeps k. *)
Pruned(k) == InFlightPR \ {k}

(* Mutant: only the runs of the pull request are dispatched. *)
QueuedRuns(jobs) == {j \in loaded : OfPR(j) /\ jobs[j] = "queued"}

QueuedJobs(jobs) == {j \in loaded : jobs[j] = "queued"}

(* The runs are pruned and what is queued is dispatched                    *)
(* (dispatchQueuedNonStackSCMJobs).                                        *)
Dispatch ==
  /\ Boot("dispatch", "up")
  /\ IF InFlightPR = {} THEN UNCHANGED <<job, receipt>>
     ELSE \E k \in Newest(InFlightPR) :
            /\ job' = [j \in Requests |-> IF j \in Pruned(k) THEN "cancelled" ELSE job[j]]
            /\ receipt' = persisted(Pruned(k), job')
  /\ Stamp({})
  /\ proc' = Starts(QueuedJobs(job'), job')
  /\ UNCHANGED <<sent, hpc, target, loaded, reviewed, seen, crashes>>

BootStep ==
  HydrateWatches \/ HydrateJobs \/ HydrateHooks \/ Recover \/ Dispatch

-----------------------------------------------------------------------------
Deliver(r) == Refuse(r) \/ Repeat(r) \/ Receive(r)

Handle(r) ==
  \/ Merged(r) \/ Reviewed(r) \/ Answer(r) \/ Route(r)
  \/ Reuse(r) \/ Enqueue(r) \/ Note(r) \/ FanOut(r)

Next ==
  \/ \E r \in Requests : Deliver(r) \/ Handle(r)
  \/ \E j \in Requests : Processor(j)
  \/ ShowList
  \/ Crash
  \/ BootStep

Spec == Init /\ [][Next]_vars

(* Handlers, processors and the boot keep going: each call they make has a *)
(* timeout.  Nobody has to send anything, look at the list or crash.       *)
Fairness ==
  /\ \A r \in Requests : WF_vars(Handle(r))
  /\ \A j \in Requests : WF_vars(ProcStep(j))
  /\ WF_vars(BootStep)

FairSpec == Spec /\ Fairness

-----------------------------------------------------------------------------
(* Places, rows and receipts are in the states the code names, and memory  *)
(* holds nothing that is not on file.                                      *)
TypeOK ==
  /\ sent \in Cases
  /\ hpc \in [Requests -> {"unsent", "route", "enqueue", "finish", "fanout", "done"}]
  /\ target \in [Requests -> Requests \cup {NoJob}]
  /\ job \in [Requests -> Statuses \cup {"absent"}]
  /\ started \in [Requests -> Nat]
  /\ loaded \subseteq {j \in Requests : job[j] # "absent"}
  /\ proc \in [Requests -> {"idle", "gate", "run"}]
  /\ reviewed \subseteq Requests
  /\ receipt \in [Receipts -> {NoReceipt} \cup [outcome : Outcomes, job : Requests \cup {NoJob}]]
  /\ seen \subseteq OnFile
  /\ boot \in {"cold", "jobs", "hooks", "recover", "dispatch", "up"}
  /\ crashes \in 0..Crashes

(* prEnqueueMu, "so concurrent synchronize webhooks cannot both miss each  *)
(* other and leave two runs in flight": once the boot has pruned, the pull *)
(* request never has two runs in the queue, however requests, a crash and  *)
(* the boot interleave.                                                    *)
OneQueued ==
  boot = "up" =>
    Cardinality({j \in Requests : OfPR(j) /\ job[j] = "queued"}) <= 1

(* jobTerminalWebhookOutcome, "so the Webhooks tab does not look           *)
(* permanently stuck": without a crash, a receipt whose handler is through *)
(* is not queued when its job has ended, in whatever order the job ended,  *)
(* was cancelled by another request and had its receipt stored.            *)
(* (completed_with_errors has no outcome.)                                 *)
ReceiptsSettle ==
  crashes = Crashes =>
    \A r \in Requests :
      LET x == receipt[<<"live", r>>]
      IN  hpc[r] = "done" /\ x.outcome = "queued" =>
            job[x.job] \in InFlight \cup {"completed_with_errors"}

(* backfillSCMWebhooksFromJobs: when the boot is through, every job of a   *)
(* webhook has a receipt that can be looked at, even if its handler died   *)
(* with the process; else a handler is about to store one.                 *)
JobHasReceipt ==
  boot = "up" =>
    \A j \in Requests : job[j] # "absent" =>
      \/ \E x \in seen : receipt[x].job = j
      \/ \E r \in Requests : target[r] = j /\ hpc[r] = "finish"

(* finishSCMIngressPipeline and dispatchQueuedNonStackSCMJobs: a job that  *)
(* was enqueued is worked off or cancelled in the end, wherever the        *)
(* process dies.                                                           *)
AcceptedIsWorkedOff ==
  <>[](\A j \in Requests : job[j] \in Finished \cup {"absent"})
-----------------------------------------------------------------------------
(* Why they hold. *)

(* A processor has a row, and what has been loaded is all there is.        *)
MemoryInv ==
  /\ \A j \in Requests : proc[j] # "idle" => job[j] # "absent"
  /\ boot \notin {"cold", "jobs"} => loaded = {j \in Requests : job[j] # "absent"}

(* A handler that has not enqueued has no row, one that has not finished   *)
(* has no receipt; then it holds a row, and its receipt is about that row. *)
HandlerInv ==
  \A r \in Requests :
    /\ hpc[r] \in {"unsent", "route", "enqueue"} => job[r] = "absent"
    /\ hpc[r] \in {"unsent", "route", "enqueue", "finish"} =>
         receipt[<<"live", r>>] = NoReceipt
    /\ hpc[r] \in {"finish", "fanout"} =>
         target[r] \in Requests /\ job[target[r]] # "absent"
    /\ hpc[r] = "fanout" => receipt[<<"live", r>>].job = target[r]

(* A backfill is about the job it is named after.                          *)
BackfillInv ==
  \A j \in Requests : <<"backfill", j>> \in OnFile => receipt[<<"backfill", j>>].job = j

(* What is queued is about a row.                                          *)
ReceiptInv ==
  \A x \in Receipts : receipt[x].outcome = "queued" =>
    receipt[x].job \in Requests /\ job[receipt[x].job] # "absent"

(* From the backfill on every row has a receipt in memory, or a handler    *)
(* that is about to store one.                                             *)
CoverInv ==
  boot \in {"recover", "dispatch", "up"} =>
    \A j \in Requests : job[j] # "absent" =>
      \/ \E x \in seen : receipt[x].job = j
      \/ \E r \in Requests : target[r] = j /\ hpc[r] = "finish"

(* Before the first crash everything is in memory, and a receipt settles   *)
(* with its job.                                                           *)
SettledInv ==
  crashes = Crashes => boot = "up" /\ seen = OnFile /\ ReceiptsSettle

(* Once the boot has pruned, two queued runs are one. *)
QueueInv ==
  boot = "up" =>
    \A j, k \in Requests :
      OfPR(j) /\ OfPR(k) /\ job[j] = "queued" /\ job[k] = "queued" => j = k

WebhooksInv ==
  /\ BackfillInv /\ MemoryInv /\ HandlerInv /\ ReceiptInv
  /\ CoverInv /\ SettledInv /\ QueueInv

=============================================================================
