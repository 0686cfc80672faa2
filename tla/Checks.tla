------------------------------- MODULE Checks -------------------------------
(***************************************************************************)
(* The check runs of a push: a push to the default branch (or the cron)    *)
(* becomes a continuous job that opens an "AppSec Gate" check run, scans   *)
(* and completes it with the verdict of the gate.  Before that the webhook *)
(* handler asks the peer products, and opens a queued check run for each   *)
(* checker that wants to run.  A cancel closes what the job has opened, in *)
(* a goroutine of its own that races with the job's processor.             *)
(*                                                                         *)
(* GitHub shows the newest check run of a name: gh keeps them in order.    *)
(* A write of a row, its persistSCMJob and the check that precedes them    *)
(* without a call in between are one step.                                 *)
(***************************************************************************)
EXTENDS Integers, Sequences, SequencesExt, FiniteSets

CONSTANTS
  Jobs,    \* continuous jobs, one for each push or tick of the cron
  Crons,   \* those of the cron: their commit is a placeholder
  Peers,   \* checkers of the peer products
  Handled, \* jobs that a user may cancel or retry
  Slots,   \* OPA_SCM_CONCURRENCY
  Budget   \* how often each external event may happen

(* A cancel; a retry or resume; a call to GitHub that fails, or a reboot.  *)
Events == {"cancel", "again", "fault"}

ASSUME ChecksAssumption ==
  /\ Crons \subseteq Jobs
  /\ Handled \subseteq Jobs
  /\ "appsec" \notin Peers
  /\ Slots \in Nat \ {0}
  /\ Budget \in [Events -> Nat]

(* The keys of CheckRunIDs. *)
Names == {"appsec"} \cup Peers
Open == {"queued", "in_progress"}
Verdicts == {"pass", "fail", "unavailable"}
Terminal == {"completed", "failed", "error", "cancelled"}

VARIABLES
  gh,       \* GitHub: the check runs of each job's commit by name, in order
  job,      \* status of the row, "absent" before it exists
  ids,      \* CheckRunIDs: an index into gh, 0 for none
  forced,   \* jobs with ForceAI
  ingress,  \* the webhook handler: "no", "fanout", "publish", "done"
  peers,    \* ... its checkers still to publish
  got,      \* ... the ids it has collected
  proc,     \* where the processor of a job is
  verdict,  \* the processor's gate
  closing,  \* names the closers of a cancel still have to visit
  early,    \* history: cancelled before the peers' ids were merged
  excused,  \* history: checks a call failed for, and those of a job that a
            \* reboot hit with an id on the wire or while it was coming to
            \* rest, or that a retry hit before it was at rest
  budget    \* external events still to come

vars == <<gh, job, ids, forced, ingress, peers, got, proc, verdict, closing, early,
          excused, budget>>
rows == <<job, ids, forced>>
handler == <<ingress, peers, got>>
processor == <<proc, verdict>>
history == <<early, excused>>

Init ==
  /\ gh = [j \in Jobs |-> [n \in Names |-> <<>>]]
  /\ job = [j \in Jobs |-> "absent"]
  /\ ids = [j \in Jobs |-> [n \in Names |-> 0]]
  /\ forced = {}
  /\ ingress = [j \in Jobs |-> "no"]
  /\ peers = [j \in Jobs |-> {}]
  /\ got = [j \in Jobs |-> [n \in Names |-> 0]]
  /\ proc = [j \in Jobs |-> "idle"]
  /\ verdict = [j \in Jobs |-> "none"]
  /\ closing = [j \in Jobs |-> {}]
  /\ early = {}
  /\ excused = {}
  /\ budget = Budget

Spend(e) == budget[e] > 0 /\ budget' = [budget EXCEPT ![e] = @ - 1]

(* scmJobIsCancelled *)
cancelled(j) == job[j] = "cancelled"

(* Nobody is at work for the job. *)
Quiet(j) == proc[j] = "idle" /\ closing[j] = {} /\ ingress[j] \in {"no", "done"}

-----------------------------------------------------------------------------
(* The calls to GitHub.  Every caller goes on when one fails. *)

(* githubCreateCheckRun: the new run's id, and 0 where GitHub refuses: it  *)
(* always does for the placeholder of the cron.                            *)
Created(j, n, status) ==
  \/ /\ j \notin Crons
     /\ gh' = [gh EXCEPT ![j][n] = Append(@, status)]
     /\ UNCHANGED <<excused, budget>>
  \/ /\ j \in Crons
     /\ UNCHANGED <<gh, excused, budget>>
  \/ /\ j \notin Crons
     /\ Spend("fault")
     /\ excused' = excused \cup {<<j, n>>}
     /\ UNCHANGED gh

(* githubUpdateCheckRun: nothing is called for id 0.                       *)
Completed(j, id, n, conclusion) ==
  \/ /\ gh' = IF id = 0 THEN gh ELSE [gh EXCEPT ![j][n][id] = conclusion]
     /\ UNCHANGED <<excused, budget>>
  \/ /\ id # 0
     /\ Spend("fault")
     /\ excused' = excused \cup {<<j, n>>}
     /\ UNCHANGED gh

-----------------------------------------------------------------------------
(* Intake. *)

(* go processSCMJob: the second processor of a job returns (scmProcessing). *)
Woken(place, j) == [place EXCEPT ![j] = IF @ = "idle" THEN "spawned" ELSE @]
Wake(j) == proc' = Woken(proc, j)

(* enqueueSCMJob: a row of its own for each push, nothing is superseded.   *)
enqueueSCMJob(j) == job[j] = "absent" /\ job' = [job EXCEPT ![j] = "queued"]

(* handlePushWebhookIngress for the default branch of a watched repository *)
(* with a tenant and a native scan: the row, then the pipeline.  A         *)
(* repository with peer checkers alone gets no row, and no more than these *)
(* checkers.                                                               *)
Push(j) ==
  /\ j \notin Crons
  /\ ingress[j] = "no"
  /\ enqueueSCMJob(j)
  /\ ingress' = [ingress EXCEPT ![j] = "fanout"]
  /\ UNCHANGED <<gh, ids, forced, peers, got, processor, closing, history, budget>>

(* startSCMCronOnce *)
Tick(j) ==
  /\ j \in Crons
  /\ enqueueSCMJob(j)
  /\ Wake(j)
  /\ UNCHANGED <<gh, ids, forced, handler, verdict, closing, history, budget>>

(* dispatchSCMCheckers: every peer answers, fails or is given up after     *)
(* 45 s, and its checkers should run or not.  The native review checker    *)
(* never does: a push has no pull request.                                 *)
FanOut(j, wanted) ==
  /\ ingress[j] = "fanout"
  /\ ingress' = [ingress EXCEPT ![j] = "publish"]
  /\ peers' = [peers EXCEPT ![j] = wanted]
  /\ UNCHANGED <<gh, rows, got, processor, closing, history, budget>>

(* publishCheckerResult falls back to a commit status, which has no id.    *)
publishedId(j, n) == IF gh' = gh THEN 0 ELSE Len(gh'[j][n])

(* publishPeerCheckerStatuses for one checker.                             *)
PublishPeer(j, n) ==
  /\ ingress[j] = "publish" /\ n \in peers[j]
  /\ Created(j, n, "queued")
  /\ got' = [got EXCEPT ![j][n] = publishedId(j, n)]
  /\ peers' = [peers EXCEPT ![j] = @ \ {n}]
  /\ UNCHANGED <<rows, ingress, processor, closing, early>>

(* mergeCheckerRunIDs *)
Merged(j) == [n \in Names |-> IF got[j][n] # 0 THEN got[j][n] ELSE ids[j][n]]

(* finishSCMIngressPipeline: the ids, then the processor.                  *)
Ingested(j) ==
  /\ ingress[j] = "publish" /\ peers[j] = {}
  /\ ingress' = [ingress EXCEPT ![j] = "done"]
  /\ ids' = [ids EXCEPT ![j] = Merged(j)]
  /\ Wake(j)
  /\ got' = [got EXCEPT ![j] = [n \in Names |-> 0]]
  /\ UNCHANGED <<gh, job, forced, peers, verdict, closing, history, budget>>

-----------------------------------------------------------------------------
(* processContinuousSCMJob. *)

Working(j) == proc[j] \notin {"idle", "spawned"}
Go(j, place) == proc' = [proc EXCEPT ![j] = place]

(* A slot of the pool; a job that has ended, or "runs", is left alone.  A  *)
(* push and a cron tick pass the skip gate.                                *)
Begin(j) ==
  /\ proc[j] = "spawned"
  /\ Cardinality({k \in Jobs : Working(k)}) < Slots
  /\ IF job[j] = "queued"
     THEN Go(j, "create") /\ job' = [job EXCEPT ![j] = "running"]
     ELSE Go(j, "leave") /\ UNCHANGED job
  /\ UNCHANGED <<gh, ids, forced, handler, verdict, closing, history, budget>>

(* Mutant: the check of the cancel after the check run is dropped. *)
afterCreateBlind(j) == "checkout"

(* finishIfCancelled once the ids are saved: a cancel that came while they *)
(* were on the wire found nothing to close.                                *)
afterCreate(j) == IF cancelled(j) THEN "abort" ELSE "checkout"

(* The AppSec check run is opened on GitHub; where it is refused its id is *)
(* 0, and replaces an earlier one ...                                      *)
CreateCheck(j) ==
  /\ proc[j] = "create"
  /\ Created(j, "appsec", "in_progress")
  /\ IF gh' = gh
     THEN Go(j, afterCreate(j)) /\ ids' = [ids EXCEPT ![j]["appsec"] = 0]
     ELSE Go(j, "created") /\ UNCHANGED ids
  /\ UNCHANGED <<job, forced, handler, verdict, closing, early>>

(* ... or the id comes back.                                               *)
SaveCheck(j) ==
  /\ proc[j] = "created"
  /\ ids' = [ids EXCEPT ![j]["appsec"] = Len(gh[j]["appsec"])]
  /\ Go(j, afterCreate(j))
  /\ UNCHANGED <<gh, job, forced, handler, verdict, closing, history, budget>>

(* githubCompleteCheckRunForCancel by the processor. *)
Abort(j) ==
  /\ proc[j] = "abort"
  /\ Completed(j, ids[j]["appsec"], "appsec", "cancelled")
  /\ Go(j, "leave")
  /\ UNCHANGED <<rows, handler, verdict, closing, early>>

(* prepareSCMWorktree returns.  Where it failed for a cancelled job, the   *)
(* check run is left to the closer.                                        *)
CheckoutReturns(j, ok) ==
  /\ proc[j] = "checkout"
  /\ \/ ok /\ Go(j, IF cancelled(j) THEN "abort" ELSE "scan") /\ UNCHANGED job
     \/ ~ok /\ cancelled(j) /\ Go(j, "leave") /\ UNCHANGED job
     \/ ~ok /\ ~cancelled(j) /\ Go(j, "fail") /\ job' = [job EXCEPT ![j] = "error"]
  /\ UNCHANGED <<gh, ids, forced, handler, verdict, closing, history, budget>>

(* The check run of a failed checkout. *)
CheckoutFails(j) ==
  /\ proc[j] = "fail"
  /\ Completed(j, ids[j]["appsec"], "appsec", "failure")
  /\ Go(j, "leave")
  /\ UNCHANGED <<rows, handler, verdict, closing, early>>

(* runSecurityScanJob: OSA takes the scan over, or refuses it; then        *)
(* gateAfterScan has its verdict at once: there is none.                   *)
ScanStarts(j, accepted) ==
  /\ proc[j] = "scan"
  /\ IF cancelled(j) THEN Go(j, "abort") /\ UNCHANGED verdict
     ELSE IF accepted THEN Go(j, "gate") /\ UNCHANGED verdict
     ELSE Go(j, "publish") /\ verdict' = [verdict EXCEPT ![j] = "unavailable"]
  /\ UNCHANGED <<gh, rows, handler, closing, history, budget>>

(* gateAfterScan: the wait for OSA ends with a verdict, or without.  No    *)
(* cancel is looked at any more.                                           *)
GateReturns(j, v) ==
  /\ proc[j] = "gate"
  /\ verdict' = [verdict EXCEPT ![j] = v]
  /\ Go(j, "publish")
  /\ UNCHANGED <<gh, rows, handler, closing, history, budget>>

(* Mutant: a gate that could not be evaluated passes. *)
twoOutcomes(v) == IF v = "fail" THEN "failure" ELSE "success"

(* gateCheckOutcome *)
gateCheckOutcome(v) ==
  CASE v = "pass" -> "success" [] v = "fail" -> "failure" [] v = "unavailable" -> "neutral"

(* The verdict is published, also where the job is cancelled by now.       *)
PublishGate(j) ==
  /\ proc[j] = "publish"
  /\ Completed(j, ids[j]["appsec"], "appsec", gateCheckOutcome(verdict[j]))
  /\ Go(j, "finish")
  /\ UNCHANGED <<rows, handler, verdict, closing, early>>

(* A failed gate fails the job, unless somebody asked for it by a retry.   *)
Finish(j) ==
  /\ proc[j] = "finish"
  /\ job' = IF cancelled(j) THEN job
            ELSE [job EXCEPT ![j] = IF verdict[j] = "fail" /\ j \notin forced
                                    THEN "failed" ELSE "completed"]
  /\ Go(j, "leave")
  /\ UNCHANGED <<gh, ids, forced, handler, verdict, closing, history, budget>>

(* The deferred calls: the slot and the entry of scmProcessing.            *)
Leave(j) ==
  /\ proc[j] = "leave"
  /\ Go(j, "idle")
  /\ UNCHANGED <<gh, rows, handler, verdict, closing, history, budget>>

-----------------------------------------------------------------------------
(* A cancel and its closer. *)

(* cancelSCMJobWithReason; a push is never superseded by another.          *)
Cancel(j) ==
  /\ job[j] \in {"queued", "running"}
  /\ Spend("cancel")
  /\ job' = [job EXCEPT ![j] = "cancelled"]
  /\ closing' = [closing EXCEPT ![j] = Names]
  /\ early' = IF ingress[j] \in {"no", "done"} THEN early ELSE early \cup {j}
  /\ UNCHANGED <<gh, ids, forced, handler, processor, excused>>

(* Mutant: only the native check run is closed. *)
onlyAppSec(j, n) == IF n = "appsec" THEN ids[j][n] ELSE 0

(* The map is read as it is when the closer gets there. *)
toClose(j, n) == ids[j][n]

(* closeSCMJobGitHubChecks, for one entry. *)
CloseOne(j, n) ==
  /\ n \in closing[j]
  /\ closing' = [closing EXCEPT ![j] = @ \ {n}]
  /\ Completed(j, toClose(j, n), n, "cancelled")
  /\ UNCHANGED <<rows, handler, processor, early>>

-----------------------------------------------------------------------------
(* Retry, resume, reboot. *)

(* Retry in handleSCMJobSub, whatever the status is; a job that is still   *)
(* coming to rest may take the new processor for a second one.             *)
Retry(j) ==
  /\ job[j] # "absent"
  /\ Spend("again")
  /\ job' = [job EXCEPT ![j] = "queued"]
  /\ forced' = forced \cup {j}
  /\ Wake(j)
  /\ excused' = IF Quiet(j) THEN excused ELSE excused \cup ({j} \X Names)
  /\ UNCHANGED <<gh, ids, handler, verdict, closing, early>>

(* dispatchQueuedNonStackSCMJobs *)
Dispatched(place, status) ==
  [j \in Jobs |-> IF status[j] = "queued" THEN Woken(place, j)[j] ELSE place[j]]

(* handleSCMJobsResume *)
Resume ==
  /\ Spend("again")
  /\ proc' = Dispatched(proc, job)
  /\ UNCHANGED <<gh, rows, handler, verdict, closing, history>>

(* recoverStuckRunningSCMJobs *)
Recovered(s) == IF s = "running" THEN "queued" ELSE s

(* The process dies and comes back with the rows it has saved; handlers,   *)
(* processors and closers are gone.                                        *)
Restart ==
  /\ Spend("fault")
  /\ job' = [j \in Jobs |-> Recovered(job[j])]
  /\ proc' = Dispatched([j \in Jobs |-> "idle"], job')
  /\ closing' = [j \in Jobs |-> {}]
  /\ ingress' = [j \in Jobs |-> IF ingress[j] = "no" THEN "no" ELSE "done"]
  /\ peers' = [j \in Jobs |-> {}]
  /\ excused' = excused \cup
       ({j \in Jobs : ~Quiet(j) /\ (job[j] \in Terminal \/ proc[j] = "created")} \X Names)
  /\ early' = early \cup {j \in Jobs : ingress[j] \in {"fanout", "publish"}}
  /\ got' = [j \in Jobs |-> [n \in Names |-> 0]]
  /\ UNCHANGED <<gh, ids, forced, verdict>>

-----------------------------------------------------------------------------
ProcStep(j) ==
  \/ Begin(j) \/ CreateCheck(j) \/ SaveCheck(j) \/ Abort(j)
  \/ \E ok \in BOOLEAN : CheckoutReturns(j, ok)
  \/ CheckoutFails(j)
  \/ \E accepted \in BOOLEAN : ScanStarts(j, accepted)
  \/ \E v \in Verdicts : GateReturns(j, v)
  \/ PublishGate(j) \/ Finish(j) \/ Leave(j)

HandlerStep(j) ==
  \/ \E wanted \in SUBSET Peers : FanOut(j, wanted)
  \/ \E n \in Peers : PublishPeer(j, n)
  \/ Ingested(j)

Closer(j) == \E n \in Names : CloseOne(j, n)

Next ==
  \/ \E j \in Jobs :
       \/ Push(j) \/ Tick(j)
       \/ HandlerStep(j) \/ ProcStep(j) \/ Closer(j)
  \/ \E j \in Handled : Cancel(j) \/ Retry(j)
  \/ Resume \/ Restart

Spec == Init /\ [][Next]_vars

-----------------------------------------------------------------------------
(* Properties. *)

Shown(j, n) == IF gh[j][n] = <<>> THEN "none" ELSE Last(gh[j][n])

(* The AppSec check run that GitHub shows for a job at rest is closed: a   *)
(* cancel either finds the id in the row, or the processor finds the       *)
(* cancel when it has saved the id (processContinuousSCMJob,               *)
(* closeSCMJobGitHubChecks).                                               *)
AppSecIsAnswered ==
  \A j \in Jobs :
    Quiet(j) /\ job[j] \in Terminal /\ <<j, "appsec">> \notin excused
      => Shown(j, "appsec") \notin Open

(* At rest the row and the check run tell the same story, over retries and *)
(* restarts: the verdict of the last gate, a failed checkout, and no more  *)
(* than that unless the job was cancelled (gateCheckOutcome,               *)
(* processContinuousSCMJob).                                               *)
RowAndCheckAgree ==
  \A j \in Jobs :
    Quiet(j) /\ <<j, "appsec">> \notin excused /\ Shown(j, "appsec") # "none" =>
      /\ job[j] = "error" => Shown(j, "appsec") = "failure"
      /\ job[j] = "failed" => verdict[j] = "fail"
      /\ job[j] \in {"completed", "failed"} =>
           <<verdict[j], Shown(j, "appsec")>> \in
             {<<"pass", "success">>, <<"fail", "failure">>, <<"unavailable", "neutral">>}

(* A cancel that comes once the handler has merged the ids of the peers    *)
(* leaves none of their check runs open (closeSCMJobGitHubChecks).  One    *)
(* that comes before does: the ids are merged after the closer has gone.   *)
CancelClosesPeers ==
  \A j \in Jobs, n \in Peers :
    Quiet(j) /\ cancelled(j) /\ j \notin early /\ <<j, n>> \notin excused
      => Shown(j, n) \notin Open
-----------------------------------------------------------------------------
(* Why they hold. *)

Conclusions == {"success", "failure", "neutral", "cancelled"}
JobStatus == {"absent", "queued", "running"} \cup Terminal
Attempt == {"create", "created", "checkout", "scan", "gate", "publish", "finish"}
Places == {"idle", "spawned", "abort", "fail", "leave"} \cup Attempt

(* Rows, check runs, handlers, processors and closers are in the states    *)
(* the code names.                                                         *)
TypeOK ==
  /\ gh \in [Jobs -> [Names -> Seq(Open \cup Conclusions)]]
  /\ job \in [Jobs -> JobStatus]
  /\ ids \in [Jobs -> [Names -> Nat]] /\ got \in [Jobs -> [Names -> Nat]]
  /\ forced \subseteq Jobs /\ early \subseteq Jobs
  /\ ingress \in [Jobs -> {"no", "fanout", "publish", "done"}]
  /\ peers \in [Jobs -> SUBSET Peers]
  /\ proc \in [Jobs -> Places]
  /\ verdict \in [Jobs -> Verdicts \cup {"none"}]
  /\ \A j \in Jobs : proc[j] \in {"publish", "finish"} => verdict[j] \in Verdicts
  /\ closing \in [Jobs -> SUBSET Names]
  /\ excused \subseteq Jobs \X Names
  /\ budget \in [Events -> Nat]

(* What the handler has collected or the row has is the newest check run   *)
(* of a peer, and the row the newest of the gate, but for one whose id is  *)
(* on the wire.                                                            *)
KnownInv(j) ==
  /\ j \in Crons => \A n \in Names : gh[j][n] = <<>>
  /\ got[j]["appsec"] = 0
  /\ <<j, "appsec">> \notin excused =>
       Len(gh[j]["appsec"]) = ids[j]["appsec"] + IF proc[j] = "created" THEN 1 ELSE 0
  /\ j \notin early => \A n \in Peers :
       /\ ingress[j] # "done" => ids[j][n] = 0
       /\ ingress[j] \in {"no", "fanout"} => got[j][n] = 0
       /\ <<j, n>> \notin excused =>
            Len(gh[j][n]) = IF ingress[j] = "done" THEN ids[j][n] ELSE got[j][n]

(* A processor that is past its start works on a row that says so, or was  *)
(* cancelled; only a cancel has closers.                                   *)
PlaceInv(j) ==
  <<j, "appsec">> \notin excused =>
    /\ closing[j] # {} \/ proc[j] = "abort" => cancelled(j)
    /\ proc[j] \in Attempt => job[j] \in {"running", "cancelled"}
    /\ proc[j] = "fail" => job[j] = "error"

(* The check run of the gate says what the row says, or somebody is about  *)
(* to write it.                                                            *)
Agreed(j) == verdict[j] \in Verdicts /\ Shown(j, "appsec") = gateCheckOutcome(verdict[j])

StoryInv(j) ==
  <<j, "appsec">> \notin excused /\ gh[j]["appsec"] # <<>> =>
    /\ job[j] \in {"completed", "failed"} \/ (job[j] = "running" /\ proc[j] = "finish") => Agreed(j)
    /\ job[j] = "failed" => verdict[j] = "fail"
    /\ job[j] = "error" => proc[j] = "fail" \/ Shown(j, "appsec") = "failure"
    /\ cancelled(j) /\ Shown(j, "appsec") \in Open =>
         "appsec" \in closing[j] \/ proc[j] \in {"created", "abort"}

(* An open check run of a peer is still to be closed after a cancel.       *)
PeerInv(j) ==
  cancelled(j) /\ j \notin early =>
    /\ ingress[j] \in {"no", "done"}
    /\ \A n \in Peers :
         <<j, n>> \notin excused /\ Shown(j, n) \in Open => n \in closing[j]

JobInv(j) == KnownInv(j) /\ PlaceInv(j) /\ StoryInv(j) /\ PeerInv(j)

ChecksInv == \A j \in Jobs : JobInv(j)

=============================================================================
