------------------------------ MODULE RunGraph ------------------------------
(***************************************************************************)
(* The pull-request run graph of the orchestrator: a kind=run parent job   *)
(* plans one child job per agent kind, launches the children whose         *)
(* dependencies are terminal, and folds their statuses into its own.       *)
(* The parent loop, every child and every API call run in goroutines of    *)
(* their own over shared job rows; rows survive a crash, goroutines do     *)
(* not.                                                                    *)
(*                                                                         *)
(* One pull request of one repository is modelled.  A job row is its       *)
(* status plus the few summary keys that steer control.  A write of a row  *)
(* and its persistSCMJob are one step, so memory and disk agree; whatever  *)
(* sits between two writes of a handler (GitHub calls, the semaphore, the  *)
(* sleeps, the bare check-then-write pairs on shared rows) is a boundary   *)
(* between two actions.                                                    *)
(***************************************************************************)
EXTENDS Integers, FiniteSets

CONSTANTS
  NumRuns,        \* how many parent rows enqueuePRRun may create
  ShaOf,          \* the head commit each parent row is created for
  Inputs,         \* the watch policy, prefs and event of an enqueue
  SemCap,         \* scmProcessConcurrency()
  Failing,        \* the kinds whose agent may return an error
  DeadlineFires,  \* may the two-hour barrier deadline elapse?
  Budget,         \* how often each external event may happen
  Mixes           \* the sets of external events that may happen together

Runs == 1..NumRuns

(* The external events Budget bounds: a crash and reboot, a dashboard      *)
(* retry, a cancel of a run, a cancel of one child, a retry of one child,  *)
(* an admin resume, a merge of the pull request.                           *)
Events == {"boot", "retry", "cancel", "cancelChild", "retryChild",
           "resume", "merge"}

InputFields == {"legacy", "ora", "checkup", "docker", "cloud", "draft",
                "admits", "force"}

ASSUME ConstantsAssumption ==
  /\ NumRuns \in Nat
  /\ SemCap \in Nat
  /\ Inputs \subseteq [InputFields -> BOOLEAN]
  /\ DeadlineFires \in BOOLEAN
  /\ Budget \in [Events -> Nat]
  /\ Mixes \subseteq SUBSET Events

Kinds == {"prepare", "security", "bugbot", "checkup", "cloud", "approval"}

(* agentDependsOn *)
DependsOn(k) ==
  CASE k = "prepare" -> {}
    [] k \in {"security", "bugbot", "checkup"} -> {"prepare"}
    [] k = "cloud" -> {"bugbot", "security"}
    [] k = "approval" -> {"bugbot", "security", "cloud"}

JobStatus == {"absent", "queued", "running", "completed", "failed", "error",
              "cancelled", "skipped", "completed_with_errors"}

InFlight == {"queued", "running"}

(* Mutant: "skipped" is forgotten. *)
jobTerminalNoSkip(s) == s \in {"completed", "failed", "error", "cancelled"}

jobTerminal(s) == s \in {"completed", "failed", "error", "cancelled", "skipped"}

clampInt(n, lo, hi) == IF n < lo THEN lo ELSE IF n > hi THEN hi ELSE n

kindConcurrency(k) ==
  IF k \in {"security", "bugbot", "checkup"} THEN clampInt(SemCap, 1, 4) ELSE 2

(* The places of processPRRun.  "spawned": the goroutine exists but has    *)
(* not looked at the row yet; "gate": it asks GitHub and the review index  *)
(* whether to skip; "loop": the barrier loop; "cwait":                     *)
(* waitRunChildrenTerminal after a cancel; "final" and "fold":             *)
(* finalizePRRun before and after the COMMENT fallback.  A place other     *)
(* than "idle" is an entry of scmProcessing.                               *)
RunPlaces == {"idle", "spawned", "gate", "loop", "cwait", "final", "fold"}

(* The places of processAgentChild.  "slot": waiting for the kind's        *)
(* semaphore; "start": the status was read as not terminal, "running" is   *)
(* not written yet; "body": inside the agent; "decide" and "post": inside  *)
(* the approval agent, before and after publishPRReview's check for a      *)
(* cancel; "ok", "err", "skip": the agent has returned and was not seen    *)
(* cancelled, the final status is not written yet.                         *)
ChildPlaces == {"idle", "slot", "start", "body", "decide", "post",
                "ok", "err", "skip"}

HoldsSlot == ChildPlaces \ {"idle", "slot"}

(* Reviews on GitHub: the decision of the approval agent, the COMMENT      *)
(* fallback of the finalizer.                                              *)
Posts == {"decision", "fallback"}

VARIABLES
  run,        \* parent row: its status
  rpc,        \* parent row: place of its processor
  child,      \* child rows: status by kind
  cpc,        \* child rows: place of their processors
  input,      \* parent row: watch policy, prefs, event it was planned from
  force,      \* parent row: ForceAI
  startedAt,  \* parent row: StartedAt
  drain,      \* cloud child: supersede_drain / cancel_drain
  pending,    \* bugbot child: pending_decision = true
  decided,    \* approval child: pending_decision = false
  reviewed,   \* bugbot child: an AI result that counts as successful
  noted,      \* parent row: final_comment_published
  indexed,    \* scmSuccessfulAIReviewBySHA: the commits it holds
  posted,     \* what reached GitHub on behalf of each run
  merged,     \* the pull request is merged on GitHub
  clock,      \* the time StartedAt is taken from
  budget      \* external events still to come

rows == <<input, force, startedAt, clock>>
agents == <<drain, pending, decided, reviewed, noted, indexed, posted>>
world == <<merged, budget>>
vars == <<run, rpc, child, cpc, rows, agents, world>>

NoInput == [f \in InputFields |-> FALSE]
NoChildren == [k \in Kinds |-> "absent"]

Init ==
  /\ run = [r \in Runs |-> "absent"]
  /\ rpc = [r \in Runs |-> "idle"]
  /\ child = [r \in Runs |-> NoChildren]
  /\ cpc = [r \in Runs |-> [k \in Kinds |-> "idle"]]
  /\ input = [r \in Runs |-> NoInput]
  /\ force = [r \in Runs |-> FALSE]
  /\ startedAt = [r \in Runs |-> 0]
  /\ drain = [r \in Runs |-> FALSE]
  /\ pending = [r \in Runs |-> FALSE]
  /\ decided = [r \in Runs |-> FALSE]
  /\ reviewed = [r \in Runs |-> FALSE]
  /\ noted = [r \in Runs |-> FALSE]
  /\ indexed = {}
  /\ posted = [r \in Runs |-> {}]
  /\ merged = FALSE
  /\ clock = 0
  /\ budget = Budget

Happened == {e \in Events : budget[e] # Budget[e]}

Spend(e) ==
  /\ budget[e] > 0
  /\ \E mix \in Mixes : Happened \cup {e} \subseteq mix
  /\ budget' = [budget EXCEPT ![e] = @ - 1]

Cancelled(r) == run[r] = "cancelled"
ChildCancelled(r, k) == child[r][k] = "cancelled"

-----------------------------------------------------------------------------
(* Planning and readiness.                                                 *)

(* planRunChildren: the children of a plan and the status each starts in.  *)
planRunChildren(in, skipBugbot) ==
  [k \in Kinds |->
    CASE k = "prepare" -> "queued"
      [] k = "security" -> IF in.legacy THEN "queued"
                           ELSE IF in.ora THEN "skipped" ELSE "absent"
      [] k = "bugbot" -> IF ~in.ora THEN "absent"
                         ELSE IF skipBugbot THEN "skipped" ELSE "queued"
      [] k = "checkup" -> IF ~in.checkup THEN "absent"
                          ELSE IF in.docker THEN "queued" ELSE "skipped"
      [] k = "approval" -> IF in.ora THEN "queued" ELSE "absent"
      [] k = "cloud" -> IF in.cloud THEN "queued" ELSE "skipped"]

(* ensureRunChildren: fill in the kinds a plan misses, never replace one.  *)
ensureRunChildren(ch, in) ==
  [k \in Kinds |-> IF ch[k] = "absent" THEN planRunChildren(in, FALSE)[k]
                   ELSE ch[k]]

(* agentChildReady on the children ch of one run. *)
agentChildReady(ch, k) ==
  \A d \in DependsOn(k) :
    /\ jobTerminal(ch[d])
    /\ d = "prepare" => ch[d] \in {"completed", "skipped"}

(* Mutant: the dependencies are not looked at. *)
readyAtOnce(ch) == {k \in Kinds : ch[k] = "queued"}

readyChildren(ch) == {k \in Kinds : ch[k] = "queued" /\ agentChildReady(ch, k)}

(* The processors that a dispatch of the kinds ks leaves behind: a second  *)
(* goroutine for a job in scmProcessing returns at once.                   *)
Dispatch(places, ks) ==
  [k \in Kinds |-> IF k \in ks /\ places[k] = "idle" THEN "slot" ELSE places[k]]

(* Mutant: failed children are not counted. *)
foldForgetsFailures(ch, parentStatus) ==
  IF ch = NoChildren THEN parentStatus
  ELSE IF \E k \in Kinds : ch[k] = "running" THEN "running"
  ELSE IF \E k \in Kinds : ch[k] = "queued" THEN "queued"
  ELSE IF parentStatus = "cancelled" THEN "cancelled"
  ELSE "completed"

foldRunStatus(ch, parentStatus) ==
  LET has(S) == \E k \in Kinds : ch[k] \in S
  IN  IF ch = NoChildren THEN parentStatus
      ELSE IF has({"running"}) THEN "running"
      ELSE IF has({"queued"}) THEN "queued"
      ELSE IF has({"failed", "error"}) THEN "completed_with_errors"
      ELSE IF parentStatus = "cancelled" THEN "cancelled"
      ELSE "completed"

-----------------------------------------------------------------------------
(* Cancelling.                                                             *)

(* cascadeCancelRunChildren: a running cloud child is left to drain. *)
cascadeCancelRunChildren(ch) ==
  [k \in Kinds |-> IF ch[k] \in InFlight /\ ~(k = "cloud" /\ ch[k] = "running")
                   THEN "cancelled" ELSE ch[k]]

(* Cancel the rows of the runs R: in-flight parents with their children,   *)
(* and the in-flight children of parents that are not in flight.           *)
CancelRows(R) ==
  /\ run' = [r \in Runs |-> IF r \in R /\ run[r] \in InFlight
                            THEN "cancelled" ELSE run[r]]
  /\ child' = [r \in Runs |-> IF r \in R THEN cascadeCancelRunChildren(child[r])
                              ELSE child[r]]
  /\ drain' = [r \in Runs |->
                 drain[r] \/ (r \in R /\ child[r]["cloud"] = "running")]

(* POST /api/scm/jobs/{id}/cancel on a parent. *)
CancelRun(r) ==
  /\ run[r] \in InFlight
  /\ Spend("cancel")
  /\ CancelRows({r})
  /\ UNCHANGED <<rpc, cpc, rows, pending, decided, reviewed, noted, indexed,
                 posted, merged>>

(* The same endpoint on a child: no cascade and no drain. *)
CancelChild(r, k) ==
  /\ child[r][k] \in InFlight
  /\ Spend("cancelChild")
  /\ child' = [child EXCEPT ![r][k] = "cancelled"]
  /\ UNCHANGED <<run, rpc, cpc, rows, agents, merged>>

(* The pull request is merged on GitHub; the webhook may come later.       *)
Merge ==
  /\ ~merged
  /\ Spend("merge")
  /\ merged' = TRUE
  /\ UNCHANGED <<run, rpc, child, cpc, rows, agents>>

(* The merged webhook: cancelInFlightJobsForMergedPR. *)
MergedWebhook ==
  /\ merged
  /\ \E r \in Runs : run[r] \in InFlight \/ \E k \in Kinds : child[r][k] \in InFlight
  /\ CancelRows(Runs)
  /\ UNCHANGED <<rpc, cpc, rows, pending, decided, reviewed, noted, indexed,
                 posted, world>>

-----------------------------------------------------------------------------
(* Enqueue and retry.                                                      *)

(* findInFlightPRRunForSHA *)
findInFlightPRRunForSHA(r) ==
  {q \in Runs : run[q] \in InFlight /\ ShaOf[q] = ShaOf[r]}

(* supersedeInFlightPRJobs: the rows it looks at. *)
SupersededBy(r) == {q \in Runs : ShaOf[q] # ShaOf[r]}

(* enqueuePRRun for a commit no in-flight parent is on: supersede the      *)
(* in-flight jobs of the other commits, plan the children, start the       *)
(* processor.  Rows are handed out in the order of their numbers.          *)
Enqueue(r, in) ==
  /\ run[r] = "absent"
  /\ \A q \in Runs : q < r => run[q] # "absent"
  /\ findInFlightPRRunForSHA(r) = {}
  /\ LET others == SupersededBy(r)
         plan == IF in.admits THEN planRunChildren(in, in.draft) ELSE NoChildren
     IN  /\ run' = [q \in Runs |->
                      IF q = r THEN IF in.admits THEN "queued" ELSE "skipped"
                      ELSE IF q \in others /\ run[q] \in InFlight THEN "cancelled"
                      ELSE run[q]]
         /\ child' = [q \in Runs |->
                        IF q = r THEN plan
                        ELSE IF q \in others THEN cascadeCancelRunChildren(child[q])
                        ELSE child[q]]
         /\ drain' = [q \in Runs |->
                        drain[q] \/ (q \in others /\ child[q]["cloud"] = "running")]
  /\ rpc' = [rpc EXCEPT ![r] = "spawned"]
  /\ input' = [input EXCEPT ![r] = in]
  /\ force' = [force EXCEPT ![r] = in.force]
  /\ clock' = clock + 1
  /\ startedAt' = [startedAt EXCEPT ![r] = clock + 1]
  /\ UNCHANGED <<cpc, pending, decided, reviewed, noted, indexed, posted, world>>

(* POST /api/scm/jobs/{id}/retry on a parent: the row is queued again      *)
(* whatever it was, its children are not touched.                          *)
RetryRun(r) ==
  /\ run[r] # "absent"
  /\ Spend("retry")
  /\ run' = [run EXCEPT ![r] = "queued"]
  /\ force' = [force EXCEPT ![r] = TRUE]
  /\ rpc' = [rpc EXCEPT ![r] = IF @ = "idle" THEN "spawned" ELSE @]
  /\ UNCHANGED <<child, cpc, input, startedAt, clock, agents, merged>>

(* The same endpoint on a child; its processor returns if it is not ready. *)
RetryChild(r, k) ==
  /\ child[r][k] # "absent"
  /\ Spend("retryChild")
  /\ child' = [child EXCEPT ![r][k] = "queued"]
  /\ cpc' = [cpc EXCEPT ![r] =
               Dispatch(@, IF agentChildReady(child[r], k) THEN {k} ELSE {})]
  /\ UNCHANGED <<run, rpc, rows, agents, merged>>

-----------------------------------------------------------------------------
(* The parent processor: processPRRun.                                     *)

(* Take the job and look at its status. *)
RunBegin(r) ==
  /\ rpc[r] = "spawned"
  /\ rpc' = [rpc EXCEPT ![r] =
               IF jobTerminal(run[r]) \/ run[r] = "completed_with_errors"
               THEN "idle" ELSE "gate"]
  /\ UNCHANGED <<run, child, cpc, rows, agents, world>>

(* lookupSuccessfulAIReviewForSHA: the index, or a finished row of another *)
(* job with a successful result; the children of the run itself are other  *)
(* jobs.                                                                   *)
AlreadyReviewed(r) ==
  \/ ShaOf[r] \in indexed
  \/ \E q \in Runs : /\ ShaOf[q] = ShaOf[r]
                     /\ reviewed[q]
                     /\ child[q]["bugbot"] \in {"completed", "failed"}

shouldSkipSCMJobForAlreadyReviewed(r) == ~force[r] /\ AlreadyReviewed(r)

(* What is heard of the merge: a call to GitHub that fails says no. *)
shouldSkipSCMJobForMergedPR == {merged, FALSE}

scmRunSkipGate(r, heard) ==
  (~force[r] /\ heard) \/ shouldSkipSCMJobForAlreadyReviewed(r)

(* The gate says skip: the children stay as they are. *)
RunSkip(r) ==
  /\ rpc[r] = "gate"
  /\ \E heard \in shouldSkipSCMJobForMergedPR : scmRunSkipGate(r, heard)
  /\ run' = [run EXCEPT ![r] = "skipped"]
  /\ rpc' = [rpc EXCEPT ![r] = "idle"]
  /\ UNCHANGED <<child, cpc, rows, agents, world>>

(* scmRunSkipGate lets the run pass: write "running" over whatever the row *)
(* says by now, fill in missing children, enter the barrier loop.          *)
RunAdmit(r) ==
  /\ rpc[r] = "gate"
  /\ \E heard \in shouldSkipSCMJobForMergedPR : ~scmRunSkipGate(r, heard)
  /\ run' = [run EXCEPT ![r] = "running"]
  /\ IF run[r] = "running" THEN UNCHANGED <<startedAt, clock>>
     ELSE /\ clock' = clock + 1
          /\ startedAt' = [startedAt EXCEPT ![r] = clock + 1]
  /\ child' = [child EXCEPT ![r] = ensureRunChildren(@, input[r])]
  /\ rpc' = [rpc EXCEPT ![r] = "loop"]
  /\ UNCHANGED <<cpc, input, force, agents, world>>

(* One turn of the barrier loop that launches something. *)
RunLaunch(r) ==
  /\ rpc[r] = "loop"
  /\ ~Cancelled(r)
  /\ \E k \in readyChildren(child[r]) : cpc[r][k] = "idle"
  /\ cpc' = [cpc EXCEPT ![r] = Dispatch(@, readyChildren(child[r]))]
  /\ UNCHANGED <<run, rpc, child, rows, agents, world>>

AllChildrenTerminal(r) ==
  /\ child[r] # NoChildren
  /\ \A k \in Kinds : child[r][k] # "absent" => jobTerminal(child[r][k])

(* One turn of the barrier loop that finds every child terminal. *)
RunAllDone(r) ==
  /\ rpc[r] = "loop"
  /\ ~Cancelled(r)
  /\ AllChildrenTerminal(r)
  /\ rpc' = [rpc EXCEPT ![r] = "final"]
  /\ UNCHANGED <<run, child, cpc, rows, agents, world>>

(* One turn of the barrier loop that finds the run cancelled. *)
RunSeesCancel(r) ==
  /\ rpc[r] = "loop"
  /\ Cancelled(r)
  /\ rpc' = [rpc EXCEPT ![r] = "cwait"]
  /\ UNCHANGED <<run, child, cpc, rows, agents, world>>

(* waitRunChildrenTerminal: every child is terminal, or a draining cloud.  *)
ChildrenSettled(r) ==
  \A k \in Kinds :
    \/ child[r][k] = "absent"
    \/ jobTerminal(child[r][k])
    \/ k = "cloud" /\ drain[r] /\ child[r][k] = "running"

(* waitRunChildrenTerminal returns: settled, or its thirty seconds are up. *)
RunCancelWaited(r) ==
  /\ rpc[r] = "cwait"
  /\ ChildrenSettled(r)
  /\ rpc' = [rpc EXCEPT ![r] = "final"]
  /\ UNCHANGED <<run, child, cpc, rows, agents, world>>

RunCancelTimeout(r) ==
  /\ rpc[r] = "cwait"
  /\ ~ChildrenSettled(r)
  /\ rpc' = [rpc EXCEPT ![r] = "final"]
  /\ UNCHANGED <<run, child, cpc, rows, agents, world>>

RunDeadlineStays(r) ==
  /\ DeadlineFires
  /\ rpc[r] = "loop"
  /\ run' = [run EXCEPT ![r] = IF jobTerminal(@) THEN @ ELSE "error"]
  /\ UNCHANGED <<rpc, child, cpc, rows, agents, world>>

(* The barrier loop runs out of its two hours. *)
RunDeadline(r) ==
  /\ DeadlineFires
  /\ rpc[r] = "loop"
  /\ run' = [run EXCEPT ![r] = IF jobTerminal(@) THEN @ ELSE "error"]
  /\ rpc' = [rpc EXCEPT ![r] = "idle"]
  /\ UNCHANGED <<child, cpc, rows, agents, world>>

(* finalizePRRun: is a decision still owed? *)
ApprovalOK(r) ==
  child[r]["approval"] \in {"completed", "skipped"} /\ decided[r]

(* Mutant: pending_decision of the bugbot child alone decides. *)
OwesWheneverPending(r) ==
  pending[r] /\ child[r]["bugbot"] # "absent" /\ ~Cancelled(r) /\ ~noted[r]

OwesComment(r) ==
  /\ pending[r] /\ ~decided[r]
  /\ ~ApprovalOK(r)
  /\ child[r]["bugbot"] # "absent"
  /\ ~Cancelled(r)
  /\ ~noted[r]

(* publishOPADecisionReview updates the first decision review there is; a  *)
(* COMMENT without one is dropped.                                         *)
DecisionCardExists == \E q \in Runs : "decision" \in posted[q]

(* Reviews that cannot be listed are taken for none. *)
githubListPRReviews == {DecisionCardExists, FALSE}

(* ensureFinalCOMMENTReview, when publishPRReview returns no error. *)
RunFallback(r) ==
  /\ rpc[r] = "final"
  /\ OwesComment(r)
  /\ noted' = [noted EXCEPT ![r] = TRUE]
  /\ pending' = [pending EXCEPT ![r] = FALSE]
  /\ \E card \in githubListPRReviews :
        posted' = [posted EXCEPT ![r] = @ \cup IF card THEN {"fallback"} ELSE {}]
  /\ rpc' = [rpc EXCEPT ![r] = "fold"]
  /\ UNCHANGED <<run, child, cpc, rows, drain, decided, reviewed, indexed, world>>

(* ensureFinalCOMMENTReview, when it does: final_comment_error. *)
RunFallbackFails(r) ==
  /\ rpc[r] = "final"
  /\ OwesComment(r)
  /\ rpc' = [rpc EXCEPT ![r] = "fold"]
  /\ UNCHANGED <<run, child, cpc, rows, agents, world>>

(* Mutant: the fold is written over a cancel as well. *)
RunFoldAlways(r) ==
  /\ \/ rpc[r] = "fold"
     \/ rpc[r] = "final" /\ ~OwesComment(r)
  /\ run' = [run EXCEPT ![r] = foldRunStatus(child[r], run[r])]
  /\ rpc' = [rpc EXCEPT ![r] = "idle"]
  /\ UNCHANGED <<child, cpc, rows, agents, world>>

(* finalizePRRun writes the folded status. *)
RunFold(r) ==
  /\ \/ rpc[r] = "fold"
     \/ rpc[r] = "final" /\ ~OwesComment(r)
  /\ run' = [run EXCEPT ![r] = IF Cancelled(r) THEN "cancelled"
                               ELSE foldRunStatus(child[r], run[r])]
  /\ rpc' = [rpc EXCEPT ![r] = "idle"]
  /\ UNCHANGED <<child, cpc, rows, agents, world>>

-----------------------------------------------------------------------------
(* A child processor: processAgentChild.                                   *)

SlotsUsed(k) == {r \in Runs : cpc[r][k] \in HoldsSlot}

(* Get the kind's slot and read the status; a terminal child is done. *)
ChildSlot(r, k) ==
  /\ cpc[r][k] = "slot"
  /\ Cardinality(SlotsUsed(k)) < kindConcurrency(k)
  /\ cpc' = [cpc EXCEPT ![r][k] =
               IF jobTerminal(child[r][k]) THEN "idle" ELSE "start"]
  /\ UNCHANGED <<run, rpc, child, rows, agents, world>>

(* Write "running" over whatever the row says by now. *)
ChildStart(r, k) ==
  /\ cpc[r][k] = "start"
  /\ child' = [child EXCEPT ![r][k] = "running"]
  /\ cpc' = [cpc EXCEPT ![r][k] = "body"]
  /\ UNCHANGED <<run, rpc, rows, agents, world>>

(* The agent returned: a cancelled row is left alone, any other row gets   *)
(* the outcome's status in a later step.                                   *)
Returned(r, k, outcome) ==
  cpc' = [cpc EXCEPT ![r][k] = IF ChildCancelled(r, k) THEN "idle" ELSE outcome]

(* What runPrepareAgent, runSecurityAgent, runCheckupAgent and             *)
(* runCloudAgent can return; only the last two skip themselves.            *)
Outcomes(k) ==
  {"ok"} \cup (IF k \in Failing THEN {"err"} ELSE {})
         \cup (IF k \in {"checkup", "cloud"} THEN {"skip"} ELSE {})

AgentReturn(r, k, outcome) ==
  /\ k \notin {"bugbot", "approval"}
  /\ cpc[r][k] = "body"
  /\ outcome \in Outcomes(k)
  /\ Returned(r, k, outcome)
  /\ UNCHANGED <<run, rpc, child, rows, agents, world>>

(* runBugbotAgent: findings are published, the decision is deferred, and a *)
(* successful result enters the index, also when the job was cancelled     *)
(* meanwhile.                                                              *)
BugbotReview(r, success) ==
  /\ cpc[r]["bugbot"] = "body"
  /\ pending' = [pending EXCEPT ![r] = TRUE]
  /\ reviewed' = [reviewed EXCEPT ![r] = success]
  /\ indexed' = indexed \cup (IF success THEN {ShaOf[r]} ELSE {})
  /\ Returned(r, "bugbot", "ok")
  /\ UNCHANGED <<run, rpc, child, rows, drain, decided, noted, posted, world>>

(* runBugbotAgent is refused the right to write to GitHub. *)
BugbotRefused(r) ==
  /\ "bugbot" \in Failing
  /\ cpc[r]["bugbot"] = "body"
  /\ Returned(r, "bugbot", "err")
  /\ UNCHANGED <<run, rpc, child, rows, agents, world>>

(* scmJobIsCancelled for the approval agent's own job or its run. *)
ApprovalStopped(r) == Cancelled(r) \/ ChildCancelled(r, "approval")

(* Mutant: the agent decides without any input. *)
DecidesBlindly(r) == FALSE

NoReviewerInput(r) == child[r]["bugbot"] = "failed" /\ child[r]["security"] = "failed"

ReviewersTerminal(r) ==
  jobTerminal(child[r]["bugbot"]) /\ jobTerminal(child[r]["security"])

(* runApprovalAgent finds itself or the run cancelled. *)
ApprovalStops(r) ==
  /\ cpc[r]["approval"] = "body"
  /\ ApprovalStopped(r)
  /\ child' = [child EXCEPT ![r]["approval"] = "cancelled"]
  /\ cpc' = [cpc EXCEPT ![r]["approval"] = "idle"]
  /\ UNCHANGED <<run, rpc, rows, agents, world>>

(* It lacks a terminal reviewer, or is refused the right to write. *)
ApprovalFails(r) ==
  /\ cpc[r]["approval"] = "body"
  /\ ~ApprovalStopped(r)
  /\ ~ReviewersTerminal(r) \/ ("approval" \in Failing /\ ~NoReviewerInput(r))
  /\ cpc' = [cpc EXCEPT ![r]["approval"] = "err"]
  /\ UNCHANGED <<run, rpc, child, rows, agents, world>>

(* It skips itself without reviewer input, or evaluates the evidence. *)
ApprovalWeighs(r) ==
  /\ cpc[r]["approval"] = "body"
  /\ ~ApprovalStopped(r)
  /\ ReviewersTerminal(r)
  /\ cpc' = [cpc EXCEPT ![r]["approval"] =
               IF NoReviewerInput(r) THEN "skip" ELSE "decide"]
  /\ UNCHANGED <<run, rpc, child, rows, agents, world>>

(* publishPRReview refuses a cancelled job or run; the agent only notes    *)
(* the error.                                                              *)
ApprovalRefused(r) ==
  /\ cpc[r]["approval"] = "decide"
  /\ ApprovalStopped(r)
  /\ decided' = [decided EXCEPT ![r] = TRUE]
  /\ Returned(r, "approval", "ok")
  /\ UNCHANGED <<run, rpc, child, rows, drain, pending, reviewed, noted,
                 indexed, posted, world>>

(* publishPRReview sends the decision on its way to GitHub. *)
ApprovalSends(r) ==
  /\ cpc[r]["approval"] = "decide"
  /\ ~ApprovalStopped(r)
  /\ cpc' = [cpc EXCEPT ![r]["approval"] = "post"]
  /\ UNCHANGED <<run, rpc, child, rows, agents, world>>

(* GitHub answers: a decision review is there, or not (the call failed and *)
(* the error is only noted, or the decision is a COMMENT and there is no   *)
(* card to update); pending_decision is cleared in every case.             *)
ApprovalPosted(r, accepted) ==
  /\ cpc[r]["approval"] = "post"
  /\ posted' = [posted EXCEPT ![r] = @ \cup IF accepted THEN {"decision"} ELSE {}]
  /\ decided' = [decided EXCEPT ![r] = TRUE]
  /\ Returned(r, "approval", "ok")
  /\ UNCHANGED <<run, rpc, child, rows, drain, pending, reviewed, noted,
                 indexed, world>>

(* Write the final status and give the slot back. *)
ChildFinish(r, k) ==
  /\ cpc[r][k] \in {"ok", "err", "skip"}
  /\ child' = [child EXCEPT ![r][k] = CASE cpc[r][k] = "ok" -> "completed"
                                        [] cpc[r][k] = "err" -> "failed"
                                        [] cpc[r][k] = "skip" -> "skipped"]
  /\ cpc' = [cpc EXCEPT ![r][k] = "idle"]
  /\ UNCHANGED <<run, rpc, rows, agents, world>>

-----------------------------------------------------------------------------
(* Boot and admin resume.                                                  *)

(* recoverStuckRunningSCMJobs: a running row is queued again. *)
Recovered(s) == IF s = "running" THEN "queued" ELSE s

(* pruneSupersededInFlightPRRuns: of the in-flight parents, one with the   *)
(* latest StartedAt survives.                                              *)
Survivors(live, started) ==
  IF live = {} THEN {0}
  ELSE {r \in live : \A q \in live : started[q] <= started[r]}

rebuildSuccessfulAIReviewIndex ==
  {ShaOf[r] : r \in {q \in Runs :
     reviewed[q] /\ child[q]["bugbot"] \in {"completed", "failed"}}}

(* The process dies and comes back (hydrateSCMJobsAndStacksOnBoot): every  *)
(* goroutine is gone; the index is rebuilt from finished rows; running     *)
(* rows become queued with StartedAt = now; of several in-flight parents   *)
(* one survives; queued rows are dispatched.                               *)
Restart ==
  LET runs == [r \in Runs |-> Recovered(run[r])]
      children == [r \in Runs |-> [k \in Kinds |-> Recovered(child[r][k])]]
      started == [r \in Runs |-> IF run[r] = "running" THEN clock + 1
                                 ELSE startedAt[r]]
      live == {r \in Runs : runs[r] = "queued"}
  IN  /\ Spend("boot")
      /\ \E keep \in Survivors(live, started) :
           /\ run' = [r \in Runs |-> IF r \in live \ {keep} THEN "cancelled"
                                     ELSE runs[r]]
           /\ child' = [r \in Runs |->
                          IF r \in live \ {keep}
                          THEN cascadeCancelRunChildren(children[r])
                          ELSE children[r]]
      /\ rpc' = [r \in Runs |-> IF run'[r] = "queued" THEN "spawned" ELSE "idle"]
      /\ cpc' = [r \in Runs |->
                   Dispatch([k \in Kinds |-> "idle"], readyChildren(child'[r]))]
      /\ startedAt' = started
      /\ clock' = clock + 1
      /\ indexed' = rebuildSuccessfulAIReviewIndex
      /\ UNCHANGED <<input, force, drain, pending, decided, reviewed, noted,
                     posted, merged>>

(* POST /api/scm/jobs/resume: dispatchQueuedNonStackSCMJobs. *)
Resume ==
  /\ Spend("resume")
  /\ rpc' = [r \in Runs |-> IF run[r] = "queued" /\ rpc[r] = "idle"
                            THEN "spawned" ELSE rpc[r]]
  /\ cpc' = [r \in Runs |-> Dispatch(cpc[r], readyChildren(child[r]))]
  /\ UNCHANGED <<run, child, rows, agents, merged>>

-----------------------------------------------------------------------------
RunStep(r) ==
  \/ RunBegin(r) \/ RunSkip(r) \/ RunAdmit(r) \/ RunLaunch(r) \/ RunAllDone(r)
  \/ RunSeesCancel(r) \/ RunCancelWaited(r) \/ RunCancelTimeout(r)
  \/ RunDeadline(r) \/ RunFallback(r) \/ RunFallbackFails(r) \/ RunFold(r)

(* What the agent of kind k may do while it runs. *)
AgentStep(r, k) ==
  \/ \E outcome \in {"ok", "err", "skip"} : AgentReturn(r, k, outcome)
  \/ /\ k = "bugbot"
     /\ (\E success \in BOOLEAN : BugbotReview(r, success)) \/ BugbotRefused(r)
  \/ /\ k = "approval"
     /\ \/ ApprovalStops(r) \/ ApprovalFails(r) \/ ApprovalWeighs(r)
        \/ ApprovalRefused(r) \/ ApprovalSends(r)
        \/ \E accepted \in BOOLEAN : ApprovalPosted(r, accepted)

ChildStep(r, k) ==
  ChildSlot(r, k) \/ ChildStart(r, k) \/ AgentStep(r, k) \/ ChildFinish(r, k)

User ==
  \/ \E r \in Runs : (\E in \in Inputs : Enqueue(r, in)) \/ RetryRun(r) \/ CancelRun(r)
  \/ \E r \in Runs, k \in Kinds : CancelChild(r, k) \/ RetryChild(r, k)
  \/ Merge
  \/ MergedWebhook
  \/ Resume
  \/ Restart

Next ==
  \/ User
  \/ \E r \in Runs : RunStep(r)
  \/ \E r \in Runs, k \in Kinds : ChildStep(r, k)

Spec == Init /\ [][Next]_vars

(* Goroutines keep running and agents return: every external call they     *)
(* make has a timeout.  No fairness of the semaphores is needed.           *)
Fairness ==
  /\ \A r \in Runs : WF_vars(RunStep(r))
  /\ \A r \in Runs, k \in Kinds : WF_vars(ChildStep(r, k))

FairSpec == Spec /\ Fairness

-----------------------------------------------------------------------------
(* Type invariant. *)

(* Every row and every processor is in one of the states the code names,   *)
(* and the budgets of external events never go below zero.                 *)
TypeOK ==
  /\ run \in [Runs -> JobStatus]
  /\ rpc \in [Runs -> RunPlaces]
  /\ child \in [Runs -> [Kinds -> JobStatus]]
  /\ cpc \in [Runs -> [Kinds -> ChildPlaces]]
  /\ input \in [Runs -> [InputFields -> BOOLEAN]]
  /\ force \in [Runs -> BOOLEAN]
  /\ startedAt \in [Runs -> Nat]
  /\ drain \in [Runs -> BOOLEAN]
  /\ pending \in [Runs -> BOOLEAN]
  /\ decided \in [Runs -> BOOLEAN]
  /\ reviewed \in [Runs -> BOOLEAN]
  /\ noted \in [Runs -> BOOLEAN]
  /\ indexed \subseteq {ShaOf[r] : r \in Runs}
  /\ posted \in [Runs -> SUBSET Posts]
  /\ merged \in BOOLEAN
  /\ clock \in Nat
  /\ budget \in [Events -> Nat]

-----------------------------------------------------------------------------
(* Safety. *)

(* Nobody has cancelled or retried a single child: such a call can take a  *)
(* dependency back under a child that was started on it.                   *)
ChildrenLeftAlone ==
  \A e \in {"cancelChild", "retryChild"} : budget[e] = Budget[e]

WaitsForDependencies ==
  \A r \in Runs, k \in Kinds :
    cpc[r][k] # "idle" => agentChildReady(child[r], k)

(* readyChildren and agentChildReady against later cancels, supersedes,    *)
(* retries of the run and crashes: as long as a child has a processor, all *)
(* its dependencies are terminal, and prepare has succeeded.               *)
DependencyBarrier == ChildrenLeftAlone => WaitsForDependencies

(* The barrier is not inductive: a cancel makes the row of a child   *)
(* terminal under its processor, which may still write "running" over it.  *)
(* What saves the barrier is that the same cascade also took every child   *)
(* that depends on it out of the queue for good.                           *)
CancelledHolderBlocks ==
  \A r \in Runs, d, k \in Kinds :
    /\ d \in DependsOn(k)
    /\ cpc[r][d] \in HoldsSlot
    /\ jobTerminal(child[r][d])
    => cpc[r][k] = "idle" /\ child[r][k] # "queued"

(* Children are planned once: ensureRunChildren only fills an empty plan.  *)
PlannedRow(status, ch, places, in) ==
  \/ ch = NoChildren /\ places = [k \in Kinds |-> "idle"]
  \/ /\ status # "absent"
     /\ \A k \in Kinds :
          ch[k] = "absent" => planRunChildren(in, FALSE)[k] = "absent"

PlannedOnce ==
  \A r \in Runs : PlannedRow(run[r], child[r], cpc[r], input[r])

BarrierKept ==
  TypeOK /\ PlannedOnce /\ WaitsForDependencies /\ CancelledHolderBlocks

WithinBudget == \A e \in Events : budget[e] <= Budget[e]

BarrierInv ==
  TypeOK /\ WithinBudget /\ (ChildrenLeftAlone => BarrierKept)

(* runApprovalAgent: a decision on GitHub comes from a run whose reviewers *)
(* are both terminal and did not both fail, and whose cloud agent is       *)
(* through, so no fix lands under a decision.                              *)
DecisionAfterReviewers ==
  ChildrenLeftAlone => \A r \in Runs :
    "decision" \in posted[r] =>
      /\ \A k \in {"bugbot", "security", "cloud"} : jobTerminal(child[r][k])
      /\ child[r]["bugbot"] # "failed" \/ child[r]["security"] # "failed"

(* The row is terminal and no processor can write it again. *)
Over(r, k) == jobTerminal(child[r][k]) /\ cpc[r][k] \notin HoldsSlot

(* From the moment the approval agent weighs the evidence, the children it *)
(* weighs do not move.                                                     *)
DecisionKept ==
  \A r \in Runs :
    cpc[r]["approval"] \in {"decide", "post"} \/ "decision" \in posted[r] =>
      /\ \A k \in {"bugbot", "security", "cloud"} : Over(r, k)
      /\ ~NoReviewerInput(r)

DecisionInv == BarrierInv /\ (ChildrenLeftAlone => DecisionKept)

(* Runs were enqueued, superseded, merged and cancelled, and nothing else: *)
(* no crash, no resume, no retry and no call on a single child, after each *)
(* of which a "running" may be written over a cancel, by the parent at its *)
(* gate and by a child at its start.                                       *)
NeverRequeued == \A e \in Events \ {"cancel", "merge"} : budget[e] = Budget[e]

(* processPRRun and finalizePRRun: a parent row that says queued or        *)
(* running has a processor that will move it on.                           *)
NoOrphanedRun ==
  NeverRequeued => \A r \in Runs : run[r] \in InFlight => rpc[r] # "idle"

(* foldRunStatus through finalizePRRun: a run that says completed has only *)
(* terminal children and no failed one.                                    *)
FoldHonest ==
  NeverRequeued => \A r \in Runs :
    /\ run[r] \in {"completed", "completed_with_errors"} => AllChildrenTerminal(r)
    /\ run[r] = "completed" => \A k \in Kinds : child[r][k] \notin {"failed", "error"}

(* publishPRReview's promise of a single notification: a run never gets    *)
(* both the approval agent's decision and the finalizer's COMMENT.         *)
SingleNotification ==
  NeverRequeued => \A r \in Runs : ~({"decision", "fallback"} \subseteq posted[r])

(* Nothing of the run can move any more. *)
Frozen(r) ==
  AllChildrenTerminal(r) /\ \A k \in Kinds : cpc[r][k] \notin HoldsSlot

(* Where the parent is when its row says what it says: before the loop no  *)
(* child has a processor, in the loop every child at work is on a row that *)
(* says so, and after it the run was cancelled or is frozen.               *)
PlaceAgrees(r) ==
  /\ rpc[r] \in {"spawned", "gate"} => \A k \in Kinds : cpc[r][k] = "idle"
  /\ rpc[r] = "loop" =>
       run[r] = "cancelled" \/ (run[r] = "running" /\ \A k \in Kinds :
                                  cpc[r][k] \in HoldsSlot => ~jobTerminal(child[r][k]))
  /\ rpc[r] = "cwait" => run[r] = "cancelled"
  /\ rpc[r] \in {"final", "fold"} =>
       run[r] = "cancelled" \/ (run[r] = "running" /\ Frozen(r))
  /\ run[r] = "queued" => rpc[r] \in {"spawned", "gate"}
  /\ run[r] = "running" => rpc[r] \in {"loop", "final", "fold"}

(* What a run leaves behind: its folded status and its notifications.      *)
EndAgrees(r) ==
  /\ run[r] \in {"completed", "completed_with_errors"} => Frozen(r) /\ rpc[r] = "idle"
  /\ run[r] = "completed" => \A k \in Kinds : child[r][k] \notin {"failed", "error"}
  /\ "fallback" \in posted[r] => Frozen(r) /\ "decision" \notin posted[r]
  /\ "decision" \in posted[r] => decided[r]

ProcessorHasRow ==
  \A r \in Runs, k \in Kinds : cpc[r][k] # "idle" => child[r][k] # "absent"

LifecycleKept ==
  ProcessorHasRow /\ \A r \in Runs : PlaceAgrees(r) /\ EndAgrees(r)

LifecycleInv == BarrierInv /\ (NeverRequeued => LifecycleKept)

-----------------------------------------------------------------------------
(* Liveness. *)

(* processPRRun: every run that is enqueued ends in a terminal status. *)
RunEnds ==
  \A r \in Runs :
    run[r] \in InFlight ~> (jobTerminal(run[r]) \/ run[r] = "completed_with_errors")

(* processPRRun, processAgentChild and the kind semaphores: once no more   *)
(* external events come, every goroutine returns and gives its slot back;  *)
(* nobody waits on anybody for ever.                                       *)
Quiesces ==
  <>[](\A r \in Runs : rpc[r] = "idle" /\ \A k \in Kinds : cpc[r][k] = "idle")
=============================================================================
