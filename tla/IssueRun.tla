------------------------------ MODULE IssueRun ------------------------------
(***************************************************************************)
(* Issue runs: a GitHub issue with the AI label becomes a parent job whose *)
(* children prepare a checkout, investigate, publish a plan on the issue   *)
(* and, by policy or once a person approves, implement it as a pull        *)
(* request.  They share the parent loop, the child processor and the boot  *)
(* sequence with pull-request runs (RunGraph) but not the gates, the       *)
(* cascade of a cancel, or the finalizer.                                  *)
(*                                                                         *)
(* One issue is modelled.  A write of a row and its persistSCMJob are one  *)
(* step; deliveries, the parent's and the children's processors and the    *)
(* API calls interleave between those writes.                              *)
(***************************************************************************)
EXTENDS Integers, FiniteSets

CONSTANTS
  Runs,       \* parent rows, one for each delivery: 1..n
  NumCoders,  \* implement rows a run may get
  Policies,   \* the preferences an enqueue may read
  Failing,    \* the children whose agent may return an error
  Budget      \* how often each external event may happen

(* An approval for coding; a cancel, a retry or a resume by a user; a      *)
(* reboot.                                                                 *)
Events == {"approve", "user", "boot"}

(* The rows of a run, in the order of child_ids. *)
Prepare == 1
Investigate == 2
Publish == 3
Coders == 4..(3 + NumCoders)
Children == 1..(3 + NumCoders)

ASSUME IssueAssumption ==
  /\ Runs \subseteq Nat \ {0}
  /\ NumCoders \in Nat \ {0}
  /\ Policies \subseteq [auto : BOOLEAN, human : BOOLEAN]
  /\ Failing \subseteq Children
  /\ Budget \in [Events -> Nat]

(* agentDependsOn: a chain. *)
DependsOn(c) == CASE c = Prepare -> {}
                  [] c \in {Investigate, Publish} -> {c - 1}
                  [] c \in Coders -> {Publish}

Pending == {"queued", "running"}
Terminal == {"completed", "failed", "error", "cancelled", "skipped"}

VARIABLES
  asked,   \* deliveries: "no", "admitted" between check and enqueue, "done"
  index,   \* issueRunIndex: the run of the issue, or 0
  run,     \* parent row: its status
  place,   \* parent row: where its processor is
  child,   \* child rows: status
  at,      \* child rows: where their processors are
  policy,  \* parent row: the preferences it was planned with
  manual,  \* implement rows that an approval made
  plan,    \* the plan comment: "none", "tried", "posted", or "waived" by a
           \* user who cancelled it
  prs,     \* history: pull requests opened on behalf of each implement row
  heard,   \* history: approved while the parent could still pick it up, and
           \* not cancelled or given up with its run since
  budget   \* external events still to come

issueVars == <<asked, index, run, place, child, at, policy, manual, plan, prs, heard, budget>>
intake == <<asked, index>>
parents == <<run, place, policy>>
outside == <<plan, prs>>
approvals == <<manual, heard>>

IssueInit ==
  /\ asked = [r \in Runs |-> "no"]
  /\ index = 0
  /\ run = [r \in Runs |-> "absent"]
  /\ place = [r \in Runs |-> "idle"]
  /\ child = [r \in Runs |-> [c \in Children |-> "absent"]]
  /\ at = [r \in Runs |-> [c \in Children |-> "idle"]]
  /\ policy = [r \in Runs |-> [auto |-> FALSE, human |-> TRUE]]
  /\ manual = {}
  /\ plan = [r \in Runs |-> "none"]
  /\ prs = [r \in Runs |-> [c \in Children |-> 0]]
  /\ heard = {}
  /\ budget = Budget

Spend(e) == budget[e] > 0 /\ budget' = [budget EXCEPT ![e] = @ - 1]

Forgotten(R) == heard' = {x \in heard : x[1] \notin R}

(* go processSCMJob on a parent: the second processor of a job returns.    *)
Wake(r) == place' = [place EXCEPT ![r] = IF @ = "idle" THEN "spawned" ELSE @]

-----------------------------------------------------------------------------
(* The webhook. *)

(* currentIssueRun: the remembered run, if its row is in flight.           *)
currentInFlight == index # 0 /\ run[index] \in Pending

(* handleIssuesWebhook ignores a delivery: not an issue, not a labelling,  *)
(* opening or editing, not watched, switched off, or no label of the gate. *)
Ignore(r) ==
  /\ asked[r] = "no"
  /\ asked' = [asked EXCEPT ![r] = "done"]
  /\ UNCHANGED <<index, parents, child, at, approvals, outside, budget>>

(* maybeEnqueueIssueRun refuses a delivery, or lets it pass.               *)
Arrive(r) ==
  /\ asked[r] = "no"
  /\ asked' = [asked EXCEPT ![r] = IF currentInFlight THEN "done" ELSE "admitted"]
  /\ UNCHANGED <<index, parents, child, at, approvals, outside, budget>>

(* Mutant: the human gate is left to the implement agent. *)
planWithoutGate(p) ==
  [c \in Children |-> IF c <= Publish \/ (c = 4 /\ p.auto) THEN "queued" ELSE "absent"]

(* planIssueRunChildren *)
planIssueRunChildren(p) ==
  [c \in Children |->
     IF c <= Publish \/ (c = 4 /\ p.auto /\ ~p.human) THEN "queued" ELSE "absent"]

(* enqueueIssueRun, for a delivery that passed.                            *)
EnqueueRun(r, p) ==
  /\ asked[r] = "admitted"
  /\ asked' = [asked EXCEPT ![r] = "done"]
  /\ policy' = [policy EXCEPT ![r] = p]
  /\ child' = [child EXCEPT ![r] = planIssueRunChildren(p)]
  /\ run' = [run EXCEPT ![r] = "queued"]
  /\ index' = r
  /\ Wake(r)
  /\ UNCHANGED <<at, approvals, outside, budget>>

-----------------------------------------------------------------------------
(* The parent: processPRRun. *)

(* A job that has ended is left alone; there is no skip gate for issues.   *)
RunBegin(r) ==
  /\ place[r] = "spawned"
  /\ place' = [place EXCEPT ![r] = IF run[r] \in Pending THEN "begin" ELSE "idle"]
  /\ UNCHANGED <<intake, run, policy, child, at, approvals, outside, budget>>

(* "running" is written over whatever the row says by now.                 *)
RunStart(r) ==
  /\ place[r] = "begin"
  /\ run' = [run EXCEPT ![r] = "running"]
  /\ place' = [place EXCEPT ![r] = "loop"]
  /\ UNCHANGED <<intake, policy, child, at, approvals, outside, budget>>

(* agentChildReady, and the same conditions in readyChildren.              *)
agentChildReady(r, c) ==
  \A d \in DependsOn(c) :
    child[r][d] \in IF d = Prepare THEN {"completed", "skipped"} ELSE Terminal

(* Processors for the queued ones of the rows C that are ready.            *)
Dispatched(r, C) ==
  [c \in Children |->
     IF c \in C /\ child[r][c] = "queued" /\ at[r][c] = "idle" /\ agentChildReady(r, c)
     THEN "slot" ELSE at[r][c]]

RunLaunch(r) ==
  /\ place[r] = "loop"
  /\ run[r] # "cancelled"
  /\ Dispatched(r, Children) # at[r]
  /\ at' = [at EXCEPT ![r] = Dispatched(r, Children)]
  /\ UNCHANGED <<intake, parents, child, approvals, outside, budget>>

AllDone(r) == \A c \in Children : child[r][c] \in Terminal \cup {"absent"}

RunAllDone(r) ==
  /\ place[r] = "loop"
  /\ run[r] # "cancelled"
  /\ AllDone(r)
  /\ place' = [place EXCEPT ![r] = "fold"]
  /\ UNCHANGED <<intake, run, policy, child, at, approvals, outside, budget>>

RunSeesCancel(r) ==
  /\ place[r] = "loop"
  /\ run[r] = "cancelled"
  /\ place' = [place EXCEPT ![r] = "wait"]
  /\ UNCHANGED <<intake, run, policy, child, at, approvals, outside, budget>>

(* waitRunChildrenTerminal: all children have ended, or thirty seconds are *)
(* over.                                                                   *)
RunWaited(r) ==
  /\ place[r] = "wait"
  /\ place' = [place EXCEPT ![r] = "fold"]
  /\ UNCHANGED <<intake, run, policy, child, at, approvals, outside, budget>>

(* The two hours are over.  Agents take less: nothing of the run moves.    *)
RunDeadline(r) ==
  /\ place[r] = "loop"
  /\ run[r] # "cancelled" /\ ~AllDone(r)
  /\ Dispatched(r, Children) = at[r]
  /\ \A c \in Children : at[r][c] = "idle"
  /\ run' = [run EXCEPT ![r] = IF @ \in Terminal THEN @ ELSE "error"]
  /\ place' = [place EXCEPT ![r] = "idle"]
  /\ Forgotten({r})
  /\ UNCHANGED <<intake, policy, child, at, manual, outside, budget>>

Has(r, S) == \E c \in Children : child[r][c] \in S

foldRunStatus(r) ==
  IF Has(r, {"running"}) THEN "running"
  ELSE IF Has(r, {"queued"}) THEN "queued"
  ELSE IF Has(r, {"failed", "error"}) THEN "completed_with_errors"
  ELSE IF run[r] = "cancelled" THEN "cancelled" ELSE "completed"

(* finalizeGraphRun: the fold is written over a cancel as well; evidence   *)
(* is written before the processor is gone.                                *)
RunFold(r) ==
  /\ place[r] = "fold"
  /\ run' = [run EXCEPT ![r] = foldRunStatus(r)]
  /\ place' = [place EXCEPT ![r] = "end"]
  /\ UNCHANGED <<intake, policy, child, at, approvals, outside, budget>>

RunEnd(r) ==
  /\ place[r] = "end"
  /\ place' = [place EXCEPT ![r] = "idle"]
  /\ UNCHANGED <<intake, run, policy, child, at, approvals, outside, budget>>

-----------------------------------------------------------------------------
(* A child: processAgentChild and the four agents. *)

(* A slot is free, and the row has not ended.                              *)
ChildSlot(r, c) ==
  /\ at[r][c] = "slot"
  /\ at' = [at EXCEPT ![r][c] = IF child[r][c] \in Terminal THEN "idle" ELSE "start"]
  /\ UNCHANGED <<intake, parents, child, approvals, outside, budget>>

(* "running" is written over whatever the row says by now.                 *)
ChildStart(r, c) ==
  /\ at[r][c] = "start"
  /\ child' = [child EXCEPT ![r][c] = "running"]
  /\ at' = [at EXCEPT ![r][c] = "body"]
  /\ UNCHANGED <<intake, parents, approvals, outside, budget>>

(* The agent is back; the row of a cancelled child stays as it is.         *)
Returned(r, c, outcome) ==
  /\ at[r][c] = "body"
  /\ outcome = "err" => c \in Failing
  /\ at' = [at EXCEPT ![r][c] = IF child[r][c] = "cancelled" THEN "idle" ELSE outcome]
  /\ UNCHANGED <<intake, parents, approvals, budget>>

(* runIssuePrepareAgent: a checkout, or none.                              *)
PrepareReturns(r) ==
  /\ \E outcome \in {"ok", "err"} : Returned(r, Prepare, outcome)
  /\ UNCHANGED <<child, outside>>

(* runIssueInvestigateAgent: without the model it plans by rule of thumb.  *)
InvestigateReturns(r) ==
  /\ Returned(r, Investigate, "ok")
  /\ UNCHANGED <<child, outside>>

(* runIssuePublishAgent: the plan is a comment on the issue, or GitHub     *)
(* refused it.                                                             *)
PublishReturns(r) ==
  /\ \/ Returned(r, Publish, "ok") /\ plan' = [plan EXCEPT ![r] = "posted"]
     \/ /\ Returned(r, Publish, "err")
        /\ plan' = [plan EXCEPT ![r] = IF @ = "none" THEN "tried" ELSE @]
  /\ UNCHANGED <<child, prs>>

(* runIssueImplementAgent: does it wait for the dashboard?                 *)
Waits(r, c) == policy[r].human /\ <<r, c>> \notin manual /\ ~policy[r].auto

(* githubCreatePullRequest: on a branch of its own each time.              *)
OpenPullRequest(r, c) == prs' = [prs EXCEPT ![r][c] = @ + 1]

(* The pull request is opened, or the checkout, the permission to write or *)
(* GitHub are lacking.  Nothing asks whether the job was cancelled.        *)
CoderReturns(r, c, opens) ==
  /\ Returned(r, c, IF opens \/ Waits(r, c) THEN "ok" ELSE "err")
  /\ opens => ~Waits(r, c)
  /\ child' = IF Waits(r, c) THEN [child EXCEPT ![r][c] = "skipped"] ELSE child
  /\ IF opens THEN OpenPullRequest(r, c) ELSE UNCHANGED prs
  /\ UNCHANGED plan

(* The outcome is written; an agent that skipped its row stays skipped.    *)
ChildFinish(r, c) ==
  /\ at[r][c] \in {"ok", "err"}
  /\ child' = [child EXCEPT ![r][c] = IF at[r][c] = "err" THEN "failed"
                                      ELSE IF @ = "skipped" THEN @ ELSE "completed"]
  /\ at' = [at EXCEPT ![r][c] = "idle"]
  /\ UNCHANGED <<intake, parents, approvals, outside, budget>>

-----------------------------------------------------------------------------
(* What people do. *)

(* Will the parent's processor look at its children again?                 *)
Listening(r) ==
  IF place[r] = "idle" THEN run[r] \in Pending \cup {"completed", "completed_with_errors"}
  ELSE place[r] \in {"spawned", "begin", "loop"} /\ run[r] \in Pending

(* enqueueIssueImplement makes row c; an ended run is running again.       *)
NewCoder(r, c) ==
  /\ child' = [child EXCEPT ![r][c] = "queued"]
  /\ manual' = manual \cup {<<r, c>>}
  /\ heard' = IF Listening(r) THEN heard \cup {<<r, c>>} ELSE heard
  /\ run' = [run EXCEPT ![r] = IF @ \in {"completed", "completed_with_errors"}
                              THEN "running" ELSE @]

FreeCoders(r) == {c \in Coders : child[r][c] = "absent"}
FirstOf(C) == CHOOSE c \in C : \A d \in C : c <= d

(* Mutant: the row is made, and nobody tells the parent.                   *)
ApproveQuietly(r) ==
  /\ run[r] # "absent" /\ FreeCoders(r) # {}
  /\ Spend("approve")
  /\ NewCoder(r, FirstOf(FreeCoders(r)))
  /\ UNCHANGED <<intake, place, policy, at, outside>>

(* approve-coding: the first implement row if it is still in flight, or a  *)
(* new one; an ended run is running again; the parent is dispatched.       *)
Approve(r) ==
  /\ run[r] # "absent"
  /\ Spend("approve")
  /\ IF child[r][4] \in Pending THEN UNCHANGED <<run, child, approvals>>
     ELSE FreeCoders(r) # {} /\ NewCoder(r, FirstOf(FreeCoders(r)))
  /\ Wake(r)
  /\ UNCHANGED <<intake, policy, at, outside>>

(* cancelSCMJobWithReason: an issue run does not cascade.                  *)
CancelRun(r) ==
  /\ run[r] \in Pending
  /\ Spend("user")
  /\ run' = [run EXCEPT ![r] = "cancelled"]
  /\ Forgotten({r})
  /\ UNCHANGED <<intake, place, policy, child, at, manual, outside>>

CancelChild(r, c) ==
  /\ child[r][c] \in Pending
  /\ Spend("user")
  /\ child' = [child EXCEPT ![r][c] = "cancelled"]
  /\ plan' = [plan EXCEPT ![r] = IF @ = "none" /\ c = Publish THEN "waived" ELSE @]
  /\ UNCHANGED <<intake, parents, at, approvals, prs>>

(* Retry: the row is queued whatever it was, and dispatched.               *)
Retry(r) ==
  /\ run[r] # "absent"
  /\ Spend("user")
  /\ run' = [run EXCEPT ![r] = "queued"]
  /\ Wake(r)
  /\ UNCHANGED <<intake, policy, child, at, approvals, outside>>

RetryChild(r, c) ==
  /\ child[r][c] # "absent"
  /\ Spend("user")
  /\ child' = [child EXCEPT ![r][c] = "queued"]
  /\ at' = [at EXCEPT ![r][c] =
              IF @ = "idle" /\ agentChildReady(r, c) THEN "slot" ELSE @]
  /\ UNCHANGED <<intake, parents, approvals, outside>>

(* dispatchQueuedNonStackSCMJobs: parents and ready children alike.        *)
DispatchQueued(status, kids, places, procs) ==
  /\ place' = [r \in Runs |->
       IF status[r] = "queued" /\ places[r] = "idle" THEN "spawned" ELSE places[r]]
  /\ at' = [r \in Runs |-> [c \in Children |->
       IF /\ kids[r][c] = "queued" /\ procs[r][c] = "idle"
          /\ \A d \in DependsOn(c) :
               kids[r][d] \in IF d = Prepare THEN {"completed", "skipped"} ELSE Terminal
       THEN "slot" ELSE procs[r][c]]]

(* POST /api/scm/jobs/resume.                                              *)
Resume ==
  /\ Spend("user")
  /\ DispatchQueued(run, child, place, at)
  /\ UNCHANGED <<intake, run, policy, child, approvals, outside>>

(* recoverStuckRunningSCMJobs *)
Recovered(s) == IF s = "running" THEN "queued" ELSE s

(* pruneSupersededInFlightPRRuns looks at issue runs as well: one that is  *)
(* in flight survives, the others are cancelled.                           *)
Survivors(status) ==
  LET live == {r \in Runs : status[r] = "queued"} IN IF live = {} THEN {0} ELSE live

(* The process dies and comes back; handlers, processors and the index of  *)
(* issue runs are gone.                                                    *)
Restart ==
  /\ Spend("boot")
  /\ asked' = [r \in Runs |-> IF asked[r] = "admitted" THEN "done" ELSE asked[r]]
  /\ index' = 0
  /\ child' = [r \in Runs |-> [c \in Children |-> Recovered(child[r][c])]]
  /\ \E s \in Survivors([r \in Runs |-> Recovered(run[r])]) :
       run' = [r \in Runs |-> IF Recovered(run[r]) = "queued" /\ r # s
                              THEN "cancelled" ELSE Recovered(run[r])]
  /\ DispatchQueued(run', child', [r \in Runs |-> "idle"],
                    [r \in Runs |-> [c \in Children |-> "idle"]])
  /\ Forgotten({r \in Runs : run'[r] = "cancelled"})
  /\ UNCHANGED <<policy, manual, outside>>

-----------------------------------------------------------------------------
RunStep(r) ==
  \/ RunBegin(r) \/ RunStart(r) \/ RunLaunch(r) \/ RunAllDone(r)
  \/ RunSeesCancel(r) \/ RunWaited(r) \/ RunDeadline(r) \/ RunFold(r) \/ RunEnd(r)

AgentReturns(r) ==
  \/ PrepareReturns(r) \/ InvestigateReturns(r) \/ PublishReturns(r)
  \/ \E c \in Coders, opens \in BOOLEAN : CoderReturns(r, c, opens)

ChildStep(r, c) == ChildSlot(r, c) \/ ChildStart(r, c) \/ ChildFinish(r, c)

User(r) ==
  \/ Approve(r) \/ CancelRun(r) \/ Retry(r)
  \/ \E c \in Children : CancelChild(r, c) \/ RetryChild(r, c)

IssueNext ==
  \/ \E r \in Runs :
       \/ Ignore(r) \/ Arrive(r) \/ \E p \in Policies : EnqueueRun(r, p)
       \/ RunStep(r) \/ AgentReturns(r) \/ \E c \in Children : ChildStep(r, c)
       \/ User(r)
  \/ Resume \/ Restart

(* Go runs every goroutine; agents and GitHub answer or time out.          *)
IssueFairness ==
  \A r \in Runs :
    /\ WF_issueVars(\E p \in Policies : EnqueueRun(r, p))
    /\ WF_issueVars(RunStep(r))
    /\ \A c \in Children : WF_issueVars(ChildStep(r, c))
    /\ WF_issueVars(PrepareReturns(r)) /\ WF_issueVars(InvestigateReturns(r))
    /\ WF_issueVars(PublishReturns(r))
    /\ \A c \in Coders : WF_issueVars(\E opens \in BOOLEAN : CoderReturns(r, c, opens))

IssueSpec == IssueInit /\ [][IssueNext]_issueVars
FairIssueSpec == IssueSpec /\ IssueFairness

-----------------------------------------------------------------------------
(* Properties. *)

(* A pull request is only opened where somebody approved coding, or where  *)
(* the preferences the run was planned with turn implementing on and do    *)
(* not ask for a person, whatever is retried or restarted                  *)
(* (planIssueRunChildren, enqueueIssueImplement, runIssueImplementAgent).  *)
CodingIsSanctioned ==
  \A r \in Runs, c \in Children :
    prs[r][c] > 0 => <<r, c>> \in manual \/ (policy[r].auto /\ ~policy[r].human)

(* A coding approval that the parent can still hear is carried out: the    *)
(* implement row ends, unless the run itself is cancelled or runs into its *)
(* deadline.                                                               *)
ApprovedIsCoded ==
  \A r \in Runs, c \in Coders :
    <<r, c>> \in heard ~> (child[r][c] \in Terminal \/ <<r, c>> \notin heard)

=============================================================================
