------------------------------- MODULE Autofix -------------------------------
(***************************************************************************)
(* Automatic fixes for one repository.  A cloud child of a run             *)
(* (agent_cloud.go) asks for permission, lets an agent patch a checkout,   *)
(* gates the diff, perhaps runs the tests, and lands the patch from a      *)
(* second, clean checkout, up to MaxIter times.  A fix requested on the    *)
(* dashboard (scm_auto_fix.go) goes the same way once, behind a semaphore. *)
(*                                                                         *)
(* A diff is the set of the paths it changes.  Denied stands for whatever  *)
(* gateCloudDiff refuses on its own account: protected paths, executable   *)
(* bits, submodules, too many lines.                                       *)
(***************************************************************************)
EXTENDS Naturals, FiniteSets

CONSTANTS
  Cloud,      \* cloud children, each of a run of its own
  Fixes,      \* fixes requested on the dashboard
  Fleets,     \* the sets of jobs that may be there together
  Run,        \* the run a cloud child or a fix belongs to
  Mode,       \* prefs.AutofixMode of each
  Requested,  \* finding keys of the request; {} lets a cloud child choose
  AIKeys,     \* keys of the findings of the review
  OSAKeys,    \* keys of the findings of the security scan
  Severity,   \* severity of a finding: low 1, medium, high, critical 4, blocker 5
  Threshold,  \* prefs.AutofixSeverityThreshold
  File,       \* file of a finding, or NoFile
  NoFile,
  Paths,      \* paths a diff may touch
  Denied,     \* paths no diff may touch
  Note,       \* .opa-review-autofix.md
  MaxFiles,   \* cloudDiffCaps.MaxFiles
  MaxIter,    \* cloudMaxIterations()
  RateMax,    \* autofixRateLimitMax()
  FixSlots,   \* autoFixConcurrency()
  RunTests,   \* prefs.CloudRunTests, in a docker sandbox
  NoAI,       \* whether agent credentials may be missing
  Failing,    \* the external steps that may fail
  Budget,     \* how often each external event may happen
  Mixes       \* the sets of external events that may happen together

Jobs == Cloud \cup Fixes

(* A newer commit or a merge of the pull request; an hour has passed; the  *)
(* process dies and comes back.                                            *)
Events == {"supersede", "hour", "boot"}

(* External steps; "osa": the findings of the scan cannot be read. *)
Steps == {"osa", "patch", "post", "verify", "apply", "push", "pr"}

Keys == AIKeys \cup OSAKeys \cup UNION {Requested[j] : j \in Jobs}

ASSUME ConstantsAssumption ==
  /\ IsFiniteSet(Cloud) /\ IsFiniteSet(Fixes) /\ Cloud \cap Fixes = {}
  /\ Mode \in [Jobs -> {"off", "suggest", "branch"}]
  /\ IsFiniteSet(Keys)
  /\ Severity \in [Keys -> 1..5] /\ Threshold \in 1..5
  /\ File \in [Keys -> Paths \cup {NoFile}] /\ NoFile \notin Paths
  /\ Denied \subseteq Paths /\ Note \in Paths \ Denied
  /\ IsFiniteSet(Paths)
  /\ MaxFiles \in Nat \ {0} /\ MaxIter \in 1..3
  /\ RateMax \in 1..30 /\ FixSlots \in 1..4
  /\ RunTests \in BOOLEAN /\ NoAI \in BOOLEAN
  /\ Failing \subseteq Steps
  /\ Fleets \subseteq SUBSET Jobs
  /\ Budget \in [Events -> Nat]
  /\ Mixes \subseteq SUBSET Events

Places == {"start", "loop", "record", "slot", "patch", "gate", "suggest", "verify",
           "regate", "land", "pushcheck", "push", "pr", "close", "done", "dead"}

Statuses == {"none", "queued", "running", "completed", "suggest", "skipped", "refused",
             "gate_denied", "verify_failed", "failed", "cancelled"}

VARIABLES
  pc,       \* place of the goroutine of a job
  iter,     \* iteration of runCloudStages; a fix has one
  status,   \* status of the cloud result or of the fix
  keys,     \* the findings a job works on
  tree,     \* paths changed in the patch checkout
  patch,    \* the patch captured from it
  noai,     \* the agent was skipped in this attempt
  drained,  \* cloud children that are cancelled or marked supersede_drain
  window,   \* autofixRateWindow: requests of the last hour, <<job, iteration>>
  remote,   \* branches on GitHub: run and number, who pushed it, what it changes
  prs,      \* pull requests opened: job and branch
  closed,   \* jobs whose findings were closed on the pull request
  budget    \* external events still to come

vars == <<pc, iter, status, keys, tree, patch, noai, drained, window, remote, prs, closed, budget>>
attempt == <<keys, tree, patch, noai>>
github == <<remote, prs, closed>>
world == <<drained, window, budget>>

Init ==
  /\ \E fleet \in Fleets :
       pc = [j \in Jobs |-> IF j \in fleet THEN "start" ELSE "done"]
  /\ iter = [j \in Jobs |-> 1]
  /\ status = [j \in Jobs |-> IF j \in Cloud THEN "running" ELSE "none"]
  /\ keys = [j \in Jobs |-> {}]
  /\ tree = [j \in Jobs |-> {}]
  /\ patch = [j \in Jobs |-> {}]
  /\ noai = [j \in Jobs |-> FALSE]
  /\ drained = {}
  /\ window = {}
  /\ remote = {}
  /\ prs = {}
  /\ closed = {}
  /\ budget = Budget

Happened == {e \in Events : budget[e] # Budget[e]}

Spend(e) ==
  /\ budget[e] > 0
  /\ \E mix \in Mixes : Happened \cup {e} \subseteq mix
  /\ budget' = [budget EXCEPT ![e] = @ - 1]

-----------------------------------------------------------------------------
(* severityAtLeast or severityEqualsBlocker, on the severity in the        *)
(* ledger.                                                                 *)
SeverityCounts(k) == Severity[k] >= Threshold \/ Severity[k] >= 4

(* buildLedger: the findings of the review, and those of the scan when the *)
(* peer answers.                                                           *)
Ledgers == {AIKeys \cup OSAKeys} \cup (IF "osa" \in Failing THEN {AIKeys} ELSE {})

cloudFindingKeys(j, ledger) ==
  IF Requested[j] # {} THEN Requested[j] ELSE {k \in ledger : SeverityCounts(k)}

(* filterFindingsByKeys on the review, else on the ledger. *)
fixFindings(j, ledger) ==
  IF Requested[j] \cap AIKeys # {} THEN Requested[j] \cap AIKeys
  ELSE Requested[j] \cap ledger

(* authorizeAutofixRequestAttempt but for the rate limit. *)
authorized(ks, ledger) ==
  /\ ks # {}
  /\ ks \subseteq ledger
  /\ \A k \in ks : SeverityCounts(k)

findingPaths(ks) == {File[k] : k \in ks} \ {NoFile}

gateCloudDiff(changes, allow) ==
  /\ changes # {}
  /\ changes \cap Denied = {}
  /\ allow # {} => changes \subseteq allow
  /\ Cardinality(changes) <= MaxFiles

(* The gate of a patch tree: the allowlist counts unless the agent was     *)
(* skipped, and then it may not be empty.                                  *)
PatchGate(j) ==
  LET allow == findingPaths(keys[j])
  IN  IF noai[j] THEN gateCloudDiff(tree[j], {})
      ELSE allow # {} /\ gateCloudDiff(tree[j], allow)

cloudJobMustAbort(j) == j \in drained

(* opa-fix/<run>-N: the attempt of a job is never raised. *)
opaFixBranchName(j) ==
  [run |-> Run[j], n |-> IF iter[j] = 1 THEN 1 ELSE 10 + iter[j]]

OnRemote(b) == \E r \in remote : r.branch = b

GoTo(j, place) == pc' = [pc EXCEPT ![j] = place]
Ends(j, st) == GoTo(j, "done") /\ status' = [status EXCEPT ![j] = st]

(* Mutant: the iterations are not counted. *)
CloudAttemptFailsForever(j, st) ==
  IF st # "gate_denied"
  THEN GoTo(j, "loop") /\ UNCHANGED <<iter, status>>
  ELSE Ends(j, st) /\ UNCHANGED iter

(* runCloudStages after an attempt that failed with the status st. *)
CloudAttemptFails(j, st) ==
  IF st # "gate_denied" /\ iter[j] < MaxIter
  THEN GoTo(j, "loop") /\ iter' = [iter EXCEPT ![j] = @ + 1] /\ UNCHANGED status
  ELSE Ends(j, st) /\ UNCHANGED iter

FixFails(j) == Ends(j, "failed") /\ UNCHANGED iter

-----------------------------------------------------------------------------
(* Asking for permission.                                                  *)

(* runCloudAgent: nothing to do when autofix is off or no finding counts. *)
CloudStart(j) ==
  /\ pc[j] = "start"
  /\ \E ledger \in Ledgers :
       LET ks == cloudFindingKeys(j, ledger)
       IN  IF Mode[j] = "off" \/ ks = {}
           THEN Ends(j, "skipped") /\ UNCHANGED keys
           ELSE GoTo(j, "loop") /\ keys' = [keys EXCEPT ![j] = ks] /\ UNCHANGED status
  /\ UNCHANGED <<iter, tree, patch, noai, github, world>>

(* recordRate: only the first attempt counts against the hour. *)
recordRate(j) == iter[j] = 1

RateAllows(j) == recordRate(j) => Cardinality(window) < RateMax

(* The head of the loop of runCloudStages.  The rate limit is looked up    *)
(* here and charged in AuthRecord.                                         *)
CloudLoop(j) ==
  /\ pc[j] = "loop"
  /\ IF cloudJobMustAbort(j) THEN Ends(j, "cancelled")
     ELSE \E ledger \in Ledgers :
            IF RateAllows(j) /\ authorized(keys[j], ledger)
            THEN GoTo(j, "record") /\ UNCHANGED status
            ELSE Ends(j, "refused")
  /\ UNCHANGED <<iter, attempt, github, world>>

(* enqueueOPAAutoFix up to the lookup of the rate limit; a refusal leaves  *)
(* no trace.                                                               *)
FixRequest(j) ==
  /\ pc[j] = "start"
  /\ Mode[j] # "off"
  /\ RateAllows(j)
  /\ \E ledger \in Ledgers :
       /\ authorized(Requested[j], ledger)
       /\ keys' = [keys EXCEPT ![j] = fixFindings(j, ledger)]
  /\ GoTo(j, "record")
  /\ UNCHANGED <<iter, status, tree, patch, noai, github, world>>

Charged(j) == IF recordRate(j) THEN window \cup {<<j, iter[j]>>} ELSE window

(* The request is charged: recordAutofixRate. *)
CloudRecord(j) ==
  /\ pc[j] = "record"
  /\ window' = Charged(j)
  /\ GoTo(j, "patch")
  /\ UNCHANGED <<iter, status, attempt, github, drained, budget>>

(* A fix is charged, stored, and its goroutine started. *)
FixRecord(j) ==
  /\ pc[j] = "record"
  /\ window' = Charged(j)
  /\ GoTo(j, "slot")
  /\ status' = [status EXCEPT ![j] = "queued"]
  /\ UNCHANGED <<iter, attempt, github, drained, budget>>

FixesAtWork == {f \in Fixes : pc[f] \notin {"start", "record", "slot", "done", "dead"}}

(* processOPAAutoFix: "running" is written without a look at the status. *)
FixTakesSlot(j) ==
  /\ pc[j] = "slot"
  /\ Cardinality(FixesAtWork) < FixSlots
  /\ GoTo(j, "patch")
  /\ status' = [status EXCEPT ![j] = "running"]
  /\ UNCHANGED <<iter, attempt, github, world>>

-----------------------------------------------------------------------------
(* Patch, gate, verify.                                                    *)

(* The agent changes whatever it likes. *)
AgentEdits(j) ==
  /\ \E d \in SUBSET Paths : tree' = [tree EXCEPT ![j] = d]
  /\ noai' = [noai EXCEPT ![j] = FALSE]

(* Without credentials a note with the findings is written instead. *)
AgentSkipped(j) ==
  /\ NoAI
  /\ tree' = [tree EXCEPT ![j] = {Note}]
  /\ noai' = [noai EXCEPT ![j] = TRUE]

(* A fresh checkout and branch, the agent in a sandbox, its edits copied   *)
(* back.                                                                   *)
CloudPatch(j) ==
  /\ pc[j] = "patch"
  /\ \/ "patch" \in Failing /\ CloudAttemptFails(j, "failed") /\ UNCHANGED <<tree, noai>>
     \/ AgentEdits(j) /\ GoTo(j, "gate") /\ UNCHANGED <<status, iter>>
     \/ AgentSkipped(j) /\ GoTo(j, "gate") /\ UNCHANGED <<status, iter>>
  /\ UNCHANGED <<keys, patch, github, world>>

(* The same; a fix whose agent was skipped says so and goes on. *)
FixPatch(j) ==
  /\ pc[j] = "patch"
  /\ \/ "patch" \in Failing /\ FixFails(j) /\ UNCHANGED <<tree, noai>>
     \/ AgentEdits(j) /\ GoTo(j, "gate") /\ UNCHANGED <<status, iter>>
     \/ /\ AgentSkipped(j)
        /\ status' = [status EXCEPT ![j] = "skipped"]
        /\ GoTo(j, "gate")
        /\ UNCHANGED iter
  /\ UNCHANGED <<keys, patch, github, world>>

Captured(j) == patch' = [patch EXCEPT ![j] = tree[j]]

(* The gate, and the capture of what it has seen. *)
CloudGate(j) ==
  /\ pc[j] = "gate"
  /\ IF PatchGate(j)
     THEN /\ Captured(j)
          /\ GoTo(j, IF Mode[j] = "suggest" THEN "suggest"
                     ELSE IF RunTests THEN "verify" ELSE "land")
          /\ UNCHANGED <<status, iter>>
     ELSE CloudAttemptFails(j, "gate_denied") /\ UNCHANGED patch
  /\ UNCHANGED <<keys, tree, noai, github, world>>

FixGate(j) ==
  /\ pc[j] = "gate"
  /\ IF PatchGate(j)
     THEN /\ Captured(j)
          /\ GoTo(j, IF Mode[j] = "branch" THEN "land" ELSE "suggest")
          /\ UNCHANGED <<status, iter>>
     ELSE FixFails(j) /\ UNCHANGED patch
  /\ UNCHANGED <<keys, tree, noai, github, world>>

(* Suggest mode: a cloud child posts its proposal, without a look whether  *)
(* it was superseded.                                                      *)
CloudSuggest(j) ==
  /\ pc[j] = "suggest"
  /\ \/ "post" \in Failing /\ CloudAttemptFails(j, "failed")
     \/ Ends(j, "suggest") /\ UNCHANGED iter
  /\ UNCHANGED <<attempt, github, world>>

Settled(j) == IF status[j] = "skipped" THEN "skipped" ELSE "completed"

(* A fix only notes it. *)
FixSuggest(j) ==
  /\ pc[j] = "suggest"
  /\ Ends(j, Settled(j))
  /\ UNCHANGED <<iter, attempt, github, world>>

(* The tests run in the patch tree and may rewrite files; they fail, or    *)
(* are refused without a docker sandbox.                                   *)
Verify(j) ==
  /\ pc[j] = "verify"
  /\ \/ /\ "verify" \in Failing
        /\ \E st \in {"verify_failed", "failed"} : CloudAttemptFails(j, st)
        /\ UNCHANGED tree
     \/ /\ \E d \in SUBSET Paths : tree' = [tree EXCEPT ![j] = d]
        /\ GoTo(j, "regate")
        /\ UNCHANGED <<status, iter>>
  /\ UNCHANGED <<keys, patch, noai, github, world>>

(* Mutant: the tree is captured again and not gated again. *)
RegateSkipped(j) ==
  /\ pc[j] = "regate"
  /\ Captured(j)
  /\ GoTo(j, "land")
  /\ UNCHANGED <<iter, status, keys, tree, noai, github, world>>

(* The gate and the capture once more, here always with the allowlist. *)
Regate(j) ==
  /\ pc[j] = "regate"
  /\ IF gateCloudDiff(tree[j], findingPaths(keys[j]))
     THEN Captured(j) /\ GoTo(j, "land") /\ UNCHANGED <<status, iter>>
     ELSE CloudAttemptFails(j, "gate_denied") /\ UNCHANGED patch
  /\ UNCHANGED <<keys, tree, noai, github, world>>

-----------------------------------------------------------------------------
(* Landing from a clean checkout.                                          *)

(* landValidatedPatch: look for a cancel, apply the patch to a fresh       *)
(* checkout and commit it.  A commit that finds nothing to do ends the job.*)
CloudLand(j) ==
  /\ pc[j] = "land"
  /\ IF cloudJobMustAbort(j) THEN CloudAttemptFails(j, "cancelled")
     ELSE \/ "apply" \in Failing /\ CloudAttemptFails(j, "failed")
          \/ "apply" \in Failing /\ Ends(j, "completed") /\ UNCHANGED iter
          \/ GoTo(j, "pushcheck") /\ UNCHANGED <<status, iter>>
  /\ UNCHANGED <<attempt, github, world>>

(* runOPAAutoFix lands without a look. *)
FixLand(j) ==
  /\ pc[j] = "land"
  /\ \/ "apply" \in Failing /\ FixFails(j)
     \/ "apply" \in Failing /\ Ends(j, Settled(j)) /\ UNCHANGED iter
     \/ GoTo(j, "push") /\ UNCHANGED <<status, iter>>
  /\ UNCHANGED <<attempt, github, world>>

(* Mutant: no second look before the push. *)
PushCheckSkipped(j) ==
  /\ pc[j] = "pushcheck"
  /\ GoTo(j, "push")
  /\ UNCHANGED <<iter, status, attempt, github, world>>

PushCheck(j) ==
  /\ pc[j] = "pushcheck"
  /\ IF cloudJobMustAbort(j) THEN CloudAttemptFails(j, "cancelled")
     ELSE GoTo(j, "push") /\ UNCHANGED <<status, iter>>
  /\ UNCHANGED <<attempt, github, world>>

(* gitPushBranch with --force-with-lease from a checkout that has no       *)
(* tracking branch for it: a branch that is there already is not replaced. *)
gitPushBranch(j) ==
  /\ ~OnRemote(opaFixBranchName(j))
  /\ remote' = remote \cup {[branch |-> opaFixBranchName(j), by |-> j,
                             changes |-> patch[j], note |-> noai[j]]}

Push(j) ==
  /\ pc[j] = "push"
  /\ \/ /\ "push" \in Failing \/ OnRemote(opaFixBranchName(j))
        /\ IF j \in Cloud THEN CloudAttemptFails(j, "failed") ELSE FixFails(j)
        /\ UNCHANGED remote
     \/ gitPushBranch(j) /\ GoTo(j, "pr") /\ UNCHANGED <<status, iter>>
  /\ UNCHANGED <<attempt, prs, closed, world>>

Opened(j) == prs' = prs \cup {<<j, opaFixBranchName(j)>>}

(* Mutant: the loop does not stop at a landed patch. *)
CloudPRContinues(j) ==
  /\ pc[j] = "pr"
  /\ Opened(j)
  /\ IF iter[j] < MaxIter
     THEN GoTo(j, "loop") /\ iter' = [iter EXCEPT ![j] = @ + 1]
     ELSE GoTo(j, "close") /\ UNCHANGED iter
  /\ UNCHANGED <<status, attempt, remote, closed, world>>

(* The pull request, against the head of the original one or its base. *)
CloudPR(j) ==
  /\ pc[j] = "pr"
  /\ \/ "pr" \in Failing /\ CloudAttemptFails(j, "failed") /\ UNCHANGED prs
     \/ Opened(j) /\ GoTo(j, "close") /\ UNCHANGED <<status, iter>>
  /\ UNCHANGED <<attempt, remote, closed, world>>

Done(j) == IF status[j] = "running" THEN "completed" ELSE status[j]

(* The same; a fix with commit_direct opens none and is done. *)
FixPR(j) ==
  /\ pc[j] = "pr"
  /\ \/ "pr" \in Failing /\ FixFails(j) /\ UNCHANGED prs
     \/ Opened(j) /\ GoTo(j, "close") /\ UNCHANGED <<status, iter>>
     \/ Ends(j, Done(j)) /\ UNCHANGED <<iter, prs>>
  /\ UNCHANGED <<attempt, remote, closed, world>>

(* The finding comments are marked as fixed; the job is done. *)
CloudClose(j) ==
  /\ pc[j] = "close"
  /\ closed' = closed \cup {j}
  /\ Ends(j, "completed")
  /\ UNCHANGED <<iter, attempt, remote, prs, world>>

FixClose(j) ==
  /\ pc[j] = "close"
  /\ closed' = closed \cup {j}
  /\ Ends(j, Done(j))
  /\ UNCHANGED <<iter, attempt, remote, prs, world>>

-----------------------------------------------------------------------------
(* External events.                                                        *)

(* A newer commit, or the pull request is merged: cloud children are       *)
(* marked, fixes in flight get the status cancelled and nothing else.      *)
Supersede ==
  /\ Spend("supersede")
  /\ drained' = drained \cup {j \in Cloud : pc[j] # "done"}
  /\ status' = [j \in Jobs |-> IF j \in Fixes /\ status[j] \in {"queued", "running"}
                               THEN "cancelled" ELSE status[j]]
  /\ UNCHANGED <<pc, iter, attempt, window, github>>

(* Old requests leave the window. *)
HourPasses ==
  /\ Spend("hour")
  /\ \E kept \in SUBSET window : window' = kept
  /\ UNCHANGED <<pc, iter, status, attempt, drained, github>>

(* A crash: a cloud child starts again, a fix is not picked up by anyone,  *)
(* and the window is forgotten.                                            *)
Restart ==
  /\ Spend("boot")
  /\ pc' = [j \in Jobs |-> IF pc[j] = "done" THEN "done"
                           ELSE IF j \in Cloud \/ pc[j] \in {"start", "record"}
                           THEN "start" ELSE "dead"]
  /\ iter' = [j \in Jobs |-> IF pc[j] = "done" THEN iter[j] ELSE 1]
  /\ keys' = [j \in Jobs |-> {}]
  /\ tree' = [j \in Jobs |-> {}]
  /\ patch' = [j \in Jobs |-> {}]
  /\ noai' = [j \in Jobs |-> FALSE]
  /\ window' = {}
  /\ UNCHANGED <<status, drained, github>>

-----------------------------------------------------------------------------
CloudStep(j) ==
  \/ CloudStart(j) \/ CloudLoop(j) \/ CloudRecord(j) \/ CloudPatch(j) \/ CloudGate(j)
  \/ CloudSuggest(j) \/ Verify(j) \/ Regate(j) \/ CloudLand(j) \/ PushCheck(j)
  \/ Push(j) \/ CloudPR(j) \/ CloudClose(j)

(* A goroutine at work; the request itself is up to the user. *)
FixStep(j) ==
  \/ FixRecord(j) \/ FixTakesSlot(j) \/ FixPatch(j) \/ FixGate(j) \/ FixSuggest(j)
  \/ FixLand(j) \/ Push(j) \/ FixPR(j) \/ FixClose(j)

Next ==
  \/ \E j \in Cloud : CloudStep(j)
  \/ \E j \in Fixes : FixRequest(j) \/ FixStep(j)
  \/ Supersede
  \/ HourPasses
  \/ Restart

Spec == Init /\ [][Next]_vars

(* Goroutines keep running; a call to an agent, to git or to GitHub        *)
(* returns, with a result or with an error.                                *)
Fairness ==
  /\ \A j \in Cloud : WF_vars(CloudStep(j))
  /\ \A j \in Fixes : WF_vars(FixStep(j))

FairSpec == Spec /\ Fairness

-----------------------------------------------------------------------------
(* Places, statuses, trees and what GitHub holds are what the code names. *)
TypeOK ==
  /\ pc \in [Jobs -> Places]
  /\ iter \in [Jobs -> 1..MaxIter]
  /\ status \in [Jobs -> Statuses]
  /\ keys \in [Jobs -> SUBSET Keys]
  /\ tree \in [Jobs -> SUBSET Paths]
  /\ patch \in [Jobs -> SUBSET Paths]
  /\ noai \in [Jobs -> BOOLEAN]
  /\ drained \subseteq Cloud
  /\ window \subseteq Jobs \X (1..MaxIter)
  /\ \A r \in remote : r.by \in Jobs /\ r.changes \subseteq Paths
  /\ prs \subseteq Jobs \X {r.branch : r \in remote}
  /\ closed \subseteq Jobs
  /\ budget \in [Events -> Nat]

Counting == {k \in AIKeys \cup OSAKeys : SeverityCounts(k)}

(* What may be landed for a job: changes to files of findings the ledger   *)
(* holds with a severity that counts, or the note of a skipped agent.  The *)
(* gate after the tests has no allowlist for a note whose findings name no *)
(* file; the tests may then have written any file that is not denied.      *)
Landable(changes, note) ==
  /\ changes # {} /\ changes \cap Denied = {}
  /\ Cardinality(changes) <= MaxFiles
  /\ \/ changes \subseteq findingPaths(Counting)
     \/ note /\ changes = {Note}
     \/ note /\ RunTests /\ \E k \in Counting : File[k] = NoFile

(* landValidatedPatch, docs/job-isolation.md "Cloud autofix lands by       *)
(* applying a gateCloudDiff-validated patch": what is on a fix branch has  *)
(* passed the gate as it is, whatever the tests rewrote after the first    *)
(* gate and however often it was tried.                                    *)
LandedIsGated ==
  \A r \in remote : Mode[r.by] = "branch" /\ Landable(r.changes, r.note)

(* runCloudStages: a job opens at most one pull request, although it may   *)
(* push several branches when opening one fails; a crash after that lets   *)
(* it start over.                                                          *)
OnePullRequest ==
  "boot" \notin Happened => \A j \in Jobs : Cardinality({p \in prs : p[1] = j}) <= 1

BeforePushCheck == {"start", "loop", "record", "patch", "gate", "suggest", "verify",
                    "regate", "land", "pushcheck"}
Pushed(j) == {r \in remote : r.by = j}

(* cloudJobMustAbort: a job that is drained before it has looked for the   *)
(* last time pushes nothing more, in this attempt or a later one.          *)
DrainStopsPushes ==
  \A j \in Cloud : \A n \in 0..MaxIter :
    []((j \in drained /\ pc[j] \in BeforePushCheck /\ Cardinality(Pushed(j)) = n)
         => [](Cardinality(Pushed(j)) = n))

(* Every job that was started comes to an end. *)
EveryJobEnds ==
  \A j \in Jobs : <>[](pc[j] \in {"done", "dead"} \/ (j \in Fixes /\ pc[j] = "start"))

-----------------------------------------------------------------------------
(* What the safety properties rest on. *)

Authorized == {"record", "slot", "patch", "gate", "suggest", "verify", "regate", "land",
               "pushcheck", "push", "pr", "close"}
Captures == {"suggest", "verify", "regate", "land", "pushcheck", "push"}
Landing == {"verify", "regate", "land", "pushcheck", "push"}

(* From its authorization on a job works on findings that count; from the  *)
(* gate on it holds a patch that may be landed.                            *)
JobInv(j) ==
  /\ pc[j] \notin {"start", "done", "dead"} => Mode[j] # "off"
  /\ pc[j] \in Authorized => keys[j] # {} /\ keys[j] \subseteq Counting
  /\ pc[j] = "gate" /\ noai[j] => tree[j] = {Note}
  /\ pc[j] \in Captures => Landable(patch[j], noai[j])
  /\ pc[j] \in Landing => Mode[j] = "branch"
  /\ pc[j] \in {"verify", "regate"} =>
        RunTests /\ (noai[j] \/ findingPaths(keys[j]) # {})

GatedInv == LandedIsGated /\ \A j \in Jobs : JobInv(j)

(* A pull request is opened for a branch that is on GitHub.                *)
BranchInv == \A j \in Jobs : pc[j] = "pr" => OnRemote(opaFixBranchName(j))

(* Before a boot only a job that is through with its landing has a pull    *)
(* request, and it has one.                                                *)
OpenedInv ==
  /\ budget["boot"] <= Budget["boot"]
  /\ "boot" \notin Happened =>
       \A p \in prs : /\ pc[p[1]] \in {"close", "done"}
                      /\ \A q \in prs : p[1] = q[1] => p = q

(* DrainStopsPushes, step by step: a drained job that has not looked yet   *)
(* stays at its number of pushes and never comes to the push.              *)
StoppedAt(j, n) ==
  /\ j \in drained /\ pc[j] \in BeforePushCheck \cup {"done"}
  /\ Cardinality(Pushed(j)) = n

=============================================================================
