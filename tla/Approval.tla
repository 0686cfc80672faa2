------------------------------ MODULE Approval ------------------------------
(***************************************************************************)
(* From evidence to a decision: the security agent hands a scan to the OSA *)
(* peer, polls it and asks for the gate's verdict; bugbot reviews the diff *)
(* unit by unit and draws a conclusion; approval reads what they left on   *)
(* their rows, fetches findings and the policy of the base branch, and     *)
(* posts APPROVE, REQUEST_CHANGES or nothing.                              *)
(*                                                                         *)
(* One run after its prepare child is modelled.  Which child may start     *)
(* when, semaphores and crashes are RunGraph's subject.  Severities are    *)
(* numbers, 1 low to 5 blocker, 0 a word the code does not know.  Time is  *)
(* counted in units of two seconds.                                        *)
(***************************************************************************)
EXTENDS Integers, FiniteSets

CONSTANTS
  Cases,           \* the runs a behaviour may be about, see CaseType
  MaxDelay         \* the longest sleep between two polls

Least(a, b) == IF a < b THEN a ELSE b

Severities == 1..5
High == 3..5
Verdicts == {"approve", "request_changes", "needs_context"}
Decisions == {"COMMENT", "REQUEST_CHANGES", "APPROVE"}

(* .opa/approval-policy.json; a missing or unparseable one is unreadable.  *)
PolicyType ==
  [readable: BOOLEAN, require: SUBSET {"security", "bugbot"},
   minSev: 0..5, maxRisk: 0..100, onFail: {"COMMENT", "REQUEST_CHANGES"}]

(* A cancel and a retry of the bugbot child from the dashboard.            *)
Events == {"cancel", "retry"}

(* The peer is configured; ai_only was asked for; an agent key exists;     *)
(* auto_approve; the watched repository's score and gate severity; which   *)
(* children were planned to work.  Then what the world has in store: the   *)
(* units of the diff, the severities a unit's review may come up with, the *)
(* findings a scan may end with, the confidences the model may give,       *)
(* osaGateWaitTimeout(), osaGateRunAppearTimeout(), the timeout of one     *)
(* poll, and how often each event may happen.                              *)
CaseType ==
  [peer: BOOLEAN, aiOnly: BOOLEAN, key: BOOLEAN, auto: BOOLEAN,
   score: 0..100, gateMin: Severities, policy: PolicyType,
   scanned: BOOLEAN, reviewed: BOOLEAN, cloud: BOOLEAN,
   units: 1..9, finds: SUBSET SUBSET Severities,
   scans: SUBSET [Severities -> 0..2],
   confs: SUBSET (0..100), wait: 0..9, appear: 0..9, get: 0..9,
   events: [Events -> 0..9]]

ASSUME ConstantsAssumption ==
  /\ Cases \subseteq CaseType
  /\ MaxDelay \in Nat

JobStatus == {"queued", "running", "completed", "failed", "cancelled",
              "skipped"}
InFlight == {"queued", "running"}
jobTerminal(s) == s \notin InFlight

ScanStatus == {"absent", "running", "completed", "failed"}
(* osaTerminalRunStatus *)
ScanOver == {"completed", "failed"}

(* What runBugbotAgent leaves in Summary["ai"]; Unset is what approval     *)
(* decodes when there is nothing.                                          *)
Review(status, conf, rationale, prios, verdict, fallback, found) ==
  [status |-> status, conf |-> conf, rationale |-> rationale,
   prios |-> prios, verdict |-> verdict, fallback |-> fallback,
   found |-> found]
Unset == Review("", 0, FALSE, FALSE, "", FALSE, {})
Skipped == [Unset EXCEPT !.status = "skipped"]

NothingFound == [s \in Severities |-> 0]

VARIABLES
  given,                           \* the case this behaviour is about
  scan,                            \* OSA: status and findings of the run
  sec, spc, elapsed, delay, seen,  \* security: row, place, poll loop
  verdict, gate,                   \* security: verdict, Summary["gate"]
  bug, bpc, parts, said, ai,       \* bugbot: row, place, units reviewed,
                                   \* the model's own reasons, Summary["ai"]
  cloud,                           \* cloud: row
  app, apc, ev, event, posted,     \* approval: row, place, evidence,
                                   \* Summary["review_event"], on GitHub
  budget

security == <<scan, sec, spc, elapsed, delay, seen, verdict, gate>>
bugbot == <<bug, bpc, parts, said, ai>>
approval == <<app, apc, ev, event, posted>>
vars == <<given, security, bugbot, cloud, approval, budget>>

SecPlaces == {"idle", "handoff", "poll", "eval", "report", "end"}
BugPlaces == {"idle", "units", "end"}
AppPlaces == {"idle", "begin", "findings", "policy", "post", "end"}

Planned(b) == IF b THEN "queued" ELSE "skipped"
NoEvidence == [ai |-> Unset, found |-> NothingFound, fetched |-> FALSE,
               gateFail |-> FALSE, degraded |-> {}, pending |-> FALSE]
NoParts == [left |-> given.units, fallbacks |-> 0, found |-> {}]

Init ==
  /\ given \in Cases
  /\ scan = [status |-> "absent", found |-> NothingFound]
  /\ sec = Planned(given.scanned) /\ spc = "idle"
  /\ elapsed = 0 /\ delay = 1 /\ seen = FALSE
  /\ verdict = "none" /\ gate = "none"
  /\ bug = Planned(given.reviewed) /\ bpc = "idle"
  /\ parts = NoParts /\ said = FALSE /\ ai = Unset
  /\ cloud = Planned(given.cloud)
  /\ app = "queued" /\ apc = "idle"
  /\ ev = NoEvidence /\ event = "none" /\ posted = "none"
  /\ budget = given.events

Spend(e) == budget[e] > 0 /\ budget' = [budget EXCEPT ![e] = @ - 1]

-----------------------------------------------------------------------------
(* OSA, seen from the peer API it answers.                                 *)

(* A run that was created is worked on and ends with its findings.         *)
ScanEnds ==
  /\ scan.status = "running"
  /\ \E s \in ScanOver, f \in given.scans :
       scan' = [status |-> s, found |-> f]
  /\ UNCHANGED <<given, sec, spc, elapsed, delay, seen, verdict, gate, bugbot,
                 cloud, approval, budget>>

(* The gate blocks on findings at or above min_severity. *)
OSABlocks(found, minSev) == \E s \in Severities : s >= minSev /\ found[s] > 0

-----------------------------------------------------------------------------
(* The security agent: runSecurityAgent.                                   *)

(* The write guard may refuse, which fails the child. *)
SecurityStart ==
  /\ spc = "idle" /\ sec = "queued"
  /\ \/ sec' = "running" /\ spc' = "handoff"
     \/ sec' = "failed" /\ UNCHANGED spc
  /\ UNCHANGED <<given, scan, elapsed, delay, seen, verdict, gate, bugbot,
                 cloud, approval, budget>>

(* Mutant: an unreachable service counts as a failed gate. *)
gateUnavailableFails == "fail"

(* fail = false, unavailable = true *)
gateUnavailable == "unavailable"

(* Mutant: the gate is read as soon as the run was created. *)
afterHandOff == "eval"

(* Where gateAfterScan goes once the peer has taken the run. *)
AwaitsScan == "poll"

(* runSecurityScanJob: without a peer nothing is created and nothing fails,*)
(* and the gate is unavailable.  A POST may be lost, its answer may be     *)
(* lost, and a run that was taken may never appear.                        *)
HandOff ==
  /\ spc = "handoff"
  /\ IF ~given.peer
     THEN /\ verdict' = gateUnavailable /\ spc' = "report"
          /\ UNCHANGED scan
     ELSE /\ scan' \in {scan, [scan EXCEPT !.status = "running"]}
          /\ \/ spc' = AwaitsScan /\ UNCHANGED verdict
             \/ verdict' = gateUnavailable /\ spc' = "report"
  /\ UNCHANGED <<given, sec, elapsed, delay, seen, gate, bugbot, cloud,
                 approval, budget>>

SeesRun(answered) == seen \/ answered

(* Mutant: the deadline of the scan is forgotten. *)
GivesUpUnseen(now, s) == ~s /\ now > given.appear

GivesUp(now, s) == now > given.wait \/ (~s /\ now > given.appear)

(* Where the model's clock of the wait stops, beyond all that is allowed.  *)
Horizon == given.wait + MaxDelay + given.get + 1
Later(t) == Least(t, Horizon)

(* awaitOSASecurityRun: one poll, which takes up to its own timeout.       *)
Poll ==
  /\ spc = "poll"
  /\ \E answered \in BOOLEAN, t \in {0, given.get} :
       LET now == Later(elapsed + t)
           s   == SeesRun(answered)
       IN  /\ answered => scan.status # "absent"
           /\ seen' = s
           /\ \/ /\ answered /\ scan.status \in ScanOver
                 /\ spc' = "eval" /\ elapsed' = now
                 /\ UNCHANGED <<delay, verdict>>
              \/ /\ ~(answered /\ scan.status \in ScanOver)
                 /\ GivesUp(now, s)
                 /\ verdict' = gateUnavailable /\ spc' = "report"
                 /\ elapsed' = now
                 /\ UNCHANGED delay
              \/ /\ ~(answered /\ scan.status \in ScanOver)
                 /\ ~GivesUp(now, s)
                 /\ elapsed' = Later(now + delay)
                 /\ delay' = IF delay < MaxDelay THEN delay + 1 ELSE delay
                 /\ UNCHANGED <<spc, verdict>>
  /\ UNCHANGED <<given, scan, sec, gate, bugbot, cloud, approval, budget>>

(* evaluateScopedGate: no answer means no verdict. *)
Evaluate ==
  /\ spc = "eval"
  /\ \/ verdict' = IF OSABlocks(scan.found, given.gateMin) THEN "fail" ELSE "pass"
     \/ verdict' = gateUnavailable
  /\ spc' = "report"
  /\ UNCHANGED <<given, scan, sec, elapsed, delay, seen, gate, bugbot, cloud,
                 approval, budget>>

(* The verdict is replaced when scanning was not asked for.                *)
SecurityReports ==
  /\ spc = "report"
  /\ gate' = IF given.aiOnly THEN "pass" ELSE verdict
  /\ spc' = "end"
  /\ UNCHANGED <<given, scan, sec, elapsed, delay, seen, verdict, bugbot, cloud,
                 approval, budget>>

SecurityEnds ==
  /\ spc = "end"
  /\ sec' = "completed" /\ spc' = "idle"
  /\ UNCHANGED <<given, scan, elapsed, delay, seen, verdict, gate, bugbot,
                 cloud, approval, budget>>

-----------------------------------------------------------------------------
(* The bugbot agent: runBugbotAgent and runCursorAIReview.                 *)

(* The write guard may refuse; without a key the review is skipped.        *)
BugbotStart ==
  /\ bpc = "idle" /\ bug = "queued"
  /\ \/ bug' = "failed" /\ UNCHANGED <<bpc, ai>>
     \/ bug' = "running" /\ bpc' = "units" /\ given.key /\ UNCHANGED ai
     \/ bug' = "running" /\ bpc' = "end" /\ ~given.key /\ ai' = Skipped
  /\ parts' = NoParts
  /\ UNCHANGED <<given, security, said, cloud, approval, budget>>

(* reviewOneUnit: an agent that fails or answers nothing usable leaves the *)
(* unit to the rule-based fallback.                                        *)
ReviewUnit ==
  /\ bpc = "units" /\ parts.left > 0
  /\ \E f \in given.finds, fallback \in {0, 1} :
       parts' = [left |-> parts.left - 1,
                 fallbacks |-> parts.fallbacks + fallback,
                 found |-> parts.found \cup f]
  /\ UNCHANGED <<given, security, bug, bpc, said, ai, cloud, approval, budget>>

(* heuristicOPAReviewSynthesis always gives a rationale. *)
heuristicSynthesis(found, fallback) ==
  LET by(conf, v) == [conf |-> conf, verdict |-> v, rationale |-> TRUE,
                      prios |-> found # {}]
  IN  IF fallback THEN by(25, "needs_context")
      ELSE IF found \cap {3, 4} # {} THEN by(30, "request_changes")
      ELSE IF found = {} THEN by(65, "approve")
      ELSE IF 2 \in found THEN by(45, "request_changes")
      ELSE by(55, "needs_context")

(* runOPAReviewSynthesis: the heuristic when every unit fell back or the   *)
(* model's answer is unusable, else the model's, completed by it.  A       *)
(* second synthesis after needs_context replaces the first, so one choice  *)
(* stands for both.                                                        *)
Synthesis ==
  /\ bpc = "units" /\ parts.left = 0
  /\ \E why \in BOOLEAN, structured \in BOOLEAN, conf \in given.confs,
        prios \in BOOLEAN, v \in Verdicts :
       LET fallback == parts.fallbacks = given.units
           h == heuristicSynthesis(parts.found, fallback)
           s == IF structured /\ ~fallback
                THEN [conf |-> conf, verdict |-> v,
                      rationale |-> why \/ h.rationale,
                      prios |-> prios \/ parts.found # {}]
                ELSE h
       IN  /\ said' = (structured /\ ~fallback /\ (why \/ prios))
           /\ ai' = Review(IF parts.found # {} THEN "findings" ELSE "clean",
                           s.conf, s.rationale, s.prios, s.verdict, fallback,
                           parts.found)
  /\ bpc' = "end"
  /\ UNCHANGED <<given, security, bug, parts, cloud, approval, budget>>

(* A row that was cancelled meanwhile is left alone. *)
BugbotEnds ==
  /\ bpc = "end"
  /\ bug' = IF bug = "cancelled" THEN bug ELSE "completed"
  /\ bpc' = "idle"
  /\ UNCHANGED <<given, security, parts, said, ai, cloud, approval, budget>>

CancelBugbot ==
  /\ bug \in InFlight
  /\ Spend("cancel")
  /\ bug' = "cancelled"
  /\ UNCHANGED <<given, security, bpc, parts, said, ai, cloud, approval>>

(* The retry handler queues the row whatever its status and leaves the     *)
(* summary.                                                                *)
RetryBugbot ==
  /\ Spend("retry")
  /\ bug' = "queued"
  /\ UNCHANGED <<given, security, bpc, parts, said, ai, cloud, approval>>

-----------------------------------------------------------------------------
(* The cloud child, as far as approval looks at it.                        *)
CloudRuns ==
  /\ jobTerminal(bug) /\ jobTerminal(sec)
  /\ cloud = "queued"
  /\ cloud' = "running"
  /\ UNCHANGED <<given, security, bugbot, approval, budget>>

CloudEnds ==
  /\ cloud = "running"
  /\ cloud' \in {"completed", "failed", "skipped"}
  /\ UNCHANGED <<given, security, bugbot, approval, budget>>

-----------------------------------------------------------------------------
(* The decision: evaluateApproval and computeRiskScore.                    *)

hasBlockerOrHighFinding(r) == r.found \cap High # {}

(* Approval gives computeRiskScore neither diff nor files, so the parts    *)
(* for sensitive paths and large diffs are always zero.                    *)
computeRiskScore(e) ==
  LET points(cond, n) == IF cond THEN n ELSE 0
      review == IF hasBlockerOrHighFinding(e.ai) THEN 20
                ELSE points(e.ai.status = "findings", 12)
  IN  Least(100, points(e.gateFail, 35)
                 + Least(40, 20 * (e.found[4] + e.found[5]))
                 + Least(25, 10 * e.found[3])
                 + Least(10, 3 * e.found[2])
                 + review
                 + points(e.ai.verdict = "request_changes", 10)
                 + points(e.degraded # {}, 10))

(* runApprovalAgent: the default threshold of auto_approve is 70. *)
minScore == IF given.auto /\ given.score = 0 THEN 70 ELSE given.score

confidenceWhyIsActionable(r) ==
  \/ r.fallback
  \/ r.found # {} \/ r.prios \/ r.rationale
  \/ r.verdict \in {"request_changes", "needs_context"}
  \/ r.status \in {"findings", "error"}

(* calibrateConfidenceForVeto *)
Calibrated(r) ==
  IF r.conf < minScore /\ ~confidenceWhyIsActionable(r) THEN minScore ELSE r.conf

(* An unknown word in the policy blocks nothing, no word means high. *)
severityAtLeast(found, want) ==
  want > 0 /\ \E s \in Severities : s >= want /\ found[s] > 0

(* Mutant: a failed reviewer does not stop the evaluation. *)
AbstainsUnlessDegraded(e) ==
  e.pending \/ ~given.auto \/ e.ai.status \in {"skipped", "error"}

(* The early returns that end in COMMENT. *)
Abstains(e) ==
  \/ e.degraded # {}
  \/ e.pending
  \/ ~given.auto
  \/ e.ai.status \in {"skipped", "error"}

(* The early returns that end in REQUEST_CHANGES. *)
Objects(e, policy) ==
  \/ Calibrated(e.ai) < minScore
  \/ hasBlockerOrHighFinding(e.ai)
  \/ e.ai.verdict \in {"request_changes", "needs_context"}
  \/ e.ai.status = "findings"
  \/ e.gateFail
  \/ severityAtLeast(e.found, IF policy.readable THEN policy.minSev ELSE 3)

(* The clauses of the policy that end in on_fail. *)
Fails(e, policy) ==
  \/ policy.maxRisk > 0 /\ computeRiskScore(e) > policy.maxRisk
  \/ "security" \in policy.require /\ sec # "completed"
  \/ "bugbot" \in policy.require /\ bug # "completed"

evaluateApproval(e, policy) ==
  IF Abstains(e) THEN "COMMENT"
  ELSE IF Objects(e, policy) THEN "REQUEST_CHANGES"
  ELSE IF ~policy.readable THEN "COMMENT"
  ELSE IF Fails(e, policy) THEN policy.onFail
  ELSE "APPROVE"

-----------------------------------------------------------------------------
(* The approval agent: runApprovalAgent.                                   *)

ApprovalStart ==
  /\ apc = "idle" /\ app = "queued"
  /\ \A s \in {bug, sec, cloud} : jobTerminal(s)
  /\ app' = "running" /\ apc' = "begin"
  /\ UNCHANGED <<given, security, bugbot, cloud, ev, event, posted, budget>>

(* Look at the reviewers again, ask the write guard, read the review.      *)
ApprovalBegins ==
  /\ apc = "begin"
  /\ \/ /\ ~jobTerminal(bug) \/ ~jobTerminal(sec)
        /\ app' = "failed" /\ apc' = "end" /\ UNCHANGED ev
     \/ /\ bug = "failed" /\ sec = "failed"
        /\ app' = "skipped" /\ apc' = "end" /\ UNCHANGED ev
     \/ /\ jobTerminal(bug) /\ jobTerminal(sec)
        /\ ~(bug = "failed" /\ sec = "failed")
        /\ \/ app' = "failed" /\ apc' = "end" /\ UNCHANGED ev
           \/ ev' = [ev EXCEPT !.ai = ai] /\ apc' = "findings" /\ UNCHANGED app
  /\ UNCHANGED <<given, security, bugbot, cloud, event, posted, budget>>

(* securityFindingsFromRun: no peer, no run or no answer is no findings.   *)
(* Then the gate, the failed reviewers and the cloud child are read.       *)
ApprovalFindings ==
  /\ apc = "findings"
  /\ \E fetched \in BOOLEAN :
       /\ fetched => given.peer /\ sec # "skipped"
       /\ ev' = [ev EXCEPT
                   !.fetched = fetched,
                   !.found = IF fetched THEN scan.found ELSE NothingFound,
                   !.gateFail = gate = "fail",
                   !.degraded = {k \in {"bugbot", "security"} :
                                  IF k = "bugbot" THEN bug = "failed"
                                  ELSE sec = "failed"},
                   !.pending = ~jobTerminal(cloud)]
  /\ apc' = "policy"
  /\ UNCHANGED <<given, security, bugbot, cloud, app, event, posted, budget>>

(* The policy may be out of reach when it is fetched. *)
ApprovalDecides ==
  /\ apc = "policy"
  /\ \E reached \in BOOLEAN :
       event' = evaluateApproval(ev,
                  [given.policy EXCEPT !.readable = @ /\ reached])
  /\ apc' = "post"
  /\ UNCHANGED <<given, security, bugbot, cloud, app, ev, posted, budget>>

(* publishPRReview: a COMMENT posts no review; an error is only noted.     *)
ApprovalPosts ==
  /\ apc = "post"
  /\ posted' \in {posted, IF event = "COMMENT" THEN posted ELSE event}
  /\ app' = "completed" /\ apc' = "end"
  /\ UNCHANGED <<given, security, bugbot, cloud, ev, event, budget>>

-----------------------------------------------------------------------------
SecurityStep ==
  SecurityStart \/ HandOff \/ Poll \/ Evaluate \/ SecurityReports \/ SecurityEnds

BugbotStep == BugbotStart \/ ReviewUnit \/ Synthesis \/ BugbotEnds

CloudStep == CloudRuns \/ CloudEnds

ApprovalStep ==
  \/ ApprovalStart \/ ApprovalBegins \/ ApprovalFindings
  \/ ApprovalDecides \/ ApprovalPosts

Next ==
  \/ SecurityStep \/ BugbotStep \/ CloudStep \/ ApprovalStep
  \/ ScanEnds \/ CancelBugbot \/ RetryBugbot

Spec == Init /\ [][Next]_vars

(* The agents' goroutines run on, every call they make has a timeout.      *)
(* Nothing is assumed of the peer: a scan need not end.                    *)
Fairness ==
  /\ WF_vars(SecurityStep)
  /\ WF_vars(BugbotStep)
  /\ WF_vars(CloudStep)
  /\ WF_vars(ApprovalStep)

FairSpec == Spec /\ Fairness

-----------------------------------------------------------------------------
(* gateAfterScan: a verdict that passes or fails is about a scan that has  *)
(* ended, and says of its findings what min_severity says of them; a gate  *)
(* that could not evaluate never looks like either.                        *)
GateIsAboutAScan ==
  gate \in {"pass", "fail"} /\ ~given.aiOnly =>
    /\ scan.status \in ScanOver
    /\ gate = "fail" <=> OSABlocks(scan.found, given.gateMin)

(* evaluateApproval: an APPROVE on GitHub is borne out by the rows of all  *)
(* the children, by the review that was read and by the policy of the base *)
(* branch, although these were read at different times.  A bugbot retried  *)
(* alone is another review: its row is not the one that was read.          *)
ApproveOnEvidence ==
  posted = "APPROVE" /\ budget.retry = given.events.retry =>
    /\ given.auto
    /\ bug # "failed" /\ sec # "failed" /\ jobTerminal(cloud)
    /\ gate # "fail"
    /\ ~\E s \in ev.ai.found : s >= 3
    /\ ev.ai.verdict \notin {"request_changes", "needs_context"}
    /\ given.policy.readable
    /\ given.policy.minSev > 0 => ~OSABlocks(ev.found, given.policy.minSev)
    /\ "security" \in given.policy.require => sec = "completed"
    /\ "bugbot" \in given.policy.require => bug = "completed"

(* gate_verdict.go: changes are requested for something a reviewer found   *)
(* or doubts, or by the policy's own clauses; a service that could not be  *)
(* reached, or a child that failed, is never the reason, unless bugbot was *)
(* retried meanwhile.  A review all of whose agent calls failed counts as  *)
(* a doubt, not as a failed child: its row completes with the rule-based   *)
(* verdict needs_context, which alone requests changes.                    *)
RefusalHasCause ==
  posted = "REQUEST_CHANGES" /\ budget.retry = given.events.retry =>
    /\ bug # "failed" /\ sec # "failed"
    /\ \/ ev.ai.found # {} \/ ev.ai.fallback
       \/ ev.ai.verdict \in {"request_changes", "needs_context"}
       \/ ev.ai.status = "clean" /\ ev.ai.conf < minScore
       \/ \E s \in Severities : scan.found[s] > 0
       \/ given.policy.readable /\ given.policy.onFail = "REQUEST_CHANGES"

(* awaitOSASecurityRun, processAgentChild: every child of the run comes to *)
(* an end, whether or not the scan does, and whatever is cancelled or      *)
(* retried meanwhile.                                                      *)
DecisionComes ==
  <>[](\A s \in {sec, bug, cloud, app} : jobTerminal(s))
-----------------------------------------------------------------------------
(* Why the decision is borne out.                                          *)

Reviews ==
  [status: {"", "skipped", "clean", "findings"}, conf: 0..100,
   rationale: BOOLEAN, prios: BOOLEAN, verdict: Verdicts \cup {""},
   fallback: BOOLEAN, found: SUBSET Severities]

Findings == [Severities -> 0..2]

(* Rows, places, findings and summaries are what the agents write.         *)
TypeOK ==
  /\ given \in Cases
  /\ scan \in [status: ScanStatus, found: Findings]
  /\ sec \in JobStatus /\ spc \in SecPlaces
  /\ elapsed \in Nat /\ delay \in Nat /\ seen \in BOOLEAN
  /\ verdict \in {"none", "pass", "fail", "unavailable"}
  /\ gate \in {"none", "pass", "fail", "unavailable"}
  /\ bug \in JobStatus /\ bpc \in BugPlaces
  /\ parts \in [left: Nat, fallbacks: Nat, found: SUBSET Severities]
  /\ said \in BOOLEAN /\ ai \in Reviews
  /\ cloud \in JobStatus
  /\ app \in JobStatus /\ apc \in AppPlaces
  /\ ev \in [ai: Reviews, found: Findings, fetched: BOOLEAN, gateFail: BOOLEAN,
             degraded: SUBSET {"bugbot", "security"}, pending: BOOLEAN]
  /\ event \in Decisions \cup {"none"}
  /\ posted \in Decisions \cup {"none"}
  /\ budget \in [Events -> Nat] /\ budget.retry <= given.events.retry

(* v is what min_severity says of a scan that has ended. *)
Tells(v) ==
  v \in {"pass", "fail"} =>
    /\ scan.status \in ScanOver
    /\ v = "fail" <=> OSABlocks(scan.found, given.gateMin)

(* Before the hand-off there is no run and no verdict; the gate is asked   *)
(* when the scan has ended; what it said still holds, and a gate that was  *)
(* passed over never fails.                                                *)
ScanInv ==
  /\ scan.status \notin ScanOver => scan.found = NothingFound
  /\ spc = "handoff" \/ (spc = "idle" /\ sec = "queued") =>
       scan.status = "absent" /\ verdict = "none" /\ gate = "none"
  /\ spc = "eval" => scan.status \in ScanOver
  /\ Tells(verdict)
  /\ ~given.aiOnly => Tells(gate)
  /\ given.aiOnly => gate # "fail"
  /\ spc # "idle" => sec = "running"

(* A review with a conclusion names findings when it says so.              *)
Concluded(r) ==
  \/ r = Unset
  \/ r.status = "skipped"
  \/ r.status = "clean"
  \/ r.status = "findings" /\ r.found # {}

(* Nobody has retried bugbot.                                              *)
Untried == budget.retry = given.events.retry

(* Once approval has started the rows of the others stand still.           *)
RowsInv ==
  /\ Concluded(ai) /\ Concluded(ev.ai)
  /\ Untried /\ bpc # "idle" => bug \in {"running", "cancelled"}
  /\ apc # "idle" =>
       /\ jobTerminal(sec) /\ jobTerminal(cloud)
       /\ Untried => jobTerminal(bug)

(* What approval has read of the rows is still so.                         *)
Grounded ==
  /\ ev.gateFail <=> gate = "fail"
  /\ ~ev.pending
  /\ "security" \in ev.degraded <=> sec = "failed"
  /\ Untried => ("bugbot" \in ev.degraded <=> bug = "failed")
  /\ \A s \in Severities : ev.found[s] > 0 => scan.found[s] > 0

(* The clauses of the policy that name a child, now.                       *)
Required ==
  /\ "security" \in given.policy.require => sec = "completed"
  /\ "bugbot" \in given.policy.require => bug = "completed"

(* The decision follows from the evidence.                                 *)
DecisionInv ==
  /\ apc \in {"idle", "begin", "findings", "policy"} => event = "none"
  /\ apc \in {"idle", "begin", "findings", "policy", "post"} => posted = "none"
  /\ posted \in {"none", event}
  /\ apc = "policy" \/ event # "none" => Grounded
  /\ event \in {"APPROVE", "REQUEST_CHANGES"} => ~Abstains(ev)
  /\ event = "APPROVE" =>
       /\ ~Objects(ev, given.policy)
       /\ given.policy.readable
       /\ Untried => Required
  /\ event = "REQUEST_CHANGES" =>
       \/ Objects(ev, given.policy)
       \/ Objects(ev, [given.policy EXCEPT !.readable = FALSE])
       \/ given.policy.readable /\ given.policy.onFail = "REQUEST_CHANGES"

ApprovalInv == ScanInv /\ RowsInv /\ DecisionInv

=============================================================================
