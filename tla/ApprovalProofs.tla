--------------------------- MODULE ApprovalProofs ---------------------------
(* Proofs about Approval for any policies, scores, findings, confidences,  *)
(* timeouts and numbers of cancels and retries: a verdict is about a scan  *)
(* that has ended, an APPROVE is borne out, a refusal has a cause. And     *)
(* about Checkup for any plans and caps: a pass is earned, what the policy *)
(* drops is shown, and a run leaves nothing behind that it could remove.   *)
EXTENDS Approval, Checkup, FiniteSetTheorems, SequenceTheorems,
        WellFoundedInduction, TLAPS

(* Type correctness. *)

LEMMA CaseFacts ==
  ASSUME given \in Cases
  PROVE  /\ given \in CaseType
         /\ given.peer \in BOOLEAN /\ given.aiOnly \in BOOLEAN
         /\ given.key \in BOOLEAN /\ given.auto \in BOOLEAN
         /\ given.score \in 0..100 /\ given.gateMin \in Severities
         /\ given.policy \in PolicyType
         /\ given.units \in 1..9
         /\ \A f \in given.finds : f \subseteq Severities
         /\ \A f \in given.scans : f \in Findings
         /\ \A c \in given.confs : c \in 0..100
         /\ given.wait \in 0..9 /\ given.appear \in 0..9 /\ given.get \in 0..9
         /\ given.events \in [Events -> 0..9]
<1>1. given \in CaseType
  BY ConstantsAssumption
<1>2. given.finds \in SUBSET SUBSET Severities /\ given.scans \in SUBSET Findings
      /\ given.confs \in SUBSET (0..100)
  BY <1>1 DEF CaseType, Findings
<1> QED
  BY <1>1, <1>2 DEF CaseType

LEMMA PolicyFields ==
  ASSUME NEW p \in PolicyType
  PROVE  p.onFail \in {"COMMENT", "REQUEST_CHANGES"}
  BY DEF PolicyType

(* A policy that was out of reach differs in nothing else. *)
LEMMA PolicyReached ==
  ASSUME NEW p \in PolicyType, NEW b \in BOOLEAN,
         NEW q, q = [p EXCEPT !.readable = @ /\ b]
  PROVE  /\ q.readable = (p.readable /\ b)
         /\ q.onFail = p.onFail /\ q.minSev = p.minSev
         /\ q.maxRisk = p.maxRisk /\ q.require = p.require
  BY DEF PolicyType

LEMMA Constants ==
  /\ Unset \in Reviews /\ Skipped \in Reviews
  /\ NothingFound \in Findings
  /\ \A s \in Severities : NothingFound[s] = 0
  /\ Unset.status = "" /\ Unset.found = {} /\ ~Unset.rationale /\ ~Unset.prios
  /\ Skipped.status = "skipped"
<1>1. /\ Unset \in Reviews /\ Unset.status = "" /\ Unset.found = {}
      /\ ~Unset.rationale /\ ~Unset.prios
  BY DEF Unset, Review, Reviews
<1>2. Skipped \in Reviews /\ Skipped.status = "skipped"
  BY <1>1 DEF Skipped, Reviews
<1>3. NothingFound \in Findings /\ \A s \in Severities : NothingFound[s] = 0
  BY DEF NothingFound, Findings
<1> QED
  BY <1>1, <1>2, <1>3

(* The clock of the wait stops somewhere. *)
LEMMA LaterIsNat ==
  ASSUME given \in Cases, NEW t \in Nat
  PROVE  Later(t) \in Nat
<1>1. Horizon \in Nat
  BY ConstantsAssumption, CaseFacts DEF Horizon
<1> QED
  BY <1>1 DEF Later, Least

(* The rules always come to a conclusion. *)
LEMMA HeuristicType ==
  ASSUME NEW found \in SUBSET Severities, NEW fallback \in BOOLEAN,
         NEW h, h = heuristicSynthesis(found, fallback)
  PROVE  /\ h.conf \in 0..100 /\ h.rationale /\ h.verdict \in Verdicts
         /\ h.prios \in BOOLEAN
  BY DEF heuristicSynthesis, Verdicts

LEMMA SpendType ==
  ASSUME TypeOK, NEW e \in Events, Spend(e)
  PROVE  /\ budget' \in [Events -> Nat]
         /\ budget.retry \in Nat /\ given.events.retry \in Nat
         /\ budget'.retry <= budget.retry
         /\ e = "retry" => budget'.retry < budget.retry
         /\ e # "retry" => budget'.retry = budget.retry
<1>1. given.events.retry \in Nat /\ "retry" \in Events
  BY CaseFacts DEF TypeOK, Events
<1> QED
  BY <1>1 DEF Spend, TypeOK

LEMMA SynthesisType ==
  ASSUME TypeOK, Synthesis
  PROVE  /\ ai' \in Reviews /\ said' \in BOOLEAN /\ Concluded(ai')
         /\ bpc' = "end"
         /\ UNCHANGED <<given, security, bug, parts, cloud, approval, budget>>
<1>1. PICK why \in BOOLEAN, structured \in BOOLEAN, conf \in given.confs,
           prios \in BOOLEAN, v \in Verdicts :
        LET fallback == parts.fallbacks = given.units
            h == heuristicSynthesis(parts.found, fallback)
            s == IF structured /\ ~fallback
                 THEN [conf |-> conf, verdict |-> v,
                       rationale |-> why \/ h.rationale,
                       prios |-> prios \/ parts.found # {}]
                 ELSE h
        IN  /\ said' = (structured /\ ~fallback /\ (why \/ prios))
            /\ ai' = Review(IF parts.found # {} THEN "findings" ELSE "clean",
                            s.conf, s.rationale, s.prios, s.verdict, fallback,
                            parts.found)
  BY DEF Synthesis
<1> DEFINE fallback == parts.fallbacks = given.units
           h == heuristicSynthesis(parts.found, fallback)
           s == IF structured /\ ~fallback
                THEN [conf |-> conf, verdict |-> v,
                      rationale |-> why \/ h.rationale,
                      prios |-> prios \/ parts.found # {}]
                ELSE h
<1>2. parts.found \in SUBSET Severities /\ fallback \in BOOLEAN
  BY DEF TypeOK
<1>3. h.conf \in 0..100 /\ h.rationale \in BOOLEAN /\ h.verdict \in Verdicts
      /\ h.prios \in BOOLEAN
  <2> HIDE DEF fallback
  <2>1. h.conf \in 0..100 /\ h.rationale /\ h.verdict \in Verdicts
        /\ h.prios \in BOOLEAN
    BY <1>2, HeuristicType
  <2> QED
    BY <1>2, <2>1 DEF heuristicSynthesis
<1>4. conf \in 0..100
  BY CaseFacts DEF TypeOK
<1> HIDE DEF h, fallback
<1>5. /\ s.conf \in 0..100 /\ s.rationale \in BOOLEAN
      /\ s.verdict \in Verdicts /\ s.prios \in BOOLEAN
  <2>1. CASE structured /\ ~fallback
    <3>1. s = [conf |-> conf, verdict |-> v, rationale |-> why \/ h.rationale,
               prios |-> prios \/ parts.found # {}]
      BY <2>1
    <3> QED
      BY <1>3, <1>4, <3>1
  <2>2. CASE ~(structured /\ ~fallback)
    BY <1>3, <2>2
  <2> QED
    BY <2>1, <2>2
<1> HIDE DEF s
<1>6. ai' = Review(IF parts.found # {} THEN "findings" ELSE "clean",
                   s.conf, s.rationale, s.prios, s.verdict, fallback, parts.found)
      /\ said' = (structured /\ ~fallback /\ (why \/ prios))
  BY <1>1 DEF s, h, fallback
<1>7. ai' \in Reviews
  BY <1>2, <1>5, <1>6 DEF Review, Reviews
<1>8. Concluded(ai')
  BY <1>6 DEF Review, Concluded
<1>9. said' \in BOOLEAN
  BY <1>6
<1> QED
  BY <1>7, <1>8, <1>9 DEF Synthesis

LEMMA TypeNext ==
  ASSUME TypeOK, [Next]_vars
  PROVE  TypeOK'
<1>g. given \in Cases
  BY DEF TypeOK
<1>n. given.units \in Nat /\ given.get \in Nat
  BY <1>g, CaseFacts
<1>0. given \in Cases /\ Unset \in Reviews /\ Skipped \in Reviews
      /\ given.units \in Nat /\ given.get \in Nat
  BY <1>g, <1>n, Constants
<1>f. NothingFound \in Findings /\ \A f \in given.scans : f \in Findings
  BY <1>g, CaseFacts, Constants
<1>s. \A f \in given.finds : f \subseteq Severities
  BY <1>g, CaseFacts
<1>p. given.policy \in PolicyType
  BY <1>g, CaseFacts
<1> USE DEF JobStatus, SecPlaces, BugPlaces, AppPlaces
<1>1. ASSUME ScanEnds PROVE TypeOK'
  <2>1. PICK s \in ScanOver, f \in given.scans : scan' = [status |-> s, found |-> f]
    BY <1>1 DEF ScanEnds
  <2>2. scan' \in [status: ScanStatus, found: Findings]
    <3>1. f \in Findings /\ s \in ScanStatus
      BY <1>f, <2>1 DEF ScanOver, ScanStatus
    <3> QED
      BY <2>1, <3>1
  <2> QED
    BY <1>1, <2>2 DEF ScanEnds, TypeOK, bugbot, approval
<1>2. ASSUME SecurityStart PROVE TypeOK'
  BY <1>2 DEF SecurityStart, TypeOK, bugbot, approval
<1>3. ASSUME HandOff PROVE TypeOK'
  <2>1. scan' = scan \/ scan' = [scan EXCEPT !.status = "running"]
    BY <1>3 DEF HandOff
  <2>2. scan' \in [status: ScanStatus, found: Findings]
    BY <2>1 DEF TypeOK, ScanStatus
  <2> QED
    BY <1>3, <2>2 DEF HandOff, TypeOK, bugbot, approval, gateUnavailable, AwaitsScan
<1>4. ASSUME Poll PROVE TypeOK'
  <2>1. PICK answered \in BOOLEAN, t \in {0, given.get} :
          /\ seen' = SeesRun(answered)
          /\ \/ elapsed' = Later(elapsed + t)
             \/ elapsed' = Later(Later(elapsed + t) + delay)
          /\ delay' \in {delay, delay + 1}
          /\ spc' \in {"eval", "report", spc}
          /\ verdict' \in {verdict, gateUnavailable}
    BY <1>4 DEF Poll
  <2>2. elapsed + t \in Nat /\ elapsed \in Nat /\ delay \in Nat
    BY <1>0 DEF TypeOK
  <2>3. Later(elapsed + t) \in Nat
    BY <1>0, <2>2, LaterIsNat
  <2>4. Later(Later(elapsed + t) + delay) \in Nat
    BY <1>0, <2>2, <2>3, LaterIsNat
  <2>5. elapsed' \in Nat /\ delay' \in Nat
    BY <2>1, <2>2, <2>3, <2>4
  <2>6. seen' \in BOOLEAN
    BY <2>1 DEF TypeOK, SeesRun
  <2>7. spc' \in SecPlaces /\ verdict' \in {"none", "pass", "fail", "unavailable"}
    BY <2>1 DEF TypeOK, gateUnavailable
  <2>8. UNCHANGED <<given, scan, sec, gate, bugbot, cloud, approval, budget>>
    BY <1>4 DEF Poll
  <2> QED
    BY <2>5, <2>6, <2>7, <2>8 DEF TypeOK, bugbot, approval
<1>5. ASSUME Evaluate PROVE TypeOK'
  BY <1>5 DEF Evaluate, TypeOK, bugbot, approval, gateUnavailable
<1>6. ASSUME SecurityReports PROVE TypeOK'
  BY <1>0, <1>6 DEF SecurityReports, TypeOK, bugbot, approval
<1>7. ASSUME SecurityEnds PROVE TypeOK'
  BY <1>7 DEF SecurityEnds, TypeOK, bugbot, approval
<1>8. ASSUME BugbotStart PROVE TypeOK'
  <2>1. parts' \in [left: Nat, fallbacks: Nat, found: SUBSET Severities]
    BY <1>0, <1>8 DEF BugbotStart, NoParts
  <2> QED
    BY <1>0, <1>8, <2>1 DEF BugbotStart, TypeOK, security, approval
<1>9. ASSUME ReviewUnit PROVE TypeOK'
  <2>1. PICK f \in given.finds, fallback \in {0, 1} :
          parts' = [left |-> parts.left - 1,
                    fallbacks |-> parts.fallbacks + fallback,
                    found |-> parts.found \cup f]
    BY <1>9 DEF ReviewUnit
  <2>2. parts.left \in Nat /\ parts.left > 0 /\ parts.fallbacks \in Nat
        /\ parts.found \subseteq Severities
    BY <1>9 DEF ReviewUnit, TypeOK
  <2>3. parts.left - 1 \in Nat /\ parts.fallbacks + fallback \in Nat
        /\ parts.found \cup f \in SUBSET Severities
    BY <1>s, <2>1, <2>2
  <2>4. parts' \in [left: Nat, fallbacks: Nat, found: SUBSET Severities]
    BY <2>1, <2>3
  <2> QED
    BY <1>9, <2>4 DEF ReviewUnit, TypeOK, security, approval
<1>10. ASSUME Synthesis PROVE TypeOK'
  BY <1>10, SynthesisType DEF TypeOK, security, approval
<1>11. ASSUME BugbotEnds PROVE TypeOK'
  BY <1>11 DEF BugbotEnds, TypeOK, security, approval
<1>12. ASSUME CancelBugbot PROVE TypeOK'
  <2>1. "cancel" \in Events /\ Spend("cancel")
    BY <1>12 DEF CancelBugbot, Events
  <2>2. budget' \in [Events -> Nat] /\ budget'.retry = budget.retry
    BY <2>1, SpendType
  <2> QED
    BY <1>12, <2>2 DEF CancelBugbot, TypeOK, security, approval
<1>13. ASSUME RetryBugbot PROVE TypeOK'
  <2>1. "retry" \in Events /\ Spend("retry")
    BY <1>13 DEF RetryBugbot, Events
  <2>2. budget' \in [Events -> Nat] /\ budget'.retry <= given.events.retry
    <3>1. budget' \in [Events -> Nat] /\ budget'.retry <= budget.retry
          /\ budget.retry \in Nat /\ given.events.retry \in Nat
      BY <2>1, SpendType
    <3>2. budget'.retry \in Nat
      BY <3>1 DEF Events
    <3> QED
      BY <3>1, <3>2 DEF TypeOK
  <2> QED
    BY <1>13, <2>2 DEF RetryBugbot, TypeOK, security, approval
<1>14. ASSUME CloudRuns PROVE TypeOK'
  BY <1>14 DEF CloudRuns, TypeOK, security, bugbot, approval
<1>15. ASSUME CloudEnds PROVE TypeOK'
  BY <1>15 DEF CloudEnds, TypeOK, security, bugbot, approval
<1>16. ASSUME ApprovalStart PROVE TypeOK'
  BY <1>16 DEF ApprovalStart, TypeOK, security, bugbot
<1>17. ASSUME ApprovalBegins PROVE TypeOK'
  <2>1. app' \in JobStatus /\ apc' \in AppPlaces
    BY <1>17 DEF ApprovalBegins, TypeOK
  <2>2. ev' \in {ev, [ev EXCEPT !.ai = ai]}
    BY <1>17 DEF ApprovalBegins
  <2>3. UNCHANGED <<given, security, bugbot, cloud, event, posted, budget>>
    BY <1>17 DEF ApprovalBegins
  <2> QED
    BY <2>1, <2>2, <2>3 DEF TypeOK, security, bugbot
<1>18. ASSUME ApprovalFindings PROVE TypeOK'
  <2>1. PICK fetched \in BOOLEAN :
          ev' = [ev EXCEPT
                   !.fetched = fetched,
                   !.found = IF fetched THEN scan.found ELSE NothingFound,
                   !.gateFail = gate = "fail",
                   !.degraded = {k \in {"bugbot", "security"} :
                                  IF k = "bugbot" THEN bug = "failed"
                                  ELSE sec = "failed"},
                   !.pending = ~jobTerminal(cloud)]
    BY <1>18 DEF ApprovalFindings
  <2> DEFINE found == IF fetched THEN scan.found ELSE NothingFound
             degraded == {k \in {"bugbot", "security"} :
                            IF k = "bugbot" THEN bug = "failed" ELSE sec = "failed"}
  <2>2. found \in Findings /\ degraded \in SUBSET {"bugbot", "security"}
        /\ (gate = "fail") \in BOOLEAN /\ (~jobTerminal(cloud)) \in BOOLEAN
    <3>1. scan.found \in Findings
      BY DEF TypeOK
    <3> QED
      BY <1>f, <2>1, <3>1 DEF jobTerminal
  <2>3. ev' = [ev EXCEPT !.fetched = fetched, !.found = found,
                         !.gateFail = gate = "fail", !.degraded = degraded,
                         !.pending = ~jobTerminal(cloud)]
    BY <2>1
  <2> HIDE DEF found, degraded
  <2>4. ev' \in [ai: Reviews, found: Findings, fetched: BOOLEAN, gateFail: BOOLEAN,
                 degraded: SUBSET {"bugbot", "security"}, pending: BOOLEAN]
    BY <2>2, <2>3 DEF TypeOK
  <2>5. apc' = "policy"
        /\ UNCHANGED <<given, security, bugbot, cloud, app, event, posted, budget>>
    BY <1>18 DEF ApprovalFindings
  <2> QED
    BY <2>4, <2>5 DEF TypeOK, security, bugbot
<1>19. ASSUME ApprovalDecides PROVE TypeOK'
  <2>1. PICK reached \in BOOLEAN :
          event' = evaluateApproval(ev,
                     [given.policy EXCEPT !.readable = @ /\ reached])
    BY <1>19 DEF ApprovalDecides
  <2>2. event' \in Decisions
    <3>1. given.policy.onFail \in {"COMMENT", "REQUEST_CHANGES"}
      BY <1>p, PolicyFields
    <3>2. [given.policy EXCEPT !.readable = @ /\ reached].onFail = given.policy.onFail
      BY <1>p, PolicyReached
    <3> QED
      BY <2>1, <3>1, <3>2 DEF evaluateApproval, Decisions
  <2> QED
    BY <1>19, <2>2 DEF ApprovalDecides, TypeOK, security, bugbot
<1>20. ASSUME ApprovalPosts PROVE TypeOK'
  BY <1>20 DEF ApprovalPosts, TypeOK, security, bugbot
<1>21. ASSUME UNCHANGED vars PROVE TypeOK'
  BY <1>21 DEF vars, security, bugbot, approval, TypeOK
<1> QED
  BY <1>1, <1>2, <1>3, <1>4, <1>5, <1>6, <1>7, <1>8, <1>9, <1>10, <1>11, <1>12,
     <1>13, <1>14, <1>15, <1>16, <1>17, <1>18, <1>19, <1>20, <1>21
  DEF Next, SecurityStep, BugbotStep, CloudStep, ApprovalStep

(* Rows, places, findings and summaries are what the agents write. *)
THEOREM TypeCorrect == Spec => []TypeOK
<1>1. Init => TypeOK
  <2> SUFFICES ASSUME Init PROVE TypeOK
    OBVIOUS
  <2>0. given \in Cases
    BY DEF Init
  <2>1. /\ scan \in [status: ScanStatus, found: Findings]
        /\ parts \in [left: Nat, fallbacks: Nat, found: SUBSET Severities]
    <3>1. given.units \in Nat
      BY <2>0, CaseFacts
    <3> QED
      BY <3>1, Constants DEF Init, ScanStatus, NoParts
  <2>2. ev \in [ai: Reviews, found: Findings, fetched: BOOLEAN, gateFail: BOOLEAN,
                degraded: SUBSET {"bugbot", "security"}, pending: BOOLEAN]
    BY Constants DEF Init, NoEvidence
  <2>3. budget \in [Events -> Nat] /\ budget.retry <= given.events.retry
    <3>1. given.events \in [Events -> 0..9] /\ budget = given.events
      BY <2>0, CaseFacts DEF Init
    <3>2. given.events.retry \in 0..9
      BY <3>1 DEF Events
    <3> QED
      BY <3>1, <3>2
  <2> QED
    BY <2>1, <2>2, <2>3, Constants
    DEF Init, TypeOK, Planned, JobStatus, SecPlaces, BugPlaces, AppPlaces
<1>2. TypeOK /\ [Next]_vars => TypeOK'
  BY TypeNext
<1> QED
  BY <1>1, <1>2, PTL DEF Spec

-----------------------------------------------------------------------------
(* A verdict is about a scan that has ended. *)

LEMMA ScanNext ==
  ASSUME TypeOK, ScanInv, [Next]_vars
  PROVE  ScanInv'
<1>0. "completed" \in ScanOver /\ "running" \notin ScanOver /\ "absent" \notin ScanOver
      /\ gateUnavailable \notin {"pass", "fail"}
      /\ scan \in [status: ScanStatus, found: Findings]
  BY DEF ScanOver, gateUnavailable, TypeOK
<1>1. ASSUME ScanEnds PROVE ScanInv'
  <2>1. PICK s \in ScanOver, f \in given.scans : scan' = [status |-> s, found |-> f]
    BY <1>1 DEF ScanEnds
  <2>2. scan.status = "running" /\ scan'.status \in ScanOver
    BY <1>1, <2>1 DEF ScanEnds
  <2>3. UNCHANGED <<given, sec, spc, verdict, gate>>
    BY <1>1 DEF ScanEnds
  <2>4. verdict \notin {"pass", "fail"} /\ (~given.aiOnly => gate \notin {"pass", "fail"})
    BY <1>0, <2>2 DEF ScanInv, Tells
  <2> QED
    BY <1>0, <2>2, <2>3, <2>4 DEF ScanInv, Tells
<1>2. ASSUME SecurityStart PROVE ScanInv'
  BY <1>2 DEF SecurityStart, ScanInv, Tells
<1>3. ASSUME HandOff PROVE ScanInv'
  <2>1. /\ spc = "handoff" /\ spc' \in {"poll", "report"}
        /\ verdict' \in {verdict, gateUnavailable}
        /\ UNCHANGED <<given, sec, gate>>
    BY <1>3 DEF HandOff, AwaitsScan
  <2>2. scan'.found = scan.found /\ scan'.status \in {"absent", "running"}
    <3>1. scan' = scan \/ scan' = [scan EXCEPT !.status = "running"]
      BY <1>3 DEF HandOff
    <3> QED
      BY <1>0, <2>1, <3>1 DEF ScanInv
  <2>3. verdict = "none" /\ gate = "none" /\ scan.found = NothingFound
    BY <1>0, <2>1 DEF ScanInv
  <2> QED
    BY <1>0, <2>1, <2>2, <2>3 DEF ScanInv, Tells
<1>4. ASSUME Poll PROVE ScanInv'
  <2>1. /\ spc = "poll" /\ UNCHANGED <<given, scan, sec, gate>>
        /\ \/ spc' = "eval" /\ verdict' = verdict /\ scan.status \in ScanOver
           \/ spc' \in {"poll", "report"} /\ verdict' \in {verdict, gateUnavailable}
    BY <1>4 DEF Poll
  <2> QED
    BY <1>0, <2>1 DEF ScanInv, Tells
<1>5. ASSUME Evaluate PROVE ScanInv'
  <2>1. /\ spc = "eval" /\ spc' = "report" /\ UNCHANGED <<given, scan, sec, gate>>
        /\ \/ verdict' = IF OSABlocks(scan.found, given.gateMin) THEN "fail" ELSE "pass"
           \/ verdict' = gateUnavailable
    BY <1>5 DEF Evaluate
  <2>2. Tells(verdict)'
    BY <1>0, <2>1 DEF ScanInv, Tells
  <2> QED
    BY <2>1, <2>2 DEF ScanInv, Tells
<1>6. ASSUME SecurityReports PROVE ScanInv'
  BY <1>6 DEF SecurityReports, ScanInv, Tells
<1>7. ASSUME SecurityEnds PROVE ScanInv'
  BY <1>7 DEF SecurityEnds, ScanInv, Tells
<1>8. ASSUME UNCHANGED <<given, security>> PROVE ScanInv'
  BY <1>8 DEF security, ScanInv, Tells
<1> QED
  BY <1>1, <1>2, <1>3, <1>4, <1>5, <1>6, <1>7, <1>8
  DEF Next, SecurityStep, BugbotStep, CloudStep, ApprovalStep, BugbotStart,
      ReviewUnit, Synthesis, BugbotEnds, CancelBugbot, RetryBugbot, CloudRuns,
      CloudEnds, ApprovalStart, ApprovalBegins, ApprovalFindings,
      ApprovalDecides, ApprovalPosts, vars

-----------------------------------------------------------------------------
(* Once approval has started the rows of the others stand still. *)

(* A row that has ended stays as it is, unless bugbot is retried. *)
LEMMA RowsStand ==
  ASSUME TypeOK, ScanInv, RowsInv, [Next]_vars
  PROVE  /\ jobTerminal(sec) => sec' = sec /\ gate' = gate
         /\ jobTerminal(cloud) => cloud' = cloud
         /\ Untried' => Untried
         /\ Untried' /\ jobTerminal(bug) => bug' = bug
         /\ given' = given
         /\ \A s \in Severities : scan.found[s] > 0 => scan'.found = scan.found
<1>0. "queued" \in InFlight /\ "running" \in InFlight
  BY DEF InFlight
<1>1. jobTerminal(sec) => spc = "idle" /\ sec # "queued"
  BY <1>0 DEF ScanInv, jobTerminal
<1>2. jobTerminal(sec) => sec' = sec /\ gate' = gate
  BY <1>1
  DEF Next, SecurityStep, BugbotStep, CloudStep, ApprovalStep, SecurityStart,
      HandOff, Poll, Evaluate, SecurityReports, SecurityEnds, BugbotStart,
      ReviewUnit, Synthesis, BugbotEnds, CancelBugbot, RetryBugbot, CloudRuns,
      CloudEnds, ApprovalStart, ApprovalBegins, ApprovalFindings,
      ApprovalDecides, ApprovalPosts, ScanEnds, security, vars
<1>3. jobTerminal(cloud) => cloud' = cloud
  BY <1>0
  DEF Next, SecurityStep, BugbotStep, CloudStep, ApprovalStep, SecurityStart,
      HandOff, Poll, Evaluate, SecurityReports, SecurityEnds, BugbotStart,
      ReviewUnit, Synthesis, BugbotEnds, CancelBugbot, RetryBugbot, CloudRuns,
      CloudEnds, ApprovalStart, ApprovalBegins, ApprovalFindings,
      ApprovalDecides, ApprovalPosts, ScanEnds, vars, jobTerminal
<1>4. given' = given
  BY DEF Next, SecurityStep, BugbotStep, CloudStep, ApprovalStep, SecurityStart,
      HandOff, Poll, Evaluate, SecurityReports, SecurityEnds, BugbotStart,
      ReviewUnit, Synthesis, BugbotEnds, CancelBugbot, RetryBugbot, CloudRuns,
      CloudEnds, ApprovalStart, ApprovalBegins, ApprovalFindings,
      ApprovalDecides, ApprovalPosts, ScanEnds, vars
<1>5. /\ RetryBugbot => ~Untried'
      /\ ~RetryBugbot => budget'.retry = budget.retry
  <2>1. ASSUME RetryBugbot PROVE ~Untried'
    <3>1. "retry" \in Events /\ Spend("retry")
      BY <2>1 DEF RetryBugbot, Events
    <3>2. budget'.retry < budget.retry /\ budget.retry \in Nat
          /\ budget' \in [Events -> Nat] /\ given.events.retry \in Nat
      BY <3>1, SpendType
    <3>3. budget'.retry \in Nat /\ budget.retry <= given.events.retry
      BY <3>1, <3>2 DEF TypeOK
    <3> QED
      BY <1>4, <3>2, <3>3 DEF Untried
  <2>2. ASSUME ~RetryBugbot PROVE budget'.retry = budget.retry
    <3>1. ASSUME CancelBugbot PROVE budget'.retry = budget.retry
      <4>1. "cancel" \in Events /\ Spend("cancel")
        BY <3>1 DEF CancelBugbot, Events
      <4> QED
        BY <4>1, SpendType
    <3> QED
      BY <2>2, <3>1
      DEF Next, SecurityStep, BugbotStep, CloudStep, ApprovalStep, SecurityStart,
          HandOff, Poll, Evaluate, SecurityReports, SecurityEnds, BugbotStart,
          ReviewUnit, Synthesis, BugbotEnds, CloudRuns, CloudEnds, ApprovalStart,
          ApprovalBegins, ApprovalFindings, ApprovalDecides, ApprovalPosts,
          ScanEnds, vars
  <2> QED
    BY <2>1, <2>2
<1>6. Untried' => Untried
  BY <1>4, <1>5 DEF Untried
<1>7. ASSUME Untried', jobTerminal(bug) PROVE bug' = bug
  <2>1. bpc # "idle" => bug = "cancelled"
    BY <1>0, <1>6, <1>7 DEF RowsInv, jobTerminal
  <2>2. ~RetryBugbot
    BY <1>5, <1>7
  <2>3. bug \notin InFlight /\ bug # "queued"
    BY <1>0, <1>7 DEF jobTerminal
  <2> QED
    BY <2>1, <2>2, <2>3
    DEF Next, SecurityStep, BugbotStep, CloudStep, ApprovalStep, SecurityStart,
      HandOff, Poll, Evaluate, SecurityReports, SecurityEnds, BugbotStart,
      ReviewUnit, Synthesis, BugbotEnds, CancelBugbot, CloudRuns, CloudEnds,
      ApprovalStart, ApprovalBegins, ApprovalFindings, ApprovalDecides,
      ApprovalPosts, ScanEnds, bugbot, vars
<1>8. ASSUME NEW s \in Severities, scan.found[s] > 0 PROVE scan'.found = scan.found
  <2>1. scan.status \in ScanOver
    <3>1. NothingFound[s] = 0
      BY Constants
    <3> QED
      BY <1>8, <3>1 DEF ScanInv
  <2>2. scan.status # "running"
    BY <2>1 DEF ScanOver
  <2>3. HandOff => scan'.found = scan.found
    <3>1. HandOff => scan' = scan \/ scan' = [scan EXCEPT !.status = "running"]
      BY DEF HandOff
    <3> QED
      BY <3>1 DEF TypeOK
  <2> QED
    BY <2>2, <2>3
    DEF Next, SecurityStep, BugbotStep, CloudStep, ApprovalStep, SecurityStart,
        Poll, Evaluate, SecurityReports, SecurityEnds, BugbotStart, ReviewUnit,
        Synthesis, BugbotEnds, CancelBugbot, RetryBugbot, CloudRuns, CloudEnds,
        ApprovalStart, ApprovalBegins, ApprovalFindings, ApprovalDecides,
        ApprovalPosts, ScanEnds, security, vars
<1> QED
  BY <1>2, <1>3, <1>4, <1>6, <1>7, <1>8

LEMMA RowsNext ==
  ASSUME TypeOK, ScanInv, RowsInv, [Next]_vars
  PROVE  RowsInv'
<1>0. /\ jobTerminal(sec) => sec' = sec
      /\ jobTerminal(cloud) => cloud' = cloud
      /\ Untried' => Untried
      /\ Untried' /\ jobTerminal(bug) => bug' = bug
  BY RowsStand
<1>1. Concluded(ai')
  <2>1. CASE Synthesis
    BY <2>1, SynthesisType
  <2>2. CASE BugbotStart
    BY <2>2, Constants DEF BugbotStart, RowsInv, Concluded
  <2>3. CASE ai' = ai
    BY <2>3 DEF RowsInv
  <2> QED
    BY <2>1, <2>2, <2>3
    DEF Next, SecurityStep, BugbotStep, CloudStep, ApprovalStep, SecurityStart,
        HandOff, Poll, Evaluate, SecurityReports, SecurityEnds, ReviewUnit,
        BugbotEnds, CancelBugbot, RetryBugbot, CloudRuns, CloudEnds,
        ApprovalStart, ApprovalBegins, ApprovalFindings, ApprovalDecides,
        ApprovalPosts, ScanEnds, bugbot, vars
<1>2. Concluded(ev'.ai)
  <2>1. ev'.ai \in {ev.ai, ai}
    <3>1. ApprovalBegins => ev'.ai \in {ev.ai, ai}
      BY DEF ApprovalBegins, TypeOK
    <3>2. ApprovalFindings => ev'.ai = ev.ai
      BY DEF ApprovalFindings, TypeOK
    <3> QED
      BY <3>1, <3>2
      DEF Next, SecurityStep, BugbotStep, CloudStep, ApprovalStep, SecurityStart,
          HandOff, Poll, Evaluate, SecurityReports, SecurityEnds, BugbotStart,
          ReviewUnit, Synthesis, BugbotEnds, CancelBugbot, RetryBugbot,
          CloudRuns, CloudEnds, ApprovalStart, ApprovalDecides, ApprovalPosts,
          ScanEnds, approval, vars
  <2> QED
    BY <2>1 DEF RowsInv
<1>3. ASSUME Untried', bpc' # "idle" PROVE bug' \in {"running", "cancelled"}
  <2>1. Untried
    BY <1>0, <1>3
  <2>2. ~RetryBugbot
    <3>1. ASSUME RetryBugbot PROVE FALSE
      <4>1. "retry" \in Events /\ Spend("retry") /\ given' = given
        BY <3>1 DEF RetryBugbot, Events
      <4>2. budget'.retry < budget.retry /\ budget.retry \in Nat
            /\ budget' \in [Events -> Nat]
        BY <4>1, SpendType
      <4>3. budget'.retry \in Nat
        BY <4>1, <4>2
      <4> QED
        BY <1>3, <2>1, <4>1, <4>2, <4>3 DEF Untried
    <3> QED
      BY <3>1
  <2>3. bpc # "idle" => bug \in {"running", "cancelled"}
    BY <2>1 DEF RowsInv
  <2> QED
    BY <1>3, <2>2, <2>3
    DEF Next, SecurityStep, BugbotStep, CloudStep, ApprovalStep, SecurityStart,
        HandOff, Poll, Evaluate, SecurityReports, SecurityEnds, BugbotStart,
        ReviewUnit, Synthesis, BugbotEnds, CancelBugbot, CloudRuns, CloudEnds,
        ApprovalStart, ApprovalBegins, ApprovalFindings, ApprovalDecides,
        ApprovalPosts, ScanEnds, bugbot, vars
<1>4. ASSUME apc' # "idle"
      PROVE  /\ jobTerminal(sec)' /\ jobTerminal(cloud)'
             /\ Untried' => jobTerminal(bug)'
  <2>1. CASE apc # "idle"
    BY <1>0, <2>1 DEF RowsInv, jobTerminal
  <2>2. CASE apc = "idle"
    <3>1. ApprovalStart
      BY <1>4, <2>2
      DEF Next, SecurityStep, BugbotStep, CloudStep, ApprovalStep, SecurityStart,
          HandOff, Poll, Evaluate, SecurityReports, SecurityEnds, BugbotStart,
          ReviewUnit, Synthesis, BugbotEnds, CancelBugbot, RetryBugbot,
          CloudRuns, CloudEnds, ApprovalBegins, ApprovalFindings,
          ApprovalDecides, ApprovalPosts, ScanEnds, approval, vars
    <3> QED
      BY <3>1 DEF ApprovalStart, jobTerminal, security, bugbot
  <2> QED
    BY <2>1, <2>2
<1> QED
  BY <1>1, <1>2, <1>3, <1>4 DEF RowsInv

-----------------------------------------------------------------------------
(* The decision follows from the evidence. *)

(* What a fetched finding is about stays on the peer. *)
LEMMA GroundedStays ==
  ASSUME TypeOK, ScanInv, RowsInv, [Next]_vars, Grounded, apc # "idle", ev' = ev
  PROVE  Grounded'
<1>1. jobTerminal(sec) /\ jobTerminal(cloud) /\ (Untried => jobTerminal(bug))
  BY DEF RowsInv
<1>2. sec' = sec /\ gate' = gate
  BY <1>1, RowsStand
<1>3. Untried' => Untried /\ bug' = bug
  BY <1>1, RowsStand
<1>4. \A s \in Severities : ev.found[s] > 0 => scan'.found[s] > 0
  <2>1. SUFFICES ASSUME NEW s \in Severities, ev.found[s] > 0
                 PROVE  scan'.found[s] > 0
    OBVIOUS
  <2>2. scan.found[s] > 0
    BY <2>1 DEF Grounded
  <2>3. scan'.found = scan.found
    BY <2>2, RowsStand
  <2> QED
    BY <2>2, <2>3
<1> QED
  BY <1>2, <1>3, <1>4 DEF Grounded

LEMMA DecisionNext ==
  ASSUME TypeOK, ScanInv, RowsInv, DecisionInv, [Next]_vars
  PROVE  DecisionInv'
<1>0. /\ given' = given
      /\ apc # "idle" => jobTerminal(sec) /\ jobTerminal(cloud) /\ sec' = sec
      /\ apc # "idle" /\ Untried' => Untried /\ bug' = bug
  BY RowsStand DEF RowsInv
<1>1. ASSUME UNCHANGED approval PROVE DecisionInv'
  <2>1. ev' = ev /\ event' = event /\ posted' = posted /\ apc' = apc
    BY <1>1 DEF approval
  <2>2. apc = "policy" \/ event # "none" => apc # "idle"
    BY DEF DecisionInv
  <2>3. apc' = "policy" \/ event' # "none" => Grounded'
    BY <2>1, <2>2, GroundedStays DEF DecisionInv
  <2>4. Abstains(ev)' <=> Abstains(ev)
    BY <1>0, <2>1 DEF Abstains
  <2>5. Objects(ev, [given.policy EXCEPT !.readable = FALSE])'
          <=> Objects(ev, [given.policy EXCEPT !.readable = FALSE])
    BY <1>0, <2>1 DEF Objects, Calibrated, minScore
  <2>6. event = "APPROVE" => (Untried' => Required')
    BY <1>0, <2>2 DEF DecisionInv, Required
  <2>7. Objects(ev, given.policy)' <=> Objects(ev, given.policy)
    BY <1>0, <2>1 DEF Objects, Calibrated, minScore
  <2> QED
    BY <1>0, <2>1, <2>3, <2>4, <2>5, <2>6, <2>7 DEF DecisionInv
<1>2. ASSUME ApprovalStart PROVE DecisionInv'
  BY <1>2 DEF ApprovalStart, DecisionInv
<1>3. ASSUME ApprovalBegins PROVE DecisionInv'
  <2>1. apc = "begin" /\ apc' \in {"findings", "end"} /\ event = "none" /\ posted = "none"
    BY <1>3 DEF ApprovalBegins, DecisionInv
  <2> QED
    BY <1>3, <2>1 DEF ApprovalBegins, DecisionInv
<1>4. ASSUME ApprovalFindings PROVE DecisionInv'
  <2>1. /\ apc = "findings" /\ apc' = "policy" /\ event = "none" /\ posted = "none"
        /\ UNCHANGED <<given, security, bugbot, cloud, event, posted, budget>>
    BY <1>4 DEF ApprovalFindings, DecisionInv
  <2>2. PICK fetched \in BOOLEAN :
          ev' = [ev EXCEPT
                   !.fetched = fetched,
                   !.found = IF fetched THEN scan.found ELSE NothingFound,
                   !.gateFail = gate = "fail",
                   !.degraded = {k \in {"bugbot", "security"} :
                                  IF k = "bugbot" THEN bug = "failed"
                                  ELSE sec = "failed"},
                   !.pending = ~jobTerminal(cloud)]
    BY <1>4 DEF ApprovalFindings
  <2>3. /\ ev'.gateFail = (gate = "fail") /\ ev'.pending = ~jobTerminal(cloud)
        /\ ev'.degraded = {k \in {"bugbot", "security"} :
                             IF k = "bugbot" THEN bug = "failed" ELSE sec = "failed"}
        /\ ev'.found \in {scan.found, NothingFound}
    BY <2>2 DEF TypeOK
  <2>4. \A s \in Severities : ev'.found[s] > 0 => scan.found[s] > 0
    <3>1. \A s \in Severities : NothingFound[s] = 0
      BY Constants
    <3> QED
      BY <2>3, <3>1
  <2>5. ~ev'.pending
    BY <1>0, <2>1, <2>3
  <2>6. Grounded'
    BY <2>1, <2>3, <2>4, <2>5 DEF Grounded, security, bugbot
  <2> QED
    BY <2>1, <2>6 DEF DecisionInv
<1>5. ASSUME ApprovalDecides PROVE DecisionInv'
  <2>1. /\ apc = "policy" /\ apc' = "post" /\ event = "none" /\ posted = "none"
        /\ UNCHANGED <<given, security, bugbot, cloud, app, ev, posted, budget>>
    BY <1>5 DEF ApprovalDecides, DecisionInv
  <2>2. PICK reached \in BOOLEAN :
          event' = evaluateApproval(ev,
                     [given.policy EXCEPT !.readable = @ /\ reached])
    BY <1>5 DEF ApprovalDecides
  <2> DEFINE p == [given.policy EXCEPT !.readable = @ /\ reached]
  <2>3. given.policy \in PolicyType
    BY CaseFacts DEF TypeOK
  <2>4. /\ p.readable = (given.policy.readable /\ reached)
        /\ p.onFail = given.policy.onFail /\ p.minSev = given.policy.minSev
        /\ p.maxRisk = given.policy.maxRisk /\ p.require = given.policy.require
    BY <2>2, <2>3, PolicyReached
  <2>5. event' = evaluateApproval(ev, p)
    BY <2>2
  <2> HIDE DEF p
  <2>6. Grounded'
    BY <2>1, GroundedStays DEF DecisionInv
  <2>7. Abstains(ev)' <=> Abstains(ev)
    BY <2>1 DEF Abstains
  <2>8. Objects(ev, given.policy)' <=> Objects(ev, given.policy)
    BY <2>1 DEF Objects, Calibrated, minScore
  <2>9. p.readable => (Objects(ev, p) <=> Objects(ev, given.policy))
    BY <2>4 DEF Objects
  <2>10. ~p.readable => (Objects(ev, p) <=>
                          Objects(ev, [given.policy EXCEPT !.readable = FALSE]))
    <3>1. [given.policy EXCEPT !.readable = FALSE].readable = FALSE
      BY <2>3 DEF PolicyType
    <3> QED
      BY <3>1 DEF Objects
  <2>11. event' \in {"APPROVE", "REQUEST_CHANGES"} => ~Abstains(ev)
    BY <2>5 DEF evaluateApproval
  <2>12. event' = "APPROVE" => /\ ~Objects(ev, p) /\ p.readable
                               /\ p.onFail # "APPROVE" => ~Fails(ev, p)
    BY <2>5 DEF evaluateApproval
  <2>13. p.onFail # "APPROVE"
    BY <2>3, <2>4, PolicyFields
  <2>14. event' = "APPROVE" => Required
    BY <2>4, <2>12, <2>13 DEF Fails, Required
  <2>15. Required' <=> Required
    BY <2>1 DEF Required, security, bugbot
  <2>16. event' = "REQUEST_CHANGES" =>
           Objects(ev, p) \/ (p.readable /\ p.onFail = "REQUEST_CHANGES")
    BY <2>5 DEF evaluateApproval
  <2>17. Objects(ev, [given.policy EXCEPT !.readable = FALSE])'
           <=> Objects(ev, [given.policy EXCEPT !.readable = FALSE])
    BY <2>1 DEF Objects, Calibrated, minScore
  <2> QED
    BY <2>1, <2>4, <2>6, <2>7, <2>8, <2>9, <2>10, <2>11, <2>12, <2>13, <2>14,
       <2>15, <2>16, <2>17 DEF DecisionInv
<1>6. ASSUME ApprovalPosts PROVE DecisionInv'
  <2>1. /\ apc = "post" /\ apc' = "end" /\ posted = "none"
        /\ posted' \in {"none", event}
        /\ UNCHANGED <<given, security, bugbot, cloud, ev, event, budget>>
    BY <1>6 DEF ApprovalPosts, DecisionInv
  <2>2. event # "none" => Grounded'
    BY <2>1, GroundedStays DEF DecisionInv
  <2>3. /\ Abstains(ev)' <=> Abstains(ev)
        /\ Objects(ev, given.policy)' <=> Objects(ev, given.policy)
        /\ Objects(ev, [given.policy EXCEPT !.readable = FALSE])'
             <=> Objects(ev, [given.policy EXCEPT !.readable = FALSE])
    BY <2>1 DEF Abstains, Objects, Calibrated, minScore
  <2>4. Required' <=> Required
    BY <2>1 DEF Required, security, bugbot
  <2>5. Untried' <=> Untried
    BY <2>1 DEF Untried
  <2> QED
    BY <2>1, <2>2, <2>3, <2>4, <2>5 DEF DecisionInv
<1> QED
  BY <1>1, <1>2, <1>3, <1>4, <1>5, <1>6
  DEF Next, SecurityStep, BugbotStep, CloudStep, ApprovalStep, SecurityStart,
      HandOff, Poll, Evaluate, SecurityReports, SecurityEnds, BugbotStart,
      ReviewUnit, Synthesis, BugbotEnds, CancelBugbot, RetryBugbot, CloudRuns,
      CloudEnds, ScanEnds, vars

-----------------------------------------------------------------------------
(* Together. *)

LEMMA InvInductive == Spec => [](TypeOK /\ ApprovalInv)
<1>1. Init => ApprovalInv
  <2> SUFFICES ASSUME Init PROVE ApprovalInv
    OBVIOUS
  <2>1. ScanInv
    BY DEF Init, ScanInv, Tells, Planned
  <2>2. RowsInv
    BY DEF Init, RowsInv, Concluded, NoEvidence
  <2>3. DecisionInv
    BY DEF Init, DecisionInv
  <2> QED
    BY <2>1, <2>2, <2>3 DEF ApprovalInv
<1>2. TypeOK /\ ApprovalInv /\ [Next]_vars => ApprovalInv'
  BY ScanNext, RowsNext, DecisionNext DEF ApprovalInv
<1>3. Spec => []TypeOK
  BY TypeCorrect
<1> QED
  BY <1>1, <1>2, <1>3, PTL DEF Spec

(* gateAfterScan: a verdict that passes or fails is about a scan that has  *)
(* ended, and says of its findings what min_severity says of them.         *)
THEOREM GateHolds == Spec => []GateIsAboutAScan
<1>1. ApprovalInv => GateIsAboutAScan
  BY DEF ApprovalInv, ScanInv, Tells, GateIsAboutAScan
<1> QED
  BY <1>1, InvInductive, PTL

(* evaluateApproval: an APPROVE on GitHub is borne out by the rows of all  *)
(* the children, by the review that was read and by the policy, although   *)
(* these were read at different times.                                     *)
THEOREM ApproveHolds == Spec => []ApproveOnEvidence
<1>1. TypeOK /\ ApprovalInv => ApproveOnEvidence
  <2> SUFFICES ASSUME TypeOK, ApprovalInv, posted = "APPROVE", Untried
               PROVE  /\ given.auto
                      /\ bug # "failed" /\ sec # "failed" /\ jobTerminal(cloud)
                      /\ gate # "fail"
                      /\ ~\E s \in ev.ai.found : s >= 3
                      /\ ev.ai.verdict \notin {"request_changes", "needs_context"}
                      /\ given.policy.readable
                      /\ given.policy.minSev > 0 =>
                           ~OSABlocks(ev.found, given.policy.minSev)
                      /\ Required
    BY DEF ApproveOnEvidence, Untried, Required
  <2>1. /\ event = "APPROVE" /\ Grounded /\ ~Abstains(ev)
        /\ ~Objects(ev, given.policy) /\ given.policy.readable /\ Required
    BY DEF ApprovalInv, DecisionInv
  <2>2. apc # "idle"
    BY <2>1 DEF ApprovalInv, DecisionInv
  <2>3. jobTerminal(cloud)
    BY <2>2 DEF ApprovalInv, RowsInv
  <2>4. given.auto /\ ev.degraded = {}
    BY <2>1 DEF Abstains
  <2>5. bug # "failed" /\ sec # "failed"
    BY <2>1, <2>4 DEF Grounded
  <2>6. ~ev.gateFail /\ gate # "fail"
    BY <2>1 DEF Objects, Grounded
  <2>7. ~\E s \in ev.ai.found : s >= 3
    <3>1. ev.ai.found \subseteq 1..5 /\ ev.ai.found \cap (3..5) = {}
      BY <2>1 DEF Objects, hasBlockerOrHighFinding, High, TypeOK, Reviews, Severities
    <3> QED
      BY <3>1
  <2>8. given.policy.minSev > 0 => ~OSABlocks(ev.found, given.policy.minSev)
    BY <2>1 DEF Objects, severityAtLeast, OSABlocks
  <2>9. ev.ai.verdict \notin {"request_changes", "needs_context"}
    BY <2>1 DEF Objects
  <2> QED
    BY <2>1, <2>3, <2>4, <2>5, <2>6, <2>7, <2>8, <2>9
<1> QED
  BY <1>1, InvInductive, PTL

(* gate_verdict.go: changes are requested for something a reviewer found   *)
(* or doubts, a review that fell back on the rules in all its units        *)
(* included, or by the policy's own clauses, never for a service that      *)
(* could not be reached or a child that failed.                            *)
THEOREM RefusalHolds == Spec => []RefusalHasCause
<1>1. TypeOK /\ ApprovalInv => RefusalHasCause
  <2> DEFINE Cause ==
        \/ ev.ai.found # {} \/ ev.ai.fallback
        \/ ev.ai.verdict \in {"request_changes", "needs_context"}
        \/ ev.ai.status = "clean" /\ ev.ai.conf < minScore
        \/ \E s \in Severities : scan.found[s] > 0
        \/ given.policy.readable /\ given.policy.onFail = "REQUEST_CHANGES"
  <2> SUFFICES ASSUME TypeOK, ApprovalInv, posted = "REQUEST_CHANGES", Untried
               PROVE  bug # "failed" /\ sec # "failed" /\ Cause
    BY DEF RefusalHasCause, Untried
  <2>1. event = "REQUEST_CHANGES" /\ Grounded /\ ~Abstains(ev)
    BY DEF ApprovalInv, DecisionInv
  <2>2. bug # "failed" /\ sec # "failed"
    BY <2>1 DEF Abstains, Grounded
  <2>3. ASSUME NEW p, Objects(ev, p) PROVE Cause
    <3>1. CASE Calibrated(ev.ai) < minScore
      <4>1. minScore \in Int /\ ev.ai.conf \in Int
        <5>1. given.score \in 0..100
          BY CaseFacts DEF TypeOK
        <5>2. ev.ai \in Reviews
          BY DEF TypeOK
        <5>3. ev.ai.conf \in 0..100
          BY <5>2 DEF Reviews
        <5> QED
          BY <5>1, <5>3 DEF minScore
      <4>2. ev.ai.conf < minScore /\ confidenceWhyIsActionable(ev.ai)
        BY <3>1, <4>1 DEF Calibrated
      <4>3. ev.ai.status # "skipped" /\ Concluded(ev.ai)
        BY <2>1 DEF Abstains, ApprovalInv, RowsInv
      <4>4. CASE ev.ai = Unset
        BY <4>2, <4>4, Constants DEF confidenceWhyIsActionable
      <4> QED
        BY <4>2, <4>3, <4>4 DEF Concluded
    <3>2. CASE hasBlockerOrHighFinding(ev.ai)
      BY <3>2 DEF hasBlockerOrHighFinding
    <3>3. CASE ev.ai.status = "findings"
      BY <3>3, Constants DEF ApprovalInv, RowsInv, Concluded
    <3>4. CASE ev.gateFail
      <4>1. gate = "fail"
        BY <2>1, <3>4 DEF Grounded
      <4>2. OSABlocks(scan.found, given.gateMin)
        BY <4>1 DEF ApprovalInv, ScanInv, Tells
      <4> QED
        BY <4>2 DEF OSABlocks
    <3>5. ASSUME NEW want, severityAtLeast(ev.found, want) PROVE Cause
      BY <2>1, <3>5 DEF severityAtLeast, Grounded
    <3> HIDE DEF Cause
    <3>6. CASE severityAtLeast(ev.found, IF p.readable THEN p.minSev ELSE 3)
      BY <3>5, <3>6
    <3>7. CASE ev.ai.verdict \in {"request_changes", "needs_context"}
      BY <3>7 DEF Cause
    <3> QED
      BY <2>3, <3>1, <3>2, <3>3, <3>4, <3>6, <3>7 DEF Objects
  <2>4. \/ Objects(ev, given.policy)
        \/ Objects(ev, [given.policy EXCEPT !.readable = FALSE])
        \/ given.policy.readable /\ given.policy.onFail = "REQUEST_CHANGES"
    BY <2>1 DEF ApprovalInv, DecisionInv
  <2> QED
    BY <2>2, <2>3, <2>4
<1> QED
  BY <1>1, InvInductive, PTL


-----------------------------------------------------------------------------
(* Checkup: the repository's own tests in docker.                          *)

(* Induction over the natural numbers for a set, and the largest element.  *)

LEMMA CheckupSmallest ==
  ASSUME NEW T, T \subseteq Nat, T # {}
  PROVE  \E x \in T : \A y \in T : x <= y
<1>1. PICK x \in T : \A y \in T : ~(<<y, x>> \in OpToRel(<, Nat))
  <2> DEFINE R == OpToRel(<, Nat)
  <2>1. IsWellFoundedOn(R, Nat)
    BY NatLessThanWellFounded
  <2> HIDE DEF R
  <2> QED
    BY <2>1, WFMin DEF R
<1>2. \A y \in T : ~(y < x)
  BY <1>1 DEF OpToRel
<1>3. x \in Nat
  BY <1>1
<1>4. \A y \in T : x <= y
  BY <1>2, <1>3
<1> QED
  BY <1>4

LEMMA CheckupInduction ==
  ASSUME NEW T, 0 \in T, \A n \in Nat : n \in T => n + 1 \in T
  PROVE  Nat \subseteq T
<1> DEFINE left == Nat \ T
<1> SUFFICES ASSUME left # {}
             PROVE  FALSE
  OBVIOUS
<1>1. PICK x \in left : \A y \in left : x <= y
  <2>1. left \subseteq Nat
    OBVIOUS
  <2> HIDE DEF left
  <2> QED
    BY <2>1, CheckupSmallest
<1>2. x \in Nat /\ x # 0 /\ x \notin T
  BY <1>1
<1>3. x - 1 \in Nat /\ x - 1 \notin left
  BY <1>1, <1>2
<1>4. x - 1 \in T
  BY <1>3
<1>5. (x - 1) + 1 \in T
  BY <1>3, <1>4
<1> QED
  BY <1>2, <1>5

LEMMA CheckupLargestIs ==
  ASSUME NEW n \in Nat, NEW s \in SUBSET (1..n), n \in s
  PROVE  Max(s) = n
<1>1. \A y \in s : n >= y
  OBVIOUS
<1>2. \A x \in s : (\A y \in s : x >= y) => x = n
  OBVIOUS
<1> QED
  BY <1>1, <1>2 DEF Max

(* What policeSteps makes of the first steps: the fold, step by step.      *)

CheckupPolice(raw, acc, i) ==
  LET why == stepRefusal(raw, i, acc.kept)
  IN  IF capped(acc) THEN acc
      ELSE IF Len(acc.kept) >= MaxSteps THEN note(acc, "step", i, "cap")
      ELSE IF why = "" THEN keep(acc, keptStep(raw, i))
      ELSE note(acc, "step", i, why)

CheckupFolding(raw, iter) ==
  iter = [s \in SUBSET DOMAIN indices(raw) |->
            IF s = {} THEN nothingKept
            ELSE CheckupPolice(raw, iter[s \ {Max(s)}], indices(raw)[Max(s)])]

CheckupFoldingTo(raw, iter, n) ==
  iter = [s \in SUBSET (1..n) |->
            IF s = {} THEN nothingKept ELSE CheckupPolice(raw, iter[s \ {Max(s)}], Max(s))]

LEMMA CheckupFoldIs ==
  ASSUME NEW raw
  PROVE  policeSteps(raw) = (CHOOSE iter : CheckupFolding(raw, iter))[DOMAIN indices(raw)]
  BY DEF policeSteps, FoldLeft, MapThenFoldSet, CheckupFolding, CheckupPolice

LEMMA CheckupFoldsTo ==
  ASSUME NEW raw, NEW n \in Nat
  PROVE  \E iter : CheckupFoldingTo(raw, iter, n)
<1> DEFINE T == {m \in Nat : \E iter : CheckupFoldingTo(raw, iter, m)}
<1>1. 0 \in T
  <2> DEFINE g == [s \in SUBSET (1..0) |-> nothingKept]
  <2>1. \A s \in SUBSET (1..0) : s = {}
    OBVIOUS
  <2>2. g = [s \in SUBSET (1..0) |->
               IF s = {} THEN nothingKept ELSE CheckupPolice(raw, g[s \ {Max(s)}], Max(s))]
    BY <2>1
  <2> HIDE DEF g
  <2> QED
    BY <2>2 DEF CheckupFoldingTo
<1>2. ASSUME NEW m \in Nat, m \in T
      PROVE  m + 1 \in T
  <2>1. PICK g : CheckupFoldingTo(raw, g, m)
    BY <1>2
  <2> DEFINE h == [s \in SUBSET (1..(m + 1)) |->
                     IF m + 1 \in s
                     THEN CheckupPolice(raw, g[s \ {m + 1}], m + 1)
                     ELSE g[s]]
  <2>2. ASSUME NEW s \in SUBSET (1..(m + 1))
        PROVE  h[s] = IF s = {} THEN nothingKept
                      ELSE CheckupPolice(raw, h[s \ {Max(s)}], Max(s))
    <3>1. s \ {Max(s)} \in SUBSET (1..(m + 1))
      OBVIOUS
    <3>2. CASE m + 1 \in s
      <4>1. Max(s) = m + 1
        BY <3>2, CheckupLargestIs
      <4>2. m + 1 \notin s \ {m + 1}
        OBVIOUS
      <4> QED
        BY <3>1, <3>2, <4>1, <4>2
    <3>3. CASE m + 1 \notin s
      <4>1. \A x \in s : x \in 1..m
        BY <3>3
      <4>2. /\ s \in SUBSET (1..m)
            /\ s \ {Max(s)} \in SUBSET (1..m)
        BY <4>1
      <4>3. g[s] = IF s = {} THEN nothingKept
                   ELSE CheckupPolice(raw, g[s \ {Max(s)}], Max(s))
        BY <2>1, <4>2 DEF CheckupFoldingTo
      <4>4. h[s] = g[s] /\ h[s \ {Max(s)}] = g[s \ {Max(s)}]
        BY <3>1, <3>3
      <4> QED
        BY <4>3, <4>4
    <3> QED
      BY <3>2, <3>3
  <2>3. h = [s \in SUBSET (1..(m + 1)) |->
               IF s = {} THEN nothingKept ELSE CheckupPolice(raw, h[s \ {Max(s)}], Max(s))]
    <3>1. h = [s \in SUBSET (1..(m + 1)) |-> h[s]]
      OBVIOUS
    <3> HIDE DEF h
    <3> QED
      BY <2>2, <3>1
  <2> HIDE DEF h
  <2>4. CheckupFoldingTo(raw, h, m + 1)
    BY <2>3 DEF CheckupFoldingTo
  <2> QED
    BY <2>4
<1>3. Nat \subseteq T
  <2> HIDE DEF T
  <2> QED
    BY <1>1, <1>2, CheckupInduction
<1> QED
  BY <1>3

LEMMA CheckupFoldSteps ==
  ASSUME NEW raw, Len(raw) \in Nat
  PROVE  \E A : /\ A[0] = nothingKept /\ A[Len(raw)] = policeSteps(raw)
                /\ \A k \in 1..Len(raw) : A[k] = CheckupPolice(raw, A[k - 1], k)
<1> DEFINE n == Len(raw)
<1>1. DOMAIN indices(raw) = 1..n /\ \A i \in 1..n : indices(raw)[i] = i
  BY DEF indices
<1>2. \A s \in SUBSET (1..n) : s # {} => Max(s) \in 1..n
  <2> SUFFICES ASSUME NEW s \in SUBSET (1..n), s # {}
               PROVE  Max(s) \in 1..n
    OBVIOUS
  <2> DEFINE T == {n - x : x \in s}
  <2>1. T \subseteq Nat /\ T # {}
    <3>1. \A x \in s : n - x \in Nat
      OBVIOUS
    <3> QED
      BY <3>1
  <2>2. PICK z \in T : \A y \in T : z <= y
    <3> HIDE DEF T
    <3> QED
      BY <2>1, CheckupSmallest
  <2>3. PICK x \in s : z = n - x
    BY <2>2
  <2>4. \A y \in s : n - y \in T
    OBVIOUS
  <2>5. \A y \in s : z <= n - y
    BY <2>2, <2>4
  <2>6. x \in s /\ \A y \in s : x >= y
    BY <2>3, <2>5
  <2>7. Max(s) \in s
    BY <2>6 DEF Max
  <2> QED
    BY <2>7
<1>3. \A iter : CheckupFoldingTo(raw, iter, n) <=> CheckupFolding(raw, iter)
  <2> SUFFICES ASSUME NEW iter
               PROVE  [s \in SUBSET (1..n) |->
                         IF s = {} THEN nothingKept
                         ELSE CheckupPolice(raw, iter[s \ {Max(s)}], Max(s))]
                      = [s \in SUBSET DOMAIN indices(raw) |->
                           IF s = {} THEN nothingKept
                           ELSE CheckupPolice(raw, iter[s \ {Max(s)}],
                                              indices(raw)[Max(s)])]
    BY DEF CheckupFoldingTo, CheckupFolding
  <2> QED
    BY <1>1, <1>2
<1> DEFINE f == CHOOSE iter : CheckupFolding(raw, iter)
<1>4. CheckupFoldingTo(raw, f, n)
  <2>1. \E iter : CheckupFolding(raw, iter)
    BY <1>3, CheckupFoldsTo
  <2>2. CheckupFolding(raw, f)
    BY <2>1
  <2> QED
    BY <1>3, <2>2
<1>5. policeSteps(raw) = f[1..n]
  BY <1>1, CheckupFoldIs
<1> HIDE DEF f
<1>6. \A s \in SUBSET (1..n) :
        f[s] = IF s = {} THEN nothingKept ELSE CheckupPolice(raw, f[s \ {Max(s)}], Max(s))
  BY <1>4 DEF CheckupFoldingTo
<1> DEFINE A == [k \in 0..n |-> f[1..k]]
<1>7. A[0] = nothingKept
  <2>1. 1..0 = {} /\ 1..0 \in SUBSET (1..n)
    OBVIOUS
  <2>2. f[1..0] = nothingKept
    BY <1>6, <2>1
  <2>3. 0 \in 0..n
    OBVIOUS
  <2> QED
    BY <2>2, <2>3
<1>8. ASSUME NEW k \in 1..n
      PROVE  A[k] = CheckupPolice(raw, A[k - 1], k)
  <2>1. (1..k) \in SUBSET (1..n) /\ k \in 1..k /\ (1..k) \ {k} = 1..(k - 1)
    OBVIOUS
  <2>2. Max(1..k) = k
    BY CheckupLargestIs
  <2>3. f[1..k] = CheckupPolice(raw, f[1..(k - 1)], k)
    BY <1>6, <2>1, <2>2
  <2>4. k \in 0..n /\ k - 1 \in 0..n
    OBVIOUS
  <2> QED
    BY <2>3, <2>4
<1>9. A[n] = policeSteps(raw)
  BY <1>5
<1> HIDE DEF A
<1> QED
  BY <1>7, <1>8, <1>9

(* The policy on steps: every step of the plan is kept, noted, or follows  *)
(* the cap or a step with its id.                                          *)

CheckupPasses(raw, i, kept) == stepRefusal(raw, i, kept) = ""
CheckupAccepted(raw, i) == stepRefusal(raw, i, <<>>) = ""
CheckupKeptSteps(raw) == {keptStep(raw, i) : i \in Nat}

LEMMA CheckupRefusalFacts ==
  ASSUME NEW raw, NEW i, NEW kept
  PROVE  /\ stepRefusal(raw, i, kept) # "cap"
         /\ stepRefusal(raw, i, kept) = "" =>
              /\ CheckupAccepted(raw, i)
              /\ \A k \in 1..Len(kept) : kept[k].id # stepID(raw, i)
         /\ CheckupAccepted(raw, i) /\ stepRefusal(raw, i, kept) # "" =>
              \E k \in 1..Len(kept) : kept[k].id = stepID(raw, i)
<1>1. 1..Len(<<>>) = {}
  OBVIOUS
<1> QED
  BY <1>1 DEF stepRefusal, CheckupAccepted

LEMMA CheckupKeptID ==
  ASSUME NEW raw, NEW i
  PROVE  keptStep(raw, i).id = stepID(raw, i)
  BY DEF keptStep, normalizePHPStanStep

(* What has become of step i. *)
CheckupNoted(drops, i) == \E d \in drops : d.part = "step" /\ d.at = i
CheckupCutOff(drops, i) == \E d \in drops : d.part = "step" /\ d.why = "cap" /\ d.at < i
CheckupStays(raw, kept, i) ==
  /\ CheckupAccepted(raw, i)
  /\ \E k \in 1..Len(kept) : kept[k].id = stepID(raw, i)
  /\ ~\E j \in 1..(i - 1) : CheckupAccepted(raw, j) /\ stepID(raw, j) = stepID(raw, i)
CheckupPoliced(raw, acc, i) ==
  \/ CheckupStays(raw, acc.kept, i)
  \/ CheckupNoted(acc.drops, i) \/ CheckupCutOff(acc.drops, i)

CheckupProgress(raw, acc, n) ==
  /\ \E D : acc \in [kept : Seq(CheckupKeptSteps(raw)), drops : SUBSET D]
  /\ capped(acc) => \E d \in acc.drops : d.part = "step" /\ d.why = "cap" /\ d.at \in 1..n
  /\ ~capped(acc) => \A i \in 1..n : CheckupAccepted(raw, i) =>
       \E k \in 1..Len(acc.kept) : acc.kept[k].id = stepID(raw, i)
  /\ \A i \in 1..n : CheckupPoliced(raw, acc, i)

LEMMA CheckupNoting ==
  ASSUME NEW raw, NEW n \in Nat, NEW acc, CheckupProgress(raw, acc, n - 1), n # 0,
         NEW why,
         why # "cap" =>
           /\ ~capped(acc)
           /\ CheckupAccepted(raw, n) =>
                \E k \in 1..Len(acc.kept) : acc.kept[k].id = stepID(raw, n)
  PROVE  CheckupProgress(raw, note(acc, "step", n, why), n)
<1> DEFINE new == note(acc, "step", n, why)
<1> DEFINE d == drop("step", n, why)
<1>1. /\ new.kept = acc.kept /\ new.drops = acc.drops \cup {d}
      /\ \E D : new \in [kept : Seq(CheckupKeptSteps(raw)), drops : SUBSET D]
  <2>1. PICK D : acc \in [kept : Seq(CheckupKeptSteps(raw)), drops : SUBSET D]
    BY DEF CheckupProgress
  <2> DEFINE more == acc.drops \cup {d}
  <2>2. acc.drops \in SUBSET D /\ more \in SUBSET (D \cup {d})
    <3> HIDE DEF d
    <3> QED
      BY <2>1
  <2>3. new = [acc EXCEPT !.drops = more]
    BY DEF note
  <2> HIDE DEF new, d, more
  <2>4. new.kept = acc.kept /\ new.drops = more
    BY <2>1, <2>3
  <2>5. new \in [kept : Seq(CheckupKeptSteps(raw)), drops : SUBSET (D \cup {d})]
    BY <2>1, <2>2, <2>3
  <2> QED
    BY <2>4, <2>5 DEF more
<1>2. d.part = "step" /\ d.at = n /\ d.why = why
  BY DEF drop
<1> HIDE DEF new, d
<1>3. capped(new) => \E e \in new.drops : e.part = "step" /\ e.why = "cap" /\ e.at \in 1..n
  <2>1. CASE why = "cap"
    BY <1>1, <1>2, <2>1
  <2>2. CASE why # "cap"
    BY <1>1, <1>2, <2>2 DEF CheckupProgress, capped
  <2> QED
    BY <2>1, <2>2
<1>4. capped(acc) => capped(new)
  BY <1>1 DEF capped
<1>5. why = "cap" => capped(new)
  BY <1>1, <1>2 DEF capped
<1>6. ~capped(new) => \A i \in 1..n : CheckupAccepted(raw, i) =>
        \E k \in 1..Len(new.kept) : new.kept[k].id = stepID(raw, i)
  <2> SUFFICES ASSUME ~capped(new), NEW i \in 1..n, CheckupAccepted(raw, i)
               PROVE  \E k \in 1..Len(new.kept) : new.kept[k].id = stepID(raw, i)
    OBVIOUS
  <2>1. CASE i = n
    BY <1>1, <1>5, <2>1
  <2>2. CASE i # n
    <3>1. i \in 1..(n - 1)
      BY <2>2
    <3> QED
      BY <1>1, <1>4, <3>1 DEF CheckupProgress
  <2> QED
    BY <2>1, <2>2
<1>7. ASSUME NEW i \in 1..n
      PROVE  CheckupPoliced(raw, new, i)
  <2>1. CASE i = n
    BY <1>1, <1>2, <2>1 DEF CheckupPoliced, CheckupNoted
  <2>2. CASE i # n
    <3>1. i \in 1..(n - 1)
      BY <2>2
    <3>2. CheckupPoliced(raw, acc, i)
      BY <3>1 DEF CheckupProgress
    <3> QED
      BY <1>1, <3>2 DEF CheckupPoliced, CheckupStays, CheckupNoted, CheckupCutOff
  <2> QED
    BY <2>1, <2>2
<1>8. CheckupProgress(raw, new, n)
  BY <1>1, <1>3, <1>6, <1>7 DEF CheckupProgress
<1> QED
  BY <1>8 DEF new

LEMMA CheckupKeeping ==
  ASSUME NEW raw, NEW n \in Nat, n # 0, NEW acc,
         CheckupProgress(raw, acc, n - 1), ~capped(acc), CheckupPasses(raw, n, acc.kept)
  PROVE  CheckupProgress(raw, keep(acc, keptStep(raw, n)), n)
<1> DEFINE s == keptStep(raw, n)
<1> DEFINE new == keep(acc, s)
<1>1. PICK D : acc \in [kept : Seq(CheckupKeptSteps(raw)), drops : SUBSET D]
  BY DEF CheckupProgress
<1>2. s \in CheckupKeptSteps(raw) /\ s.id = stepID(raw, n)
  BY CheckupKeptID DEF CheckupKeptSteps
<1>3. acc.kept \in Seq(CheckupKeptSteps(raw))
  BY <1>1
<1> DEFINE longer == Append(acc.kept, s)
<1>4. new = [acc EXCEPT !.kept = longer]
  BY DEF keep
<1> HIDE DEF new, s
<1>5. /\ longer \in Seq(CheckupKeptSteps(raw))
      /\ Len(longer) = Len(acc.kept) + 1
      /\ \A k \in 1..Len(acc.kept) : longer[k] = acc.kept[k]
      /\ longer[Len(acc.kept) + 1] = s
  BY <1>2, <1>3, AppendProperties
<1> HIDE DEF longer
<1>6. /\ new \in [kept : Seq(CheckupKeptSteps(raw)), drops : SUBSET D]
      /\ new.kept = longer /\ new.drops = acc.drops
  BY <1>1, <1>4, <1>5
<1>7. /\ \A k \in 1..Len(acc.kept) : k \in 1..Len(longer)
      /\ Len(acc.kept) + 1 \in 1..Len(longer)
  <2>1. Len(acc.kept) \in Nat
    BY <1>3
  <2> QED
    BY <1>5, <2>1
<1>8. ~capped(new)
  BY <1>6 DEF capped
<1>9. CheckupAccepted(raw, n) /\ \A k \in 1..Len(acc.kept) : acc.kept[k].id # stepID(raw, n)
  BY CheckupRefusalFacts DEF CheckupPasses
<1>10. \A i \in 1..(n - 1) : CheckupAccepted(raw, i) => stepID(raw, i) # stepID(raw, n)
  BY <1>9 DEF CheckupProgress
<1>11. ASSUME NEW i \in 1..n
       PROVE  /\ CheckupAccepted(raw, i) =>
                   \E k \in 1..Len(longer) : longer[k].id = stepID(raw, i)
              /\ CheckupPoliced(raw, new, i)
  <2>1. CASE i = n
    <3>1. longer[Len(acc.kept) + 1].id = stepID(raw, n)
      BY <1>2, <1>5
    <3>2. CheckupStays(raw, longer, n)
      BY <1>7, <1>9, <1>10, <3>1 DEF CheckupStays
    <3> QED
      BY <1>6, <1>7, <2>1, <3>1, <3>2 DEF CheckupPoliced
  <2>2. CASE i # n
    <3>1. i \in 1..(n - 1)
      BY <2>2
    <3>2. ASSUME \E k \in 1..Len(acc.kept) : acc.kept[k].id = stepID(raw, i)
          PROVE  \E k \in 1..Len(longer) : longer[k].id = stepID(raw, i)
      BY <1>5, <1>7, <3>2
    <3>3. CheckupAccepted(raw, i) =>
            \E k \in 1..Len(acc.kept) : acc.kept[k].id = stepID(raw, i)
      BY <3>1 DEF CheckupProgress
    <3>4. CheckupPoliced(raw, acc, i)
      BY <3>1 DEF CheckupProgress
    <3>5. CheckupPoliced(raw, new, i)
      BY <1>6, <3>2, <3>4 DEF CheckupPoliced, CheckupStays
    <3> QED
      BY <3>2, <3>3, <3>5
  <2> QED
    BY <2>1, <2>2
<1>12. CheckupProgress(raw, new, n)
  BY <1>6, <1>8, <1>11 DEF CheckupProgress
<1> QED
  BY <1>12 DEF new, s

LEMMA CheckupPoliceProgress ==
  ASSUME NEW raw, NEW n \in Nat, n # 0, NEW acc,
         CheckupProgress(raw, acc, n - 1)
  PROVE  CheckupProgress(raw, CheckupPolice(raw, acc, n), n)
<1> DEFINE why == stepRefusal(raw, n, acc.kept)
<1>1. CASE capped(acc)
  <2>1. CheckupPolice(raw, acc, n) = acc
    BY <1>1 DEF CheckupPolice
  <2>2. PICK d \in acc.drops : d.part = "step" /\ d.why = "cap" /\ d.at \in 1..(n - 1)
    BY <1>1 DEF CheckupProgress
  <2>3. d.at < n /\ d.at \in 1..n
    BY <2>2
  <2>4. ASSUME NEW i \in 1..n
        PROVE  CheckupPoliced(raw, acc, i)
    <3>1. CASE i = n
      BY <2>2, <2>3, <3>1 DEF CheckupPoliced, CheckupCutOff
    <3>2. CASE i # n
      <4>1. i \in 1..(n - 1)
        BY <3>2
      <4> QED
        BY <4>1 DEF CheckupProgress
    <3> QED
      BY <3>1, <3>2
  <2>5. CheckupProgress(raw, acc, n)
    BY <1>1, <2>2, <2>3, <2>4 DEF CheckupProgress
  <2> QED
    BY <2>1, <2>5
<1>2. CASE ~capped(acc) /\ Len(acc.kept) >= MaxSteps
  <2>1. CheckupPolice(raw, acc, n) = note(acc, "step", n, "cap")
    BY <1>2 DEF CheckupPolice
  <2> QED
    BY <2>1, CheckupNoting
<1>3. CASE ~capped(acc) /\ ~(Len(acc.kept) >= MaxSteps) /\ why = ""
  <2>1. CheckupPolice(raw, acc, n) = keep(acc, keptStep(raw, n))
    BY <1>3 DEF CheckupPolice
  <2> QED
    BY <1>3, <2>1, CheckupKeeping DEF CheckupPasses
<1>4. CASE ~capped(acc) /\ ~(Len(acc.kept) >= MaxSteps) /\ why # ""
  <2>1. CheckupPolice(raw, acc, n) = note(acc, "step", n, why)
    BY <1>4 DEF CheckupPolice
  <2>2. why # "cap"
    BY CheckupRefusalFacts
  <2>3. CheckupAccepted(raw, n) =>
          \E k \in 1..Len(acc.kept) : acc.kept[k].id = stepID(raw, n)
    BY <1>4, CheckupRefusalFacts
  <2>4. n \in Nat /\ n # 0
    OBVIOUS
  <2> HIDE DEF why
  <2> QED
    BY <1>4, <2>1, <2>2, <2>3, <2>4, CheckupNoting
<1> QED
  BY <1>1, <1>2, <1>3, <1>4

LEMMA CheckupPolicedAll ==
  ASSUME NEW raw, Len(raw) \in Nat
  PROVE  CheckupProgress(raw, policeSteps(raw), Len(raw))
<1>1. PICK A : /\ A[0] = nothingKept /\ A[Len(raw)] = policeSteps(raw)
               /\ \A k \in 1..Len(raw) : A[k] = CheckupPolice(raw, A[k - 1], k)
  BY CheckupFoldSteps
<1> DEFINE T == {k \in Nat : k <= Len(raw) => CheckupProgress(raw, A[k], k)}
<1>2. 0 \in T
  <2>1. nothingKept.kept = <<>> /\ nothingKept.drops = {}
        /\ nothingKept = [kept |-> <<>>, drops |-> {}]
    BY DEF nothingKept
  <2>2. ~capped(nothingKept)
    BY <2>1 DEF capped
  <2>3. 1..0 = {} /\ nothingKept \in [kept : Seq(CheckupKeptSteps(raw)), drops : SUBSET {}]
    <3>1. <<>> \in Seq(CheckupKeptSteps(raw))
      OBVIOUS
    <3> QED
      BY <3>1 DEF nothingKept
  <2>4. CheckupProgress(raw, nothingKept, 0)
    BY <2>1, <2>2, <2>3 DEF CheckupProgress
  <2> QED
    BY <1>1, <2>4
<1>3. ASSUME NEW k \in Nat, k \in T
      PROVE  k + 1 \in T
  <2> SUFFICES ASSUME k + 1 <= Len(raw)
               PROVE  CheckupProgress(raw, A[k + 1], k + 1)
    OBVIOUS
  <2>1. k + 1 \in 1..Len(raw) /\ (k + 1) - 1 = k
    OBVIOUS
  <2>2. CheckupProgress(raw, A[k], k)
    BY <1>3
  <2>3. A[k + 1] = CheckupPolice(raw, A[k], k + 1)
    BY <1>1, <2>1
  <2> QED
    BY <2>1, <2>2, <2>3, CheckupPoliceProgress
<1>4. Nat \subseteq T
  <2> HIDE DEF T
  <2> QED
    BY <1>2, <1>3, CheckupInduction
<1>5. Len(raw) \in T
  BY <1>4
<1> QED
  BY <1>1, <1>5

(* The plan: its steps, and what it notes. *)

LEMMA CheckupPlanFacts ==
  ASSUME NEW raw \in Plans
  PROVE  /\ Len(raw.steps) \in Nat
         /\ LET p == intersectSpecWithPolicy(raw)
            IN  /\ p.steps \in Seq(CheckupKeptSteps(raw.steps))
                /\ \A i \in 1..Len(raw.steps) :
                     \/ CheckupStays(raw.steps, p.steps, i)
                     \/ CheckupNoted(p.drops, i) \/ CheckupCutOff(p.drops, i)
                     \/ \E d \in p.drops : d.part = "image"
<1> DEFINE p == intersectSpecWithPolicy(raw)
<1> DEFINE acc == policeSteps(raw.steps)
<1>1. Len(raw.steps) \in Nat
  <2>1. raw.steps \in Seq(ToSet(raw.steps))
    BY CheckupAssumption
  <2> QED
    BY <2>1
<1>2. CheckupProgress(raw.steps, acc, Len(raw.steps))
  BY <1>1, CheckupPolicedAll
<1>3. /\ p.steps = IF raw.image = "denied" THEN <<>> ELSE acc.kept
      /\ acc.drops \subseteq p.drops
      /\ raw.image = "denied" => drop("image", 0, "denied") \in p.drops
  BY DEF intersectSpecWithPolicy
<1>4. acc.kept \in Seq(CheckupKeptSteps(raw.steps))
  BY <1>2 DEF CheckupProgress
<1> HIDE DEF acc, p
<1>5. p.steps \in Seq(CheckupKeptSteps(raw.steps))
  <2>1. <<>> \in Seq(CheckupKeptSteps(raw.steps))
    OBVIOUS
  <2>2. p.steps = <<>> \/ p.steps = acc.kept
    BY <1>3
  <2> QED
    BY <1>4, <2>1, <2>2
<1>6. ASSUME NEW i \in 1..Len(raw.steps)
      PROVE  \/ CheckupStays(raw.steps, p.steps, i)
             \/ CheckupNoted(p.drops, i) \/ CheckupCutOff(p.drops, i)
             \/ \E d \in p.drops : d.part = "image"
  <2>1. CASE raw.image = "denied"
    <3>1. drop("image", 0, "denied").part = "image"
      BY DEF drop
    <3> QED
      BY <1>3, <2>1, <3>1
  <2>2. CASE raw.image # "denied"
    <3>1. CheckupPoliced(raw.steps, acc, i)
      BY <1>2 DEF CheckupProgress
    <3> QED
      BY <1>3, <2>2, <3>1 DEF CheckupPoliced, CheckupNoted, CheckupCutOff
  <2> QED
    BY <2>1, <2>2
<1> QED
  BY <1>1, <1>5, <1>6 DEF p

LEMMA CheckupPlanCovers ==
  ASSUME setup.raw \in Plans, NEW i \in 1..Len(setup.raw.steps)
  PROVE  Runs(i) \/ \E d \in plan.drops : Covers(d, i)
<1>1. \/ CheckupStays(setup.raw.steps, plan.steps, i)
      \/ CheckupNoted(plan.drops, i) \/ CheckupCutOff(plan.drops, i)
      \/ \E d \in plan.drops : d.part = "image"
  BY CheckupPlanFacts DEF plan
<1>2. CheckupStays(setup.raw.steps, plan.steps, i) => Runs(i)
  BY DEF CheckupStays, Runs, Acceptable, CheckupAccepted
<1>3. CheckupNoted(plan.drops, i) \/ CheckupCutOff(plan.drops, i)
      => \E d \in plan.drops : Covers(d, i)
  BY DEF CheckupNoted, CheckupCutOff, Covers
<1>4. (\E d \in plan.drops : d.part = "image") => \E d \in plan.drops : Covers(d, i)
  BY DEF Covers
<1> QED
  BY <1>1, <1>2, <1>3, <1>4

(* The check run of an attempt that has not published anything. *)
CheckupOpened == [NoCheck EXCEPT !.state = "open"]
CheckupClosed == [NoCheck EXCEPT !.state = "done", !.conclusion = "cancelled"]

LEMMA CheckupBlankChecks ==
  /\ NoCheck.state = "none" /\ NoCheck.conclusion # "success"
  /\ CheckupOpened.state = "open" /\ CheckupOpened.conclusion # "success"
  /\ CheckupClosed.state = "done" /\ CheckupClosed.conclusion = "cancelled"
<1>1. /\ NoCheck.state = "none" /\ NoCheck.conclusion # "success"
  BY Zenon DEF NoCheck
<1>2. CheckupOpened.state = "open" /\ CheckupOpened.conclusion # "success"
  BY Zenon DEF NoCheck, CheckupOpened
<1>3. CheckupClosed.state = "done" /\ CheckupClosed.conclusion = "cancelled"
  BY Zenon DEF NoCheck, CheckupClosed
<1> QED
  BY <1>1, <1>2, <1>3

(* What a step leaves of the plan and of the attempt. *)

CheckupPreparing == {"services", "service", "health", "workspace"}
CheckupEarned(done) == plan.steps # <<>> /\ done = 1..Len(plan.steps)

(* The attempt: no step has exited before the first, and those that have   *)
(* are the ones before next, for as long as the attempt passes.            *)
CheckupRunning ==
  /\ pc \in {"open", "docker"} \cup CheckupPreparing => exited = {}
  /\ pc \in {"open", "docker", "services", "workspace"} => next = 1
  /\ pc \in CheckupPreparing => plan.steps # <<>>
  /\ pc \in {"step", "box"} =>
       /\ next \in 1..Len(plan.steps)
       /\ result = "passed" => exited = 1..(next - 1)
  /\ pc \in {"stop", "publish"} => (result = "passed" => CheckupEarned(exited))

(* The check run shows what was published. *)
CheckupPublished ==
  /\ check.conclusion = "success" => CheckupEarned(check.exited)
  /\ check.state = "done" /\ check.conclusion # "cancelled" => check.drops = plan.drops

(* Whenever the attempt holds nothing and no teardown is to come, nothing  *)
(* runs, except what a reap will remove, and what a crash or a command     *)
(* that failed has left.                                                   *)
CheckupStopped ==
  /\ pc \in {"idle", "open", "docker", "services", "publish", "finish"}
  /\ "teardown" \notin cleaning
  => /\ net => "network" \in spared
     /\ ~reaping => (svc = {} /\ boxes = 0) \/ "containers" \in spared

CheckupInv == setup.raw \in Plans /\ CheckupRunning /\ CheckupPublished /\ CheckupStopped

LEMMA CheckupPlanLength ==
  ASSUME setup.raw \in Plans
  PROVE  Len(plan.steps) \in Nat /\ (plan.steps # <<>> => Len(plan.steps) # 0)
<1>1. plan.steps \in Seq(CheckupKeptSteps(setup.raw.steps))
  BY CheckupPlanFacts DEF plan
<1> QED
  BY <1>1

LEMMA CheckupSetupStays ==
  ASSUME [CheckupNext]_checkupVars
  PROVE  setup' = setup /\ plan' = plan
<1>1. setup' = setup
  BY DEF CheckupNext, checkupVars, Attempt, Start, OpenCheck, CheckDocker, StartNetwork,
    StartService, AwaitHealthy, Workspace, RunBox, EndStep, Stop, Publish, Finish, Cancel,
    Teardown, CloseCheck, Retry, Recheckout, Crash, Reap
<1> QED
  BY <1>1 DEF plan

LEMMA CheckupRunningAside ==
  ASSUME CheckupRunning, plan' = plan, UNCHANGED <<pc, next, result, exited>>
  PROVE  CheckupRunning'
  BY DEF CheckupRunning, CheckupPreparing, CheckupEarned

LEMMA CheckupRunningKept ==
  ASSUME setup.raw \in Plans, CheckupRunning, [CheckupNext]_checkupVars
  PROVE  CheckupRunning'
<1>1. plan' = plan
  BY CheckupSetupStays
<1>2. Len(plan.steps) \in Nat /\ (plan.steps # <<>> => Len(plan.steps) # 0)
  BY CheckupPlanLength
<1> HIDE DEF plan
<1>3. CASE Start
  <2>1. CASE setup.pref = "docker"
    BY <1>3, <2>1 DEF Start, CheckupRunning, CheckupPreparing
  <2>2. CASE setup.pref # "docker"
    BY <1>1, <1>3, <2>2, CheckupRunningAside DEF Start, attempt
  <2> QED
    BY <2>1, <2>2
<1>4. CASE OpenCheck
  BY <1>4 DEF OpenCheck, CheckupRunning, CheckupPreparing
<1>5. CASE CheckDocker
  BY <1>1, <1>5 DEF CheckDocker, Ends, CheckupRunning, CheckupPreparing
<1>6. CASE StartNetwork
  BY <1>1, <1>6 DEF StartNetwork, Ends, CheckupRunning, CheckupPreparing
<1>7. CASE StartService
  BY <1>1, <1>7 DEF StartService, Ends, CheckupRunning, CheckupPreparing
<1>8. CASE AwaitHealthy
  BY <1>1, <1>8 DEF AwaitHealthy, Ends, CheckupRunning, CheckupPreparing
<1>9. CASE Workspace
  <2>1. CASE pc' = "step" /\ UNCHANGED result
    BY <1>1, <1>2, <1>9, <2>1 DEF Workspace, CheckupRunning, CheckupPreparing
  <2>2. CASE Ends("blocked", "stop")
    BY <1>9, <2>2 DEF Workspace, Ends, CheckupRunning, CheckupPreparing
  <2> QED
    BY <1>9, <2>1, <2>2 DEF Workspace
<1>10. ASSUME pc \in {"step", "box"}, NEW ok \in BOOLEAN, Advance(ok),
              ok => exited' = exited \cup {next}
       PROVE  CheckupRunning'
  <2>1. /\ next \in 1..Len(plan.steps)
        /\ result = "passed" => exited = 1..(next - 1)
    BY <1>10 DEF CheckupRunning
  <2>2. result' = "passed" => exited' = 1..next
    <3>1. result' = "passed" => ok /\ result = "passed"
      BY <1>10 DEF Advance
    <3>2. (1..(next - 1)) \cup {next} = 1..next
      BY <1>2, <2>1
    <3> QED
      BY <1>10, <2>1, <3>1, <3>2
  <2>3. CASE next = Len(plan.steps)
    <3>1. pc' = "stop"
      BY <1>10, <2>3 DEF Advance
    <3>2. plan.steps # <<>>
      BY <1>2, <2>1
    <3> QED
      BY <1>1, <2>2, <2>3, <3>1, <3>2 DEF CheckupRunning, CheckupPreparing, CheckupEarned
  <2>4. CASE next # Len(plan.steps)
    <3>1. pc' = "step" /\ next' = next + 1
      BY <1>10, <2>4 DEF Advance
    <3>2. next' \in 1..Len(plan.steps) /\ next' - 1 = next
      BY <1>2, <2>1, <2>4, <3>1
    <3> QED
      BY <1>1, <2>2, <3>1, <3>2 DEF CheckupRunning, CheckupPreparing
  <2> QED
    BY <2>3, <2>4
<1>11. CASE RunBox
  <2>1. CASE pc' = "box" /\ UNCHANGED <<next, result>>
    BY <1>1, <1>11, <2>1 DEF RunBox, CheckupRunning, CheckupPreparing
  <2>2. CASE Advance(FALSE)
    BY <1>10, <1>11, <2>2 DEF RunBox
  <2> QED
    BY <1>11, <2>1, <2>2 DEF RunBox
<1>12. CASE EndStep
  <2>1. PICK exit0 \in BOOLEAN, told \in BOOLEAN :
          /\ exited' = IF exit0 THEN exited \cup {next} ELSE exited
          /\ \E file :
               Advance(evaluatePostCondition(plan.steps[next].post, exit0, told, file))
    BY <1>12 DEF EndStep
  <2>2. PICK file :
          Advance(evaluatePostCondition(plan.steps[next].post, exit0, told, file))
    BY <2>1
  <2> DEFINE ok == evaluatePostCondition(plan.steps[next].post, exit0, told, file)
  <2>3. ok \in BOOLEAN /\ (ok => exit0)
    BY DEF evaluatePostCondition
  <2>4. pc = "box"
    BY <1>12 DEF EndStep
  <2>5. Advance(ok)
    BY <2>2
  <2> HIDE DEF ok
  <2>6. ok => exited' = exited \cup {next}
    BY <2>1, <2>3
  <2> QED
    BY <1>10, <2>3, <2>4, <2>5, <2>6
<1>13. CASE Stop
  BY <1>1, <1>13 DEF Stop, attempt, CheckupRunning, CheckupPreparing, CheckupEarned
<1>14. CASE Publish \/ Finish \/ Crash
  BY <1>14 DEF Publish, Finish, Crash, CheckupRunning, CheckupPreparing
<1>15. CASE Cancel \/ Teardown \/ CloseCheck \/ Retry \/ Recheckout \/ Reap
  BY <1>1, <1>15, CheckupRunningAside DEF Cancel, Teardown, CloseCheck, Retry, Recheckout,
    Reap, attempt
<1>16. CASE UNCHANGED checkupVars
  BY <1>1, <1>16, CheckupRunningAside DEF checkupVars, attempt
<1> QED
  BY <1>3, <1>4, <1>5, <1>6, <1>7, <1>8, <1>9, <1>11, <1>12, <1>13, <1>14, <1>15, <1>16
  DEF CheckupNext, Attempt

LEMMA CheckupPublishedKept ==
  ASSUME setup.raw \in Plans, CheckupRunning, CheckupPublished, [CheckupNext]_checkupVars
  PROVE  CheckupPublished'
<1>1. plan' = plan
  BY CheckupSetupStays
<1> HIDE DEF plan
<1>2. CASE check' = check
  BY <1>1, <1>2 DEF CheckupPublished, CheckupEarned
<1>3. CASE check' = CheckupOpened
  BY <1>1, <1>3, CheckupBlankChecks DEF CheckupPublished
<1>4. CASE check' = CheckupClosed
  <2>1. check'.conclusion = "cancelled"
    BY <1>4, CheckupBlankChecks
  <2> QED
    BY <2>1 DEF CheckupPublished
<1>5. CASE Publish
  <2>1. CASE check' = [state |-> "done", conclusion |-> conclusion(result),
                       drops |-> plan.drops, exited |-> exited]
    <3>1. pc = "publish"
      BY <1>5 DEF Publish
    <3>2. conclusion(result) = "success" => result = "passed"
      BY DEF conclusion
    <3>3. result = "passed" => CheckupEarned(exited)
      BY <3>1 DEF CheckupRunning
    <3> QED
      BY <1>1, <2>1, <3>2, <3>3 DEF CheckupPublished, CheckupEarned
  <2> QED
    BY <1>2, <1>5, <2>1 DEF Publish
<1>6. CASE OpenCheck
  BY <1>2, <1>3, <1>6 DEF OpenCheck, CheckupOpened
<1>7. CASE CloseCheck
  BY <1>2, <1>4, <1>7 DEF CloseCheck, CheckupClosed
<1>8. CASE \/ Start \/ CheckDocker \/ StartNetwork \/ StartService \/ AwaitHealthy
           \/ Workspace \/ RunBox \/ EndStep \/ Stop \/ Finish \/ Cancel \/ Teardown
           \/ Retry \/ Recheckout \/ Crash \/ Reap \/ UNCHANGED checkupVars
  <2>1. check' = check
    BY <1>8 DEF Start, CheckDocker, StartNetwork, StartService, AwaitHealthy, Workspace,
      RunBox, EndStep, Stop, Finish, Cancel, Teardown, Retry, Recheckout, Crash, Reap,
      checkupVars
  <2> QED
    BY <1>2, <2>1
<1> QED
  BY <1>5, <1>6, <1>7, <1>8 DEF CheckupNext, Attempt

LEMMA CheckupStoppedKept ==
  ASSUME CheckupStopped, [CheckupNext]_checkupVars
  PROVE  CheckupStopped'
<1>1. ASSUME UNCHANGED <<docker, cleaning, reaping, spared>>,
             pc' \in {"idle", "open", "docker", "services", "publish", "finish"} =>
               pc \in {"idle", "open", "docker", "services", "publish", "finish"}
      PROVE  CheckupStopped'
  BY <1>1 DEF CheckupStopped, docker
<1>2. ASSUME pc' \notin {"idle", "open", "docker", "services", "publish", "finish"}
      PROVE  CheckupStopped'
  BY <1>2 DEF CheckupStopped
<1>3. ASSUME RemoveAll
      PROVE  CheckupStopped'
  <2>1. CASE svc' = {} /\ boxes' = 0 /\ net' = FALSE
    BY <2>1 DEF CheckupStopped
  <2>2. CASE {"containers", "network"} \subseteq spared'
    BY <2>2 DEF CheckupStopped
  <2> QED
    BY <1>3, <2>1, <2>2 DEF RemoveAll, Sweep, SweepFails
<1>4. CASE Start \/ OpenCheck \/ CheckDocker \/ Publish \/ Finish \/ Retry \/ Recheckout
           \/ CloseCheck
  <2>1. pc' \in {"idle", "open", "docker", "services", "publish", "finish"} =>
          pc \in {"idle", "open", "docker", "services", "publish", "finish"}
    BY <1>4 DEF Start, OpenCheck, CheckDocker, Publish, Finish, Retry, Recheckout,
      CloseCheck, Ends
  <2>2. UNCHANGED <<docker, reaping, spared>>
    BY <1>4 DEF Start, OpenCheck, CheckDocker, Publish, Finish, Retry, Recheckout,
      CloseCheck, aside
  <2>3. "teardown" \notin cleaning' => "teardown" \notin cleaning
    BY <1>4 DEF Start, OpenCheck, CheckDocker, Publish, Finish, Retry, Recheckout,
      CloseCheck, aside
  <2> QED
    BY <2>1, <2>2, <2>3 DEF CheckupStopped, docker
<1>5. CASE StartNetwork
  <2>1. CASE pc' = IF plan.services = <<>> THEN "workspace" ELSE "service"
    BY <1>2, <2>1
  <2>2. CASE pc' = "workspace"
    BY <1>2, <2>2
  <2>3. ASSUME net' \in (IF live THEN {net, TRUE} ELSE {net}),
               spared' = IF live THEN spared \cup {"network"} ELSE spared
        PROVE  CheckupStopped'
    <3>1. pc = "services" /\ UNCHANGED <<svc, boxes, cleaning, reaping>>
      BY <1>5 DEF StartNetwork
    <3> QED
      BY <2>3, <3>1 DEF CheckupStopped
  <2> QED
    BY <1>5, <2>1, <2>2, <2>3 DEF StartNetwork
<1>6. CASE StartService \/ AwaitHealthy \/ Workspace \/ RunBox \/ EndStep
  <2>1. pc' \notin {"idle", "open", "docker", "services", "publish", "finish"}
    BY <1>6 DEF StartService, AwaitHealthy, Workspace, RunBox, EndStep, Ends, Advance
  <2> QED
    BY <1>2, <2>1
<1>7. CASE Stop \/ Teardown
  BY <1>3, <1>7 DEF Stop, Teardown, stopCheckupServices
<1>8. CASE Cancel
  <2>1. "teardown" \in cleaning'
    BY <1>8 DEF Cancel
  <2> QED
    BY <2>1 DEF CheckupStopped
<1>9. CASE Crash
  BY <1>9 DEF Crash, CheckupStopped
<1>10. CASE Reap
  <2>1. CASE svc' = {} /\ boxes' = 0 /\ spared' = spared \ {"containers"}
    BY <1>10, <2>1 DEF Reap, CheckupStopped
  <2>2. CASE spared' = spared \cup {"containers"}
    BY <1>10, <2>2 DEF Reap, CheckupStopped
  <2> QED
    BY <1>10, <2>1, <2>2 DEF Reap, Sweep, SweepFails
<1>11. CASE UNCHANGED checkupVars
  BY <1>1, <1>11 DEF checkupVars, aside
<1> QED
  BY <1>4, <1>5, <1>6, <1>7, <1>8, <1>9, <1>10, <1>11 DEF CheckupNext, Attempt

LEMMA CheckupInvInit ==
  ASSUME CheckupInit
  PROVE  CheckupInv
<1>1. setup.raw \in Plans /\ pc = "idle" /\ check = NoCheck /\ svc = {} /\ boxes = 0 /\ ~net
  BY Zenon DEF CheckupInit
<1>2. CheckupPublished
  BY <1>1, CheckupBlankChecks DEF CheckupPublished
<1> QED
  BY <1>1, <1>2 DEF CheckupInv, CheckupRunning, CheckupPreparing, CheckupStopped

LEMMA CheckupInvKept ==
  CheckupInv /\ [CheckupNext]_checkupVars => CheckupInv'
  BY CheckupSetupStays, CheckupRunningKept, CheckupPublishedKept, CheckupStoppedKept
  DEF CheckupInv

LEMMA CheckupInvariant == CheckupSpec => []CheckupInv
  BY CheckupInvInit, CheckupInvKept, PTL DEF CheckupSpec

(* runCheckupAgent: for any plans, policies and modules, and any number of *)
(* faults, cancels, retries, checkouts and restarts, a check that shows    *)
(* success was published by an attempt in which every step exited 0.       *)
THEOREM PassHolds == CheckupSpec => []PassIsEarned
<1>1. CheckupInv => PassIsEarned
  BY DEF CheckupInv, CheckupPublished, PassIsEarned, CheckupEarned
<1> QED
  BY <1>1, CheckupInvariant, PTL

(* intersectSpecWithPolicy: for any plans, a published check names every   *)
(* step that is not run, or the cap before it.                             *)
THEOREM DropsHold == CheckupSpec => []DropsAreShown
<1>1. CheckupInv => DropsAreShown
  <2> SUFFICES ASSUME CheckupInv, check.state = "done", check.conclusion # "cancelled",
                      NEW i \in 1..Len(setup.raw.steps)
               PROVE  Runs(i) \/ \E d \in check.drops : Covers(d, i)
    BY DEF DropsAreShown
  <2>1. setup.raw \in Plans /\ check.drops = plan.drops
    BY DEF CheckupInv, CheckupPublished
  <2> QED
    BY <2>1, CheckupPlanCovers
<1> QED
  BY <1>1, CheckupInvariant, PTL

(* stopCheckupServices, teardownJobContainers, reapOrphanJobContainers:    *)
(* for any plans and any number of faults, cancels, retries, checkouts and *)
(* restarts, when nobody works on the job any more none of its containers  *)
(* is left, unless a removal has failed and none has come through since,   *)
(* and no network, unless besides that a crash has left it or the command  *)
(* that made it failed.                                                    *)
THEOREM NothingLeftHolds == CheckupSpec => []NothingLeftBehind
<1>1. CheckupInv => NothingLeftBehind
  BY DEF CheckupInv, CheckupStopped, NothingLeftBehind
<1> QED
  BY <1>1, CheckupInvariant, PTL
=============================================================================
