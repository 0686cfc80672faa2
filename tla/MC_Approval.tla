----------------------------- MODULE MC_Approval -----------------------------
(* Instances of Approval for TLC. *)
EXTENDS Approval

Counts(n, S) == [s \in Severities |-> IF s \in S THEN n ELSE 0]
SomeScans == {NothingFound, Counts(1, {2, 3})}
Allow(es) == [e \in Events |-> IF e \in es THEN 1 ELSE 0]

(* A run with every child at work, a peer, a key and auto_approve.         *)
Policy == [readable |-> TRUE, require |-> {"security", "bugbot"},
           minSev |-> 3, maxRisk |-> 30, onFail |-> "COMMENT"]
Full == [peer |-> TRUE, aiOnly |-> FALSE, key |-> TRUE, auto |-> TRUE,
         score |-> 60, gateMin |-> 4, policy |-> Policy,
         scanned |-> TRUE, reviewed |-> TRUE, cloud |-> TRUE,
         units |-> 1, finds |-> {{}, {3}}, scans |-> SomeScans,
         confs |-> {25, 90},
         wait |-> 0, appear |-> 0, get |-> 0, events |-> Allow({"cancel"})]

(* The wait for the peer: a clean review and a retry of bugbot leave it to *)
(* the scan, the deadlines and lost answers.                               *)
Waiting == [Full EXCEPT !.finds = {{}}, !.confs = {90},
                        !.wait = 2, !.appear = 1, !.get = 1,
                        !.events = Allow({"retry"})]
WaitCases == {Waiting}

(* The decision: policies that require nothing and block at a lower        *)
(* severity, with an unknown severity and no risk limit, with a hard       *)
(* failure, unreadable; a gate with a lower threshold, no score, no        *)
(* auto_approve, no key, no cloud, a reviewer planned as skipped.          *)
DecisionCases ==
  {[Full EXCEPT !.units = 2],
   [Full EXCEPT !.aiOnly = TRUE], [Full EXCEPT !.peer = FALSE],
   [Full EXCEPT !.policy.minSev = 2, !.policy.require = {}],
   [Full EXCEPT !.policy.minSev = 0, !.policy.maxRisk = 0],
   [Full EXCEPT !.policy.maxRisk = 5, !.policy.onFail = "REQUEST_CHANGES"],
   [Full EXCEPT !.policy.readable = FALSE],
   [Full EXCEPT !.gateMin = 3, !.score = 0],
   [Full EXCEPT !.auto = FALSE], [Full EXCEPT !.key = FALSE],
   [Full EXCEPT !.cloud = FALSE],
   [Full EXCEPT !.scanned = FALSE, !.policy.require = {}],
   [Full EXCEPT !.reviewed = FALSE, !.policy.require = {}]}

AllCases == WaitCases \cup DecisionCases
=============================================================================
