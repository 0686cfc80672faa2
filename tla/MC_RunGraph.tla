----------------------------- MODULE MC_RunGraph -----------------------------
(* Instances of RunGraph for TLC. *)
EXTENDS RunGraph

In(on) == [f \in InputFields |-> f \in on]

(* A watched repository with scanners, OPA Review and cloud fixes on. *)
FullPlan == In({"legacy", "ora", "cloud", "admits"})
(* The default watch policy: OPA Review only, cloud off. *)
ReviewPlan == In({"ora", "admits"})

(* Cloud fixes on a repository that OPA Review does not watch. *)
CloudOnlyPlan == In({"cloud", "admits"})
MixedInputs == {FullPlan, CloudOnlyPlan}
ReviewInputs == {ReviewPlan}

TwoCommits == [r \in Runs |-> r]
OneCommit == [r \in Runs |-> 1]

Allow(n, es) == [e \in Events |-> IF e \in es THEN n ELSE 0]

BudgetMergeCancel == Allow(1, {"merge", "cancel"})
MergeCancel == {{"merge", "cancel"}}

(* Two crashes around a merge, or two of the calls that queue what is      *)
(* terminal and cancel what others wait for.                               *)
BudgetAll == [Allow(1, Events \ {"cancel"}) EXCEPT !["boot"] = 2]
BootsOrCalls ==
  {{"merge", "boot"}, {"retry", "cancelChild"}, {"retry", "resume"},
   {"retryChild", "cancelChild"}, {"retryChild", "retry"}}

AllKinds == Kinds
Deciders == {"bugbot", "security", "approval"}
=============================================================================
