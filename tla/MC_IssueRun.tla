----------------------------- MODULE MC_IssueRun -----------------------------
(* Instances of IssueRun for TLC. *)
EXTENDS IssueRun

OneRun == {1}

Policy(on) == [auto |-> "auto" \in on, human |-> "human" \in on]
(* Implementing by itself, and the two settings that wait for a person.    *)
AnyPolicy == {Policy({"auto"}), Policy({"human"}), Policy({"auto", "human"})}

Flaky == Children \ {Investigate}

People == [approve |-> 2, user |-> 1, boot |-> 1]
=============================================================================
