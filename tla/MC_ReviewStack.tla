--------------------------- MODULE MC_ReviewStack ---------------------------
(* Instances of ReviewStack for TLC. *)
EXTENDS ReviewStack

CONSTANTS pr1, pr2

(* Two pull requests, either of which may be refused. *)
Both == <<pr1, pr2>>

Once == [e \in Events |-> 1]
(* What kills and cancels, or what starts work beside the drain. *)
BootOrAdmin == {{"boot", "cancel", "cancelStack"}, {"resume"}, {"webhook"}}

RunEnds == {"completed", "completed_with_errors", "error", "skipped"}
=============================================================================
