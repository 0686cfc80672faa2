---------------------------- MODULE MC_JobStore ----------------------------
(* Instances of JobStore for TLC. *)
EXTENDS JobStore

Once == [e \in Events |-> 1]
Together ==
  {{"crash", "cancel"}, {"crash", "file"}, {"loss", "retry"}, {"loss", "drop"},
   {"retry", "look"}, {"retry", "drop"}}
=============================================================================
