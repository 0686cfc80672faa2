------------------------------ MODULE MC_Checks ------------------------------
(* Instances of Checks for TLC. *)
EXTENDS Checks

PushAndTick == {"p", "t"}
Tick1 == {"t"}
OnePush == {"p"}
OnePeer == {"osa"}

Trouble == [cancel |-> 1, again |-> 1, fault |-> 1]
=============================================================================
