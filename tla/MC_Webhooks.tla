----------------------------- MODULE MC_Webhooks -----------------------------
(* Instances of Webhooks for TLC. *)
EXTENDS Webhooks

CONSTANTS r1, r2, r3

Sends(d, k, s) == [delivery |-> d, kind |-> k, commit |-> s]

Three(x, y, z) == [r \in {r1, r2, r3} |-> IF r = r1 THEN x ELSE IF r = r2 THEN y ELSE z]

(* Two commits and a redelivery; two commits and the merge; a push that is *)
(* delivered twice beside a commit; a commit whose event is not admitted,  *)
(* and an edit for the commit before.                                      *)
MixedCases ==
  {Three(Sends(1, "commit", 1), Sends(2, "commit", 2), Sends(1, "commit", 1)),
   Three(Sends(1, "commit", 1), Sends(2, "commit", 2), Sends(3, "merged", 2)),
   Three(Sends(1, "push", 1), Sends(1, "push", 1), Sends(2, "commit", 2)),
   Three(Sends(1, "commit", 1), Sends(2, "unadmitted", 2), Sends(3, "edited", 1))}

SomeEnds == {"completed", "completed_with_errors"}
=============================================================================
