----------------------------- MODULE MC_Checkup -----------------------------
(* Instances of Checkup for TLC. *)
EXTENDS Checkup

CONSTANTS lib

Step(id, argv, kind, path) ==
  [id |-> id, argv |-> argv, post |-> [kind |-> kind, path |-> path]]
Service(key, image, probe) == [key |-> key, image |-> image, probe |-> probe]
Plan(image, services, steps) ==
  [image |-> image, services |-> services, steps |-> steps]

unit == Step(<<"unit">>, "tool", "junit", "report")
install == Step(<<"install">>, "tool", "artifact_exists", "vendor")
vet == Step(<<>>, "tool", "exit0", "")
smoke == Step(<<"smoke">>, "tool", "stdout_contains", "ready")
stan == Step(<<"step", 2>>, "phpstan", "exit0", "")
Refused == {Step(<<"unit">>, "tool", "exit0", ""), Step(<<"sh">>, "shell", "exit0", ""),
            Step(<<"rm">>, "denied", "exit0", ""), Step(<<"nop">>, "none", "exit0", ""),
            Step(<<"bare">>, "tool", "", ""), Step(<<"out">>, "tool", "junit", "unsafe"),
            Step(<<"nowhere">>, "tool", "artifact_exists", "")}

db == Service("db", "allowed", "cmd")
cache == Service("cache", "allowed", "image")

(* Plans that only the policy has to do with, and plans that are run. *)
Policed ==
  {Plan("allowed", <<>>, <<unit, s>>) : s \in Refused}
  \cup {Plan("allowed", <<>>, <<s, unit>>) : s \in Refused}
  \cup {Plan("allowed", <<>>, <<vet, stan, vet>>), Plan("allowed", <<>>, <<stan, vet, unit>>),
        Plan("denied", <<>>, <<unit>>), Plan("allowed", <<>>, <<>>),
        Plan("allowed", <<>>, <<smoke, Step(<<"mute">>, "tool", "stdout_contains", "")>>)}
Ran ==
  {Plan("allowed", <<>>, <<install, unit>>), Plan("allowed", <<db>>, <<unit>>),
   Plan("allowed", <<Service("", "allowed", "cmd"), Service("cache", "denied", "image"), db, db>>,
        <<vet>>),
   Plan("allowed", <<cache, Service("queue", "allowed", "refused")>>, <<vet>>),
   Plan("allowed", <<db, cache, db>>, <<install, unit, stan>>)}
AllPlans == Policed \cup Ran

Once == [e \in CheckupEvents |-> 1]
CallsAndCrashes ==
  {{"cancel", "retry", "fault"}, {"cancel", "retry", "checkout"}, {"boot", "retry"},
   {"boot", "cancel"}, {"boot", "fault"}}
=============================================================================
