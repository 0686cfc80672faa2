----------------------------- MODULE MC_Autofix -----------------------------
(* Instances of Autofix for TLC. *)
EXTENDS Autofix, TLC

CONSTANTS c, d, f, g, src, ci, note, bug, leak, nit

(* The file with the findings that count, a file with a finding that does  *)
(* not, which is protected as well, and the note of a skipped agent.       *)
AllPaths == {src, ci, note}
Protected == {ci}
FileOf == bug :> src @@ leak :> src @@ nit :> ci
(* A high finding of the review, a critical one of the scan, a low one of  *)
(* the review.                                                             *)
SeverityOf == bug :> 3 @@ leak :> 4 @@ nit :> 1
ReviewKeys == {bug, nit}
ScanKeys == {leak}
(* The cloud child chooses, the fixes ask for something.                   *)
Asked == [j \in Jobs |-> IF j = f THEN {bug} ELSE IF j = g THEN {leak} ELSE {}]

OneRun == [j \in Jobs |-> "r1"]
(* c and f land on branches, d and g only suggest. *)
Modes == [j \in Jobs |-> IF j \in {c, f} THEN "branch" ELSE "suggest"]
(* A cloud child beside a fix of its run, and two fixes for one slot. *)
Pairs == {{c, f}, {d}, {f, g}}

AllSteps == Steps
Once == [e \in Events |-> 1]
BootOrSupersede == {{"supersede", "hour"}, {"boot"}}
=============================================================================
