--------------------------- MODULE MC_ReviewThread ---------------------------
(* An instance of ReviewThread for TLC. *)
EXTENDS ReviewThread

CONSTANTS x, y, main, util

(* Two keys, each in a file of its own; the first may move, and may be     *)
(* found at two lines at once.                                             *)
FileOfKey == [k \in Keys |-> IF k = x THEN main ELSE util]
At(k, l) == [key |-> k, line |-> l]
Found == {<<>>, <<At(x, 1)>>, <<At(x, 2)>>, <<At(y, 1)>>, <<At(x, 1), At(y, 1)>>,
          <<At(x, 1), At(x, 2)>>, <<At(x, 2), At(x, 1)>>}

OneOfEach == [e \in Events |-> 1]
Either == {{e} : e \in Events}
=============================================================================
