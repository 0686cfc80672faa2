----------------------------- MODULE MC_Install -----------------------------
(* An instance of Install for TLC: two installations and one event from    *)
(* outside, or one installation and a restart with another event.          *)
EXTENDS Install, TLC

CONSTANTS i1, i2, acme, ann

VARIABLE involved  \* the installations of this case

Symmetry == Permutations({i1, i2}) \cup Permutations({acme, ann})

Budget(c, d, r) == [connects |-> c, deletes |-> d, restarts |-> r]

(* A click, a deletion or a restart. *)
OneOf == {Budget(1, 0, 0), Budget(0, 1, 0), Budget(0, 0, 1)}

(* A restart with a click, a deletion or a second one. *)
WithRestart == {Budget(1, 0, 1), Budget(0, 1, 1), Budget(0, 0, 2)}

Cases == OneOf \cup WithRestart

MCInit ==
  /\ Init
  /\ IF Budget(connects, deletes, restarts) \in OneOf
     THEN involved = Installs
     ELSE \E i \in Installs : involved = {i}

MCNext ==
  /\ Next
  /\ UNCHANGED involved
  /\ \A x \in Ids : x[1] \notin involved => live'[x] = NoRow

MCSpec == MCInit /\ [][MCNext]_<<vars, involved>>
=============================================================================
