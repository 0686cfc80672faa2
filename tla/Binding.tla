------------------------------- MODULE Binding -------------------------------
(***************************************************************************)
(* What the connectors of a GitHub App installation promise.  An           *)
(* installation is held by a tenant, or waits to be claimed; the file      *)
(* knows who holds it, and lookups have read some of it, some time ago.  A *)
(* tenant may take an installation that nobody holds in memory, or one     *)
(* that waits.  So a holder loses it to another only if it was forgotten   *)
(* (deleted, or before the boot has read it), or if a row that was read    *)
(* earlier came back: that of the other, or one that waits.                *)
(***************************************************************************)
CONSTANTS
  Installs,  \* GitHub App installations
  Tenants,   \* accounts
  Waiting    \* stands for a connector that waits to be claimed

VARIABLES
  held,  \* installations: who holds it in memory
  file,  \* installations: who may be read from the file
  read   \* installations: whom lookups have read and may bring back

Claims == Tenants \cup {Waiting}

Init ==
  /\ held = [i \in Installs |-> {}]
  /\ file = [i \in Installs |-> {}]
  /\ read = [i \in Installs |-> {}]

(* i is held by h alone from now on, and by the file. *)
Becomes(i, h) ==
  /\ held' = [held EXCEPT ![i] = {h}]
  /\ \E left \in SUBSET file[i] : file' = [file EXCEPT ![i] = left \cup {h}]
  /\ UNCHANGED read

Ask(i) == held[i] \subseteq {Waiting} /\ Becomes(i, Waiting)

Take(i, t) ==
  /\ held[i] = {} \/ Waiting \in held[i]
  /\ Becomes(i, t)

(* Holders are dropped; one of them may be written to the file again.      *)
Drop(i) ==
  /\ \E left \in SUBSET held[i] : held' = [held EXCEPT ![i] = left]
  /\ \E left \in SUBSET (file[i] \cup held[i]) : file' = [file EXCEPT ![i] = left]
  /\ UNCHANGED read

(* Lookups read the file ... *)
Look ==
  /\ read' \in [Installs -> SUBSET Claims]
  /\ \A i \in Installs : read'[i] \subseteq read[i] \cup file[i]
  /\ UNCHANGED <<held, file>>

(* ... and what they read comes back, beside the holders or for one.       *)
Recall(i, h) ==
  /\ h \in read[i]
  /\ \E left \in SUBSET held[i] : held' = [held EXCEPT ![i] = left \cup {h}]
  /\ UNCHANGED <<file, read>>

(* A restart empties the memory. *)
Forget ==
  /\ held' = [i \in Installs |-> {}]
  /\ read' = [i \in Installs |-> {}]
  /\ UNCHANGED file

Next ==
  \/ \E i \in Installs :
        \/ Ask(i) \/ Drop(i)
        \/ \E t \in Tenants : Take(i, t)
        \/ \E h \in Claims : Recall(i, h)
  \/ Look \/ Forget

Spec == Init /\ [][Next]_<<held, file, read>>
=============================================================================
