---------------------------- MODULE CacheLifecycle ----------------------------
(***************************************************************************)
(* What the node-agent promises of one model cache on one node, to the     *)
(* operator that reads the ModelCacheNode and to the CSI driver that looks *)
(* for the marker: which lives object and directory may lead together.     *)
(*                                                                         *)
(* There are no informers, steps of a reconcile, Pods or failures here.    *)
(* NodeCache implements this specification with all of them.               *)
(***************************************************************************)

VARIABLES
  life,   \* the ModelCacheNode object
  phase,  \* its status.phase
  dir     \* the model directory, as the marker and the files in it have it

vars == <<life, phase, dir>>

\* new: without the finalizer of the node-agent, owned: with it, deleting: with
\* it and a deletionTimestamp.
Lives == {"none", "new", "owned", "deleting"}
Phases == {"Unset", "Pending", "Ready", "Evicted"}

\* incomplete: without the marker; damaged: os.RemoveAll has removed an entry,
\* and the marker is still there.
Directories == {"absent", "incomplete", "complete", "damaged"}

Held == life \in {"owned", "deleting"}

Init == life = "none" /\ phase = "Unset" /\ dir = "absent"

Create == life = "none" /\ life' = "new" /\ UNCHANGED <<phase, dir>>
Own    == life = "new" /\ life' = "owned" /\ UNCHANGED <<phase, dir>>
Delete == life = "owned" /\ life' = "deleting" /\ UNCHANGED <<phase, dir>>

\* An object without the finalizer goes at once, one with it only when its
\* directory is gone; the phase goes with it.
Vanish ==
  /\ life \in {"new", "deleting"} /\ dir = "absent"
  /\ life' = "none" /\ phase' = "Unset"
  /\ UNCHANGED dir

\* Ready is only published over a marker, Evicted only over no directory.
Publish ==
  /\ Held
  /\ \/ phase' = "Pending"
     \/ phase' = "Ready" /\ dir \in {"complete", "damaged"}
     \/ phase' = "Evicted" /\ dir = "absent"
  /\ UNCHANGED <<life, dir>>

\* A download begins and ends while the object does not say Ready; a directory
\* that cannot be prepared may be left behind and reported in one go.
Fill ==
  /\ Held /\ phase # "Ready"
  /\ dir = "absent" /\ dir' = "incomplete"
  /\ phase' \in {phase, "Pending"}
  /\ UNCHANGED life

Complete ==
  /\ Held /\ phase # "Ready"
  /\ dir = "incomplete" /\ dir' = "complete"
  /\ UNCHANGED <<life, phase>>

\* A removal never makes a directory complete again.
Decay ==
  /\ Held
  /\ \/ dir = "complete" /\ dir' \in {"damaged", "incomplete"}
     \/ dir = "damaged" /\ dir' = "incomplete"
     \/ dir = "incomplete" /\ dir' = "absent"
  /\ UNCHANGED <<life, phase>>

Next ==
  \/ Create \/ Own \/ Delete \/ Vanish
  \/ Publish \/ Fill \/ Complete \/ Decay

Spec == Init /\ [][Next]_vars
=============================================================================
