----------------------------- MODULE SharedModel -----------------------------
(***************************************************************************)
(* What the shared PVC mode promises to the Pods that mount a model and to *)
(* the user who reads the phase of the ModelCache: which lives object,     *)
(* phase, volume and Pods may lead together.                               *)
(*                                                                         *)
(* There are no claims that wait, Jobs, informers, steps of a reconcile or *)
(* failures here.  SharedPvc implements this specification with all of     *)
(* them.                                                                   *)
(***************************************************************************)

CONSTANT Pods

VARIABLES
  life,    \* the ModelCache object
  phase,   \* its status.phase
  volume,  \* what the volume of the claim holds of the model
  users,   \* the Pods that run on it
  asked,   \* a Pod has asked for the cache since it was evicted
  misled   \* a volume went while something still vouched for its content

vars == <<life, phase, volume, users, asked, misled>>

\* new: without the finalizer, owned: with it, deleting: with it and a
\* deletionTimestamp.
Lives == {"none", "new", "owned", "deleting"}
Phases == {"Unset", "Pending", "Downloading", "Ready", "Failed", "Evicted"}
Volumes == {"none", "empty", "partial", "whole"}

Init ==
  /\ life = "none" /\ phase = "Unset"
  /\ volume = "none" /\ users = {}
  /\ asked = FALSE /\ misled = FALSE

\* The object, which loses its finalizer only to go away; what becomes of the
\* volume is left open.
ObjectStep == UNCHANGED <<volume, users, asked, misled>>

Create == life = "none" /\ life' = "new" /\ UNCHANGED phase /\ ObjectStep
Own    == life = "new" /\ life' = "owned" /\ UNCHANGED phase /\ ObjectStep
Delete == life = "owned" /\ life' = "deleting" /\ UNCHANGED phase /\ ObjectStep

Vanish ==
  /\ life \in {"new", "deleting"} /\ life' = "none"
  /\ phase' = "Unset"
  /\ ObjectStep

\* Ready is published over the whole model only, unless the controller was
\* misled, and an evicted cache comes back only when it was asked for.
Publish ==
  /\ life # "none"
  /\ phase' \in Phases \ {"Evicted"}
  /\ phase' = "Ready" => volume = "whole" \/ misled
  /\ phase = "Evicted" /\ phase' # "Evicted" => asked
  /\ UNCHANGED life /\ ObjectStep

\* An eviction forgets who asked, but not a Pod that runs.
Evict ==
  /\ life # "none"
  /\ phase' = "Evicted"
  /\ asked' \in BOOLEAN
  /\ users # {} => asked'
  /\ UNCHANGED <<life, volume, users, misled>>

Ask == asked' = TRUE /\ UNCHANGED <<life, phase, volume, users, misled>>

\* An empty volume does not come under a Ready phase, and is filled in order.
Provision ==
  /\ volume = "none" /\ volume' = "empty"
  /\ phase = "Ready" => misled
  /\ UNCHANGED <<life, phase, users, asked, misled>>

Fill ==
  /\ \/ volume = "empty" /\ volume' = "partial"
     \/ volume = "partial" /\ volume' = "whole"
  /\ UNCHANGED <<life, phase, users, asked, misled>>

\* A volume goes when no Pod runs on it.
Clear ==
  /\ users = {} /\ volume' = "none"
  /\ misled' \in {misled, TRUE}
  /\ UNCHANGED <<life, phase, users, asked>>

Start(p) ==
  /\ volume = "whole" /\ users' = users \cup {p}
  /\ UNCHANGED <<life, phase, volume, asked, misled>>

Stop(p) ==
  /\ users' = users \ {p}
  /\ UNCHANGED <<life, phase, volume, asked, misled>>

Next ==
  \/ Create \/ Own \/ Delete \/ Vanish
  \/ Publish \/ Evict \/ Ask
  \/ Provision \/ Fill \/ Clear
  \/ \E p \in Pods : Start(p) \/ Stop(p)

Spec == Init /\ [][Next]_vars

\* A Pod that runs has the whole model, and Ready over a volume means that it
\* holds the model, unless the controller was misled.
Promise ==
  /\ users # {} => volume = "whole"
  /\ phase = "Ready" /\ volume # "none" /\ ~misled => volume = "whole"
=============================================================================
