------------------------- MODULE NodeCacheRefinement -------------------------
(***************************************************************************)
(* NodeCache implements CacheLifecycle, for any sets of files and Pods,    *)
(* any TTL and any number of faults: every step of the agent, the driver,  *)
(* the users and the informers is a step of the life of the cache, or does *)
(* not show in it.                                                         *)
(***************************************************************************)
EXTENDS NodeCacheProofs

\* What a step has to keep for the life of the cache not to move.
LEMMA Stutter ==
  /\ mcn'.exists = mcn.exists /\ mcn'.deleting = mcn.deleting
  /\ mcn'.finalizer = mcn.finalizer /\ mcn'.phase = mcn.phase
  /\ dirExists' = dirExists /\ marker' = marker
  /\ dirExists /\ marker => (torn' = torn)
  => UNCHANGED Lifecycle!vars
BY DEF Lifecycle!vars, Life, Directory

\* Every step under the inductive invariant is a step of CacheLifecycle.
LEMMA LifecycleStep ==
  IInv /\ IInv' /\ [Next]_vars => [Lifecycle!Next]_(Lifecycle!vars)
<1> SUFFICES ASSUME IInv, IInv', [Next]_vars
             PROVE  Lifecycle!Next \/ UNCHANGED Lifecycle!vars
  OBVIOUS
<1> USE DEF objectVars, viewVars, agentVars, dirVars, csiVars, histVars
<1>t. /\ TypeOK /\ TypeOK'
      /\ mcn.deleting => mcn.finalizer
      /\ mcn.finalizer => mcn.exists
      /\ dirExists => mcn.exists /\ mcn.finalizer
      /\ marker => dirExists
  BY DEF IInv, ObjectInv, DirectoryOwned, DirectoryInv
<1>0. CASE UNCHANGED <<mcn, dirExists, marker, torn>>
  BY <1>0, Stutter
<1>1. CASE CreateModelCacheNode
  <2>1. /\ Life = "none" /\ Life' = "new" /\ mcn.phase' = "Unset"
        /\ Directory' = Directory
    BY <1>1, <1>t DEF CreateModelCacheNode, NoModelCacheNode, Life, Directory
  <2>2. mcn.phase = "Unset"
    BY <1>1 DEF CreateModelCacheNode, IInv, ObjectInv
  <2> QED
    BY <2>1, <2>2 DEF Lifecycle!Next, Lifecycle!Create
<1>2. CASE DeleteModelCacheNode
  <2>1. Directory' = Directory
    BY <1>2 DEF DeleteModelCacheNode, Directory
  <2>2. CASE mcn.finalizer
    <3>1. Life = "owned" /\ Life' = "deleting" /\ mcn.phase' = mcn.phase
      BY <1>2, <1>t, <2>2 DEF DeleteModelCacheNode, Life, TypeOK, ModelCacheNode
    <3> QED
      BY <2>1, <3>1 DEF Lifecycle!Next, Lifecycle!Delete
  <2>3. CASE ~mcn.finalizer
    <3>1. Life = "new" /\ Life' = "none" /\ mcn.phase' = "Unset"
      <4>1. mcn.exists /\ ~mcn.deleting /\ mcn' = NoModelCacheNode
        BY <1>2, <2>3 DEF DeleteModelCacheNode
      <4>2. mcn'.exists = FALSE /\ mcn'.phase = "Unset"
        BY <4>1 DEF NoModelCacheNode
      <4> QED
        BY <2>3, <4>1, <4>2 DEF Life
    <3>2. Directory = "absent"
      BY <1>t, <2>3 DEF Directory
    <3> QED
      BY <2>1, <3>1, <3>2 DEF Lifecycle!Next, Lifecycle!Vanish
  <2> QED
    BY <2>2, <2>3
<1>3. CASE Tick \/ MarkUsed
  <2>1. /\ mcn'.exists = mcn.exists /\ mcn'.deleting = mcn.deleting
        /\ mcn'.finalizer = mcn.finalizer /\ mcn'.phase = mcn.phase
        /\ UNCHANGED <<dirExists, marker, torn>>
    <3>1. mcn \in ModelCacheNode
      BY <1>t DEF TypeOK
    <3>2. CASE Tick
      BY <3>1, <3>2 DEF Tick, Older, ModelCacheNode
    <3>3. CASE MarkUsed
      BY <3>1, <3>3 DEF MarkUsed, ModelCacheNode
    <3> QED
      BY <1>3, <3>2, <3>3
  <2> QED
    BY <2>1, Stutter
<1>4. CASE AddFinalizer
  <2>1. Directory' = Directory
    BY <1>4 DEF AddFinalizer, Directory
  <2>2. CASE mcn.exists
    <3>1. mcn' = [mcn EXCEPT !.finalizer = TRUE]
      BY <1>4, <2>2 DEF AddFinalizer
    <3>2. /\ mcn'.exists = mcn.exists /\ mcn'.deleting = mcn.deleting
          /\ mcn'.finalizer = TRUE /\ mcn'.phase = mcn.phase
      BY <3>1, <1>t DEF TypeOK, ModelCacheNode
    <3>3. CASE mcn.finalizer
      BY <1>4, <3>2, <3>3, Stutter DEF AddFinalizer
    <3>4. CASE ~mcn.finalizer
      <4>1. Life = "new" /\ Life' = "owned"
        BY <2>2, <3>2, <3>4, <1>t DEF Life
      <4> QED
        BY <2>1, <3>2, <4>1 DEF Lifecycle!Next, Lifecycle!Own
    <3> QED
      BY <3>3, <3>4, <1>t DEF TypeOK, ModelCacheNode
  <2>3. CASE ~mcn.exists
    BY <1>0, <1>4, <2>3 DEF AddFinalizer
  <2> QED
    BY <2>2, <2>3
<1>5. CASE PrepareDirectory
  <2>1. UNCHANGED <<mcn, marker, torn>> /\ dirExists' = TRUE /\ pc = "prepare"
    BY <1>5 DEF PrepareDirectory
  <2>2. CASE dirExists
    BY <2>1, <2>2, Stutter
  <2>3. CASE ~dirExists
    <3>1. /\ Directory = "absent" /\ Directory' = "incomplete"
          /\ UNCHANGED <<Life, mcn.phase>>
      BY <2>1, <2>3, <1>t DEF Directory, Life
    <3>2. Life \in {"owned", "deleting"} /\ mcn.phase # "Ready"
      BY <2>1, <2>3, <1>t DEF Life, IInv, AgentInv, Working, StaleViewInv
    <3> QED
      BY <3>1, <3>2 DEF Lifecycle!Next, Lifecycle!Fill, Lifecycle!Held
  <2> QED
    BY <2>2, <2>3, <1>t DEF TypeOK
<1>6. CASE WriteCompleteMarker
  <2>1. /\ UNCHANGED <<mcn, dirExists>> /\ marker' = TRUE /\ torn' = FALSE
        /\ pc = "download"
    BY <1>6 DEF WriteCompleteMarker
  <2>2. dirExists /\ ~marker /\ mcn.phase # "Ready" /\ mcn.finalizer
    BY <2>1 DEF IInv, DirectoryInv, AgentInv, Working
  <2>3. /\ Directory = "incomplete" /\ Directory' = "complete"
        /\ UNCHANGED <<Life, mcn.phase>> /\ Life \in {"owned", "deleting"}
    BY <2>1, <2>2, <1>t DEF Directory, Life
  <2> QED
    BY <2>2, <2>3 DEF Lifecycle!Next, Lifecycle!Complete, Lifecycle!Held
<1>7. CASE MarkReady
  <2>1. CASE mcn' = mcn
    BY <1>0, <1>7, <2>1 DEF MarkReady
  <2>2. CASE mcn' = [mcn EXCEPT !.phase = "Ready", !.lastUsed = 0]
    <3>1. UNCHANGED <<dirExists, marker, torn>> /\ pc = "ready"
      BY <1>7 DEF MarkReady
    <3>2. mcn.finalizer /\ marker /\ dirExists
      BY <3>1, <1>t DEF IInv, DirectoryInv, AgentInv, Working
    <3>3. mcn.phase' = "Ready" /\ UNCHANGED Life /\ Life \in {"owned", "deleting"}
      BY <2>2, <3>2, <1>t DEF Life, TypeOK, ModelCacheNode
    <3>4. UNCHANGED Directory /\ Directory \in {"complete", "damaged"}
      BY <3>1, <3>2 DEF Directory
    <3> QED
      BY <3>3, <3>4 DEF Lifecycle!Next, Lifecycle!Publish, Lifecycle!Held
  <2> QED
    BY <1>7, <2>1, <2>2 DEF MarkReady
<1>8. CASE RemoveEntry
  <2>1. /\ UNCHANGED <<mcn, dirExists>> /\ torn' = TRUE
        /\ marker' = marker \/ marker' = FALSE
    BY <1>8 DEF RemoveEntry
  <2>2. UNCHANGED <<Life, mcn.phase>>
    BY <2>1 DEF Life
  <2>3. CASE ~marker
    <3>1. marker' = marker
      BY <2>1, <2>3, <1>t DEF TypeOK
    <3>2. /\ mcn'.exists = mcn.exists /\ mcn'.deleting = mcn.deleting
          /\ mcn'.finalizer = mcn.finalizer /\ mcn'.phase = mcn.phase
          /\ dirExists' = dirExists
      BY <2>1
    <3> QED
      BY <2>3, <3>1, <3>2, Stutter
  <2>4. CASE marker
    <3>1. dirExists /\ Life \in {"owned", "deleting"}
      BY <2>4, <1>t DEF Life
    <3>2. /\ Directory = IF torn THEN "damaged" ELSE "complete"
          /\ Directory' = IF marker' THEN "damaged" ELSE "incomplete"
      BY <2>1, <2>4, <3>1 DEF Directory
    <3> QED
      BY <2>2, <3>1, <3>2
         DEF Lifecycle!Next, Lifecycle!Decay, Lifecycle!Held, Lifecycle!vars
  <2> QED
    BY <2>3, <2>4
<1>9. CASE RemoveDirectory
  <2>1. /\ UNCHANGED <<mcn, marker>> /\ ~marker /\ dirExists' = FALSE
    BY <1>9 DEF RemoveDirectory
  <2>2. UNCHANGED <<Life, mcn.phase>>
    BY <2>1 DEF Life
  <2>3. CASE ~dirExists
    <3>1. dirExists' = dirExists
      BY <2>1, <2>3, <1>t DEF TypeOK
    <3>2. /\ mcn'.exists = mcn.exists /\ mcn'.deleting = mcn.deleting
          /\ mcn'.finalizer = mcn.finalizer /\ mcn'.phase = mcn.phase
          /\ marker' = marker
      BY <2>1
    <3> QED
      BY <2>3, <3>1, <3>2, Stutter
  <2>4. CASE dirExists
    <3>1. /\ Life \in {"owned", "deleting"}
          /\ Directory = "incomplete" /\ Directory' = "absent"
      BY <2>1, <2>4, <1>t DEF Life, Directory
    <3> QED
      BY <2>2, <3>1 DEF Lifecycle!Next, Lifecycle!Decay, Lifecycle!Held
  <2> QED
    BY <2>3, <2>4, <1>t DEF TypeOK
<1>10. CASE MarkEvicted
  <2>1. /\ UNCHANGED <<dirExists, marker, torn>> /\ pc = "evicted"
        /\ mcn' = [mcn EXCEPT !.phase = "Evicted"]
    BY <1>10 DEF MarkEvicted
  <2>2. mcn.finalizer /\ ~dirExists
    BY <2>1 DEF IInv, AgentInv, Working, DirectoryInv
  <2>3. /\ mcn.phase' = "Evicted" /\ UNCHANGED Life
        /\ Life \in {"owned", "deleting"}
    BY <2>1, <2>2, <1>t DEF Life, TypeOK, ModelCacheNode
  <2>4. UNCHANGED Directory /\ Directory = "absent"
    BY <2>1, <2>2 DEF Directory
  <2> QED
    BY <2>3, <2>4 DEF Lifecycle!Next, Lifecycle!Publish, Lifecycle!Held
<1>11. CASE RemoveFinalizer
  <2>1. /\ UNCHANGED <<dirExists, marker, torn>> /\ pc = "unfinalize"
        /\ mcn' = IF mcn.deleting THEN NoModelCacheNode
                                  ELSE [mcn EXCEPT !.finalizer = FALSE]
    BY <1>11 DEF RemoveFinalizer
  <2>2. (mcn.finalizer => mcn.deleting) /\ ~dirExists
    BY <2>1 DEF IInv, AgentInv, DirectoryInv
  <2>3. CASE mcn.deleting
    <3>1. /\ Life = "deleting" /\ Life' = "none" /\ mcn.phase' = "Unset"
          /\ UNCHANGED Directory /\ Directory = "absent"
      BY <2>1, <2>2, <2>3, <1>t DEF Life, Directory, NoModelCacheNode
    <3> QED
      BY <3>1 DEF Lifecycle!Next, Lifecycle!Vanish
  <2>4. CASE ~mcn.deleting
    <3>1. /\ mcn'.exists = mcn.exists /\ mcn'.deleting = mcn.deleting
          /\ mcn'.finalizer = mcn.finalizer /\ mcn'.phase = mcn.phase
      BY <2>1, <2>2, <2>4, <1>t DEF TypeOK, ModelCacheNode
    <3> QED
      BY <2>1, <3>1, Stutter
  <2> QED
    BY <2>3, <2>4
<1>12. CASE PrepareError
  <2>1. /\ UNCHANGED <<marker, torn>> /\ pc = "prepare"
        /\ dirExists' \in {dirExists, TRUE}
        /\ mcn' = IF inHand = "Unset" THEN [mcn EXCEPT !.phase = "Pending"]
                                      ELSE mcn
    BY <1>12 DEF PrepareError
  <2>2. mcn.finalizer /\ (mcn.phase = "Ready" => marker)
    BY <2>1 DEF IInv, AgentInv, Working, StaleViewInv
  <2>3. /\ mcn.phase' \in {mcn.phase, "Pending"} /\ UNCHANGED Life
        /\ Life \in {"owned", "deleting"}
    BY <2>1, <2>2, <1>t DEF Life, TypeOK, ModelCacheNode
  <2>4. CASE dirExists' = dirExists
    <3>1. UNCHANGED Directory
      BY <2>1, <2>4 DEF Directory
    <3> QED
      BY <2>3, <3>1
         DEF Lifecycle!Next, Lifecycle!Publish, Lifecycle!Held, Lifecycle!vars
  <2>5. CASE ~dirExists /\ dirExists'
    <3>1. Directory = "absent" /\ Directory' = "incomplete" /\ mcn.phase # "Ready"
      BY <2>1, <2>2, <2>5, <1>t DEF Directory
    <3> QED
      BY <2>3, <3>1 DEF Lifecycle!Next, Lifecycle!Fill, Lifecycle!Held
  <2> QED
    BY <2>1, <2>4, <2>5, <1>t DEF TypeOK
<1>13. CASE \/ DeliverModelCacheNode \/ DeliverModelCache \/ Resync
            \/ Reconcile \/ ReconcileError \/ AgentCrash
  BY <1>0, <1>13
     DEF DeliverModelCacheNode, DeliverModelCache, Resync, Reconcile,
         ReconcileError, AgentCrash
<1>14. ASSUME NEW f \in Files, BeginFile(f) \/ EndFile(f)
       PROVE  UNCHANGED <<mcn, dirExists, marker, torn>>
  BY <1>14 DEF BeginFile, EndFile
<1>15. ASSUME NEW p \in Pods,
              \/ BindPod(p) \/ DeletePod(p) \/ ForceDeletePod(p) \/ DeliverPod(p)
              \/ PublishStep(p) \/ PublishError(p) \/ NodeUnpublishVolume(p)
       PROVE  UNCHANGED <<mcn, dirExists, marker, torn>>
  BY <1>15
     DEF BindPod, DeletePod, ForceDeletePod, PodStep, DeliverPod, PublishStep,
         NodePublishVolume, BindMount, RemountReadOnly, PublishError,
         NodeUnpublishVolume
<1>16. CASE UNCHANGED vars
  BY <1>0, <1>16 DEF vars
<1> QED
  BY <1>0, <1>1, <1>2, <1>3, <1>4, <1>5, <1>6, <1>7, <1>8, <1>9, <1>10, <1>11,
     <1>12, <1>13, <1>14, <1>15, <1>16 DEF Next, AgentStep

\* NodeCache implements CacheLifecycle: what the operator and the CSI driver see
\* of a cache follows the abstract life, whatever the agent's copies hide from
\* it and wherever it is interrupted (all actions of NodeCache).
THEOREM Implementation == Spec => ImplementsLifecycle
<1>1. Init => Lifecycle!Init
  BY DEF Init, NoModelCacheNode, Lifecycle!Init, Life, Directory
<1> QED
  BY <1>1, LifecycleStep, Invariance, PTL DEF Spec, ImplementsLifecycle, Lifecycle!Spec
=============================================================================
