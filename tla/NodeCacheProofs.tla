--------------------------- MODULE NodeCacheProofs ---------------------------
(***************************************************************************)
(* Proofs about NodeCache, for any sets of files and Pods, any TTL and any *)
(* number of faults.                                                       *)
(***************************************************************************)
EXTENDS NodeCache, TLAPS

\* Every step of the specification keeps the types of the variables.
LEMMA TypeStep == TypeOK /\ [Next]_vars => TypeOK'
<1> SUFFICES ASSUME TypeOK, [Next]_vars PROVE TypeOK'
  OBVIOUS
<1> USE DEF objectVars, viewVars, agentVars, dirVars, csiVars, histVars
<1>a. 0 \in Ages /\ Never \in Ages /\ \A age \in Ages : Grown(age) \in Ages
  BY ConstantsAssumption DEF Ages, Never, Grown
<1>b. /\ NoModelCacheNode \in ModelCacheNode
      /\ \A object \in ModelCacheNode : Older(object) \in ModelCacheNode
  BY <1>a DEF ModelCacheNode, NoModelCacheNode, Older, Phases
<1>0. CASE UNCHANGED vars
  BY <1>0 DEF TypeOK, vars
<1>1. CASE CreateModelCacheNode \/ DeleteModelCacheNode
  <2>1. mcn' \in ModelCacheNode
    BY <1>1, <1>b DEF TypeOK, ModelCacheNode, CreateModelCacheNode, DeleteModelCacheNode
  <2> QED
    BY <1>1, <2>1 DEF TypeOK, CreateModelCacheNode, DeleteModelCacheNode
<1>2. CASE Tick
  BY <1>2, <1>a, <1>b DEF TypeOK, Tick
<1>3. CASE DeliverModelCacheNode \/ DeliverModelCache \/ Resync
  BY <1>3 DEF TypeOK, DeliverModelCacheNode, DeliverModelCache, Resync, ModelCacheNode
<1>4. CASE Reconcile
  <2>1. pc' \in AgentSteps
    BY <1>4 DEF TypeOK, Reconcile, Dispatch, NextStep, AgentSteps
  <2>2. inHand' \in Phases /\ queued' \in BOOLEAN
    BY <1>4 DEF TypeOK, Reconcile, Dispatch, WaitsForTTL, ModelCacheNode, Phases
  <2> QED
    BY <1>4, <2>1, <2>2 DEF TypeOK, Reconcile
<1>5. CASE AddFinalizer
  <2>1. mcn' \in ModelCacheNode
    BY <1>5 DEF TypeOK, ModelCacheNode, AddFinalizer
  <2>2. pc' \in AgentSteps /\ inHand' \in Phases /\ queued' \in BOOLEAN
    BY <1>5, <2>1
       DEF TypeOK, AddFinalizer, Dispatch, NextStep, Return, ModelCacheNode,
           AgentSteps, Phases
  <2> QED
    BY <1>5, <2>1, <2>2 DEF TypeOK, AddFinalizer
<1>6. CASE MarkUsed \/ MarkReady \/ MarkEvicted \/ RemoveFinalizer
  <2>1. mcn' \in ModelCacheNode
    BY <1>6, <1>a, <1>b
       DEF TypeOK, ModelCacheNode, Phases, MarkUsed, MarkReady, MarkEvicted, RemoveFinalizer
  <2>2. pc' \in AgentSteps /\ inHand' \in Phases /\ queued' \in BOOLEAN
    BY <1>6
       DEF TypeOK, MarkUsed, MarkReady, MarkEvicted, RemoveFinalizer, Return,
           AgentSteps, Phases, ModelCacheNode
  <2> QED
    BY <1>6, <2>1, <2>2 DEF TypeOK, MarkUsed, MarkReady, MarkEvicted, RemoveFinalizer
<1>7. CASE PrepareDirectory \/ WriteCompleteMarker
  BY <1>7 DEF TypeOK, PrepareDirectory, WriteCompleteMarker, AgentSteps, Phases
<1>8. ASSUME NEW f \in Files, BeginFile(f) \/ EndFile(f) PROVE TypeOK'
  BY <1>8 DEF TypeOK, BeginFile, EndFile, FileStates
<1>9. CASE RemoveEntry \/ RemoveDirectory
  <2>1. hit' \in [Pods -> BOOLEAN]
    BY <1>9 DEF TypeOK, RemoveEntry, RemoveDirectory, Struck
  <2>2. disk' \in [Files -> FileStates]
    BY <1>9 DEF TypeOK, RemoveEntry, RemoveDirectory, FileStates
  <2> QED
    BY <1>9, <2>1, <2>2 DEF TypeOK, RemoveEntry, RemoveDirectory, AgentSteps
<1>10. CASE ReconcileError \/ PrepareError \/ AgentCrash
  <2>1. mcn' \in ModelCacheNode
    BY <1>10
       DEF TypeOK, ModelCacheNode, Phases, ReconcileError, PrepareError, AgentCrash
  <2>2. faults' \in 0..MaxFaults
    <3>1. Fault /\ faults \in 0..MaxFaults
      BY <1>10 DEF TypeOK, ReconcileError, PrepareError, AgentCrash
    <3> QED
      BY <3>1, ConstantsAssumption DEF Fault
  <2> QED
    BY <1>10, <2>1, <2>2
       DEF TypeOK, ReconcileError, PrepareError, AgentCrash, Return, Present,
           AgentSteps, Phases, ModelCacheNode
<1>11. ASSUME NEW p \in Pods, BindPod(p) \/ DeletePod(p) \/ ForceDeletePod(p)
       PROVE TypeOK'
  BY <1>11 DEF TypeOK, BindPod, DeletePod, ForceDeletePod, PodStep, PodStates
<1>12. ASSUME NEW p \in Pods, DeliverPod(p) PROVE TypeOK'
  BY <1>12 DEF TypeOK, DeliverPod, ModelCacheNode
<1>13. ASSUME NEW p \in Pods,
              PublishStep(p) \/ PublishError(p) \/ NodeUnpublishVolume(p)
       PROVE TypeOK'
  BY <1>13, ConstantsAssumption
     DEF TypeOK, PodStates, PublishStep, NodePublishVolume, BindMount,
         RemountReadOnly, Published, PublishError, Fault, NodeUnpublishVolume
<1> QED
  BY <1>0, <1>1, <1>2, <1>3, <1>4, <1>5, <1>6, <1>7, <1>8, <1>9, <1>10, <1>11,
     <1>12, <1>13 DEF Next, AgentStep

\* The initial state has the types.
LEMMA InitTypes == Init => TypeOK
<1>1. NoModelCacheNode \in ModelCacheNode /\ TTL \in Ages /\ 0 \in 0..MaxFaults
  BY ConstantsAssumption DEF ModelCacheNode, NoModelCacheNode, Ages, Phases
<1> SUFFICES ASSUME Init PROVE TypeOK
  OBVIOUS
<1>2. /\ pod \in [Pods -> PodStates]
      /\ disk \in [Files -> FileStates]
      /\ csi \in [Pods -> {"idle", "checked", "remount"}]
      /\ mount \in [Pods -> {"none", "rw", "ro"}]
      /\ hit \in [Pods -> BOOLEAN]
  BY DEF Init, PodStates, FileStates
<1>3. pc \in AgentSteps /\ inHand \in Phases
  BY DEF Init, AgentSteps, Phases
<1> QED
  BY <1>1, <1>2, <1>3 DEF Init, TypeOK

\* The variables keep their types (all actions of NodeCache).
THEOREM TypeCorrect == Spec => []TypeOK
  BY InitTypes, TypeStep, PTL DEF Spec

-----------------------------------------------------------------------------
\* Every step keeps the inductive invariant.
LEMMA InvStep == IInv /\ [Next]_vars => IInv'
<1> SUFFICES ASSUME IInv, [Next]_vars PROVE IInv'
  OBVIOUS
<1> USE DEF objectVars, viewVars, agentVars, dirVars, csiVars, histVars
<1> USE DEF ObjectInv, AgentInv, Working, DirectoryInv, HidesReady, StaleViewInv,
            DirectoryOwned, MarkerSound, ReadyNeverPartial, OnlyRemovalExposes,
            Whole
<1>t. TypeOK /\ TypeOK'
  BY TypeStep DEF IInv
<1>0. CASE UNCHANGED vars
  BY <1>0, <1>t DEF vars, IInv
<1>1. CASE CreateModelCacheNode
  <2>1. ObjectInv'
    BY <1>1, <1>t DEF CreateModelCacheNode, NoModelCacheNode,
       TypeOK, ModelCacheNode, IInv
  <2>2. AgentInv'
    <3>1. UNCHANGED <<pc, seen>> /\ ~mcn'.finalizer
      BY <1>1 DEF CreateModelCacheNode, NoModelCacheNode
    <3>2. ~mcn.finalizer /\ ~mcn.deleting
      BY <1>1 DEF CreateModelCacheNode, IInv
    <3>3. ~Working /\ (pc = "addFinalizer" => ~seen.finalizer /\ ~seen.deleting)
      BY <3>2, <1>t DEF IInv, TypeOK, ModelCacheNode
    <3> QED
      BY <3>1, <3>3
  <2>3. DirectoryInv'
    BY <1>1, <1>t DEF CreateModelCacheNode, NoModelCacheNode,
       TypeOK, ModelCacheNode, IInv
  <2>4. StaleViewInv'
    BY <1>1, <1>t DEF CreateModelCacheNode, NoModelCacheNode,
       TypeOK, ModelCacheNode, IInv
  <2>5. (DirectoryOwned /\ MarkerSound /\ ReadyNeverPartial /\ OnlyRemovalExposes)'
    BY <1>1, <1>t DEF CreateModelCacheNode, NoModelCacheNode,
       TypeOK, ModelCacheNode, IInv
  <2> QED
    BY <1>t, <2>1, <2>2, <2>3, <2>4, <2>5 DEF IInv
<1>2. CASE DeleteModelCacheNode
  BY <1>2, <1>t DEF DeleteModelCacheNode, NoModelCacheNode,
     TypeOK, ModelCacheNode, IInv
<1>3. CASE Tick
  BY <1>3, <1>t DEF Tick, Older,
     TypeOK, ModelCacheNode, IInv
<1>4. CASE DeliverModelCacheNode
  BY <1>4, <1>t DEF DeliverModelCacheNode,
     TypeOK, ModelCacheNode, IInv
<1>5. CASE DeliverModelCache \/ Resync
  BY <1>5, <1>t DEF DeliverModelCache, Resync,
     TypeOK, ModelCacheNode, IInv
<1>6. CASE Reconcile
  <2>1. ObjectInv'
    BY <1>6, <1>t DEF Reconcile, Dispatch, NextStep,
       TypeOK, ModelCacheNode, IInv
  <2>2. AgentInv'
    BY <1>6, <1>t DEF Reconcile, Dispatch, NextStep,
       TypeOK, ModelCacheNode, IInv
  <2>3. DirectoryInv'
    BY <1>6, <1>t DEF Reconcile, Dispatch, NextStep,
       TypeOK, ModelCacheNode, IInv
  <2>4. StaleViewInv'
    <3>1. UNCHANGED <<mcn, seen, marker>>
      BY <1>6 DEF Reconcile
    <3>2. pc' = "evict" => seen.phase = "Ready"
      BY <1>6 DEF Reconcile, Dispatch, NextStep
    <3>3. pc' = "prepare" => seen.phase # "Ready" /\ seen.finalizer /\ ~seen.deleting
      BY <1>6, <1>t DEF Reconcile, Dispatch, NextStep, InUse, TypeOK, ModelCacheNode
    <3> QED
      BY <3>1, <3>2, <3>3 DEF IInv
  <2>5. (DirectoryOwned /\ MarkerSound /\ ReadyNeverPartial /\ OnlyRemovalExposes)'
    BY <1>6, <1>t DEF Reconcile, Dispatch, NextStep,
       TypeOK, ModelCacheNode, IInv
  <2> QED
    BY <1>t, <2>1, <2>2, <2>3, <2>4, <2>5 DEF IInv
<1>7. CASE AddFinalizer
  <2>1. ObjectInv'
    BY <1>7, <1>t DEF AddFinalizer, Dispatch, NextStep, Return,
       TypeOK, ModelCacheNode, IInv
  <2>2. AgentInv'
    BY <1>7, <1>t DEF AddFinalizer, Dispatch, NextStep, Return,
       TypeOK, ModelCacheNode, IInv
  <2>3. DirectoryInv'
    BY <1>7, <1>t DEF AddFinalizer, Dispatch, NextStep, Return,
       TypeOK, ModelCacheNode, IInv
  <2>4. StaleViewInv'
    <3>1. /\ UNCHANGED <<seen, marker>>
          /\ mcn'.phase = mcn.phase
          /\ pc = "addFinalizer"
          /\ pc' = "prepare" => mcn.phase # "Ready"
      <4>1. CASE ~mcn.exists
        BY <1>7, <4>1 DEF AddFinalizer, Return
      <4>2. CASE mcn.exists
        <5>1. /\ UNCHANGED <<seen, marker>>
              /\ mcn' = [mcn EXCEPT !.finalizer = TRUE]
              /\ pc = "addFinalizer" /\ pc' = NextStep(mcn')
          BY <1>7, <4>2 DEF AddFinalizer, Dispatch
        <5>2. mcn'.phase = mcn.phase
          BY <1>t, <5>1 DEF TypeOK, ModelCacheNode
        <5> QED
          BY <5>1, <5>2 DEF NextStep, InUse
      <4> QED
        BY <4>1, <4>2
    <3>2. ~HidesReady'
      BY <3>1 DEF IInv
    <3> QED
      BY <3>1, <3>2
  <2>5. (DirectoryOwned /\ MarkerSound /\ ReadyNeverPartial /\ OnlyRemovalExposes)'
    BY <1>7, <1>t DEF AddFinalizer, Dispatch, NextStep, Return,
       TypeOK, ModelCacheNode, IInv
  <2> QED
    BY <1>t, <2>1, <2>2, <2>3, <2>4, <2>5 DEF IInv
<1>8. CASE MarkUsed
  BY <1>8, <1>t DEF MarkUsed, Return,
     TypeOK, ModelCacheNode, IInv
<1>9. CASE PrepareDirectory
  BY <1>9, <1>t DEF PrepareDirectory,
     TypeOK, ModelCacheNode, IInv
<1>10. ASSUME NEW f \in Files, BeginFile(f) \/ EndFile(f) PROVE IInv'
  BY <1>10, <1>t DEF BeginFile, EndFile,
     TypeOK, ModelCacheNode, IInv
<1>11. CASE WriteCompleteMarker
  BY <1>11, <1>t DEF WriteCompleteMarker,
     TypeOK, ModelCacheNode, IInv
<1>12. CASE MarkReady
  <2>1. /\ pc = "ready" /\ pc' = "idle"
        /\ UNCHANGED <<pod, viewVars, todo, dirVars, csiVars, histVars>>
    BY <1>12 DEF MarkReady, Return
  <2>2. /\ mcn'.exists = mcn.exists /\ mcn'.deleting = mcn.deleting
        /\ mcn'.finalizer = mcn.finalizer
        /\ mcn'.phase = mcn.phase \/ mcn'.phase = "Ready"
    <3>1. CASE mcn' = [mcn EXCEPT !.phase = "Ready", !.lastUsed = 0]
      BY <3>1, <1>t DEF TypeOK, ModelCacheNode
    <3>2. CASE mcn' = mcn
      BY <3>2
    <3> QED
      BY <1>12, <3>1, <3>2 DEF MarkReady
  <2>3. marker /\ dirExists /\ mcn.finalizer /\ mcn.exists
    BY <2>1 DEF IInv
  <2>4. ObjectInv'
    BY <2>1, <2>2, <2>3 DEF IInv
  <2>5. AgentInv'
    BY <2>1
  <2>6. DirectoryInv'
    BY <2>1, <2>3
  <2>7. StaleViewInv'
    BY <2>1, <2>3
  <2>8. (DirectoryOwned /\ MarkerSound)'
    BY <2>1, <2>2, <2>3 DEF IInv
  <2>9. ReadyNeverPartial'
    BY <2>1, <2>3 DEF IInv
  <2>10. OnlyRemovalExposes'
    BY <2>1 DEF IInv
  <2> QED
    BY <1>t, <2>4, <2>5, <2>6, <2>7, <2>8, <2>9, <2>10 DEF IInv
<1>13. CASE RemoveEntry
  BY <1>13, <1>t DEF RemoveEntry, Removing, Struck,
     TypeOK, ModelCacheNode, IInv
<1>14. CASE RemoveDirectory
  BY <1>14, <1>t DEF RemoveDirectory, Removing, Struck,
     TypeOK, ModelCacheNode, IInv
<1>15. CASE MarkEvicted
  BY <1>15, <1>t DEF MarkEvicted, Return,
     TypeOK, ModelCacheNode, IInv
<1>16. CASE RemoveFinalizer
  BY <1>16, <1>t DEF RemoveFinalizer, Return, NoModelCacheNode,
     TypeOK, ModelCacheNode, IInv
<1>17. CASE ReconcileError
  BY <1>17, <1>t DEF ReconcileError, Return,
     TypeOK, ModelCacheNode, IInv
<1>18. CASE PrepareError
  <2>1. ObjectInv'
    BY <1>18, <1>t DEF PrepareError, Return,
       TypeOK, ModelCacheNode, IInv
  <2>2. AgentInv'
    BY <1>18, <1>t DEF PrepareError, Return,
       TypeOK, ModelCacheNode, IInv
  <2>3. DirectoryInv'
    <3>1. UNCHANGED marker /\ pc' = "idle" /\ (dirExists => dirExists')
      BY <1>18, <1>t DEF PrepareError, Return, TypeOK
    <3> QED
      BY <3>1 DEF IInv
  <2>4. StaleViewInv'
    BY <1>18, <1>t DEF PrepareError, Return,
       TypeOK, ModelCacheNode, IInv
  <2>5. (DirectoryOwned /\ MarkerSound /\ ReadyNeverPartial /\ OnlyRemovalExposes)'
    BY <1>18, <1>t DEF PrepareError, Return,
       TypeOK, ModelCacheNode, IInv
  <2> QED
    BY <1>t, <2>1, <2>2, <2>3, <2>4, <2>5 DEF IInv
<1>19. CASE AgentCrash
  BY <1>19, <1>t DEF AgentCrash,
     TypeOK, ModelCacheNode, IInv
<1>20. ASSUME NEW p \in Pods, BindPod(p) \/ DeletePod(p) \/ ForceDeletePod(p) PROVE IInv'
  BY <1>20, <1>t DEF BindPod, DeletePod, ForceDeletePod, PodStep,
     TypeOK, ModelCacheNode, IInv
<1>21. ASSUME NEW p \in Pods, DeliverPod(p) PROVE IInv'
  BY <1>21, <1>t DEF DeliverPod,
     TypeOK, ModelCacheNode, IInv
<1>22. ASSUME NEW p \in Pods, NodePublishVolume(p) PROVE IInv'
  BY <1>22, <1>t DEF NodePublishVolume,
     TypeOK, ModelCacheNode, IInv
<1>23. ASSUME NEW p \in Pods, BindMount(p) \/ RemountReadOnly(p) PROVE IInv'
  BY <1>23, <1>t DEF BindMount, RemountReadOnly, Published,
     TypeOK, ModelCacheNode, IInv
<1>24. ASSUME NEW p \in Pods, PublishError(p) \/ NodeUnpublishVolume(p) PROVE IInv'
  BY <1>24, <1>t DEF PublishError, NodeUnpublishVolume,
     TypeOK, ModelCacheNode, IInv
<1> QED
  BY <1>0, <1>1, <1>2, <1>3, <1>4, <1>5, <1>6, <1>7, <1>8, <1>9, <1>10, <1>11, <1>12,
     <1>13, <1>14, <1>15, <1>16, <1>17, <1>18, <1>19, <1>20, <1>21, <1>22, <1>23, <1>24
  DEF Next, AgentStep, PublishStep

\* The inductive invariant holds: the agent, the informers and the driver may
\* interleave, fail and crash in any order (all actions of NodeCache).
THEOREM Invariance == Spec => []IInv
<1>1. Init => IInv
  <2> SUFFICES ASSUME Init PROVE IInv
    OBVIOUS
  <2>1. TypeOK
    BY InitTypes
  <2> QED
    BY <2>1 DEF Init, NoModelCacheNode, IInv, ObjectInv, AgentInv, Working,
       DirectoryInv, HidesReady, StaleViewInv, DirectoryOwned, MarkerSound,
       ReadyNeverPartial, OnlyRemovalExposes
<1> QED
  BY <1>1, InvStep, PTL DEF Spec

\* No model directory without the finalizer that stands for it (Reconcile and
\* reconcileDelete of the node-agent).
THEOREM DirectoryIsOwned == Spec => []DirectoryOwned
<1>1. IInv => DirectoryOwned
  BY DEF IInv
<1> QED
  BY <1>1, Invariance, PTL

\* The marker vouches for every file until a removal begins (Reconcile, Download
\* and writeCompleteMarker).
THEOREM MarkerIsSound == Spec => []MarkerSound
<1>1. IInv => MarkerSound
  BY DEF IInv
<1> QED
  BY <1>1, Invariance, PTL

\* The published phase Ready never stands for a partial download
\* (markModelCacheNodeReady).
THEOREM ReadyIsNeverPartial == Spec => []ReadyNeverPartial
<1>1. IInv => ReadyNeverPartial
  BY DEF IInv
<1> QED
  BY <1>1, Invariance, PTL

\* A mount shows an incomplete model only if os.RemoveAll ran under it
\* (NodePublishVolume against Reconcile).
THEOREM OnlyRemovalExposesModels == Spec => []OnlyRemovalExposes
<1>1. IInv => OnlyRemovalExposes
  BY DEF IInv
<1> QED
  BY <1>1, Invariance, PTL
=============================================================================
