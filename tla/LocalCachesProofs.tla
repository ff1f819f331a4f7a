-------------------------- MODULE LocalCachesProofs --------------------------
(***************************************************************************)
(* Proofs about LocalCaches, for any finite set of nodes, any number of    *)
(* ModelCaches created in turn, of changes and of faults.                  *)
(***************************************************************************)
EXTENDS LocalCaches, FiniteSetTheorems, TLAPS

\* Objects that are absent or new have their types.
LEMMA DataTypes ==
  /\ 0 \in Uids /\ 0 \in 0..MaxChanges /\ 0 \in 0..MaxFaults
  /\ NoStatus \in Status
  /\ \A uid \in Uids : /\ NoModelCache(uid) \in ModelCache
                       /\ NewModelCacheNode(uid) \in ModelCacheNode
  /\ NoModelCacheNode \in ModelCacheNode
  /\ \A object \in ModelCacheNode : Deleted(object) \in ModelCacheNode
<1>1. 0 \in Uids /\ 0 \in 0..MaxChanges /\ 0 \in 0..MaxFaults
  BY ConstantsAssumption DEF Uids
<1>2. NoStatus \in Status
  BY DEF NoStatus, Status, Phases
<1>3. \A uid \in Uids : NoModelCache(uid) \in ModelCache
  BY <1>2 DEF NoModelCache, ModelCache
<1>4. \A uid \in Uids : NewModelCacheNode(uid) \in ModelCacheNode
  BY DEF NewModelCacheNode, ModelCacheNode
<1>5. NoModelCacheNode \in ModelCacheNode
  BY <1>1, <1>4 DEF NoModelCacheNode
<1>6. \A object \in ModelCacheNode : Deleted(object) \in ModelCacheNode
  BY <1>5 DEF Deleted, ModelCacheNode
<1> QED
  BY <1>1, <1>2, <1>3, <1>4, <1>5, <1>6

\* A summary of nodes is a status.
LEMMA SummaryType ==
  ASSUME NEW nodes \in SUBSET Nodes, NEW ready \in SUBSET nodes
  PROVE  Summary(nodes, ready) \in Status
<1>1. IsFiniteSet(nodes) /\ IsFiniteSet(ready)
  BY ConstantsAssumption, FS_Subset
<1>2. Cardinality(nodes) \in Nat /\ Cardinality(ready) \in Nat
  BY <1>1, FS_CardinalityType
<1>3. (CASE nodes = {} -> "Failed"
         [] nodes # {} /\ ready = nodes -> "Ready"
         [] ready # {} /\ ready # nodes -> "Downloading"
         [] OTHER -> "Pending") \in Phases
  BY DEF Phases
<1> QED
  BY <1>2, <1>3 DEF Summary, Status

\* Every step of the specification keeps the types of the variables.
LEMMA TypeStep == IInv /\ [Next]_vars => TypeOK'
<1> SUFFICES ASSUME IInv, [Next]_vars PROVE TypeOK'
  OBVIOUS
<1> USE DEF nodeVars, viewVars, workerVars, historyVars, boundVars
<1>a. TypeOK
  BY DEF IInv
<1>0. CASE UNCHANGED vars
  BY <1>a, <1>0 DEF TypeOK, vars
<1>1. CASE CreateModelCache
  <2>1. mc.uid + 1 \in Uids
    BY <1>a, <1>1, ConstantsAssumption DEF CreateModelCache, TypeOK, ModelCache, Uids
  <2>2. NoModelCache(mc.uid + 1) \in ModelCache
    BY <2>1, DataTypes
  <2>3. mc' \in ModelCache
    BY <1>1, <2>2 DEF CreateModelCache, ModelCache
  <2> QED
    BY <1>a, <1>1, <2>3 DEF TypeOK, CreateModelCache
<1>2. CASE DeleteModelCache
  <2>1. mc' \in ModelCache
    BY <1>a, <1>2, DataTypes DEF TypeOK, DeleteModelCache, ModelCache
  <2> QED
    BY <1>a, <1>2, <2>1 DEF TypeOK, DeleteModelCache
<1>3. ASSUME NEW n \in Nodes, Relabel(n) \/ LoseNode(n) \/ DropModelCacheNode(n)
                              \/ EvictCache(n)
      PROVE  TypeOK'
  <2>1. changes' \in 0..MaxChanges
    BY <1>a, <1>3, ConstantsAssumption
       DEF TypeOK, Relabel, LoseNode, DropModelCacheNode, EvictCache, Change
  <2>2. mcn' \in [Nodes -> ModelCacheNode]
    <3>1. CASE DropModelCacheNode(n)
      <4>1. mcn[n] \in ModelCacheNode /\ Deleted(mcn[n]) \in ModelCacheNode
        BY <1>a, DataTypes DEF TypeOK
      <4> QED
        BY <1>a, <3>1, <4>1 DEF TypeOK, DropModelCacheNode
    <3>2. CASE EvictCache(n)
      BY <1>a, <3>2 DEF TypeOK, EvictCache, ModelCacheNode
    <3> QED
      BY <1>a, <1>3, <3>1, <3>2 DEF TypeOK, Relabel, LoseNode
  <2>3. model' \in [Nodes -> Uids] /\ selected' \subseteq Nodes /\ alive' \subseteq Nodes
    BY <1>a, <1>3, DataTypes
       DEF TypeOK, Relabel, LoseNode, DropModelCacheNode, EvictCache
  <2> QED
    BY <1>a, <1>3, <2>1, <2>2, <2>3
       DEF TypeOK, Relabel, LoseNode, DropModelCacheNode, EvictCache, Change
<1>4. ASSUME NEW n \in Nodes, OwnCache(n) \/ FillCache(n) \/ RemoveCache(n)
      PROVE  TypeOK'
  <2>1. mcn' \in [Nodes -> ModelCacheNode]
    <3>1. CASE OwnCache(n)
      BY <1>a, <3>1 DEF TypeOK, OwnCache, ModelCacheNode
    <3>2. CASE FillCache(n)
      <4>1. mcn' = [mcn EXCEPT ![n].ready = TRUE]
        BY <3>2 DEF FillCache
      <4> QED
        BY <1>a, <4>1 DEF TypeOK, ModelCacheNode
    <3>3. CASE RemoveCache(n)
      BY <1>a, <3>3, DataTypes DEF TypeOK, RemoveCache
    <3> QED
      BY <1>4, <3>1, <3>2, <3>3
  <2>2. model' \in [Nodes -> Uids] /\ misled' \subseteq Nodes
    <3>1. CASE FillCache(n)
      <4>1. \A uid \in 1..mc.uid : uid \in Uids
        BY <1>a, ConstantsAssumption DEF TypeOK, ModelCache, Uids
      <4> QED
        BY <1>a, <3>1, <4>1 DEF TypeOK, FillCache
    <3> QED
      BY <1>a, <1>4, <3>1, DataTypes DEF TypeOK, OwnCache, RemoveCache
  <2> QED
    BY <1>a, <1>4, <2>1, <2>2
       DEF TypeOK, OwnCache, FillCache, RemoveCache, AgentStep
<1>5. CASE DeliverModelCache \/ Resync \/ \E n \in Nodes : DeliverModelCacheNode(n)
  BY <1>a, <1>5
     DEF TypeOK, DeliverModelCache, Resync, DeliverModelCacheNode, Delivered
<1>6. CASE Reconcile
  <2>1. pc' \in Steps /\ held' \in Uids /\ todo' \subseteq Nodes
    BY <1>a, <1>6 DEF TypeOK, Reconcile, Steps, ModelCache, Owned
  <2>2. queued' \in BOOLEAN /\ current' \in BOOLEAN
    BY <1>a, <1>6 DEF TypeOK, Reconcile
  <2> QED
    BY <1>a, <1>6, <2>1, <2>2 DEF TypeOK, Reconcile, Working
<1>7. CASE AddFinalizer
  <2>1. mc' \in ModelCache /\ held' \in Uids
    BY <1>a, <1>7, DataTypes DEF TypeOK, AddFinalizer, Return, ModelCache
  <2>2. queued' \in BOOLEAN /\ current' \in BOOLEAN /\ fresh' \in BOOLEAN
    BY <1>a, <1>7 DEF TypeOK, AddFinalizer, Return
  <2> QED
    BY <1>a, <1>7, <2>1, <2>2 DEF TypeOK, AddFinalizer, Return, Working, Steps
<1>8. CASE ListNodes
  <2>1. found = {}
    BY <1>8 DEF IInv, ReconcileInv, ListNodes
  <2> QED
    BY <1>a, <1>8, <2>1 DEF TypeOK, ListNodes, Working, Steps
<1>9. ASSUME NEW n \in Nodes, EnsureModelCacheNode(n)
      PROVE  TypeOK'
  <2>1. mcn' \in [Nodes -> ModelCacheNode]
    BY <1>a, <1>9, DataTypes DEF TypeOK, EnsureModelCacheNode, ModelCacheNode
  <2>2. todo' \subseteq Nodes /\ listed' \subseteq Nodes /\ found' \subseteq listed'
    BY <1>a, <1>9
       DEF IInv, ReconcileInv, TypeOK, EnsureModelCacheNode, Ensured, Return
  <2>3. /\ pc' \in Steps /\ held' \in Uids
        /\ current' \in BOOLEAN /\ queued' \in BOOLEAN
    BY <1>a, <1>9, DataTypes DEF TypeOK, EnsureModelCacheNode, Ensured, Return, Steps
  <2> QED
    BY <1>a, <1>9, <2>1, <2>2, <2>3 DEF TypeOK, EnsureModelCacheNode, Working
<1>10. CASE UpdateStatus
  <2>1. Summary(listed, found) \in Status
    BY <1>a, SummaryType DEF TypeOK
  <2>2. mc' \in ModelCache
    BY <1>a, <1>10, <2>1 DEF TypeOK, UpdateStatus, ModelCache
  <2>3. queued' \in BOOLEAN /\ fresh' \in BOOLEAN
    BY <1>a, <1>10 DEF TypeOK, UpdateStatus, Return
  <2> QED
    BY <1>a, <1>10, <2>2, <2>3, DataTypes
       DEF TypeOK, UpdateStatus, Return, Working, Steps
<1>11. ASSUME NEW n \in Nodes, DeleteModelCacheNode(n)
       PROVE  TypeOK'
  <2>1. mcn' \in [Nodes -> ModelCacheNode]
    <3>1. mcn[n] \in ModelCacheNode /\ Deleted(mcn[n]) \in ModelCacheNode
      BY <1>a, DataTypes DEF TypeOK
    <3> QED
      BY <1>a, <1>11, <3>1 DEF TypeOK, DeleteModelCacheNode
  <2> QED
    BY <1>a, <1>11, <2>1 DEF TypeOK, DeleteModelCacheNode, Working
<1>12. CASE AwaitDeletion
  BY <1>a, <1>12, DataTypes DEF TypeOK, AwaitDeletion, Return, Working, Steps
<1>13. CASE ReleaseModelCache
  <2>1. mc' \in ModelCache
    BY <1>a, <1>13, DataTypes DEF TypeOK, ReleaseModelCache, ModelCache
  <2>2. queued' \in BOOLEAN /\ fresh' \in BOOLEAN
    BY <1>a, <1>13 DEF TypeOK, ReleaseModelCache, Return, ModelCache
  <2> QED
    BY <1>a, <1>13, <2>1, <2>2, DataTypes
       DEF TypeOK, ReleaseModelCache, Return, Working, Steps
<1>14. CASE ReconcileError \/ OperatorCrash
  <2>1. faults' \in 0..MaxFaults
    <3>1. Fault /\ faults \in 0..MaxFaults
      BY <1>a, <1>14 DEF TypeOK, ReconcileError, OperatorCrash
    <3> QED
      BY <3>1, ConstantsAssumption DEF Fault
  <2>2. queued' \in BOOLEAN
    BY <1>a, <1>14 DEF TypeOK, ReconcileError, OperatorCrash, Return, ModelCache
  <2> QED
    BY <1>a, <1>14, <2>1, <2>2, DataTypes
       DEF TypeOK, ReconcileError, OperatorCrash, Return, Steps
<1> QED
  BY <1>0, <1>1, <1>2, <1>3, <1>4, <1>5, <1>6, <1>7, <1>8, <1>9, <1>10, <1>11,
     <1>12, <1>13, <1>14
     DEF Next, ControllerStep

\* Every step keeps what is said of the ModelCache, of the informer's copy of it
\* and of the steps of a reconcile.
LEMMA ControllerStepInv ==
  IInv /\ [Next]_vars => (ObjectInv /\ ViewInv /\ ReconcileInv)'
<1> SUFFICES ASSUME IInv, [Next]_vars
             PROVE  (ObjectInv /\ ViewInv /\ ReconcileInv)'
  OBVIOUS
<1> USE DEF nodeVars, viewVars, workerVars, historyVars, boundVars
<1>a. TypeOK /\ ObjectInv /\ ViewInv /\ ReconcileInv
  BY DEF IInv
<1>b. /\ mc.uid \in Nat /\ seen.uid \in Nat /\ held \in Nat
      /\ mc.exists \in BOOLEAN /\ mc.deleting \in BOOLEAN /\ mc.finalizer \in BOOLEAN
      /\ seen.exists \in BOOLEAN /\ seen.deleting \in BOOLEAN
      /\ seen.finalizer \in BOOLEAN
  BY <1>a, ConstantsAssumption DEF TypeOK, ModelCache, Uids
<1>c. mc \in ModelCache
  BY <1>a DEF TypeOK
\* Steps of nobody who touches the ModelCache, its copy or the reconcile.
<1>0. ASSUME UNCHANGED <<mc, seen, workerVars>>
      PROVE  (ObjectInv /\ ViewInv /\ ReconcileInv)'
  BY <1>a, <1>0 DEF ObjectInv, ViewInv, ReconcileInv
<1>1. CASE \/ UNCHANGED vars
           \/ \E n \in Nodes :
                \/ Relabel(n) \/ LoseNode(n) \/ DropModelCacheNode(n) \/ EvictCache(n)
                \/ OwnCache(n) \/ FillCache(n) \/ RemoveCache(n)
                \/ DeliverModelCacheNode(n)
           \/ Resync
  <2>1. UNCHANGED <<mc, seen, workerVars>>
    BY <1>1
       DEF vars, Relabel, LoseNode, DropModelCacheNode, EvictCache, Change, OwnCache,
           FillCache, RemoveCache, AgentStep, DeliverModelCacheNode, Resync, Delivered
  <2> QED
    BY <2>1, <1>0
<1>2. CASE CreateModelCache
  <2>1. /\ mc' = [NoModelCache(mc.uid + 1) EXCEPT !.exists = TRUE]
        /\ ~mc.exists /\ ~mc.deleting /\ ~mc.finalizer
    BY <1>a, <1>2 DEF CreateModelCache, ObjectInv, NoModelCache
  <2>2. mc'.exists /\ mc'.uid = mc.uid + 1 /\ ~mc'.deleting /\ ~mc'.finalizer
    BY <2>1 DEF NoModelCache
  <2>3. UNCHANGED <<seen, pc, held, todo, listed, found>>
    BY <1>2 DEF CreateModelCache
  <2>4. ObjectInv'
    BY <1>b, <2>2 DEF ObjectInv
  <2>5. ViewInv'
    BY <1>a, <1>b, <2>1, <2>2, <2>3 DEF ViewInv
  <2>6. ReconcileInv'
    BY <1>a, <1>b, <2>1, <2>2, <2>3 DEF ReconcileInv, ViewInv
  <2> QED
    BY <2>4, <2>5, <2>6
<1>3. CASE DeleteModelCache
  <2>1. /\ mc.exists /\ ~mc.deleting
        /\ UNCHANGED <<seen, pc, held, todo, listed, found>>
    BY <1>3 DEF DeleteModelCache
  <2>2. CASE mc.finalizer
    <3>1. /\ mc'.exists /\ mc'.uid = mc.uid /\ mc'.deleting /\ mc'.finalizer
      BY <1>c, <1>3, <2>1, <2>2 DEF DeleteModelCache, ModelCache
    <3>2. ObjectInv' /\ ViewInv'
      BY <1>a, <1>b, <2>1, <2>2, <3>1 DEF ObjectInv, ViewInv
    <3>3. ReconcileInv'
      BY <1>a, <1>b, <2>1, <2>2, <3>1 DEF ReconcileInv
    <3> QED
      BY <3>2, <3>3
  <2>3. CASE ~mc.finalizer
    <3>1. mc' = NoModelCache(mc.uid)
      BY <1>3, <2>3 DEF DeleteModelCache
    <3>2. ~mc'.exists /\ mc'.uid = mc.uid /\ ~mc'.deleting /\ ~mc'.finalizer
      BY <3>1 DEF NoModelCache
    <3>3. ObjectInv' /\ ViewInv'
      BY <1>a, <1>b, <2>1, <2>3, <3>1, <3>2 DEF ObjectInv, ViewInv
    <3>4. ReconcileInv'
      BY <1>a, <1>b, <2>1, <2>3, <3>2 DEF ReconcileInv, ViewInv
    <3> QED
      BY <3>3, <3>4
  <2> QED
    BY <2>2, <2>3
<1>4. CASE DeliverModelCache
  <2>1. UNCHANGED <<mc, workerVars>> /\ seen' = mc
    BY <1>4 DEF DeliverModelCache, Delivered
  <2>2. ObjectInv' /\ ViewInv'
    BY <1>a, <1>b, <2>1 DEF ObjectInv, ViewInv, NoModelCache
  <2>3. mc.deleting => mc.exists
    BY <1>a DEF ObjectInv, NoModelCache
  <2>4. ReconcileInv'
    BY <1>a, <1>b, <2>1, <2>3 DEF ReconcileInv
  <2> QED
    BY <2>2, <2>4
<1>5. CASE OperatorCrash
  <2>1. UNCHANGED mc /\ seen' = mc /\ pc' = "idle" /\ found' = {}
    BY <1>5 DEF OperatorCrash
  <2>2. ObjectInv' /\ ViewInv'
    BY <1>a, <1>b, <2>1 DEF ObjectInv, ViewInv, NoModelCache
  <2>3. ReconcileInv'
    BY <2>1 DEF ReconcileInv
  <2> QED
    BY <2>2, <2>3
\* A reconcile that returns promises nothing more.
<1>6. ASSUME NEW again, Return(again), UNCHANGED <<mc, seen>>
      PROVE  (ObjectInv /\ ViewInv /\ ReconcileInv)'
  BY <1>a, <1>6 DEF Return, ObjectInv, ViewInv, ReconcileInv
<1>7. CASE ReconcileError \/ AwaitDeletion
  BY <1>6, <1>7 DEF ReconcileError, AwaitDeletion, Working
<1>8. CASE Reconcile
  <2>1. UNCHANGED <<mc, seen, listed, found>> /\ pc = "idle"
    BY <1>8 DEF Reconcile, Working
  <2>2. ObjectInv' /\ ViewInv'
    BY <1>a, <2>1 DEF ObjectInv, ViewInv
  <2>3. CASE ~seen.exists
    BY <1>8, <1>0, <2>1, <2>3 DEF Reconcile
  <2>4. CASE seen.exists /\ seen.deleting
    <3>1. pc' \in {"release", "delete"} /\ held' = seen.uid
      BY <1>8, <2>4 DEF Reconcile
    <3>2. ReconcileInv'
      BY <1>a, <1>b, <2>1, <2>4, <3>1 DEF ReconcileInv, ViewInv
    <3> QED
      BY <2>2, <3>2
  <2>5. CASE seen.exists /\ ~seen.deleting
    <3>1. pc' = (IF seen.finalizer THEN "list" ELSE "addFinalizer") /\ held' = seen.uid
      BY <1>8, <2>5 DEF Reconcile
    <3>2. ReconcileInv'
      BY <1>a, <1>b, <2>1, <2>5, <3>1 DEF ReconcileInv, ViewInv
    <3> QED
      BY <2>2, <3>2
  <2> QED
    BY <1>b, <2>3, <2>4, <2>5
<1>9. CASE AddFinalizer
  <2>1. CASE ~mc.exists
    BY <1>6, <1>9, <2>1 DEF AddFinalizer, Working
  <2>2. CASE mc.exists
    <3>1. /\ mc' = [mc EXCEPT !.finalizer = TRUE]
          /\ pc = "addFinalizer" /\ pc' = "list" /\ held' = mc.uid
          /\ UNCHANGED <<seen, todo, found>>
      BY <1>9, <2>2 DEF AddFinalizer, Working
    <3>2. /\ mc'.exists /\ mc'.uid = mc.uid /\ mc'.deleting = mc.deleting
          /\ mc'.finalizer
      BY <1>c, <2>2, <3>1 DEF ModelCache
    <3>3. ObjectInv' /\ ViewInv'
      BY <1>a, <1>b, <2>2, <3>1, <3>2 DEF ObjectInv, ViewInv, ReconcileInv
    <3>4. ReconcileInv'
      BY <1>a, <3>1, <3>2 DEF ReconcileInv
    <3> QED
      BY <3>3, <3>4
  <2> QED
    BY <2>1, <2>2
<1>10. CASE ListNodes
  <2>1. /\ UNCHANGED <<mc, seen, held, found>>
        /\ pc = "list" /\ pc' \in {"update", "ensure"} /\ todo' = listed'
    BY <1>10 DEF ListNodes, Working
  <2>2. ObjectInv' /\ ViewInv'
    BY <1>a, <2>1 DEF ObjectInv, ViewInv
  <2>3. ReconcileInv'
    BY <1>a, <2>1 DEF ReconcileInv
  <2> QED
    BY <2>2, <2>3
<1>11. ASSUME NEW n \in Nodes, EnsureModelCacheNode(n)
       PROVE  (ObjectInv /\ ViewInv /\ ReconcileInv)'
  <2>1. UNCHANGED <<mc, seen>> /\ pc = "ensure"
    BY <1>11 DEF EnsureModelCacheNode, Working
  <2>2. CASE Return(TRUE)
    BY <1>6, <2>1, <2>2
  <2>3. CASE Ensured(n, seenNodes[n])
    <3>1. /\ UNCHANGED <<held, listed>> /\ todo' \subseteq todo
          /\ pc' \in {"update", "ensure"}
      BY <2>3 DEF Ensured
    <3>2. ObjectInv' /\ ViewInv'
      BY <1>a, <2>1 DEF ObjectInv, ViewInv
    <3>3. ReconcileInv'
      BY <1>a, <2>1, <3>1 DEF ReconcileInv
    <3> QED
      BY <3>2, <3>3
  <2> QED
    BY <1>11, <2>2, <2>3 DEF EnsureModelCacheNode
<1>12. CASE UpdateStatus
  <2>1. UNCHANGED seen /\ pc = "update" /\ \E again : Return(again)
    BY <1>12 DEF UpdateStatus, Working
  <2>2. CASE ~current
    BY <1>6, <1>12, <2>1, <2>2 DEF UpdateStatus
  <2>3. CASE current
    <3>1. mc' = [mc EXCEPT !.status = Summary(listed, found)]
      BY <1>12, <2>3 DEF UpdateStatus
    <3>2. /\ mc'.exists /\ mc'.uid = mc.uid /\ mc'.deleting = mc.deleting
          /\ mc'.finalizer = mc.finalizer
      BY <1>a, <1>c, <2>1, <3>1 DEF ModelCache, ReconcileInv
    <3>3. ObjectInv' /\ ViewInv'
      BY <1>a, <1>b, <2>1, <3>2 DEF ObjectInv, ViewInv, ReconcileInv
    <3>4. ReconcileInv'
      BY <2>1 DEF ReconcileInv, Return
    <3> QED
      BY <3>3, <3>4
  <2> QED
    BY <2>2, <2>3
<1>13. ASSUME NEW n \in Nodes, DeleteModelCacheNode(n)
       PROVE  (ObjectInv /\ ViewInv /\ ReconcileInv)'
  <2>1. UNCHANGED <<mc, seen, pc, held, listed, found>> /\ pc = "delete"
    BY <1>13 DEF DeleteModelCacheNode, Working
  <2> QED
    BY <1>a, <2>1 DEF ObjectInv, ViewInv, ReconcileInv
<1>14. CASE ReleaseModelCache
  <2>1. UNCHANGED seen /\ pc = "release" /\ Return(~mc.exists)
    BY <1>14 DEF ReleaseModelCache, Working
  <2>2. CASE ~mc.deleting
    <3>1. mc' = [mc EXCEPT !.finalizer = FALSE]
      BY <1>14, <2>2 DEF ReleaseModelCache
    <3>2. ~mc.finalizer
      BY <1>a, <1>b, <2>1, <2>2 DEF ReconcileInv, ObjectInv, NoModelCache
    <3>3. mc' = mc
      BY <1>b, <1>c, <3>1, <3>2 DEF ModelCache
    <3> QED
      BY <1>6, <2>1, <3>3
  <2>3. CASE mc.deleting
    <3>1. mc' = NoModelCache(mc.uid)
      BY <1>14, <2>3 DEF ReleaseModelCache
    <3>2. ~mc'.exists /\ mc'.uid = mc.uid /\ ~mc'.deleting /\ ~mc'.finalizer
      BY <3>1 DEF NoModelCache
    <3>3. mc.finalizer /\ mc.uid = held
      BY <1>a, <1>b, <2>1, <2>3 DEF ObjectInv, ReconcileInv
    <3>4. ObjectInv'
      BY <3>1, <3>2 DEF ObjectInv
    <3>5. seen.finalizer => seen.exists
      BY <1>a, <1>b DEF ViewInv, NoModelCache
    <3>6. ViewInv'
      BY <1>a, <1>b, <2>1, <3>2, <3>3, <3>5 DEF ViewInv, ReconcileInv
    <3>7. ReconcileInv'
      BY <2>1 DEF ReconcileInv, Return
    <3> QED
      BY <3>4, <3>6, <3>7
  <2> QED
    BY <1>b, <2>2, <2>3
<1> QED
  BY <1>1, <1>2, <1>3, <1>4, <1>5, <1>7, <1>8, <1>9, <1>10, <1>11, <1>12, <1>13,
     <1>14
     DEF Next, ControllerStep

\* Every step keeps what is said of the ModelCacheNodes and of the models.
LEMMA NodesStepInv ==
  IInv /\ [Next]_vars => (NodesInv /\ WrongModelOnlyByOrphan)'
<1> SUFFICES ASSUME IInv, [Next]_vars
             PROVE  (NodesInv /\ WrongModelOnlyByOrphan)'
  OBVIOUS
<1> USE DEF nodeVars, viewVars, workerVars, historyVars, boundVars
<1>a. TypeOK /\ ObjectInv /\ ReconcileInv /\ NodesInv /\ WrongModelOnlyByOrphan
  BY DEF IInv
<1>b. /\ mc \in ModelCache /\ mcn \in [Nodes -> ModelCacheNode]
      /\ model \in [Nodes -> Uids]
  BY <1>a DEF TypeOK
<1>c. mc.uid \in Nat /\ \A n \in Nodes : mcn[n].uid \in Nat
  BY <1>b, ConstantsAssumption DEF ModelCache, ModelCacheNode, Uids
\* Nothing about the nodes changes, and the ModelCache keeps its finalizer.
<1>0. ASSUME UNCHANGED <<mcn, model, orphaned, misled>>,
             \/ UNCHANGED mc
             \/ /\ mc'.uid = mc.uid /\ mc'.exists = mc.exists
                /\ mc.finalizer => mc'.finalizer
      PROVE  (NodesInv /\ WrongModelOnlyByOrphan)'
  BY <1>a, <1>0 DEF NodesInv, WrongModelOnlyByOrphan
<1>1. CASE \/ UNCHANGED vars \/ DeliverModelCache \/ Resync
           \/ \E n \in Nodes : Relabel(n) \/ LoseNode(n) \/ DeliverModelCacheNode(n)
           \/ Reconcile \/ ListNodes \/ AwaitDeletion
           \/ ReconcileError \/ OperatorCrash
  <2>1. UNCHANGED <<mc, mcn, model, orphaned, misled>>
    BY <1>1
       DEF vars, DeliverModelCache, Resync, Delivered, Relabel, LoseNode, Change,
           DeliverModelCacheNode, Reconcile, ListNodes, AwaitDeletion, Working,
           ReconcileError, OperatorCrash
  <2> QED
    BY <1>0, <2>1
<1>2. CASE CreateModelCache
  <2>1. ~mc.exists /\ UNCHANGED <<mcn, model, orphaned, misled>>
    BY <1>2 DEF CreateModelCache
  <2> QED
    BY <1>a, <2>1 DEF NodesInv, WrongModelOnlyByOrphan
<1>3. CASE DeleteModelCache
  <2>1. mc.exists /\ UNCHANGED <<mcn, model, orphaned, misled>>
    BY <1>3 DEF DeleteModelCache
  <2>2. CASE mc.finalizer
    <3>1. mc'.uid = mc.uid /\ mc'.exists = mc.exists /\ mc'.finalizer
      BY <1>b, <1>3, <2>2 DEF DeleteModelCache, ModelCache
    <3> QED
      BY <1>0, <2>1, <3>1
  <2>3. CASE ~mc.finalizer
    BY <1>a, <2>1, <2>3 DEF NodesInv, WrongModelOnlyByOrphan
  <2> QED
    BY <2>2, <2>3
<1>4. CASE AddFinalizer
  <2>1. UNCHANGED <<mcn, model, orphaned, misled>>
    BY <1>4 DEF AddFinalizer, Working
  <2>2. mc'.uid = mc.uid /\ mc'.exists = mc.exists /\ (mc.finalizer => mc'.finalizer)
    BY <1>b, <1>4 DEF AddFinalizer, ModelCache
  <2> QED
    BY <1>0, <2>1, <2>2
<1>5. CASE UpdateStatus
  <2>1. UNCHANGED <<mcn, model, orphaned, misled>>
    BY <1>5 DEF UpdateStatus, Working
  <2>2. mc'.uid = mc.uid /\ mc'.exists = mc.exists /\ (mc.finalizer => mc'.finalizer)
    BY <1>b, <1>5 DEF UpdateStatus, ModelCache
  <2> QED
    BY <1>0, <2>1, <2>2
\* One ModelCacheNode changes, its uid and its model kept or taken together.
<1>6. ASSUME NEW n \in Nodes, NEW object \in ModelCacheNode,
             mcn' = [mcn EXCEPT ![n] = object],
             UNCHANGED <<mc, orphaned>>,
             object.uid \in {0, mcn[n].uid},
             object.uid = 0 => ~object.finalizer /\ ~object.ready,
             \/ /\ object.ready => mcn[n].ready
                /\ object.uid = mcn[n].uid \/ ~object.ready
                /\ UNCHANGED <<model, misled>>
             \/ /\ \A m \in Nodes \ {n} : model'[m] = model[m]
                /\ \A m \in Nodes \ {n} : m \in misled => m \in misled'
                /\ object.ready /\ model'[n] # object.uid =>
                     n \in orphaned \cup misled'
      PROVE  (NodesInv /\ WrongModelOnlyByOrphan)'
  <2>1. mcn'[n] = object /\ \A m \in Nodes \ {n} : mcn'[m] = mcn[m]
    BY <1>b, <1>6
  <2>2. NodesInv'
    <3> SUFFICES ASSUME NEW m \in Nodes
                 PROVE  /\ mcn'[m].uid = 0 => ~mcn'[m].finalizer /\ ~mcn'[m].ready
                        /\ mcn'[m].uid # 0 /\ m \notin orphaned =>
                             mc.exists /\ mc.finalizer /\ mc.uid = mcn'[m].uid
      BY <1>6 DEF NodesInv
    <3>1. CASE m = n
      BY <1>a, <1>6, <2>1, <3>1 DEF NodesInv
    <3>2. CASE m # n
      BY <1>a, <2>1, <3>2 DEF NodesInv
    <3> QED
      BY <3>1, <3>2
  <2>3. WrongModelOnlyByOrphan'
    <3> SUFFICES ASSUME NEW m \in Nodes, mcn'[m].ready, model'[m] # mcn'[m].uid
                 PROVE  m \in orphaned' \cup misled'
      BY DEF WrongModelOnlyByOrphan
    <3>1. CASE m = n
      BY <1>a, <1>6, <2>1, <3>1 DEF WrongModelOnlyByOrphan
    <3>2. CASE m # n
      BY <1>a, <1>6, <2>1, <3>2 DEF WrongModelOnlyByOrphan
    <3> QED
      BY <3>1, <3>2
  <2> QED
    BY <2>2, <2>3
\* A deletion keeps the object as it is but for its timestamp, or ends it.
<1>d. ASSUME NEW n \in Nodes
      PROVE  /\ Deleted(mcn[n]) \in ModelCacheNode
             /\ Deleted(mcn[n]).uid \in {0, mcn[n].uid}
             /\ Deleted(mcn[n]).uid = 0 =>
                  ~Deleted(mcn[n]).finalizer /\ ~Deleted(mcn[n]).ready
             /\ Deleted(mcn[n]).ready => mcn[n].ready
             /\ Deleted(mcn[n]).uid = mcn[n].uid \/ ~Deleted(mcn[n]).ready
  <2>1. Deleted(mcn[n]) \in ModelCacheNode
    BY <1>b, DataTypes
  <2> QED
    BY <1>a, <1>b, <2>1
       DEF Deleted, NoModelCacheNode, NewModelCacheNode, ModelCacheNode, NodesInv
<1>7. ASSUME NEW n \in Nodes, DropModelCacheNode(n)
      PROVE  (NodesInv /\ WrongModelOnlyByOrphan)'
  <2>1. /\ mcn' = [mcn EXCEPT ![n] = Deleted(mcn[n])]
        /\ UNCHANGED <<mc, model, orphaned, misled>>
    BY <1>7 DEF DropModelCacheNode, Change
  <2> QED
    BY <1>6, <1>d, <2>1
<1>8. ASSUME NEW n \in Nodes, DeleteModelCacheNode(n)
      PROVE  (NodesInv /\ WrongModelOnlyByOrphan)'
  <2>1. UNCHANGED <<mc, model, orphaned, misled>>
    BY <1>8 DEF DeleteModelCacheNode, Working
  <2>2. CASE mcn[n].uid = 0
    <3>1. mcn' = mcn
      BY <1>b, <1>8, <2>2 DEF DeleteModelCacheNode
    <3> QED
      BY <1>0, <2>1, <3>1
  <2>3. CASE mcn[n].uid # 0
    <3>1. mcn' = [mcn EXCEPT ![n] = Deleted(mcn[n])]
      BY <1>8, <2>3 DEF DeleteModelCacheNode
    <3> QED
      BY <1>6, <1>d, <2>1, <3>1
  <2> QED
    BY <2>2, <2>3
<1>9. ASSUME NEW n \in Nodes, OwnCache(n)
      PROVE  (NodesInv /\ WrongModelOnlyByOrphan)'
  <2> DEFINE object == [mcn[n] EXCEPT !.finalizer = TRUE]
  <2>1. /\ mcn' = [mcn EXCEPT ![n] = object]
        /\ UNCHANGED <<mc, orphaned, model, misled>>
        /\ mcn[n].uid # 0
    BY <1>b, <1>9 DEF OwnCache, AgentStep
  <2>2. /\ object \in ModelCacheNode
        /\ object.uid = mcn[n].uid /\ object.ready = mcn[n].ready
    BY <1>b DEF ModelCacheNode
  <2> HIDE DEF object
  <2> QED
    BY <1>6, <2>1, <2>2
<1>10. ASSUME NEW n \in Nodes, FillCache(n)
       PROVE  (NodesInv /\ WrongModelOnlyByOrphan)'
  <2> DEFINE object == [mcn[n] EXCEPT !.ready = TRUE]
  <2>1. /\ mcn' = [mcn EXCEPT ![n] = object]
        /\ UNCHANGED <<mc, orphaned>>
        /\ mcn[n].finalizer
    BY <1>b, <1>10 DEF FillCache, AgentStep, Settled
  <2>2. /\ object \in ModelCacheNode
        /\ object.uid = mcn[n].uid
    BY <1>b DEF ModelCacheNode
  <2>3. mcn[n].uid # 0
    BY <1>a, <2>1 DEF NodesInv
  <2>4. PICK uid \in 1..mc.uid :
          /\ model' = [model EXCEPT ![n] = uid]
          /\ misled' = IF uid = mc.uid THEN misled \ {n} ELSE misled \cup {n}
    BY <1>10 DEF FillCache
  <2>5. /\ model'[n] = uid
        /\ \A m \in Nodes \ {n} : model'[m] = model[m]
        /\ \A m \in Nodes \ {n} : m \in misled => m \in misled'
    BY <1>b, <2>4
  <2>6. uid # mcn[n].uid => n \in orphaned \cup misled'
    <3>1. uid # mc.uid => n \in misled'
      BY <2>4
    <3>2. n \notin orphaned => mcn[n].uid = mc.uid
      BY <1>a, <2>3 DEF NodesInv
    <3> QED
      BY <3>1, <3>2
  <2> HIDE DEF object
  <2> QED
    BY <1>6, <2>1, <2>2, <2>3, <2>5, <2>6
<1>11. ASSUME NEW n \in Nodes, EvictCache(n)
       PROVE  (NodesInv /\ WrongModelOnlyByOrphan)'
  <2> DEFINE object == [mcn[n] EXCEPT !.ready = FALSE]
  <2>1. /\ mcn' = [mcn EXCEPT ![n] = object]
        /\ model' = [model EXCEPT ![n] = 0]
        /\ UNCHANGED <<mc, orphaned, misled>>
        /\ mcn[n].finalizer
    BY <1>b, <1>11 DEF EvictCache, Change, Settled
  <2>2. /\ object \in ModelCacheNode
        /\ object.uid = mcn[n].uid /\ ~object.ready
    BY <1>b DEF ModelCacheNode
  <2>3. mcn[n].uid # 0
    BY <1>a, <2>1 DEF NodesInv
  <2>4. \A m \in Nodes \ {n} : model'[m] = model[m]
    BY <1>b, <2>1
  <2> HIDE DEF object
  <2> QED
    BY <1>6, <2>1, <2>2, <2>3, <2>4
<1>12. ASSUME NEW n \in Nodes, RemoveCache(n)
       PROVE  (NodesInv /\ WrongModelOnlyByOrphan)'
  <2>1. /\ mcn' = [mcn EXCEPT ![n] = NoModelCacheNode]
        /\ model' = [model EXCEPT ![n] = 0]
        /\ UNCHANGED <<mc, orphaned, misled>>
    BY <1>12 DEF RemoveCache, AgentStep
  <2>2. /\ NoModelCacheNode \in ModelCacheNode
        /\ NoModelCacheNode.uid = 0
        /\ ~NoModelCacheNode.finalizer /\ ~NoModelCacheNode.ready
    BY DataTypes DEF NoModelCacheNode, NewModelCacheNode
  <2>3. \A m \in Nodes \ {n} : model'[m] = model[m]
    BY <1>b, <2>1
  <2> QED
    BY <1>6, <2>1, <2>2, <2>3
<1>13. ASSUME NEW n \in Nodes, EnsureModelCacheNode(n)
       PROVE  (NodesInv /\ WrongModelOnlyByOrphan)'
  <2>1. /\ UNCHANGED <<mc, model, orphaned, misled>>
        /\ mc.exists /\ mc.finalizer /\ held = mc.uid
    BY <1>a, <1>13 DEF EnsureModelCacheNode, Working, ReconcileInv
  <2>2. CASE UNCHANGED mcn
    BY <1>0, <2>1, <2>2
  <2>3. CASE mcn' = [mcn EXCEPT ![n] = NewModelCacheNode(held)] /\ mcn[n].uid = 0
    <3>1. \A m \in Nodes : \/ m # n /\ mcn'[m] = mcn[m]
                           \/ /\ m = n /\ mcn'[m].uid = mc.uid /\ ~mcn'[m].ready
                              /\ ~mcn'[m].finalizer
      BY <1>b, <2>1, <2>3 DEF NewModelCacheNode
    <3> QED
      BY <1>a, <2>1, <3>1 DEF NodesInv, WrongModelOnlyByOrphan
  <2>4. CASE mcn' = [mcn EXCEPT ![n].uid = held] /\ mcn[n].uid \notin {0, held}
    <3>1. \A m \in Nodes : \/ m # n /\ mcn'[m] = mcn[m]
                           \/ m = n /\ mcn'[m].uid = mc.uid /\ mcn'[m].uid # mcn[m].uid
      BY <1>b, <2>1, <2>4 DEF ModelCacheNode
    <3>2. n \in orphaned
      BY <1>a, <2>1, <2>4 DEF NodesInv
    <3>3. mc.uid # 0
      BY <1>a, <2>1 DEF ObjectInv
    <3> QED
      BY <1>a, <2>1, <3>1, <3>2, <3>3 DEF NodesInv, WrongModelOnlyByOrphan
  <2> QED
    BY <1>13, <2>2, <2>3, <2>4 DEF EnsureModelCacheNode
<1>14. CASE ReleaseModelCache
  <2>1. UNCHANGED <<mcn, model, misled>>
    BY <1>14 DEF ReleaseModelCache, Working
  <2>2. CASE mc.deleting
    <3>1. orphaned' = orphaned \cup {n \in Nodes : mcn[n].uid = mc.uid}
      BY <1>14, <2>2 DEF ReleaseModelCache
    <3> QED
      BY <1>a, <2>1, <3>1 DEF NodesInv, WrongModelOnlyByOrphan
  <2>3. CASE ~mc.deleting
    <3>1. orphaned' = orphaned /\ mc' = [mc EXCEPT !.finalizer = FALSE]
      BY <1>14, <2>3 DEF ReleaseModelCache
    <3>2. /\ pc = "release" /\ (mc.uid = held /\ mc.exists => mc.deleting)
          /\ (mc.uid # held => ~mc.finalizer)
      BY <1>a, <1>14 DEF ReleaseModelCache, ReconcileInv
    <3>3. mc'.uid = mc.uid /\ mc'.exists = mc.exists
      BY <1>b, <3>1 DEF ModelCache
    <3>4. ~(mc.exists /\ mc.finalizer)
      BY <2>3, <3>2
    <3> QED
      BY <1>a, <2>1, <3>1, <3>3, <3>4 DEF NodesInv, WrongModelOnlyByOrphan
  <2> QED
    BY <2>2, <2>3
<1> QED
  BY <1>1, <1>2, <1>3, <1>4, <1>5, <1>7, <1>8, <1>9, <1>10, <1>11, <1>12, <1>13,
     <1>14
     DEF Next, ControllerStep

\* The inductive invariant of the controller, the informer and the nodes
\* (Reconcile, ensureModelCacheNode, reconcileModelCacheDelete).
THEOREM Invariance == Spec => []IInv
<1>1. Init => IInv
  <2> SUFFICES ASSUME Init PROVE IInv
    OBVIOUS
  <2>1. TypeOK
    BY DataTypes DEF Init, TypeOK, Steps
  <2>2. ObjectInv /\ ViewInv /\ ReconcileInv
    BY DEF Init, ObjectInv, ViewInv, ReconcileInv, NoModelCache
  <2>3. NodesInv /\ WrongModelOnlyByOrphan
    BY DEF Init, NodesInv, WrongModelOnlyByOrphan, NoModelCacheNode, NewModelCacheNode
  <2> QED
    BY <2>1, <2>2, <2>3 DEF IInv
<1>2. IInv /\ [Next]_vars => IInv'
  BY TypeStep, ControllerStepInv, NodesStepInv DEF IInv
<1> QED
  BY <1>1, <1>2, PTL DEF Spec

\* The variables keep their types.
THEOREM TypeCorrect == Spec => []TypeOK
<1>1. IInv => TypeOK
  BY DEF IInv
<1> QED
  BY <1>1, Invariance, PTL

\* Two ways only lead to a Ready ModelCacheNode with the wrong model: it has
\* outlived its ModelCache, or its agent read an outdated copy
\* (ensureModelCacheNode, the agent's Reconcile).
THEOREM WrongModelNeedsOrphan == Spec => []WrongModelOnlyByOrphan
<1>1. IInv => WrongModelOnlyByOrphan
  BY DEF IInv
<1> QED
  BY <1>1, Invariance, PTL

\* However stale the copy a reconcile starts from, it creates and makes over
\* ModelCacheNodes only for the ModelCache that is there, and under its
\* finalizer (Reconcile, ensureModelCacheNode).
THEOREM CreationIsProtected == Spec => CreatedUnderFinalizer
<1> DEFINE Step ==
      \A n \in Nodes : mcn'[n].uid \notin {0, mcn[n].uid} =>
        mc.exists /\ mc.finalizer /\ mc.uid = mcn'[n].uid
<1>1. IInv /\ [Next]_vars => [Step]_vars
  <2> SUFFICES ASSUME IInv, [Next]_vars, NEW n \in Nodes,
                      mcn'[n].uid \notin {0, mcn[n].uid}
               PROVE  mc.exists /\ mc.finalizer /\ mc.uid = mcn'[n].uid
    OBVIOUS
  <2> USE DEF nodeVars, viewVars, workerVars, historyVars, boundVars
  <2>a. TypeOK /\ ReconcileInv
    BY DEF IInv
  <2>b. mcn \in [Nodes -> ModelCacheNode]
    BY <2>a DEF TypeOK
  <2>1. ASSUME NEW m \in Nodes, EnsureModelCacheNode(m)
        PROVE  mc.exists /\ mc.finalizer /\ mc.uid = mcn'[n].uid
    <3>1. mc.exists /\ mc.finalizer /\ held = mc.uid
      BY <2>a, <2>1 DEF EnsureModelCacheNode, ReconcileInv
    <3>2. \/ mcn' = mcn
          \/ mcn' = [mcn EXCEPT ![m] = NewModelCacheNode(held)]
          \/ mcn' = [mcn EXCEPT ![m].uid = held]
      BY <2>1 DEF EnsureModelCacheNode
    <3>3. mcn'[n].uid \in {mcn[n].uid, held}
      BY <2>b, <3>2 DEF NewModelCacheNode, ModelCacheNode
    <3> QED
      BY <3>1, <3>3
  <2>2. ASSUME NEW m \in Nodes,
               \/ DropModelCacheNode(m) \/ DeleteModelCacheNode(m)
               \/ RemoveCache(m)
        PROVE  FALSE
    <3>1. /\ NoModelCacheNode.uid = 0
          /\ Deleted(mcn[m]).uid \in {0, mcn[m].uid}
      BY <2>b DEF Deleted, NoModelCacheNode, NewModelCacheNode, ModelCacheNode
    <3>2. \/ mcn' = mcn
          \/ mcn' = [mcn EXCEPT ![m] = Deleted(mcn[m])]
          \/ mcn' = [mcn EXCEPT ![m] = NoModelCacheNode]
      <4>1. CASE DeleteModelCacheNode(m)
        <5>1. \/ mcn' = [mcn EXCEPT ![m] = mcn[m]]
              \/ mcn' = [mcn EXCEPT ![m] = Deleted(mcn[m])]
          BY <4>1 DEF DeleteModelCacheNode
        <5> QED
          BY <2>b, <5>1
      <4> QED
        BY <2>2, <4>1 DEF DropModelCacheNode, RemoveCache
    <3> QED
      BY <2>b, <3>1, <3>2
  <2>3. ASSUME NEW m \in Nodes, OwnCache(m) \/ FillCache(m) \/ EvictCache(m)
        PROVE  FALSE
    <3>1. \/ mcn' = [mcn EXCEPT ![m].finalizer = TRUE]
          \/ mcn' = [mcn EXCEPT ![m].ready = TRUE]
          \/ mcn' = [mcn EXCEPT ![m].ready = FALSE]
      BY <2>3 DEF OwnCache, FillCache, EvictCache
    <3> QED
      BY <2>b, <3>1 DEF ModelCacheNode
  <2>4. CASE UNCHANGED mcn
    BY <2>4
  <2> QED
    BY <2>1, <2>2, <2>3, <2>4
       DEF Next, ControllerStep, vars, CreateModelCache, DeleteModelCache, Relabel,
           LoseNode, Change, DeliverModelCache, DeliverModelCacheNode, Resync,
           Delivered, Reconcile, AddFinalizer, ListNodes, UpdateStatus, AwaitDeletion,
           ReleaseModelCache, Working, ReconcileError, OperatorCrash
<1> QED
  BY <1>1, Invariance, PTL DEF Spec, CreatedUnderFinalizer

=============================================================================
