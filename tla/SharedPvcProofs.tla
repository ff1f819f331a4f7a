--------------------------- MODULE SharedPvcProofs ---------------------------
(***************************************************************************)
(* Proofs about SharedPvc, for any set of Pods, any TTL, any number of     *)
(* faults and of ModelCaches created in turn.                              *)
(***************************************************************************)
EXTENDS SharedPvc, TLAPS

\* Ages and absent objects have their types.
LEMMA DataTypes ==
  /\ 0 \in Ages /\ Never \in Ages /\ 0 \in Uids /\ 0 \in 0..MaxFaults
  /\ \A uid \in Uids : NoModelCache(uid) \in ModelCache
  /\ \A object \in ModelCache : Older(object) \in ModelCache
  /\ NoClaim \in Claim /\ NoJob \in Job
<1>1. 0 \in Ages /\ Never \in Ages /\ \A age \in Ages : Grown(age) \in Ages
  BY ConstantsAssumption DEF Ages, Never, Grown
<1>2. 0 \in Uids /\ 0 \in 0..MaxFaults
  BY ConstantsAssumption DEF Uids
<1>3. \A uid \in Uids : NoModelCache(uid) \in ModelCache
  BY <1>1 DEF ModelCache, NoModelCache, Phases
<1>4. \A object \in ModelCache : Older(object) \in ModelCache
  BY <1>1 DEF ModelCache, Older
<1>5. NoClaim \in Claim /\ NoJob \in Job
  BY <1>2 DEF Claim, NoClaim, Job, NoJob
<1> QED
  BY <1>1, <1>2, <1>3, <1>4, <1>5

\* Every step of the specification keeps the types of the variables.
LEMMA TypeStep == TypeOK /\ [Next]_vars => TypeOK'
<1> SUFFICES ASSUME TypeOK, [Next]_vars PROVE TypeOK'
  OBVIOUS
<1> USE DEF clusterVars, viewVars, workerVars, histVars, ForeignWrite,
            ClusterStep, WorkerStep, EvictionStep
<1>0. CASE UNCHANGED vars
  BY <1>0 DEF TypeOK, vars
<1>1. CASE CreateModelCache \/ DeleteModelCache
  <2>1. mc' \in ModelCache
    <3>1. CASE CreateModelCache
      <4>1. mc.uid + 1 \in Uids
        BY <3>1, ConstantsAssumption DEF CreateModelCache, TypeOK, ModelCache, Uids
      <4>2. NoModelCache(mc.uid + 1) \in ModelCache
        BY <4>1, DataTypes
      <4> QED
        BY <3>1, <4>2 DEF CreateModelCache, ModelCache
    <3>2. CASE DeleteModelCache
      BY <3>2, DataTypes DEF DeleteModelCache, TypeOK, ModelCache
    <3> QED
      BY <1>1, <3>1, <3>2
  <2> QED
    BY <1>1, <2>1 DEF TypeOK, CreateModelCache, DeleteModelCache
<1>2. CASE Tick
  BY <1>2, DataTypes DEF TypeOK, Tick
<1>3. CASE Deliver \/ Resync
  BY <1>3
     DEF TypeOK, Deliver, DeliverModelCache, DeliverClaim, DeliverJob, DeliverPod,
         Resync, Delivered
<1>4. CASE Reconcile
  <2>1. pc' \in Steps /\ uidInHand' \in Uids
    BY <1>4, DataTypes DEF TypeOK, Reconcile, Dispatch, NextStep, Steps, ModelCache, InUse
  <2>2. queued' \in BOOLEAN /\ current' \in BOOLEAN
    BY <1>4 DEF TypeOK, Reconcile, Dispatch, WaitsForTTL
  <2> QED
    BY <1>4, <2>1, <2>2 DEF TypeOK, Reconcile, Dispatch
<1>5. CASE AddFinalizer
  <2>1. mc' \in ModelCache
    BY <1>5 DEF TypeOK, ModelCache, AddFinalizer
  <2>2. pc' \in Steps /\ uidInHand' \in Uids
    BY <1>5, <2>1, DataTypes
       DEF TypeOK, AddFinalizer, Dispatch, NextStep, Steps, ModelCache, InUse, Return
  <2>3. queued' \in BOOLEAN /\ current' \in BOOLEAN /\ fresh' \in BOOLEAN
    BY <1>5 DEF TypeOK, AddFinalizer, Dispatch, WaitsForTTL, Return
  <2> QED
    BY <1>5, <2>1, <2>2, <2>3
       DEF TypeOK, AddFinalizer, Dispatch, Return, Phases
<1>6. CASE MarkUsed \/ MarkEvicted \/ UpdateStatus \/ ReleaseModelCache
  <2>1. mc' \in ModelCache
    <3>1. CASE MarkUsed
      BY <3>1, DataTypes DEF TypeOK, ModelCache, MarkUsed
    <3>2. CASE MarkEvicted
      BY <3>2 DEF TypeOK, ModelCache, Phases, MarkEvicted
    <3>3. CASE UpdateStatus
      BY <3>3, DataTypes DEF TypeOK, ModelCache, UpdateStatus
    <3>4. CASE ReleaseModelCache
      BY <3>4, DataTypes DEF TypeOK, ModelCache, ReleaseModelCache
    <3> QED
      BY <1>6, <3>1, <3>2, <3>3, <3>4
  <2>2. /\ pc' \in Steps /\ uidInHand' \in Uids /\ current' \in BOOLEAN
        /\ queued' \in BOOLEAN /\ goal' \in Phases /\ again' \in BOOLEAN
    BY <1>6, DataTypes
       DEF TypeOK, ModelCache, Phases, Steps, Return, MarkUsed, MarkEvicted,
           UpdateStatus, ReleaseModelCache
  <2>3. fresh' \in BOOLEAN /\ asked' \in BOOLEAN
    BY <1>6
       DEF TypeOK, MarkUsed, MarkEvicted, UpdateStatus, ReleaseModelCache
  <2> QED
    BY <1>6, <2>1, <2>2, <2>3
       DEF TypeOK, MarkUsed, MarkEvicted, UpdateStatus, ReleaseModelCache
<1>7. CASE VerifyClaim \/ CheckClass
  BY <1>7, DataTypes
     DEF TypeOK, VerifyClaim, CheckClass, Return, Write, Go, Steps, Phases
<1>8. CASE DropJob \/ DropClaim
  <2>1. job' \in Job /\ claim' \in Claim
    BY <1>8 DEF TypeOK, DropJob, DropClaim, Go, Job, Claim
  <2> QED
    BY <1>8, <2>1 DEF TypeOK, DropJob, DropClaim, Go, Steps
<1>9. CASE EnsureClaim
  <2>1. claim' \in Claim
    <3>1. claim' = claim \/ claim' = [state |-> "pending", deleting |-> FALSE, owner |-> uidInHand]
      BY <1>9 DEF EnsureClaim, AfterClaim, Return, Write, Go
    <3>2. [state |-> "pending", deleting |-> FALSE, owner |-> uidInHand] \in Claim
      <4>1. uidInHand \in Uids
        BY DEF TypeOK
      <4> QED
        BY <4>1 DEF Claim
    <3> QED
      BY <3>1, <3>2 DEF TypeOK
  <2>2. Return(TRUE) \/ Write("Pending", TRUE) \/ Go("job")
    BY <1>9 DEF EnsureClaim, AfterClaim
  <2>3. UNCHANGED <<mc, pod, content, job, class, viewVars, histVars, faults>>
    BY <1>9 DEF EnsureClaim
  <2>4. CASE Return(TRUE)
    BY <2>1, <2>3, <2>4, DataTypes DEF TypeOK, Return, Steps, Phases
  <2>5. CASE Write("Pending", TRUE) \/ Go("job")
    BY <2>1, <2>3, <2>5 DEF TypeOK, Write, Go, Steps, Phases
  <2> QED
    BY <2>2, <2>4, <2>5
<1>10. CASE EnsureJob
  <2>1. job' \in Job
    <3>1. job' = job \/ job' = [state |-> "waiting", deleting |-> FALSE, owner |-> uidInHand]
      BY <1>10 DEF EnsureJob, AfterJob, Write
    <3>2. [state |-> "waiting", deleting |-> FALSE, owner |-> uidInHand] \in Job
      <4>1. uidInHand \in Uids
        BY DEF TypeOK
      <4> QED
        BY <4>1 DEF Job
    <3> QED
      BY <3>1, <3>2 DEF TypeOK
  <2> QED
    BY <1>10, <2>1
       DEF TypeOK, EnsureJob, AfterJob, Write, Steps, Phases
<1>11. CASE StorageStep
  <2>1. claim' \in Claim /\ content' \in Contents
    BY <1>11, DataTypes
       DEF TypeOK, StorageStep, BindClaim, RemoveClaim, CollectClaim, RestoreClass,
           Claim, Contents
  <2>2. class' \in BOOLEAN /\ misled' \in BOOLEAN
    BY <1>11
       DEF TypeOK, StorageStep, BindClaim, RemoveClaim, CollectClaim, RestoreClass
  <2> QED
    BY <1>11, <2>1, <2>2
       DEF TypeOK, StorageStep, BindClaim, RemoveClaim, CollectClaim, RestoreClass
<1>12. CASE JobControllerStep
  <2>1. job' \in Job /\ content' \in Contents
    BY <1>12, DataTypes
       DEF TypeOK, JobControllerStep, StartJob, CompleteJob, RemoveJob, CollectJob,
           JobStep, Job, Contents
  <2> QED
    BY <1>12, <2>1
       DEF TypeOK, JobControllerStep, StartJob, CompleteJob, RemoveJob, CollectJob,
           JobStep
<1>13. CASE ReconcileError \/ FailedCall \/ ControllerCrash
  <2>1. faults' \in 0..MaxFaults
    <3>1. Fault /\ faults \in 0..MaxFaults
      BY <1>13 DEF TypeOK, ReconcileError, FailedCall, ControllerCrash
    <3> QED
      BY <3>1, ConstantsAssumption DEF Fault
  <2> QED
    BY <1>13, <2>1, DataTypes
       DEF TypeOK, ReconcileError, FailedCall, ControllerCrash, Return, Write,
           Present, Steps, Phases, ModelCache
<1>14. CASE LoseClaim \/ FailJob \/ LoseClass
  <2>1. faults' \in 0..MaxFaults
    <3>1. Fault /\ faults \in 0..MaxFaults
      BY <1>14 DEF TypeOK, LoseClaim, FailJob, LoseClass
    <3> QED
      BY <3>1, ConstantsAssumption DEF Fault
  <2> QED
    BY <1>14, <2>1 DEF TypeOK, LoseClaim, FailJob, LoseClass, JobStep, Claim, Job
<1>15. ASSUME NEW p \in Pods,
              CreatePod(p) \/ PodProgress(p) \/ FinishPod(p) \/ DeletePod(p)
       PROVE TypeOK'
  BY <1>15
     DEF TypeOK, CreatePod, PodProgress, MountPod, StartPod, FinishPod, DeletePod,
         PodStep, PodStates
<1> QED
  BY <1>0, <1>1, <1>2, <1>3, <1>4, <1>5, <1>6, <1>7, <1>8, <1>9, <1>10, <1>11,
     <1>12, <1>13, <1>14, <1>15 DEF Next, ControllerStep

\* The initial state has the types.
LEMMA InitTypes == Init => TypeOK
  BY DataTypes DEF Init, TypeOK, Steps, Phases, Contents, PodStates

\* The variables keep their types (all actions of SharedPvc).
THEOREM TypeCorrect == Spec => []TypeOK
  BY InitTypes, TypeStep, PTL DEF Spec

-----------------------------------------------------------------------------
\* The claim under a mounted Pod, and the model under a running one, stay.
LEMMA MountStep ==
  TypeOK /\ MountInv /\ RunningHasModel /\ [Next]_vars => MountInv' /\ RunningHasModel'
<1> SUFFICES ASSUME TypeOK, MountInv, RunningHasModel, [Next]_vars
             PROVE MountInv' /\ RunningHasModel'
  OBVIOUS
<1> USE DEF clusterVars, viewVars, workerVars, histVars, ForeignWrite,
            ClusterStep, WorkerStep, EvictionStep, MountInv, RunningHasModel
<1>0. CASE UNCHANGED <<pod, claim, content>>
  BY <1>0
<1>1. CASE \/ CreateModelCache \/ DeleteModelCache \/ Tick
           \/ Deliver \/ Resync
           \/ ReconcileError \/ FailedCall \/ ControllerCrash
           \/ FailJob \/ LoseClass
  <2>1. UNCHANGED <<pod, claim, content>>
    BY <1>1
       DEF CreateModelCache, DeleteModelCache, Tick, Deliver, DeliverModelCache,
           DeliverClaim, DeliverJob, DeliverPod, Resync, Delivered,
           ReconcileError, FailedCall, ControllerCrash, FailJob, LoseClass, JobStep
  <2> QED
    BY <1>0, <2>1
<1>2. CASE \/ Reconcile \/ AddFinalizer \/ MarkUsed \/ VerifyClaim \/ DropJob
           \/ MarkEvicted \/ CheckClass \/ EnsureJob \/ UpdateStatus
           \/ ReleaseModelCache
  <2>1. UNCHANGED <<pod, claim, content>>
    BY <1>2
       DEF Reconcile, AddFinalizer, MarkUsed, VerifyClaim, DropJob, MarkEvicted,
           CheckClass, EnsureJob, UpdateStatus, ReleaseModelCache
  <2> QED
    BY <1>0, <2>1
<1>3. CASE DropClaim
  BY <1>3 DEF DropClaim, TypeOK, Claim
<1>4. CASE EnsureClaim
  <2>1. UNCHANGED <<pod, content>> /\ (claim' = claim \/ claim.state = "none")
    BY <1>4 DEF EnsureClaim
  <2> QED
    BY <2>1
<1>5. CASE StorageStep
  <2>1. CASE BindClaim \/ CollectClaim
    BY <2>1 DEF BindClaim, CollectClaim, TypeOK, Claim
  <2>2. CASE RemoveClaim
    BY <2>2 DEF RemoveClaim
  <2>3. CASE RestoreClass
    BY <2>3 DEF RestoreClass
  <2> QED
    BY <1>5, <2>1, <2>2, <2>3 DEF StorageStep
<1>6. CASE JobControllerStep
  BY <1>6
     DEF JobControllerStep, StartJob, CompleteJob, RemoveJob, CollectJob, JobStep
<1>7. CASE LoseClaim
  BY <1>7 DEF LoseClaim, TypeOK, Claim
<1>8. ASSUME NEW p \in Pods,
             CreatePod(p) \/ PodProgress(p) \/ FinishPod(p) \/ DeletePod(p)
      PROVE MountInv' /\ RunningHasModel'
  BY <1>8
     DEF CreatePod, PodProgress, MountPod, StartPod, FinishPod, DeletePod, PodStep,
         Mountable, TypeOK
<1>9. CASE UNCHANGED vars
  BY <1>0, <1>9 DEF vars
<1> QED
  BY <1>1, <1>2, <1>3, <1>4, <1>5, <1>6, <1>7, <1>8, <1>9 DEF Next, ControllerStep

\* What speaks for the content of the claim stays right.
LEMMA VouchStep == TypeOK /\ VouchInv /\ [Next]_vars => VouchInv'
<1> SUFFICES ASSUME TypeOK, VouchInv, [Next]_vars, ~misled' PROVE VouchInv'
  BY DEF VouchInv
<1> USE DEF clusterVars, viewVars, workerVars, histVars, ForeignWrite,
            ClusterStep, WorkerStep, EvictionStep, VouchInv, Provisioning
<1>0. CASE UNCHANGED vars
  BY <1>0 DEF vars
<1>1. CASE CreateModelCache \/ DeleteModelCache \/ Tick
  BY <1>1
     DEF CreateModelCache, DeleteModelCache, NoModelCache, Tick, Older, TypeOK, ModelCache
<1>2. CASE Deliver \/ Resync
  BY <1>2
     DEF Deliver, DeliverModelCache, DeliverClaim, DeliverJob, DeliverPod, Resync,
         Delivered
<1>3. CASE Reconcile
  <2>1. seen.phase = "Ready" /\ pc' \in {"class", "claim", "job"} => FALSE
    BY <1>3 DEF Reconcile, Dispatch, NextStep, InUse
  <2> QED
    BY <1>3, <2>1 DEF Reconcile, Dispatch
<1>4. CASE AddFinalizer
  <2>1. mc'.phase = mc.phase
    BY <1>4 DEF AddFinalizer, TypeOK, ModelCache
  <2>2. mc'.phase = "Ready" /\ pc' \in {"class", "claim", "job"} => FALSE
    BY <1>4 DEF AddFinalizer, Dispatch, NextStep, InUse, Return
  <2> QED
    BY <1>4, <2>1, <2>2 DEF AddFinalizer, Dispatch, Return
<1>5. CASE MarkUsed \/ MarkEvicted \/ ReleaseModelCache
  <2>1. /\ UNCHANGED <<claim, content, job, seen, seenJob, misled>>
        /\ pc' \in {"idle", "verify"}
        /\ goal' \in {goal, "Unset"}
    BY <1>5 DEF MarkUsed, MarkEvicted, ReleaseModelCache, Return
  <2>2. mc'.phase = "Ready" => mc.phase = "Ready"
    <3>1. CASE MarkUsed
      BY <3>1 DEF MarkUsed, TypeOK, ModelCache
    <3>2. CASE MarkEvicted
      BY <3>2 DEF MarkEvicted, TypeOK, ModelCache
    <3>3. CASE ReleaseModelCache
      BY <3>3 DEF ReleaseModelCache, NoModelCache, TypeOK, ModelCache
    <3> QED
      BY <1>5, <3>1, <3>2, <3>3
  <2> QED
    BY <2>1, <2>2
<1>6. CASE VerifyClaim \/ CheckClass \/ DropJob \/ DropClaim
  BY <1>6
     DEF VerifyClaim, CheckClass, DropJob, DropClaim, Return, Write, Go, TypeOK,
         Claim, Job
<1>7. CASE EnsureClaim
  BY <1>7 DEF EnsureClaim, AfterClaim, Return, Write, Go, TypeOK, Claim
<1>8. CASE EnsureJob
  BY <1>8 DEF EnsureJob, AfterJob, Write, TypeOK, Job
<1>9. CASE UpdateStatus
  BY <1>9 DEF UpdateStatus, Return, TypeOK, ModelCache
<1>10. CASE StorageStep
  <2>1. CASE BindClaim \/ CollectClaim \/ RestoreClass
    BY <2>1 DEF BindClaim, CollectClaim, RestoreClass, TypeOK, Claim
  <2>2. CASE RemoveClaim
    BY <2>2 DEF RemoveClaim, Vouched, NoClaim
  <2> QED
    BY <1>10, <2>1, <2>2 DEF StorageStep
<1>11. CASE JobControllerStep
  BY <1>11
     DEF JobControllerStep, StartJob, CompleteJob, RemoveJob, CollectJob, JobStep,
         NoJob, Mountable, TypeOK, Job
<1>12. CASE ReconcileError \/ FailedCall \/ ControllerCrash
  BY <1>12 DEF ReconcileError, FailedCall, ControllerCrash, Return, Write
<1>13. CASE LoseClaim \/ FailJob \/ LoseClass
  BY <1>13 DEF LoseClaim, FailJob, LoseClass, JobStep, TypeOK, Claim, Job
<1>14. ASSUME NEW p \in Pods,
              CreatePod(p) \/ PodProgress(p) \/ FinishPod(p) \/ DeletePod(p)
       PROVE VouchInv'
  BY <1>14
     DEF CreatePod, PodProgress, MountPod, StartPod, FinishPod, DeletePod, PodStep
<1> QED
  BY <1>0, <1>1, <1>2, <1>3, <1>4, <1>5, <1>6, <1>7, <1>8, <1>9, <1>10, <1>11,
     <1>12, <1>13, <1>14 DEF Next, ControllerStep

\* No step of the controller brings back an evicted cache nobody asked for.
LEMMA EvictedStep == TypeOK /\ EvictedInv /\ [Next]_vars => EvictedInv'
<1> SUFFICES ASSUME TypeOK, EvictedInv, [Next]_vars PROVE EvictedInv'
  OBVIOUS
<1> USE DEF clusterVars, viewVars, workerVars, histVars, ForeignWrite,
            ClusterStep, WorkerStep, EvictionStep, EvictedInv, Provisioning, Present
<1>0. CASE UNCHANGED vars
  BY <1>0 DEF vars
<1>1. CASE CreateModelCache \/ DeleteModelCache
  BY <1>1 DEF CreateModelCache, DeleteModelCache, NoModelCache, TypeOK, ModelCache
<1>2. CASE Tick
  BY <1>2 DEF Tick, Older, TypeOK, ModelCache
<1>3. CASE Deliver \/ Resync
  BY <1>3
     DEF Deliver, DeliverModelCache, DeliverClaim, DeliverJob, DeliverPod, Resync,
         Delivered
<1>4. CASE Reconcile
  <2>1. seen.phase = "Evicted" /\ seenPods = {} =>
          NextStep(seen) \notin {"used", "verify", "update", "class", "claim", "job"}
    BY DEF NextStep, InUse
  <2>2. seenPods = {} => NextStep(seen) # "used"
    BY DEF NextStep, InUse
  <2>3. CASE Dispatch(seen, fresh, FALSE)
    BY <1>4, <2>1, <2>2, <2>3 DEF Reconcile, Dispatch
  <2>4. CASE ~Dispatch(seen, fresh, FALSE)
    BY <1>4, <2>4 DEF Reconcile
  <2> QED
    BY <2>3, <2>4
<1>5. CASE AddFinalizer
  <2>1. CASE mc.exists
    <3>1. mc'.phase = mc.phase
      BY <1>5, <2>1 DEF AddFinalizer, TypeOK, ModelCache
    <3>2. mc'.phase = "Evicted" /\ seenPods = {} =>
            NextStep(mc') \notin {"used", "verify", "update", "class", "claim", "job"}
      BY DEF NextStep, InUse
    <3>3. /\ fresh' = (fresh /\ mc' = mc) /\ mc' = [mc EXCEPT !.finalizer = TRUE]
          /\ Dispatch(mc', TRUE, queued)
          /\ UNCHANGED <<pod, seen, seenPods, asked>>
      BY <1>5, <2>1 DEF AddFinalizer
    <3>4. mc'.exists /\ (fresh' => seen' = mc')
      BY <2>1, <3>3 DEF TypeOK, ModelCache
    <3>5. goal' = goal /\ pc' = NextStep(mc')
      BY <3>3 DEF Dispatch
    <3> QED
      BY <3>1, <3>2, <3>3, <3>4, <3>5
  <2>2. CASE ~mc.exists
    <3>1. Return(TRUE) /\ UNCHANGED <<mc, fresh>>
      BY <1>5, <2>2 DEF AddFinalizer
    <3> QED
      BY <1>5, <2>2, <3>1 DEF AddFinalizer, Return
  <2> QED
    BY <2>1, <2>2
<1>6. CASE MarkUsed
  <2>1. CASE mc.exists /\ pc = "stamp"
    BY <1>6, <2>1 DEF MarkUsed, Return, TypeOK, ModelCache
  <2>2. CASE mc.exists /\ pc = "used"
    BY <1>6, <2>2 DEF MarkUsed, TypeOK, ModelCache
  <2>3. CASE ~mc.exists
    BY <1>6, <2>3 DEF MarkUsed, Return
  <2> QED
    BY <1>6, <2>1, <2>2, <2>3 DEF MarkUsed
<1>7. CASE MarkEvicted
  <2>1. UNCHANGED <<pod, seen, seenPods>> /\ goal' \in {goal, "Unset"} /\ pc' = "idle"
    BY <1>7 DEF MarkEvicted, Return
  <2>2. fresh' => seen' = mc'
    BY <1>7, <2>1 DEF MarkEvicted, TypeOK
  <2>3. CASE mc.exists
    <3>1. mc'.exists /\ asked' = (Present \cup seenPods # {})
      BY <1>7, <2>3 DEF MarkEvicted, TypeOK, ModelCache
    <3> QED
      BY <2>1, <2>2, <3>1
  <2>4. CASE ~mc.exists
    BY <1>7, <2>1, <2>2, <2>4 DEF MarkEvicted
  <2> QED
    BY <2>3, <2>4
<1>8. CASE UpdateStatus
  <2>1. UNCHANGED <<pod, seen, seenPods, asked>> /\ goal' = "Unset" /\ pc' = "idle"
    BY <1>8 DEF UpdateStatus, Return
  <2>2. fresh' => seen' = mc'
    BY <1>8, <2>1 DEF UpdateStatus, TypeOK
  <2>3. mc' = mc \/ mc'.phase # "Evicted"
    BY <1>8 DEF UpdateStatus, TypeOK, ModelCache
  <2> QED
    BY <2>1, <2>2, <2>3
<1>9. CASE ReleaseModelCache
  BY <1>9 DEF ReleaseModelCache, NoModelCache, Return, TypeOK, ModelCache
<1>10. CASE VerifyClaim \/ CheckClass \/ DropJob \/ DropClaim
  BY <1>10 DEF VerifyClaim, CheckClass, DropJob, DropClaim, Return, Write, Go
<1>11. CASE EnsureClaim \/ EnsureJob
  BY <1>11
     DEF EnsureClaim, EnsureJob, AfterClaim, AfterJob, Return, Write, Go
<1>12. CASE StorageStep \/ JobControllerStep
  BY <1>12
     DEF StorageStep, BindClaim, RemoveClaim, CollectClaim, RestoreClass,
         JobControllerStep, StartJob, CompleteJob, RemoveJob, CollectJob, JobStep
<1>13. CASE ReconcileError \/ FailedCall \/ ControllerCrash
  BY <1>13 DEF ReconcileError, FailedCall, ControllerCrash, Return, Write
<1>14. CASE LoseClaim \/ FailJob \/ LoseClass
  BY <1>14 DEF LoseClaim, FailJob, LoseClass, JobStep
<1>15. ASSUME NEW p \in Pods,
              CreatePod(p) \/ PodProgress(p) \/ FinishPod(p) \/ DeletePod(p)
       PROVE EvictedInv'
  <2>1. CASE CreatePod(p)
    BY <2>1 DEF CreatePod
  <2>2. CASE PodProgress(p) \/ FinishPod(p) \/ DeletePod(p)
    <3>1. Present' \subseteq Present
      BY <2>2
         DEF PodProgress, MountPod, StartPod, FinishPod, DeletePod, PodStep, TypeOK
    <3> QED
      BY <2>2, <3>1
         DEF PodProgress, MountPod, StartPod, FinishPod, DeletePod, PodStep
  <2> QED
    BY <1>15, <2>1, <2>2
<1> QED
  BY <1>0, <1>1, <1>2, <1>3, <1>4, <1>5, <1>6, <1>7, <1>8, <1>10, <1>11, <1>12,
     <1>13, <1>14, <1>15, <1>9 DEF Next, ControllerStep

\* An unbound claim stays empty until it is bound, and only a Job that has begun
\* to write runs.
LEMMA StoreStep == TypeOK /\ StoreInv /\ [Next]_vars => StoreInv'
<1> SUFFICES ASSUME TypeOK, StoreInv, [Next]_vars PROVE StoreInv'
  OBVIOUS
<1> USE DEF clusterVars, viewVars, workerVars, histVars, ForeignWrite,
            ClusterStep, WorkerStep, EvictionStep, StoreInv
<1>0. CASE UNCHANGED <<claim, content, job>>
  BY <1>0
<1>1. CASE \/ CreateModelCache \/ DeleteModelCache \/ Tick
           \/ Deliver \/ Resync
           \/ ReconcileError \/ FailedCall \/ ControllerCrash \/ LoseClass
  <2>1. UNCHANGED <<claim, content, job>>
    BY <1>1
       DEF CreateModelCache, DeleteModelCache, Tick, Deliver, DeliverModelCache,
           DeliverClaim, DeliverJob, DeliverPod, Resync, Delivered,
           ReconcileError, FailedCall, ControllerCrash, LoseClass
  <2> QED
    BY <1>0, <2>1
<1>2. CASE \/ Reconcile \/ AddFinalizer \/ MarkUsed \/ VerifyClaim
           \/ MarkEvicted \/ CheckClass \/ UpdateStatus \/ ReleaseModelCache
  <2>1. UNCHANGED <<claim, content, job>>
    BY <1>2
       DEF Reconcile, AddFinalizer, MarkUsed, VerifyClaim, MarkEvicted,
           CheckClass, UpdateStatus, ReleaseModelCache
  <2> QED
    BY <1>0, <2>1
<1>3. CASE DropJob
  BY <1>3 DEF DropJob, TypeOK, Job
<1>4. CASE DropClaim
  BY <1>4 DEF DropClaim, TypeOK, Claim
<1>5. CASE EnsureClaim
  BY <1>5 DEF EnsureClaim
<1>6. CASE EnsureJob
  <2>1. /\ UNCHANGED <<claim, content>>
        /\ \/ job' = job
           \/ job' = [state |-> "waiting", deleting |-> FALSE, owner |-> uidInHand]
    BY <1>6 DEF EnsureJob
  <2> QED
    BY <2>1
<1>7. CASE StorageStep
  <2>1. CASE BindClaim \/ CollectClaim
    BY <2>1 DEF BindClaim, CollectClaim, TypeOK, Claim
  <2>2. CASE RemoveClaim
    BY <2>2 DEF RemoveClaim
  <2>3. CASE RestoreClass
    BY <2>3 DEF RestoreClass
  <2> QED
    BY <1>7, <2>1, <2>2, <2>3 DEF StorageStep
<1>8. CASE JobControllerStep
  BY <1>8
     DEF JobControllerStep, StartJob, CompleteJob, RemoveJob, CollectJob, JobStep,
         NoJob, Mountable, TypeOK, Job
<1>9. CASE LoseClaim \/ FailJob
  BY <1>9 DEF LoseClaim, FailJob, JobStep, TypeOK, Claim, Job
<1>10. ASSUME NEW p \in Pods,
              CreatePod(p) \/ PodProgress(p) \/ FinishPod(p) \/ DeletePod(p)
       PROVE UNCHANGED <<claim, content, job>>
  BY <1>10
     DEF CreatePod, PodProgress, MountPod, StartPod, FinishPod, DeletePod, PodStep
<1>11. CASE UNCHANGED vars
  BY <1>0, <1>11 DEF vars
<1> QED
  BY <1>0, <1>1, <1>2, <1>3, <1>4, <1>5, <1>6, <1>7, <1>8, <1>9, <1>10, <1>11
     DEF Next, ControllerStep

\* The reconciles that hold a finalizer's fate know the object they decide about.
LEMMA ObjectInvStep ==
  TypeOK /\ EvictedInv /\ ObjectInv /\ [Next]_vars => ObjectInv'
<1> SUFFICES ASSUME TypeOK, EvictedInv, ObjectInv, [Next]_vars PROVE ObjectInv'
  OBVIOUS
<1> USE DEF clusterVars, viewVars, workerVars, histVars, ForeignWrite,
            ClusterStep, WorkerStep, EvictionStep, ObjectInv
<1>t. fresh => seen = mc
  BY DEF EvictedInv
<1>0. CASE UNCHANGED <<mc, seen>> /\ pc' \notin {"addFinalizer", "release"}
           /\ (current' => current)
  BY <1>0
<1>1. CASE CreateModelCache
  <2>1. /\ mc'.exists /\ ~mc'.deleting /\ ~mc'.finalizer
        /\ UNCHANGED <<seen, pc>> /\ ~current'
    BY <1>1 DEF CreateModelCache, NoModelCache
  <2>2. seen.deleting /\ pc = "addFinalizer" => FALSE
    BY <1>1 DEF CreateModelCache, NoModelCache
  <2> QED
    BY <2>1, <2>2
<1>2. CASE DeleteModelCache
  <2>1. CASE mc.finalizer
    BY <1>2, <2>1 DEF DeleteModelCache, TypeOK, ModelCache
  <2>2. CASE ~mc.finalizer
    <3>1. mc' = NoModelCache(mc.uid) /\ UNCHANGED <<seen, pc>> /\ ~current'
      BY <1>2, <2>2 DEF DeleteModelCache
    <3>2. ~(seen.deleting /\ pc = "addFinalizer")
      BY <1>2 DEF DeleteModelCache
    <3> QED
      BY <3>1, <3>2 DEF NoModelCache
  <2> QED
    BY <2>1, <2>2
<1>3. CASE Tick
  <2>1. /\ mc' = [mc EXCEPT !.lastUsed = Grown(mc.lastUsed)]
        /\ seen' = [seen EXCEPT !.lastUsed = Grown(seen.lastUsed)]
        /\ UNCHANGED <<pc, current>>
    BY <1>3 DEF Tick, Older
  <2>2. /\ mc'.exists = mc.exists /\ mc'.deleting = mc.deleting
        /\ mc'.finalizer = mc.finalizer
        /\ seen'.deleting = seen.deleting /\ seen'.finalizer = seen.finalizer
    BY <2>1 DEF TypeOK, ModelCache
  <2>3. ~mc.exists => mc' = mc
    <3>1. SUFFICES ASSUME ~mc.exists PROVE mc' = mc
      OBVIOUS
    <3>2. mc.lastUsed = Never
      BY <3>1 DEF NoModelCache
    <3>3. Grown(mc.lastUsed) = mc.lastUsed
      BY <3>2 DEF Grown
    <3> QED
      BY <2>1, <3>3 DEF TypeOK, ModelCache
  <2> QED
    BY <2>1, <2>2, <2>3
<1>4. CASE Deliver \/ Resync
  BY <1>4
     DEF Deliver, DeliverModelCache, DeliverClaim, DeliverJob, DeliverPod, Resync,
         Delivered
<1>5. CASE Reconcile
  <2>1. NextStep(seen) \notin {"addFinalizer", "release"}
    BY DEF NextStep
  <2>2. /\ UNCHANGED <<mc, seen>> /\ pc = "idle"
        /\ \/ UNCHANGED <<pc, current>>
           \/ UNCHANGED current /\ seen.deleting /\ pc' = "release"
           \/ UNCHANGED current /\ ~seen.deleting /\ pc' = "addFinalizer"
           \/ seen.exists /\ pc' = NextStep(seen) /\ (current' => fresh)
    BY <1>5 DEF Reconcile, Dispatch
  <2>3. current' => mc.exists
    BY <1>t, <2>2
  <2>4. pc' = "addFinalizer" => ~seen.deleting
    BY <2>1, <2>2
  <2>5. pc' = "release" => seen.deleting
    BY <2>1, <2>2
  <2> QED
    BY <2>2, <2>3, <2>4, <2>5
<1>6. CASE AddFinalizer
  <2>1. CASE mc.exists
    <3>1. NextStep(mc') \notin {"addFinalizer", "release"}
      BY DEF NextStep
    <3>2. /\ mc' = [mc EXCEPT !.finalizer = TRUE] /\ pc = "addFinalizer"
          /\ pc' = NextStep(mc') /\ UNCHANGED seen
      BY <1>6, <2>1 DEF AddFinalizer, Dispatch
    <3>3. mc'.exists /\ mc'.finalizer /\ mc'.deleting = mc.deleting
      BY <2>1, <3>2 DEF TypeOK, ModelCache
    <3> QED
      BY <3>1, <3>2, <3>3
  <2>2. CASE ~mc.exists
    BY <1>6, <2>2 DEF AddFinalizer, Return
  <2> QED
    BY <2>1, <2>2
<1>7. CASE MarkUsed \/ MarkEvicted \/ UpdateStatus
  <2>1. pc' \in {"idle", "verify"} /\ UNCHANGED seen /\ (current' => mc.exists)
    BY <1>7 DEF MarkUsed, MarkEvicted, UpdateStatus, Return
  <2>2. /\ mc'.exists = mc.exists /\ mc'.deleting = mc.deleting
        /\ mc'.finalizer = mc.finalizer
    BY <1>7 DEF MarkUsed, MarkEvicted, UpdateStatus, TypeOK, ModelCache
  <2>3. ~mc.exists => mc' = mc
    BY <1>7 DEF MarkUsed, MarkEvicted, UpdateStatus
  <2> QED
    BY <2>1, <2>2, <2>3
<1>8. CASE ReleaseModelCache
  <2>1. pc' = "idle" /\ ~current' /\ UNCHANGED seen /\ (mc.finalizer => mc.deleting)
    BY <1>8 DEF ReleaseModelCache, Return
  <2>2. CASE mc.deleting
    BY <1>8, <2>1, <2>2 DEF ReleaseModelCache, NoModelCache
  <2>3. CASE ~mc.deleting
    <3>1. mc' = mc
      BY <1>8, <2>1, <2>3 DEF ReleaseModelCache, TypeOK, ModelCache
    <3> QED
      BY <2>1, <3>1
  <2> QED
    BY <2>2, <2>3
<1>9. CASE VerifyClaim \/ CheckClass \/ DropJob \/ DropClaim
  BY <1>0, <1>9 DEF VerifyClaim, CheckClass, DropJob, DropClaim, Return, Write, Go
<1>10. CASE EnsureClaim \/ EnsureJob
  BY <1>0, <1>10
     DEF EnsureClaim, EnsureJob, AfterClaim, AfterJob, Return, Write, Go
<1>11. CASE StorageStep \/ JobControllerStep
  BY <1>11
     DEF StorageStep, BindClaim, RemoveClaim, CollectClaim, RestoreClass,
         JobControllerStep, StartJob, CompleteJob, RemoveJob, CollectJob, JobStep
<1>12. CASE ReconcileError \/ FailedCall
  BY <1>0, <1>12 DEF ReconcileError, FailedCall, Return, Write
<1>13. CASE ControllerCrash
  BY <1>13 DEF ControllerCrash
<1>14. CASE LoseClaim \/ FailJob \/ LoseClass
  BY <1>14 DEF LoseClaim, FailJob, LoseClass, JobStep
<1>15. ASSUME NEW p \in Pods,
              CreatePod(p) \/ PodProgress(p) \/ FinishPod(p) \/ DeletePod(p)
       PROVE UNCHANGED <<mc, seen, pc, current>>
  BY <1>15
     DEF CreatePod, PodProgress, MountPod, StartPod, FinishPod, DeletePod, PodStep
<1>16. CASE UNCHANGED <<mc, seen, pc, current>>
  BY <1>16
<1>17. CASE UNCHANGED vars
  BY <1>16, <1>17 DEF vars
<1> QED
  BY <1>1, <1>2, <1>3, <1>4, <1>5, <1>6, <1>7, <1>8, <1>9, <1>10, <1>11, <1>12,
     <1>13, <1>14, <1>15, <1>16, <1>17 DEF Next, ControllerStep

-----------------------------------------------------------------------------
\* The inductive invariant holds in the initial state.
LEMMA InitInvariant == Init => IInv
<1> SUFFICES ASSUME Init PROVE IInv
  OBVIOUS
<1>1. TypeOK
  BY InitTypes
<1>2. VouchInv /\ ReadyMeansWhole
  BY DEF Init, VouchInv, ReadyMeansWhole, NoJob, NoModelCache
<1>3. MountInv /\ RunningHasModel
  BY DEF Init, MountInv, RunningHasModel
<1>4. EvictedInv
  BY DEF Init, EvictedInv, NoModelCache, Provisioning
<1>5. StoreInv /\ ObjectInv
  BY DEF Init, StoreInv, ObjectInv, NoModelCache, NoJob
<1> QED
  BY <1>1, <1>2, <1>3, <1>4, <1>5 DEF IInv

\* Every step keeps the inductive invariant.
LEMMA InvStep == IInv /\ [Next]_vars => IInv'
<1> SUFFICES ASSUME IInv, [Next]_vars PROVE IInv'
  OBVIOUS
<1>1. TypeOK' /\ MountInv' /\ RunningHasModel' /\ EvictedInv'
  BY TypeStep, MountStep, EvictedStep DEF IInv
<1>2. VouchInv'
  BY VouchStep DEF IInv
<1>3. ReadyMeansWhole'
  BY <1>2 DEF VouchInv, ReadyMeansWhole
<1>4. StoreInv' /\ ObjectInv'
  BY StoreStep, ObjectInvStep DEF IInv
<1> QED
  BY <1>1, <1>2, <1>3, <1>4 DEF IInv

\* The named parts of the inductive invariant always hold (all actions of
\* SharedPvc, failures, crashes and stale informer copies included).
THEOREM Invariance == Spec => []IInv
  BY InitInvariant, InvStep, PTL DEF Spec

\* A running Pod has the whole model under its mount, on a claim that is there
\* (ensurePVCModelCacheWaitInitContainer against evictions and deletions).
THEOREM ModelUnderRunningPods == Spec => []RunningHasModel
<1>1. IInv => RunningHasModel
  BY DEF IInv
<1> QED
  BY <1>1, Invariance, PTL

\* A Ready phase over a bound claim means that the claim holds the model, unless
\* a claim was removed while something still vouched for it (Reconcile).
THEOREM ReadyIsWhole == Spec => []ReadyMeansWhole
<1>1. IInv => ReadyMeansWhole
  BY DEF IInv
<1> QED
  BY <1>1, Invariance, PTL

\* An evicted cache comes back only for a Pod that asked for it since (the branch
\* of the Evicted phase in Reconcile, and the resourceVersion of status.Update).
THEOREM EvictedStays == Spec => EvictedUntilAsked
<1>1. IInv /\ [Next]_vars =>
        [mc.phase = "Evicted" /\ mc'.phase # "Evicted" /\ mc'.exists => asked]_vars
  <2> SUFFICES ASSUME IInv, Next, mc.phase = "Evicted", mc'.phase # "Evicted",
                      mc'.exists, ~asked
               PROVE FALSE
    OBVIOUS
  <2>0. TypeOK /\ EvictedInv
    BY DEF IInv
  <2> USE DEF clusterVars, viewVars, workerVars, histVars, ForeignWrite,
              ClusterStep, WorkerStep, EvictionStep
  <2>1. mc.exists
    BY <2>0 DEF EvictedInv
  <2>2. mc' # mc
    OBVIOUS
  <2>3. CASE UpdateStatus
    BY <2>0, <2>3 DEF UpdateStatus, EvictedInv
  <2>4. CASE DeleteModelCache \/ Tick \/ ReleaseModelCache
    BY <2>0, <2>1, <2>4
       DEF DeleteModelCache, NoModelCache, Tick, Older, ReleaseModelCache, TypeOK,
           ModelCache
  <2>5. CASE AddFinalizer
    BY <2>0, <2>1, <2>5 DEF AddFinalizer, TypeOK, ModelCache
  <2>6. CASE MarkUsed \/ MarkEvicted
    BY <2>0, <2>1, <2>6 DEF MarkUsed, MarkEvicted, TypeOK, ModelCache
  <2>7. CASE CreateModelCache
    BY <2>1, <2>7 DEF CreateModelCache
  <2>8. CASE \/ Reconcile \/ VerifyClaim \/ DropJob \/ DropClaim \/ CheckClass
             \/ EnsureClaim \/ EnsureJob
    BY <2>2, <2>8
       DEF Reconcile, VerifyClaim, DropJob, DropClaim, CheckClass, EnsureClaim,
           EnsureJob
  <2>9. CASE Deliver \/ Resync \/ StorageStep \/ JobControllerStep
    BY <2>2, <2>9
       DEF Deliver, DeliverModelCache, DeliverClaim, DeliverJob, DeliverPod, Resync,
           Delivered, StorageStep, BindClaim, RemoveClaim, CollectClaim,
           RestoreClass, JobControllerStep, StartJob, CompleteJob, RemoveJob,
           CollectJob, JobStep
  <2>10. CASE \/ ReconcileError \/ FailedCall \/ ControllerCrash
             \/ LoseClaim \/ FailJob \/ LoseClass
    BY <2>2, <2>10
       DEF ReconcileError, FailedCall, ControllerCrash, LoseClaim, FailJob,
           LoseClass, JobStep
  <2>11. ASSUME NEW p \in Pods,
               CreatePod(p) \/ PodProgress(p) \/ FinishPod(p) \/ DeletePod(p)
        PROVE FALSE
    BY <2>2, <2>11
       DEF CreatePod, PodProgress, MountPod, StartPod, FinishPod, DeletePod, PodStep
  <2> QED
    BY <2>3, <2>4, <2>5, <2>6, <2>7, <2>8, <2>9, <2>10, <2>11
       DEF Next, ControllerStep
<1> QED
  BY <1>1, Invariance, PTL DEF Spec, EvictedUntilAsked
=============================================================================
