------------------------- MODULE SharedPvcRefinement -------------------------
(***************************************************************************)
(* SharedPvc implements SharedModel, for any set of Pods, any TTL and any  *)
(* number of faults and of ModelCaches created in turn: every step of the  *)
(* controller, the storage, the Jobs, the Pods and the informers is a step *)
(* that SharedModel allows, or does not show in it.                        *)
(***************************************************************************)
EXTENDS SharedPvcProofs

\* What a step has to keep for the model not to move.
LEMMA Stutter ==
  /\ mc'.exists = mc.exists /\ mc'.deleting = mc.deleting
  /\ mc'.finalizer = mc.finalizer /\ mc'.phase = mc.phase
  /\ Volume' = Volume /\ Users' = Users
  /\ UNCHANGED <<asked, misled>>
  => UNCHANGED Model!vars
BY DEF Model!vars, Life

\* The steps that change the ModelCache.
LEMMA ObjectModelStep ==
  IInv /\ IInv' /\ ( \/ CreateModelCache \/ DeleteModelCache \/ Tick
                     \/ AddFinalizer \/ MarkUsed \/ MarkEvicted \/ UpdateStatus
                     \/ ReleaseModelCache )
  => Model!Next \/ UNCHANGED Model!vars
<1> SUFFICES ASSUME IInv, IInv',
                    \/ CreateModelCache \/ DeleteModelCache \/ Tick
                    \/ AddFinalizer \/ MarkUsed \/ MarkEvicted \/ UpdateStatus
                    \/ ReleaseModelCache
             PROVE  Model!Next \/ UNCHANGED Model!vars
  OBVIOUS
<1> USE DEF clusterVars, viewVars, workerVars, histVars, ForeignWrite, WorkerStep
<1>t. /\ TypeOK /\ mc \in ModelCache /\ mc' \in ModelCache
      /\ ObjectInv /\ EvictedInv /\ VouchInv /\ StoreInv
  BY DEF IInv, TypeOK
<1>u. UNCHANGED <<pod, claim, content, misled>>
  BY DEF CreateModelCache, DeleteModelCache, Tick, AddFinalizer, MarkUsed,
         MarkEvicted, UpdateStatus, ReleaseModelCache
<1>v. UNCHANGED <<Volume, Users>>
  BY <1>u DEF Volume, Users
<1>m. ~MarkEvicted => UNCHANGED asked
  BY DEF CreateModelCache, DeleteModelCache, Tick, AddFinalizer, MarkUsed,
         UpdateStatus, ReleaseModelCache
<1>s. ASSUME mc'.exists = mc.exists, mc'.deleting = mc.deleting,
             mc'.finalizer = mc.finalizer, mc'.phase = mc.phase, UNCHANGED asked
      PROVE  UNCHANGED Model!vars
  BY <1>s, <1>u, <1>v, Stutter
<1>1. CASE CreateModelCache
  <2>1. mc.phase = "Unset" /\ Life = "none"
    BY <1>1, <1>t DEF CreateModelCache, ObjectInv, NoModelCache, Life
  <2>2. mc'.phase = "Unset" /\ Life' = "new"
    <3>1. /\ mc'.exists /\ ~mc'.deleting /\ ~mc'.finalizer /\ mc'.phase = "Unset"
      BY <1>1 DEF CreateModelCache, NoModelCache
    <3> QED
      BY <3>1 DEF Life
  <2>3. UNCHANGED asked
    BY <1>1 DEF CreateModelCache
  <2> QED
    BY <1>u, <1>v, <2>1, <2>2, <2>3 DEF Model!Next, Model!Create, Model!ObjectStep
<1>2. CASE DeleteModelCache
  <2>0. mc.exists /\ ~mc.deleting /\ UNCHANGED asked
    BY <1>2 DEF DeleteModelCache
  <2>1. CASE mc.finalizer
    <3>1. /\ mc'.exists /\ mc'.deleting /\ mc'.phase = mc.phase
      BY <1>2, <1>t, <2>1 DEF DeleteModelCache, ModelCache
    <3>2. Life = "owned" /\ Life' = "deleting"
      BY <2>0, <2>1, <3>1 DEF Life
    <3> QED
      BY <1>u, <1>v, <2>0, <3>1, <3>2
         DEF Model!Next, Model!Delete, Model!ObjectStep
  <2>2. CASE ~mc.finalizer
    <3>1. ~mc'.exists /\ mc'.phase = "Unset"
      BY <1>2, <2>2 DEF DeleteModelCache, NoModelCache
    <3>2. Life = "new" /\ Life' = "none"
      BY <2>0, <2>2, <3>1 DEF Life
    <3> QED
      BY <1>u, <1>v, <2>0, <3>1, <3>2
         DEF Model!Next, Model!Vanish, Model!ObjectStep
  <2> QED
    BY <2>1, <2>2
<1>3. CASE Tick \/ MarkUsed
  <2>1. /\ mc'.exists = mc.exists /\ mc'.deleting = mc.deleting
        /\ mc'.finalizer = mc.finalizer /\ mc'.phase = mc.phase
    BY <1>3, <1>t DEF Tick, Older, MarkUsed, ModelCache
  <2>2. UNCHANGED asked
    BY <1>3 DEF Tick, MarkUsed
  <2> QED
    BY <1>s, <2>1, <2>2
<1>4. CASE AddFinalizer
  <2>0. UNCHANGED asked
    BY <1>4 DEF AddFinalizer
  <2>1. CASE mc.exists
    <3>1. /\ mc'.exists = mc.exists /\ mc'.deleting = mc.deleting
          /\ mc'.finalizer = TRUE /\ mc'.phase = mc.phase
      BY <1>4, <1>t, <2>1 DEF AddFinalizer, ModelCache
    <3>2. CASE mc.finalizer
      BY <1>s, <1>t, <2>0, <3>1, <3>2 DEF ModelCache
    <3>3. CASE ~mc.finalizer
      <4>1. Life = "new" /\ Life' = "owned"
        BY <1>t, <2>1, <3>1, <3>3 DEF Life, ObjectInv
      <4> QED
        BY <1>u, <1>v, <2>0, <3>1, <4>1
           DEF Model!Next, Model!Own, Model!ObjectStep
    <3> QED
      BY <3>2, <3>3
  <2>2. CASE ~mc.exists
    BY <1>4, <1>s, <2>2 DEF AddFinalizer
  <2> QED
    BY <2>1, <2>2
<1>5. CASE MarkEvicted
  <2>1. CASE ~mc.exists
    BY <1>5, <1>s, <2>1 DEF MarkEvicted
  <2>2. CASE mc.exists
    <3>1. /\ mc' = [mc EXCEPT !.phase = "Evicted"]
          /\ asked' = (Present \cup seenPods # {})
      BY <1>5, <2>2 DEF MarkEvicted
    <3>2. /\ mc'.exists = mc.exists /\ mc'.deleting = mc.deleting
          /\ mc'.finalizer = mc.finalizer /\ mc'.phase = "Evicted"
      BY <1>t, <3>1 DEF ModelCache
    <3>3. UNCHANGED Life /\ Life # "none"
      BY <2>2, <3>2 DEF Life
    <3>4. Users \subseteq Present
      BY DEF Users, Present
    <3>5. asked' \in BOOLEAN /\ (Users # {} => asked')
      BY <3>1, <3>4
    <3> QED
      BY <1>u, <1>v, <3>2, <3>3, <3>5 DEF Model!Next, Model!Evict
  <2> QED
    BY <2>1, <2>2
<1>6. CASE UpdateStatus
  <2>0. UNCHANGED asked
    BY <1>6 DEF UpdateStatus
  <2>1. CASE mc' = mc
    BY <1>s, <2>0, <2>1
  <2>2. CASE mc' # mc
    <3>1. /\ current /\ pc = "update"
          /\ mc' = [mc EXCEPT !.phase = goal,
                              !.lastUsed = IF goal = "Ready" THEN 0 ELSE mc.lastUsed]
      BY <1>6, <2>2 DEF UpdateStatus
    <3>2. /\ mc'.exists = mc.exists /\ mc'.deleting = mc.deleting
          /\ mc'.finalizer = mc.finalizer /\ mc'.phase = goal
      BY <1>t, <3>1 DEF ModelCache
    <3>3. mc.exists
      BY <1>t, <3>1 DEF ObjectInv
    <3>4. UNCHANGED Life /\ Life # "none"
      BY <3>2, <3>3 DEF Life
    <3>5. goal \in Phases /\ goal # "Evicted"
      BY <1>t DEF TypeOK, EvictedInv
    <3>6. goal = "Ready" => Volume = "whole" \/ misled
      <4>1. SUFFICES ASSUME goal = "Ready", ~misled PROVE Volume = "whole"
        OBVIOUS
      <4>2. content = "whole"
        BY <1>t, <4>1 DEF VouchInv
      <4>3. claim.state \in {"bound", "lost"}
        BY <1>t, <4>2 DEF StoreInv, TypeOK, Claim
      <4> QED
        BY <4>2, <4>3 DEF Volume
    <3>7. mc.phase = "Evicted" => asked
      BY <1>t, <3>1 DEF EvictedInv
    <3>8. goal \in Model!Phases
      BY <3>5 DEF Phases, Model!Phases
    <3> QED
      BY <1>u, <1>v, <2>0, <3>2, <3>4, <3>5, <3>6, <3>7, <3>8
         DEF Model!Next, Model!Publish, Model!ObjectStep
  <2> QED
    BY <2>1, <2>2
<1>7. CASE ReleaseModelCache
  <2>0. UNCHANGED asked /\ pc = "release"
    BY <1>7 DEF ReleaseModelCache
  <2>1. CASE mc.deleting
    <3>1. mc.exists
      BY <1>t, <2>1 DEF ObjectInv, NoModelCache
    <3>2. ~mc'.exists /\ mc'.phase = "Unset"
      BY <1>7, <2>1 DEF ReleaseModelCache, NoModelCache
    <3>3. Life = "deleting" /\ Life' = "none"
      BY <2>1, <3>1, <3>2 DEF Life
    <3> QED
      BY <1>u, <1>v, <2>0, <3>2, <3>3 DEF Model!Next, Model!Vanish, Model!ObjectStep
  <2>2. CASE ~mc.deleting
    <3>1. ~mc.finalizer
      BY <1>t, <2>0, <2>2 DEF ObjectInv
    <3>2. /\ mc'.exists = mc.exists /\ mc'.deleting = mc.deleting
          /\ mc'.finalizer = mc.finalizer /\ mc'.phase = mc.phase
      BY <1>7, <1>t, <2>2, <3>1 DEF ReleaseModelCache, ModelCache
    <3> QED
      BY <1>s, <2>0, <3>2
  <2> QED
    BY <2>1, <2>2
<1> QED
  BY <1>1, <1>2, <1>3, <1>4, <1>5, <1>6, <1>7

\* The steps that change the claim, its volume or who can write to it.
LEMMA VolumeModelStep ==
  IInv /\ IInv' /\ ( \/ StorageStep \/ JobControllerStep
                     \/ DropClaim \/ EnsureClaim \/ LoseClaim )
  => Model!Next \/ UNCHANGED Model!vars
<1> SUFFICES ASSUME IInv, IInv',
                    \/ StorageStep \/ JobControllerStep
                    \/ DropClaim \/ EnsureClaim \/ LoseClaim
             PROVE  Model!Next \/ UNCHANGED Model!vars
  OBVIOUS
<1> USE DEF clusterVars, viewVars, workerVars, histVars, ClusterStep, EvictionStep
<1>t. /\ claim \in Claim /\ job \in Job /\ content \in Contents
      /\ VouchInv /\ StoreInv
  BY DEF IInv, TypeOK
<1>u. UNCHANGED <<mc, pod, asked>>
  BY DEF StorageStep, BindClaim, RemoveClaim, CollectClaim, RestoreClass,
         JobControllerStep, StartJob, CompleteJob, RemoveJob, CollectJob, JobStep,
         DropClaim, EnsureClaim, LoseClaim
<1>v. UNCHANGED <<Life, mc.phase, Users>>
  BY <1>u DEF Life, Users
<1>m. ~RemoveClaim => UNCHANGED misled
  BY DEF StorageStep, BindClaim, CollectClaim, RestoreClass,
         JobControllerStep, StartJob, CompleteJob, RemoveJob, CollectJob, JobStep,
         DropClaim, EnsureClaim, LoseClaim
<1>s. ASSUME UNCHANGED Volume, UNCHANGED misled
      PROVE  UNCHANGED Model!vars
  BY <1>s, <1>u, <1>v DEF Model!vars
<1>1. CASE BindClaim
  <2>1. /\ claim.state = "pending" /\ content = "empty"
        /\ claim'.state = "bound" /\ UNCHANGED <<content, misled>>
    BY <1>1, <1>t DEF BindClaim, Claim, StoreInv
  <2>2. Volume = "none" /\ Volume' = "empty"
    BY <2>1 DEF Volume
  <2>3. mc.phase = "Ready" => misled
    BY <1>t, <2>1 DEF VouchInv
  <2> QED
    BY <1>u, <1>v, <2>1, <2>2, <2>3 DEF Model!Next, Model!Provision
<1>2. CASE RemoveClaim
  <2>1. Volume' = "none"
    BY <1>2 DEF RemoveClaim, NoClaim, Volume
  <2>2. Users = {}
    BY <1>2 DEF RemoveClaim, Users
  <2>3. misled' \in {misled, TRUE}
    <3>1. misled' = (misled \/ Vouched) /\ misled \in BOOLEAN
      BY <1>2 DEF RemoveClaim, IInv, TypeOK
    <3> QED
      BY <3>1
  <2> QED
    BY <1>u, <1>v, <2>1, <2>2, <2>3 DEF Model!Next, Model!Clear
<1>3. CASE StartJob
  <2>1. /\ claim.state = "bound" /\ UNCHANGED <<claim, misled>>
        /\ content' = IF content = "empty" THEN "partial" ELSE content
    BY <1>3 DEF StartJob, Mountable, JobStep
  <2>2. CASE content # "empty"
    BY <1>s, <2>1, <2>2 DEF Volume
  <2>3. CASE content = "empty"
    <3>1. Volume = "empty" /\ Volume' = "partial"
      BY <2>1, <2>3 DEF Volume
    <3> QED
      BY <1>u, <1>v, <2>1, <3>1 DEF Model!Next, Model!Fill
  <2> QED
    BY <2>2, <2>3
<1>4. CASE CompleteJob
  <2>1. /\ job.state = "running" /\ content' = "whole"
        /\ UNCHANGED <<claim, misled>>
    BY <1>4 DEF CompleteJob, JobStep
  <2>2. content # "empty" /\ claim.state \in {"bound", "lost"}
    BY <1>t, <2>1 DEF StoreInv, Claim
  <2>3. CASE content = "whole"
    BY <1>s, <2>1, <2>3 DEF Volume
  <2>4. CASE content = "partial"
    <3>1. Volume = "partial" /\ Volume' = "whole"
      BY <2>1, <2>2, <2>4 DEF Volume
    <3> QED
      BY <1>u, <1>v, <2>1, <3>1 DEF Model!Next, Model!Fill
  <2> QED
    BY <1>t, <2>2, <2>3, <2>4 DEF Contents
<1>5. CASE CollectClaim \/ DropClaim
  <2>1. UNCHANGED <<content, misled>> /\ claim'.state = claim.state
    BY <1>5, <1>t DEF CollectClaim, DropClaim, Claim
  <2> QED
    BY <1>s, <2>1 DEF Volume
<1>6. CASE EnsureClaim
  <2>1. /\ UNCHANGED <<content, misled>>
        /\ \/ claim' = claim
           \/ /\ claim.state = "none"
              /\ claim' = [state |-> "pending", deleting |-> FALSE,
                           owner |-> uidInHand]
    BY <1>6 DEF EnsureClaim
  <2> QED
    BY <1>s, <2>1 DEF Volume
<1>7. CASE LoseClaim
  <2>1. /\ UNCHANGED <<content, misled>>
        /\ \/ claim'.state = claim.state
           \/ claim.state = "bound" /\ claim'.state = "lost"
    BY <1>7, <1>t DEF LoseClaim, Claim
  <2> QED
    BY <1>s, <2>1 DEF Volume
<1>8. CASE RestoreClass \/ RemoveJob \/ CollectJob
  <2>1. UNCHANGED <<claim, content, misled>>
    BY <1>8 DEF RestoreClass, RemoveJob, CollectJob
  <2> QED
    BY <1>s, <2>1 DEF Volume
<1> QED
  BY <1>1, <1>2, <1>3, <1>4, <1>5, <1>6, <1>7, <1>8
     DEF StorageStep, JobControllerStep

\* The steps of a Pod.
LEMMA PodModelStep ==
  ASSUME NEW p \in Pods
  PROVE  IInv /\ (CreatePod(p) \/ PodProgress(p) \/ FinishPod(p) \/ DeletePod(p))
         => Model!Next \/ UNCHANGED Model!vars
<1> SUFFICES ASSUME IInv,
                    CreatePod(p) \/ PodProgress(p) \/ FinishPod(p) \/ DeletePod(p)
             PROVE  Model!Next \/ UNCHANGED Model!vars
  OBVIOUS
<1> USE DEF clusterVars, viewVars, workerVars, histVars, PodStep
<1>t. pod \in [Pods -> PodStates] /\ MountInv
  BY DEF IInv, TypeOK
<1>u. UNCHANGED <<mc, claim, content, misled>>
  BY DEF CreatePod, PodProgress, MountPod, StartPod, FinishPod, DeletePod
<1>v. UNCHANGED <<Life, mc.phase, Volume>>
  BY <1>u DEF Life, Volume
<1>1. CASE CreatePod(p)
  <2>1. asked' = TRUE
    BY <1>1 DEF CreatePod
  <2>2. Users' = Users
    BY <1>1, <1>t DEF CreatePod, Users
  <2> QED
    BY <1>u, <1>v, <2>1, <2>2 DEF Model!Next, Model!Ask
<1>2. CASE MountPod(p)
  <2>1. UNCHANGED asked /\ Users' = Users
    BY <1>2, <1>t DEF MountPod, Users
  <2> QED
    BY <1>u, <1>v, <2>1 DEF Model!vars
<1>3. CASE StartPod(p)
  <2>1. UNCHANGED asked /\ Users' = Users \cup {p}
    BY <1>3, <1>t DEF StartPod, Users
  <2>2. Volume = "whole"
    BY <1>3, <1>t DEF StartPod, MountInv, Volume
  <2> QED
    BY <1>u, <1>v, <2>1, <2>2 DEF Model!Next, Model!Start
<1>4. CASE FinishPod(p) \/ DeletePod(p)
  <2>1. UNCHANGED asked /\ Users' = Users \ {p}
    <3>1. /\ UNCHANGED asked
          /\ \/ pod' = [pod EXCEPT ![p] = "done"]
             \/ pod' = [pod EXCEPT ![p] = "gone"]
      BY <1>4 DEF FinishPod, DeletePod
    <3> QED
      BY <3>1, <1>t DEF Users
  <2> QED
    BY <1>u, <1>v, <2>1 DEF Model!Next, Model!Stop
<1> QED
  BY <1>1, <1>2, <1>3, <1>4 DEF PodProgress

\* Every step under the inductive invariant is a step of SharedModel.
LEMMA ModelStep ==
  IInv /\ IInv' /\ [Next]_vars => [Model!Next]_(Model!vars)
<1> SUFFICES ASSUME IInv, IInv', [Next]_vars
             PROVE  Model!Next \/ UNCHANGED Model!vars
  OBVIOUS
<1> USE DEF clusterVars, viewVars, workerVars, histVars, WorkerStep, EvictionStep,
            ClusterStep
<1>0. CASE UNCHANGED <<mc, claim, content, pod, asked, misled>>
  BY <1>0, Stutter DEF Volume, Users
<1>1. CASE \/ Reconcile \/ VerifyClaim \/ DropJob \/ CheckClass \/ EnsureJob
  BY <1>0, <1>1 DEF Reconcile, VerifyClaim, DropJob, CheckClass, EnsureJob
<1>2. CASE Deliver \/ Resync
  BY <1>0, <1>2
     DEF Deliver, DeliverModelCache, DeliverClaim, DeliverJob, DeliverPod, Resync,
         Delivered
<1>3. CASE \/ ReconcileError \/ FailedCall \/ ControllerCrash
           \/ FailJob \/ LoseClass
  BY <1>0, <1>3
     DEF ReconcileError, FailedCall, ControllerCrash, FailJob, LoseClass, JobStep
<1>4. CASE \/ CreateModelCache \/ DeleteModelCache \/ Tick
           \/ AddFinalizer \/ MarkUsed \/ MarkEvicted \/ UpdateStatus
           \/ ReleaseModelCache
  BY <1>4, ObjectModelStep
<1>5. CASE \/ StorageStep \/ JobControllerStep
           \/ DropClaim \/ EnsureClaim \/ LoseClaim
  BY <1>5, VolumeModelStep
<1>6. ASSUME NEW p \in Pods,
             CreatePod(p) \/ PodProgress(p) \/ FinishPod(p) \/ DeletePod(p)
      PROVE  Model!Next \/ UNCHANGED Model!vars
  BY <1>6, PodModelStep
<1>7. CASE UNCHANGED vars
  BY <1>0, <1>7 DEF vars
<1> QED
  BY <1>1, <1>2, <1>3, <1>4, <1>5, <1>6, <1>7 DEF Next, ControllerStep

\* SharedPvc implements SharedModel: what the users see of a model in a shared
\* claim follows the abstract life, whatever the informer copies hide from the
\* controller and wherever it is interrupted (all actions of SharedPvc).
THEOREM Implementation == Spec => ImplementsModel
<1>1. Init => Model!Init
  BY DEF Init, NoModelCache, NoClaim, Model!Init, Life, Volume, Users
<1> QED
  BY <1>1, ModelStep, Invariance, PTL DEF Spec, ImplementsModel, Model!Spec

\* What SharedModel allows keeps its promise.
LEMMA PromiseStep == Model!Promise /\ [Model!Next]_(Model!vars) => Model!Promise'
<1> SUFFICES ASSUME Model!Promise, [Model!Next]_(Model!vars) PROVE Model!Promise'
  OBVIOUS
<1> USE DEF Model!Promise, Model!ObjectStep
<1>1. CASE Model!Create \/ Model!Own \/ Model!Delete \/ Model!Vanish
  BY <1>1 DEF Model!Create, Model!Own, Model!Delete, Model!Vanish
<1>2. CASE Model!Publish \/ Model!Evict \/ Model!Ask
  BY <1>2 DEF Model!Publish, Model!Evict, Model!Ask
<1>3. CASE Model!Provision \/ Model!Fill \/ Model!Clear
  BY <1>3 DEF Model!Provision, Model!Fill, Model!Clear
<1>4. ASSUME NEW p \in Pods, Model!Start(p) \/ Model!Stop(p)
      PROVE  Model!Promise'
  BY <1>4 DEF Model!Start, Model!Stop
<1>5. CASE UNCHANGED Model!vars
  BY <1>5 DEF Model!vars
<1> QED
  BY <1>1, <1>2, <1>3, <1>4, <1>5 DEF Model!Next

\* A Pod that runs has the whole model in a volume that is there, and Ready never
\* stands over a volume that does not hold it unless the controller was misled:
\* SharedModel says so of every implementation, and SharedPvc is one.
THEOREM Promised == Spec => []Model!Promise
<1>1. Model!Init => Model!Promise
  BY DEF Model!Init, Model!Promise
<1>2. Model!Spec => []Model!Promise
  BY <1>1, PromiseStep, PTL DEF Model!Spec
<1> QED
  BY <1>2, Implementation, PTL DEF ImplementsModel
=============================================================================
