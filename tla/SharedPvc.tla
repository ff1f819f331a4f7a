------------------------------ MODULE SharedPvc ------------------------------
(***************************************************************************)
(* Shared PVC mode: one ModelCache with a StorageClass, the controller     *)
(* that gives it a claim and a download Job, and the Pods that mount the   *)
(* claim read-only and wait for .praesto-complete in an init container.    *)
(*                                                                         *)
(* The claim and the Job have fixed names, so the objects of one attempt   *)
(* and of the next are told apart by nothing but time.  Three sources of   *)
(* delay meet: the informer copies the controller decides from (seen,      *)
(* seenClaim, seenJob, seenPods), deletions that take effect later than    *)
(* they are asked for, and the worker, whose reconcile is a sequence of    *)
(* calls (variable pc).                                                    *)
(*                                                                         *)
(* Status is written in two ways.  Patch carries only the changed fields   *)
(* and always wins; Update names the resourceVersion of the copy in hand   *)
(* and is refused when that is not the latest (variables fresh, current).  *)
(***************************************************************************)
EXTENDS Integers

CONSTANTS
  Pods,       \* Pods annotated with the ModelCache
  TTL,        \* spec.eviction.unusedTTL in clock ticks, 0 when it is empty
  MaxFaults,  \* how many calls may fail, processes crash, objects get lost
  MaxLives    \* how many ModelCaches of the name are created in turn

ASSUME ConstantsAssumption ==
  TTL \in Nat /\ MaxFaults \in Nat /\ MaxLives \in Nat

VARIABLES
  \* API server and cluster
  mc,         \* the ModelCache object
  claim,      \* the PersistentVolumeClaim praesto-<name>
  content,    \* what its volume holds of the model
  job,        \* the Job praesto-download-<name>
  pod,        \* pod[p]: where Pod p is in its life
  class,      \* the StorageClass exists
  \* informer caches of the controller and the webhook
  seen,       \* their copy of mc
  fresh,      \* it is the latest version
  seenClaim,  \* their copy of claim
  seenJob,    \* their copy of job
  seenPods,   \* the Pods their cache holds
  \* the controller's worker
  queued,     \* a request for the ModelCache is in the workqueue
  pc,         \* the step the running reconcile is at
  uidInHand,  \* metadata.uid of the object the reconcile holds
  current,    \* that object is the latest version
  goal,       \* the phase the reconcile is about to write with Update
  again,      \* it returns an error or a RequeueAfter once it has written
  \* history, read by no guard
  misled,     \* a claim went while something still vouched for its content
  asked,      \* a Pod has asked for the cache since it was evicted
  faults      \* faults so far

clusterVars == <<claim, content, job, class>>
viewVars    == <<seen, fresh, seenClaim, seenJob, seenPods>>
workerVars  == <<pc, uidInHand, current, goal, again>>
histVars    == <<misled, asked>>
vars == <<mc, pod, clusterVars, viewVars, queued, workerVars, histVars, faults>>

-----------------------------------------------------------------------------
(***************************************************************************)
(* Data                                                                    *)
(***************************************************************************)

Phases ==
  {"Unset", "Pending", "Downloading", "Ready", "Failed", "Evicted"}

\* An age of status.lastUsedTime, which stops growing at TTL; Never is the zero
\* time.
Never == -1
Ages == {Never} \cup 0..TTL

Expired(age) == age = TTL

Uids == 0..MaxLives

ModelCache ==
  [exists: BOOLEAN, deleting: BOOLEAN, finalizer: BOOLEAN, phase: Phases,
   lastUsed: Ages, uid: Uids]

\* No object; uid is that of the last one, 0 before the first.
NoModelCache(uid) ==
  [exists |-> FALSE, deleting |-> FALSE, finalizer |-> FALSE,
   phase |-> "Unset", lastUsed |-> Never, uid |-> uid]

Claim ==
  [state: {"none", "pending", "bound", "lost"}, deleting: BOOLEAN, owner: Uids]

NoClaim == [state |-> "none", deleting |-> FALSE, owner |-> 0]

Contents == {"empty", "partial", "whole"}  \* whole: .praesto-complete is there

Job ==
  [state: {"none", "waiting", "running", "complete", "failed"},
   deleting: BOOLEAN, owner: Uids]

NoJob == [state |-> "none", deleting |-> FALSE, owner |-> 0]

\* A Pod is mounted while its init container polls for the marker, and done
\* when it has run to its end and only the object is left.
PodStates == {"unborn", "waiting", "mounted", "running", "done", "gone"}

\* countPodsUsingModelCache counts the objects, whatever their phase.
Present == {p \in Pods : pod[p] \in {"waiting", "mounted", "running", "done"}}

Steps ==
  {"idle", "addFinalizer", "stamp", "used", "verify", "dropJob", "dropClaim",
   "evicted", "class", "claim", "job", "update", "release"}

Init ==
  /\ mc = NoModelCache(0)
  /\ claim = NoClaim
  /\ content = "empty"
  /\ job = NoJob
  /\ pod = [p \in Pods |-> "unborn"]
  /\ class = TRUE
  /\ seen = NoModelCache(0)
  /\ fresh = TRUE
  /\ seenClaim = NoClaim
  /\ seenJob = NoJob
  /\ seenPods = {}
  /\ queued = FALSE
  /\ pc = "idle"
  /\ uidInHand = 0
  /\ current = FALSE
  /\ goal = "Unset"
  /\ again = FALSE
  /\ misled = FALSE
  /\ asked = FALSE
  /\ faults = 0

-----------------------------------------------------------------------------
(***************************************************************************)
(* The users and the clock                                                 *)
(***************************************************************************)

\* A write of the object by someone else than the running reconcile.
ForeignWrite ==
  /\ fresh' = FALSE
  /\ current' = FALSE
  /\ UNCHANGED <<seen, seenClaim, seenJob, seenPods, pc, uidInHand, goal, again>>

CreateModelCache ==
  /\ ~mc.exists /\ mc.uid < MaxLives
  /\ mc' = [NoModelCache(mc.uid + 1) EXCEPT !.exists = TRUE]
  /\ ForeignWrite
  /\ UNCHANGED <<pod, clusterVars, queued, histVars, faults>>

DeleteModelCache ==
  /\ mc.exists /\ ~mc.deleting
  /\ mc' = IF mc.finalizer THEN [mc EXCEPT !.deleting = TRUE]
                           ELSE NoModelCache(mc.uid)
  /\ ForeignWrite
  /\ UNCHANGED <<pod, clusterVars, queued, histVars, faults>>

Grown(age) == IF age # Never /\ age < TTL THEN age + 1 ELSE age
Older(object) == [object EXCEPT !.lastUsed = Grown(@)]

Tick ==
  /\ mc' = Older(mc)
  /\ seen' = Older(seen)
  /\ UNCHANGED <<pod, clusterVars, fresh, seenClaim, seenJob, seenPods, queued,
                 workerVars, histVars, faults>>

-----------------------------------------------------------------------------
(***************************************************************************)
(* Pods.  The webhook admits one when its copy of the ModelCache is Ready  *)
(* or Evicted; the Pod starts once the claim can be mounted and the init   *)
(* container has found .praesto-complete.                                  *)
(***************************************************************************)

\* fetchInjectableModelCache.
CreatePod(p) ==
  /\ pod[p] = "unborn"
  /\ seen.exists /\ seen.phase \in {"Ready", "Evicted"}
  /\ pod' = [pod EXCEPT ![p] = "waiting"]
  /\ asked' = TRUE
  /\ UNCHANGED <<mc, clusterVars, viewVars, queued, workerVars, misled, faults>>

PodStep(p, from, to) ==
  /\ pod[p] \in from
  /\ pod' = [pod EXCEPT ![p] = to]
  /\ UNCHANGED <<mc, clusterVars, viewVars, queued, workerVars, histVars, faults>>

Mountable == claim.state = "bound" /\ ~claim.deleting

MountPod(p)  == Mountable /\ PodStep(p, {"waiting"}, "mounted")
FinishPod(p) == PodStep(p, {"running"}, "done")
DeletePod(p) == PodStep(p, {"waiting", "mounted", "running", "done"}, "gone")

\* A variant: the init container does not wait.
StartPodAtOnce(p) == PodStep(p, {"mounted"}, "running")

\* The init container of ensurePVCModelCacheWaitInitContainer ends.
StartPod(p) == content = "whole" /\ PodStep(p, {"mounted"}, "running")

-----------------------------------------------------------------------------
(***************************************************************************)
(* Storage and Jobs.  A deleted claim stays while a Pod mounts it, and a   *)
(* deleted Job until its finalizers are gone; both are collected when the  *)
(* ModelCache that owns them no longer exists.                             *)
(***************************************************************************)

ClusterStep ==
  UNCHANGED <<mc, pod, viewVars, queued, workerVars, asked>>

BindClaim ==
  /\ claim.state = "pending" /\ ~claim.deleting
  /\ claim' = [claim EXCEPT !.state = "bound"]
  /\ ClusterStep /\ UNCHANGED <<content, job, class, misled, faults>>

Provisioning == pc \in {"class", "claim", "job"}

\* What may still say that the model is there.
Vouched ==
  \/ job.state = "complete" \/ seenJob.state = "complete"
  \/ goal = "Ready"
  \/ mc.phase = "Ready" /\ (seen.phase # "Ready" \/ Provisioning)

RemoveClaim ==
  /\ claim.deleting
  /\ \A p \in Pods : pod[p] \notin {"mounted", "running"}
  /\ job.state # "running"
  /\ claim' = NoClaim
  /\ content' = "empty"
  /\ misled' = (misled \/ Vouched)
  /\ ClusterStep /\ UNCHANGED <<job, class, faults>>

CollectClaim ==
  /\ claim.state # "none" /\ ~claim.deleting
  /\ ~mc.exists \/ claim.owner # mc.uid
  /\ claim' = [claim EXCEPT !.deleting = TRUE]
  /\ ClusterStep /\ UNCHANGED <<content, job, class, misled, faults>>

JobStep(from, to) ==
  /\ job.state \in from
  /\ job' = [job EXCEPT !.state = to]
  /\ ClusterStep /\ UNCHANGED <<claim, class, misled>>

\* A Pod of the Job mounts the claim and begins to write to it.
StartJob ==
  /\ Mountable /\ ~job.deleting
  /\ content' = IF content = "empty" THEN "partial" ELSE content
  /\ JobStep({"waiting"}, "running") /\ UNCHANGED faults

\* A variant: the Job succeeds although the download broke off.
CompleteJobRegardless ==
  /\ JobStep({"running"}, "complete") /\ UNCHANGED <<content, faults>>

\* downloader.py writes .praesto-complete and ends, or ends at once because an
\* earlier run has written it.
CompleteJob ==
  /\ content' = "whole"
  /\ JobStep({"running"}, "complete") /\ UNCHANGED faults

RemoveJob ==
  /\ job.deleting \/ job.state \in {"complete", "failed"}
  /\ job' = NoJob
  /\ ClusterStep /\ UNCHANGED <<claim, content, class, misled, faults>>

CollectJob ==
  /\ job.state # "none" /\ ~job.deleting
  /\ ~mc.exists \/ job.owner # mc.uid
  /\ job' = [job EXCEPT !.deleting = TRUE]
  /\ ClusterStep /\ UNCHANGED <<claim, content, class, misled, faults>>

RestoreClass ==
  /\ ~class
  /\ class' = TRUE
  /\ ClusterStep /\ UNCHANGED <<claim, content, job, misled, faults>>

-----------------------------------------------------------------------------
(***************************************************************************)
(* Informers.  Every delivery enqueues the ModelCache by its name.         *)
(***************************************************************************)

Delivered ==
  /\ queued' = TRUE
  /\ UNCHANGED <<mc, pod, clusterVars, workerVars, histVars, faults>>

DeliverModelCache ==
  /\ ~fresh
  /\ seen' = mc
  /\ fresh' = TRUE
  /\ Delivered /\ UNCHANGED <<seenClaim, seenJob, seenPods>>

DeliverClaim ==
  /\ seenClaim # claim
  /\ seenClaim' = claim
  /\ Delivered /\ UNCHANGED <<seen, fresh, seenJob, seenPods>>

DeliverJob ==
  /\ seenJob # job
  /\ seenJob' = job
  /\ Delivered /\ UNCHANGED <<seen, fresh, seenClaim, seenPods>>

DeliverPod(p) ==
  /\ seenPods' = IF p \in Present THEN seenPods \cup {p} ELSE seenPods \ {p}
  /\ seenPods' # seenPods
  /\ Delivered /\ UNCHANGED <<seen, fresh, seenClaim, seenJob>>

\* The periodic resync, or an update event of a Pod, a claim or a Job.
Resync ==
  /\ seen.exists /\ ~queued
  /\ Delivered /\ UNCHANGED viewVars

-----------------------------------------------------------------------------
(***************************************************************************)
(* The controller's Reconcile.                                             *)
(***************************************************************************)

\* A reconcile returns; retry says whether the request is queued once more.
Return(retry) ==
  /\ pc' = "idle"
  /\ uidInHand' = 0
  /\ current' = FALSE
  /\ goal' = "Unset"
  /\ again' = FALSE
  /\ queued' = (queued \/ retry)

Go(step) ==
  /\ pc' = step
  /\ UNCHANGED <<queued, uidInHand, current, goal, again>>

\* On to status.Update of a phase, and then to return.
Write(phase, retry) ==
  /\ pc' = "update"
  /\ goal' = phase
  /\ again' = retry
  /\ UNCHANGED <<queued, uidInHand, current>>

InUse == seenPods # {}

\* A variant: a failed cache is left alone.
FailedIsFinal(object) ==
  CASE object.phase \in {"Evicted", "Failed"} /\ ~InUse -> "idle"
    [] object.phase = "Ready" -> "verify"
    [] OTHER -> "class"

\* Where Reconcile goes from an object that has its finalizer: an evicted cache
\* waits for a Pod, a Ready one goes through reconcileReadyPVCModelCacheUsage.
NextStep(object) ==
  CASE object.phase = "Evicted" /\ ~InUse -> "idle"
    [] object.phase = "Ready" /\ InUse -> "used"
    [] object.phase = "Ready" /\ ~InUse /\ TTL = 0 -> "verify"
    [] object.phase = "Ready" /\ ~InUse /\ TTL # 0 ->
         IF object.lastUsed = Never THEN "stamp"
         ELSE IF Expired(object.lastUsed) THEN "dropJob" ELSE "idle"
    [] OTHER -> "class"

WaitsForTTL(object) ==
  object.phase = "Ready" /\ ~InUse /\ TTL # 0 /\ NextStep(object) = "idle"

\* latest: the object in hand is the latest version.
Dispatch(object, latest, pending) ==
  /\ pc' = NextStep(object)
  /\ uidInHand' = IF pc' = "idle" THEN 0 ELSE object.uid
  /\ current' = (latest /\ pc' # "idle")
  /\ queued' = (pending \/ WaitsForTTL(object))
  /\ UNCHANGED <<goal, again>>

WorkerStep ==
  UNCHANGED <<pod, clusterVars, seen, seenClaim, seenJob, seenPods, histVars,
              faults>>

\* A variant: the deletion timestamp is not looked at.
ReconcileIgnoringDeletion ==
  /\ pc = "idle" /\ queued /\ seen.exists
  /\ \/ /\ ~seen.finalizer /\ pc' = "addFinalizer" /\ queued' = FALSE
        /\ UNCHANGED <<uidInHand, current, goal, again>>
     \/ seen.finalizer /\ Dispatch(seen, fresh, FALSE)
  /\ UNCHANGED <<mc, fresh>> /\ WorkerStep

\* Reconcile up to its first call.
Reconcile ==
  /\ pc = "idle" /\ queued
  /\ \/ /\ \/ ~seen.exists
           \/ seen.deleting /\ ~seen.finalizer
        /\ queued' = FALSE
        /\ UNCHANGED workerVars
     \/ /\ seen.exists
        /\ \/ seen.deleting /\ seen.finalizer /\ pc' = "release"
           \/ ~seen.deleting /\ ~seen.finalizer /\ pc' = "addFinalizer"
        /\ queued' = FALSE
        /\ UNCHANGED <<uidInHand, current, goal, again>>
     \/ /\ seen.exists /\ ~seen.deleting /\ seen.finalizer
        /\ Dispatch(seen, fresh, FALSE)
  /\ UNCHANGED <<mc, fresh>> /\ WorkerStep

\* The patch fails when the object is gone; its answer is the latest version.
AddFinalizer ==
  /\ pc = "addFinalizer"
  /\ \/ /\ mc.exists
        /\ mc' = [mc EXCEPT !.finalizer = TRUE]
        /\ fresh' = (fresh /\ mc' = mc)
        /\ Dispatch(mc', TRUE, queued)
     \/ /\ ~mc.exists
        /\ Return(TRUE)
        /\ UNCHANGED <<mc, fresh>>
  /\ WorkerStep

\* The two patches of status.lastUsedTime: for a cache in use, which is then
\* looked at, and for one that was never stamped, which is not.
MarkUsed ==
  /\ pc \in {"used", "stamp"}
  /\ \/ /\ mc.exists
        /\ mc' = [mc EXCEPT !.lastUsed = 0]
        /\ fresh' = (fresh /\ mc' = mc)
        /\ IF pc = "stamp" THEN Return(TRUE)
           ELSE /\ pc' = "verify"
                /\ uidInHand' = mc.uid
                /\ current' = TRUE
                /\ UNCHANGED <<queued, goal, again>>
     \/ /\ ~mc.exists
        /\ Return(TRUE)
        /\ UNCHANGED <<mc, fresh>>
  /\ WorkerStep

\* A variant: the claim of a Ready cache is not looked at.
TrustClaim ==
  /\ pc = "verify"
  /\ Return(FALSE)
  /\ UNCHANGED <<mc, fresh>> /\ WorkerStep

\* GetManagedModelCachePVC reads the claim from the API server itself.
VerifyClaim ==
  /\ pc = "verify"
  /\ \/ Mountable /\ Return(FALSE)
     \/ ~Mountable /\ Write("Failed", TRUE)
  /\ UNCHANGED <<mc, fresh>> /\ WorkerStep

-----------------------------------------------------------------------------
(***************************************************************************)
(* Eviction: deletePVCModeArtifacts, then the patch of                     *)
(* markPVCModelCacheEvicted.                                               *)
(***************************************************************************)

EvictionStep == UNCHANGED <<pod, content, class, viewVars, misled, faults>>

DropJob ==
  /\ pc = "dropJob"
  /\ job' = IF seenJob.state # "none" /\ job.state # "none"
            THEN [job EXCEPT !.deleting = TRUE] ELSE job
  /\ Go("dropClaim")
  /\ EvictionStep /\ UNCHANGED <<mc, claim, asked>>

DropClaim ==
  /\ pc = "dropClaim"
  /\ claim' = IF seenClaim.state # "none" /\ claim.state # "none"
              THEN [claim EXCEPT !.deleting = TRUE] ELSE claim
  /\ Go("evicted")
  /\ EvictionStep /\ UNCHANGED <<mc, job, asked>>

\* A variant: the eviction is not written to the status.
EvictedUnpatched ==
  /\ pc = "evicted"
  /\ Return(FALSE)
  /\ UNCHANGED <<mc, fresh, asked, misled>>
  /\ UNCHANGED <<pod, clusterVars, seen, seenClaim, seenJob, seenPods, faults>>

MarkEvicted ==
  /\ pc = "evicted"
  /\ \/ /\ mc.exists
        /\ mc' = [mc EXCEPT !.phase = "Evicted"]
        /\ fresh' = (fresh /\ mc' = mc)
        /\ asked' = (Present \cup seenPods # {})
        /\ Return(FALSE)
     \/ /\ ~mc.exists
        /\ Return(TRUE)
        /\ UNCHANGED <<mc, fresh, asked>>
  /\ UNCHANGED <<pod, clusterVars, seen, seenClaim, seenJob, seenPods, misled,
                 faults>>

-----------------------------------------------------------------------------
(***************************************************************************)
(* Provisioning: StorageClass, claim, Job, and the phase they amount to.   *)
(***************************************************************************)

\* ensureStorageClassExists reads the API server.
CheckClass ==
  /\ pc = "class"
  /\ \/ class /\ Go("claim")
     \/ ~class /\ Write("Failed", FALSE)
  /\ UNCHANGED <<mc, fresh>> /\ WorkerStep

AfterClaim(c) ==
  IF c.state = "bound" THEN Go("job") ELSE Write("Pending", TRUE)

\* EnsureModelCachePVC: the cached claim of that name, whoever owns it and
\* whether or not it is being deleted; otherwise a new one; and when that exists
\* already, the cached one after all, which may still be missing.
EnsureClaim ==
  /\ pc = "claim"
  /\ \/ /\ seenClaim.state # "none"
        /\ AfterClaim(seenClaim)
        /\ UNCHANGED claim
     \/ /\ seenClaim.state = "none" /\ claim.state = "none"
        /\ claim' = [state |-> "pending", deleting |-> FALSE, owner |-> uidInHand]
        /\ AfterClaim(claim')
     \/ /\ seenClaim.state = "none" /\ claim.state # "none"
        /\ Return(TRUE) \/ AfterClaim(claim)
        /\ UNCHANGED claim
  /\ UNCHANGED <<mc, pod, content, job, class, viewVars, histVars, faults>>

\* Two variants: a Job that has not failed counts as complete, and the name of
\* the Job's condition is written for the phase.
AfterJobUnlessFailed(j) ==
  IF j.state = "failed" THEN Write("Failed", TRUE) ELSE Write("Ready", FALSE)

AfterJobAsCondition(j) ==
  IF j.state = "complete" THEN Write("Complete", FALSE) ELSE Write("Downloading", FALSE)

\* IsDownloadJobComplete and what Reconcile makes of it.
AfterJob(j) ==
  CASE j.state = "failed"   -> Write("Failed", TRUE)
    [] j.state = "complete" -> Write("Ready", FALSE)
    [] OTHER                -> Write("Downloading", FALSE)

\* EnsureDownloadJob, likewise by name.
EnsureJob ==
  /\ pc = "job"
  /\ \/ /\ seenJob.state # "none"
        /\ AfterJob(seenJob)
        /\ UNCHANGED job
     \/ /\ seenJob.state = "none" /\ job.state = "none"
        /\ job' = [state |-> "waiting", deleting |-> FALSE, owner |-> uidInHand]
        /\ AfterJob(job')
     \/ /\ seenJob.state = "none" /\ job.state # "none"
        /\ Write("Failed", TRUE) \/ AfterJob(job)
        /\ UNCHANGED job
  /\ UNCHANGED <<mc, pod, claim, content, class, viewVars, histVars, faults>>

\* A variant: the status is patched, whatever version the copy in hand was.
PatchStatus ==
  /\ pc = "update" /\ mc.exists
  /\ mc' = [mc EXCEPT !.phase = goal,
                      !.lastUsed = IF goal = "Ready" THEN 0 ELSE @]
  /\ fresh' = (fresh /\ mc' = mc)
  /\ Return(again)
  /\ WorkerStep

\* status.Update: a conflict unless the object in hand is the latest version.
UpdateStatus ==
  /\ pc = "update"
  /\ \/ /\ current
        /\ mc' = [mc EXCEPT !.phase = goal,
                            !.lastUsed = IF goal = "Ready" THEN 0 ELSE @]
        /\ fresh' = (fresh /\ mc' = mc)
        /\ Return(again)
     \/ /\ ~current
        /\ Return(TRUE)
        /\ UNCHANGED <<mc, fresh>>
  /\ WorkerStep

\* reconcileModelCacheDelete, when there are no ModelCacheNodes.
ReleaseModelCache ==
  /\ pc = "release"
  /\ mc' = IF mc.deleting THEN NoModelCache(mc.uid)
                          ELSE [mc EXCEPT !.finalizer = FALSE]
  /\ fresh' = (fresh /\ mc' = mc)
  /\ Return(~mc.exists)
  /\ WorkerStep

-----------------------------------------------------------------------------
(***************************************************************************)
(* Failures: a call of the controller fails and the reconcile returns its  *)
(* error, or writes Failed first; the process dies and starts again with   *)
(* informers that have synced; the user deletes the claim or the storage   *)
(* loses it; the Job fails; the StorageClass goes.                         *)
(***************************************************************************)

Fault == faults < MaxFaults /\ faults' = faults + 1

ReconcileError ==
  /\ Fault
  /\ pc # "idle"
  /\ Return(TRUE)
  /\ UNCHANGED <<mc, pod, clusterVars, viewVars, histVars>>

\* Failing to read the claim or to create the Job makes the phase Failed.
FailedCall ==
  /\ Fault
  /\ pc \in {"verify", "job"}
  /\ Write("Failed", TRUE)
  /\ UNCHANGED <<mc, pod, clusterVars, viewVars, histVars>>

ControllerCrash ==
  /\ Fault
  /\ seen' = mc
  /\ fresh' = TRUE
  /\ seenClaim' = claim
  /\ seenJob' = job
  /\ seenPods' = Present
  /\ pc' = "idle"
  /\ uidInHand' = 0
  /\ current' = FALSE
  /\ goal' = "Unset"
  /\ again' = FALSE
  /\ queued' = mc.exists
  /\ UNCHANGED <<mc, pod, clusterVars, histVars>>

LoseClaim ==
  /\ Fault
  /\ \/ /\ claim.state # "none" /\ ~claim.deleting
        /\ claim' = [claim EXCEPT !.deleting = TRUE]
     \/ /\ claim.state = "bound"
        /\ claim' = [claim EXCEPT !.state = "lost"]
  /\ ClusterStep /\ UNCHANGED <<content, job, class, misled>>

FailJob == Fault /\ JobStep({"waiting", "running"}, "failed") /\ UNCHANGED content

LoseClass ==
  /\ Fault
  /\ class /\ class' = FALSE
  /\ ClusterStep /\ UNCHANGED <<claim, content, job, misled>>

-----------------------------------------------------------------------------
ControllerStep ==
  \/ Reconcile \/ AddFinalizer \/ MarkUsed \/ VerifyClaim
  \/ DropJob \/ DropClaim \/ MarkEvicted
  \/ CheckClass \/ EnsureClaim \/ EnsureJob \/ UpdateStatus
  \/ ReleaseModelCache

Deliver ==
  \/ DeliverModelCache \/ DeliverClaim \/ DeliverJob
  \/ \E p \in Pods : DeliverPod(p)

StorageStep == BindClaim \/ RemoveClaim \/ CollectClaim \/ RestoreClass

JobControllerStep == StartJob \/ CompleteJob \/ RemoveJob \/ CollectJob

PodProgress(p) == MountPod(p) \/ StartPod(p)

Next ==
  \/ CreateModelCache \/ DeleteModelCache \/ Tick
  \/ ControllerStep \/ Deliver \/ Resync
  \/ StorageStep \/ JobControllerStep
  \/ ReconcileError \/ FailedCall \/ ControllerCrash
  \/ LoseClaim \/ FailJob \/ LoseClass
  \/ \E p \in Pods : CreatePod(p) \/ PodProgress(p) \/ FinishPod(p) \/ DeletePod(p)

Spec == Init /\ [][Next]_vars

\* Time passes, watches deliver, the worker runs, the resync comes round, and
\* the cluster goes about its business.  Nobody need create or delete anything.
Fairness ==
  /\ WF_vars(Tick)
  /\ WF_vars(ControllerStep)
  /\ WF_vars(DeliverModelCache) /\ WF_vars(DeliverClaim) /\ WF_vars(DeliverJob)
  /\ WF_vars(Resync)
  /\ WF_vars(BindClaim) /\ WF_vars(RemoveClaim) /\ WF_vars(CollectClaim)
  /\ WF_vars(RestoreClass)
  /\ WF_vars(StartJob \/ CompleteJob) /\ WF_vars(RemoveJob)
  /\ WF_vars(CollectJob)
  /\ \A p \in Pods : WF_vars(DeliverPod(p)) /\ WF_vars(PodProgress(p))

FairSpec == Spec /\ Fairness

-----------------------------------------------------------------------------
(***************************************************************************)
(* Properties                                                              *)
(***************************************************************************)

\* The type invariant of the whole state.
TypeOK ==
  /\ mc \in ModelCache
  /\ claim \in Claim
  /\ content \in Contents
  /\ job \in Job
  /\ pod \in [Pods -> PodStates]
  /\ class \in BOOLEAN
  /\ seen \in ModelCache
  /\ fresh \in BOOLEAN
  /\ seenClaim \in Claim
  /\ seenJob \in Job
  /\ seenPods \subseteq Pods
  /\ queued \in BOOLEAN
  /\ pc \in Steps
  /\ uidInHand \in Uids
  /\ current \in BOOLEAN
  /\ goal \in Phases
  /\ again \in BOOLEAN
  /\ misled \in BOOLEAN
  /\ asked \in BOOLEAN
  /\ faults \in 0..MaxFaults

\* A Pod that runs has the whole model under its mount, however its claim, the
\* Job and the phase came to be what they are: the init container waits for the
\* marker, and the claim outlives the Pod
\* (ensurePVCModelCacheWaitInitContainer against evictions and downloads).
RunningHasModel ==
  \A p \in Pods :
    pod[p] = "running" => content = "whole" /\ claim.state \in {"bound", "lost"}

\* A Ready phase over a bound claim means that the claim holds the model, unless
\* a claim was removed while a completed Job, or the informer's copy of it, or a
\* reconcile that had read it, still spoke of its content (Reconcile).
ReadyMeansWhole ==
  mc.phase = "Ready" /\ claim.state = "bound" /\ ~misled => content = "whole"

\* The inductive invariant behind them, in named parts.  Whatever says that the
\* claim holds the model is right as long as nothing misled; a Ready phase may
\* outlive its claim, but then the controller knows the phase, and creates no
\* claim before it has changed it:
VouchInv ==
  ~misled =>
    /\ job.state = "complete" \/ seenJob.state = "complete" \/ goal = "Ready"
         => content = "whole"
    /\ mc.phase = "Ready" /\ content # "whole" =>
         claim.state = "none" /\ seen.phase = "Ready" /\ ~Provisioning

\* a claim that a Pod mounts is there:
MountInv ==
  \A p \in Pods :
    pod[p] \in {"mounted", "running"} => claim.state \in {"bound", "lost"}

\* and from an evicted cache nobody asks for, no reconcile holds the latest
\* version that is on its way to status.Update:
EvictedInv ==
  /\ goal # "Evicted"
  /\ fresh => seen = mc
  /\ mc.phase = "Evicted" => mc.exists
  /\ mc.phase = "Evicted" /\ ~asked =>
       /\ Present = {} /\ seenPods = {}
       /\ pc # "used"
       /\ Provisioning \/ pc \in {"verify", "update"} => ~current

\* a claim that was never bound holds nothing, and a Job that runs has begun to
\* write;
StoreInv ==
  /\ claim.state \in {"none", "pending"} => content = "empty"
  /\ job.state = "running" => content # "empty"

\* a reconcile only holds the latest version of an object that is there, and takes
\* the finalizer only from one that is being deleted, though its copy may be of a
\* predecessor:
ObjectInv ==
  /\ ~mc.exists => mc = NoModelCache(mc.uid)
  /\ mc.deleting => mc.finalizer
  /\ current => mc.exists
  /\ seen.deleting => seen.finalizer
  /\ seen.deleting \/ pc = "release" => (mc.finalizer => mc.deleting)
  /\ seen.deleting /\ pc = "addFinalizer" => mc.deleting

IInv ==
  /\ TypeOK
  /\ VouchInv /\ MountInv /\ EvictedInv /\ StoreInv /\ ObjectInv
  /\ RunningHasModel /\ ReadyMeansWhole

\* What the condition of a Ready cache says, "Model is ready to be mounted": a
\* reconcile that concludes so from the Job, over a claim that can be mounted,
\* has a claim that holds the model (EnsureDownloadJob, IsDownloadJobComplete).
ReadyOverModel ==
  [][goal # "Ready" /\ goal' = "Ready" /\ Mountable => content = "whole"]_vars

\* An evicted cache is filled again only when a Pod has asked for it since: no
\* reconcile that read an older version brings it back (Reconcile, the branch of
\* the Evicted phase, and the resourceVersion of status.Update).
EvictedUntilAsked ==
  [][mc.phase = "Evicted" /\ mc'.phase # "Evicted" /\ mc'.exists => asked]_vars

\* A deleted ModelCache goes away (reconcileModelCacheDelete).
DeletionCompletes == mc.deleting ~> ~mc.exists

\* There is no claim, or only one that no Pod can mount any more.
ClaimGone == claim.state \in {"none", "lost"} \/ claim.deleting

\* A Ready ModelCache whose claim goes does not stay Ready, though the claim may
\* come back: the controller reads it from the API server and starts over, or
\* evicts the cache.  That is so once the controller's copy of the ModelCache says
\* Ready and no reconcile that went by an older copy is left.  Such a reconcile may
\* put a new, empty claim under the phase, which VerifyClaim then accepts; that is
\* not noticed, and recorded in misled (Reconcile on a Ready phase).
LossIsNoticed ==
  mc.phase = "Ready" /\ ClaimGone /\ seen.phase = "Ready" /\ ~Provisioning
    ~> mc.phase # "Ready"

\* From some time on no completed Job goes before the controller has heard of it
\* and is done with it: TTLSecondsAfterFinished is a minute.
JobsAreSeen ==
  <>[][job.state = "complete" /\ job' = NoJob =>
         seenJob = job /\ pc = "idle" /\ ~queued]_vars

\* EnsureModelCachePVC returns a claim that is Lost as it is, and Reconcile writes
\* Pending and comes back, again and again.
WaitsOnLostClaim ==
  claim.state = "lost" /\ ~claim.deleting /\ mc.phase = "Pending"

\* A ModelCache that is neither Ready nor evicted becomes Ready, whatever failed
\* and however often it was Failed before: the Job is created anew once its remains
\* are gone, and so is a claim.  Otherwise its user deletes it, or its claim is
\* Lost and it stays Pending for ever (Reconcile, EnsureModelCachePVC,
\* EnsureDownloadJob).
BecomesReady ==
  JobsAreSeen =>
    (mc.exists /\ mc.phase \notin {"Ready", "Evicted"}
       ~> mc.phase = "Ready" \/ ~mc.exists \/ []WaitsOnLostClaim)

\* A cache that no Pod asks for any more does not stay Ready.
UnusedCacheEvicted == []<>(Present # {} \/ mc.phase # "Ready")

-----------------------------------------------------------------------------
(***************************************************************************)
(* The life of the cache                                                   *)
(***************************************************************************)

\* How the object, the volume of the claim and the Pods show in SharedModel.
Life ==
  CASE ~mc.exists -> "none"
    [] mc.exists /\ mc.deleting -> "deleting"
    [] mc.exists /\ ~mc.deleting /\ mc.finalizer -> "owned"
    [] OTHER -> "new"

Volume == IF claim.state \in {"bound", "lost"} THEN content ELSE "none"

Users == {p \in Pods : pod[p] = "running"}

Model == INSTANCE SharedModel
  WITH life <- Life, phase <- mc.phase, volume <- Volume, users <- Users

\* Object, phase, volume and Pods lead a life that SharedModel allows, whatever
\* the informer copies hide from the controller and wherever a reconcile, a
\* deletion or a download is interrupted (all of ModelCacheReconciler's PVC mode).
ImplementsModel == Model!Spec
=============================================================================
