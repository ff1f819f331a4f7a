------------------------------ MODULE NodeCache ------------------------------
(***************************************************************************)
(* Local CSI mode on one node: one ModelCacheNode object, the node-agent   *)
(* that serves it, the directory <cacheRoot>/<namespace>/<name> the agent  *)
(* fills and removes, the CSI node driver that bind-mounts the directory,  *)
(* and the Pods of the node that ask for the mount.                        *)
(*                                                                         *)
(* Four actors interleave:                                                 *)
(*   - the node-agent, one controller-runtime worker: a reconcile is a     *)
(*     sequence of steps (variable pc), each a call that another actor may *)
(*     come before or after.  It decides from informer copies of the API   *)
(*     objects (seen, seenPods, seenModelCache), which lag behind them;    *)
(*   - the CSI driver, one gRPC call per Pod, and the kubelet that retries *)
(*     it;                                                                 *)
(*   - the operator and the users, who create and delete the               *)
(*     ModelCacheNode and the Pods;                                        *)
(*   - the clock, which ages every copy of status.lastUsedTime.            *)
(*                                                                         *)
(* Times are kept as ages that stop growing at TTL: the code only asks     *)
(* whether now is before lastUsedTime + ttl, so the behaviour of the clock *)
(* is unbounded with finitely many states.                                 *)
(***************************************************************************)
EXTENDS Integers

CONSTANTS
  Files,      \* the files the model repository lists
  Pods,       \* Pods that may be bound to this node and mount the model
  TTL,        \* spec.eviction.unusedTTL in clock ticks, 0 when it is empty
  MaxFaults   \* how many calls may fail and how often a process may crash

ASSUME ConstantsAssumption == TTL \in Nat /\ MaxFaults \in Nat

VARIABLES
  \* API server
  mcn,             \* the ModelCacheNode object
  pod,             \* pod[p]: where Pod p is in its life on this node
  \* informer caches of the node-agent
  seen,            \* its copy of mcn
  seenPods,        \* the Pods its cache holds for this node
  seenModelCache,  \* whether its cache holds the parent ModelCache
  \* the node-agent's worker
  queued,          \* a request for the ModelCacheNode is in the workqueue
  pc,              \* the step the running reconcile is at
  inHand,          \* status.phase of the object the reconcile holds
  todo,            \* files the running download has still to fetch
  \* the node's file system
  dirExists,       \* <cacheRoot>/<namespace>/<name> exists
  disk,            \* disk[f]: what it holds of file f
  marker,          \* it holds .praesto-complete
  \* the CSI driver and the mount table
  csi,             \* csi[p]: the step NodePublishVolume is at for Pod p
  mount,           \* mount[p]: how the target path of Pod p is mounted
  \* history, read by no guard
  torn,            \* os.RemoveAll removed an entry, and since then neither the
                   \* directory nor did a download complete it again
  hit,             \* hit[p]: it removed one under p's publish call or mount
  faults           \* faults so far

objectVars == <<mcn, pod>>
viewVars   == <<seen, seenPods, seenModelCache>>
agentVars  == <<pc, inHand, todo>>
dirVars    == <<dirExists, disk, marker>>
csiVars    == <<csi, mount>>
histVars   == <<torn, hit>>
vars == <<objectVars, viewVars, queued, agentVars, dirVars, csiVars, histVars,
          faults>>

-----------------------------------------------------------------------------
(***************************************************************************)
(* Data                                                                    *)
(***************************************************************************)

\* status.phase, "Unset" for the empty string.  The node-agent writes no other
\* phase: Downloading and Failed of the API are not used in this mode.
Phases == {"Unset", "Pending", "Ready", "Evicted"}

\* An age of status.lastUsedTime; Never is the zero time.
Never == -1
Ages == {Never} \cup 0..TTL

Expired(age) == age = TTL

ModelCacheNode ==
  [exists: BOOLEAN,      \* the object is in the API server
   deleting: BOOLEAN,    \* metadata.deletionTimestamp is set
   finalizer: BOOLEAN,   \* it carries praesto.io/node-agent-finalizer
   phase: Phases,
   lastUsed: Ages]

NoModelCacheNode ==
  [exists |-> FALSE, deleting |-> FALSE, finalizer |-> FALSE,
   phase |-> "Unset", lastUsed |-> Never]

\* A Pod object is in the API server while waiting, running or stopping; an
\* orphaned one was force-deleted and only the kubelet still knows it.
PodStates == {"unborn", "waiting", "running", "stopping", "orphaned", "gone"}

Present == {p \in Pods : pod[p] \in {"waiting", "running", "stopping"}}

AgentSteps ==
  {"idle", "addFinalizer", "used", "prepare", "download", "ready",
   "evict", "evicted", "purge", "unfinalize"}

FileStates == {"absent", "partial", "whole"}

Whole == \A f \in Files : disk[f] = "whole"

Init ==
  /\ mcn = NoModelCacheNode
  /\ pod = [p \in Pods |-> "unborn"]
  /\ seen = NoModelCacheNode
  /\ seenPods = {}
  /\ seenModelCache = FALSE
  /\ queued = FALSE
  /\ pc = "idle"
  /\ inHand = "Unset"
  /\ todo = {}
  /\ dirExists = FALSE
  /\ disk = [f \in Files |-> "absent"]
  /\ marker = FALSE
  /\ csi = [p \in Pods |-> "idle"]
  /\ mount = [p \in Pods |-> "none"]
  /\ torn = FALSE
  /\ hit = [p \in Pods |-> FALSE]
  /\ faults = 0

-----------------------------------------------------------------------------
(***************************************************************************)
(* The operator, the users and the clock                                   *)
(***************************************************************************)

\* ModelCacheReconciler.ensureModelCacheNode creates the object; its parent
\* keeps existing until the object is gone.
CreateModelCacheNode ==
  /\ ~mcn.exists
  /\ mcn' = [NoModelCacheNode EXCEPT !.exists = TRUE]
  /\ UNCHANGED <<pod, viewVars, queued, agentVars, dirVars, csiVars, histVars,
                 faults>>

\* ModelCacheReconciler.reconcileModelCacheDelete (or a user) deletes it.
DeleteModelCacheNode ==
  /\ mcn.exists /\ ~mcn.deleting
  /\ mcn' = IF mcn.finalizer THEN [mcn EXCEPT !.deleting = TRUE]
                             ELSE NoModelCacheNode
  /\ UNCHANGED <<pod, viewVars, queued, agentVars, dirVars, csiVars, histVars,
                 faults>>

PodStep(p, from, to) ==
  /\ pod[p] \in from
  /\ pod' = [pod EXCEPT ![p] = to]
  /\ UNCHANGED <<mcn, viewVars, queued, agentVars, dirVars, csiVars, histVars,
                 faults>>

BindPod(p)        == PodStep(p, {"unborn"}, "waiting")
DeletePod(p)      == PodStep(p, {"waiting", "running"}, "stopping")
ForceDeletePod(p) == PodStep(p, {"waiting", "running", "stopping"}, "orphaned")

Grown(age) == IF age # Never /\ age < TTL THEN age + 1 ELSE age
Older(object) == [object EXCEPT !.lastUsed = Grown(@)]

Tick ==
  /\ mcn' = Older(mcn)
  /\ seen' = Older(seen)
  /\ UNCHANGED <<pod, seenPods, seenModelCache, queued, agentVars, dirVars,
                 csiVars, histVars, faults>>

-----------------------------------------------------------------------------
(***************************************************************************)
(* Informers: the copies the agent decides from catch up one at a time,    *)
(* and a change of the ModelCacheNode or of one of its Pods enqueues it.   *)
(* There is no watch on ModelCaches.                                       *)
(***************************************************************************)

DeliverModelCacheNode ==
  /\ seen # mcn
  /\ seen' = mcn
  /\ queued' = TRUE
  /\ UNCHANGED <<objectVars, seenPods, seenModelCache, agentVars, dirVars,
                 csiVars, histVars, faults>>

\* requestsForPod lists the ModelCacheNodes of the Pod's model in the cache.
DeliverPod(p) ==
  /\ seenPods' = IF p \in Present THEN seenPods \cup {p} ELSE seenPods \ {p}
  /\ seenPods' # seenPods
  /\ queued' = (queued \/ seen.exists)
  /\ UNCHANGED <<objectVars, seen, seenModelCache, agentVars, dirVars, csiVars,
                 histVars, faults>>

\* The parent exists as long as the ModelCacheNode: it waits for its deletion.
DeliverModelCache ==
  /\ seenModelCache # mcn.exists
  /\ seenModelCache' = mcn.exists
  /\ UNCHANGED <<objectVars, seen, seenPods, queued, agentVars, dirVars,
                 csiVars, histVars, faults>>

\* An update event of a Pod, or the periodic resync of controller-runtime.
Resync ==
  /\ seen.exists /\ ~queued
  /\ queued' = TRUE
  /\ UNCHANGED <<objectVars, viewVars, agentVars, dirVars, csiVars, histVars,
                 faults>>

-----------------------------------------------------------------------------
(***************************************************************************)
(* The node-agent's Reconcile.  Its patches are merge patches: they write  *)
(* the fields they change whatever the copy in hand was, fail only when    *)
(* the object is gone, and refresh the object in hand.                     *)
(***************************************************************************)

InUse == seenPods # {}

\* A variant: an evicted cache is never filled again.
NeverRehydrated(object) ==
  CASE object.phase = "Ready" /\ InUse -> "used"
    [] object.phase = "Ready" /\ ~InUse /\ TTL = 0 -> "idle"
    [] object.phase = "Ready" /\ ~InUse /\ TTL # 0 ->
         IF Expired(object.lastUsed) THEN "evict" ELSE "idle"
    [] object.phase = "Evicted" -> "idle"
    [] OTHER -> IF seenModelCache THEN "prepare" ELSE "idle"

\* Where Reconcile goes from the object in hand once it has its finalizer:
\* reconcileReadyCacheUsage and reconcileUnusedReadyCache when it is Ready,
\* otherwise on to the download, unless nothing asks for an evicted cache or
\* the agent does not find the parent ModelCache.
NextStep(object) ==
  CASE object.phase = "Ready" /\ InUse -> "used"
    [] object.phase = "Ready" /\ ~InUse /\ TTL = 0 -> "idle"
    [] object.phase = "Ready" /\ ~InUse /\ TTL # 0 ->
         IF object.lastUsed = Never THEN "used"
         ELSE IF Expired(object.lastUsed) THEN "evict" ELSE "idle"
    [] object.phase = "Evicted" /\ ~InUse -> "idle"
    [] OTHER -> IF seenModelCache THEN "prepare" ELSE "idle"

\* RequeueAfter: time.Until(evictAfter).  The timer may fire at any time.
WaitsForTTL(object) ==
  object.phase = "Ready" /\ ~InUse /\ TTL # 0 /\ NextStep(object) = "idle"

Dispatch(object, pending) ==
  /\ pc' = NextStep(object)
  /\ inHand' = IF pc' = "prepare" THEN object.phase ELSE "Unset"
  /\ queued' = (pending \/ WaitsForTTL(object))

\* A reconcile returns; again says whether the request is queued once more.
Return(again) ==
  /\ pc' = "idle"
  /\ inHand' = "Unset"
  /\ queued' = (queued \/ again)

\* A variant: the deletion timestamp is not looked at.
ReconcileIgnoringDeletion ==
  /\ pc = "idle" /\ queued /\ seen.exists
  /\ \/ ~seen.finalizer /\ pc' = "addFinalizer" /\ queued' = FALSE /\ UNCHANGED inHand
     \/ seen.finalizer /\ Dispatch(seen, FALSE)
  /\ UNCHANGED <<objectVars, viewVars, todo, dirVars, csiVars, histVars, faults>>

\* Reconcile up to its first write.
Reconcile ==
  /\ pc = "idle" /\ queued
  /\ \/ /\ \/ ~seen.exists
           \/ seen.deleting /\ ~seen.finalizer
        /\ queued' = FALSE
        /\ UNCHANGED <<pc, inHand>>
     \/ /\ seen.exists
        /\ \/ seen.deleting /\ seen.finalizer /\ pc' = "purge"
           \/ ~seen.deleting /\ ~seen.finalizer /\ pc' = "addFinalizer"
        /\ queued' = FALSE
        /\ UNCHANGED inHand
     \/ /\ seen.exists /\ ~seen.deleting /\ seen.finalizer
        /\ Dispatch(seen, FALSE)
  /\ UNCHANGED <<objectVars, viewVars, todo, dirVars, csiVars, histVars, faults>>

\* A variant: the finalizer is set on the object in hand and never patched.
AddFinalizerUnpatched ==
  /\ pc = "addFinalizer"
  /\ mcn.exists
  /\ Dispatch(mcn, queued)
  /\ UNCHANGED <<objectVars, viewVars, todo, dirVars, csiVars, histVars, faults>>

\* controllerutil.AddFinalizer and Patch; the object is not read again for its
\* deletion timestamp.
AddFinalizer ==
  /\ pc = "addFinalizer"
  /\ \/ /\ mcn.exists
        /\ mcn' = [mcn EXCEPT !.finalizer = TRUE]
        /\ Dispatch(mcn', queued)
     \/ /\ ~mcn.exists
        /\ Return(TRUE)
        /\ UNCHANGED mcn
  /\ UNCHANGED <<pod, viewVars, todo, dirVars, csiVars, histVars, faults>>

\* The patch of status.lastUsedTime, for a cache in use or never stamped.
MarkUsed ==
  /\ pc = "used"
  /\ mcn' = [mcn EXCEPT !.lastUsed = 0]
  /\ Return(FALSE)
  /\ UNCHANGED <<pod, viewVars, todo, dirVars, csiVars, histVars, faults>>

\* A variant: a directory that is there is taken for a complete one.
PrepareTrustingDirectory ==
  /\ pc = "prepare"
  /\ dirExists' = TRUE
  /\ \/ dirExists /\ pc' = "ready" /\ UNCHANGED todo
     \/ ~dirExists /\ pc' = "download" /\ todo' = Files
  /\ inHand' = "Unset"
  /\ UNCHANGED <<objectVars, viewVars, queued, disk, marker, csiVars, histVars,
                 faults>>

\* prepareDirectory, then cacheComplete: a marker left by an earlier attempt
\* vouches for the directory.
PrepareDirectory ==
  /\ pc = "prepare"
  /\ dirExists' = TRUE
  /\ \/ marker /\ pc' = "ready" /\ UNCHANGED todo
     \/ ~marker /\ pc' = "download" /\ todo' = Files
  /\ inHand' = "Unset"
  /\ UNCHANGED <<objectVars, viewVars, queued, disk, marker, csiVars, histVars,
                 faults>>

\* downloadFile: os.Create truncates what is there, also a file an earlier
\* attempt fetched; the files come in the order the repository lists them.
BeginFile(f) ==
  /\ pc = "download"
  /\ f \in todo /\ disk[f] # "partial"
  /\ disk' = [disk EXCEPT ![f] = "partial"]
  /\ UNCHANGED <<objectVars, viewVars, queued, agentVars, dirExists, marker,
                 csiVars, histVars, faults>>

EndFile(f) ==
  /\ pc = "download"
  /\ f \in todo /\ disk[f] = "partial"
  /\ disk' = [disk EXCEPT ![f] = "whole"]
  /\ todo' = todo \ {f}
  /\ UNCHANGED <<objectVars, viewVars, queued, pc, inHand, dirExists, marker,
                 csiVars, histVars, faults>>

\* A variant: the error of the download is dropped, and the marker written.
WriteMarkerRegardless ==
  /\ pc = "download"
  /\ marker' = TRUE
  /\ pc' = "ready"
  /\ torn' = FALSE
  /\ UNCHANGED <<objectVars, viewVars, queued, inHand, todo, dirExists, disk,
                 csiVars, hit, faults>>

WriteCompleteMarker ==
  /\ pc = "download" /\ todo = {}
  /\ marker' = TRUE
  /\ pc' = "ready"
  /\ torn' = FALSE
  /\ UNCHANGED <<objectVars, viewVars, queued, inHand, todo, dirExists, disk,
                 csiVars, hit, faults>>

\* The patch of markModelCacheNodeReady.  It is the second patch from the same
\* original, so its diff names the resourceVersion the first one left, and it
\* may conflict with a deletion that came in between.
MarkReady ==
  /\ pc = "ready"
  /\ \/ /\ mcn' = [mcn EXCEPT !.phase = "Ready", !.lastUsed = 0]
        /\ Return(FALSE)
     \/ /\ mcn.deleting
        /\ Return(TRUE)
        /\ UNCHANGED mcn
  /\ UNCHANGED <<pod, viewVars, todo, dirVars, csiVars, histVars, faults>>

-----------------------------------------------------------------------------
(***************************************************************************)
(* Removal: os.RemoveAll removes the entries one by one, then the          *)
(* directory; eviction patches the status after it, deletion the finalizer.*)
(***************************************************************************)

Removing == pc \in {"evict", "purge"}

\* Every publish call under way and every mount feels the removal.
Struck == [p \in Pods |-> hit[p] \/ csi[p] # "idle" \/ mount[p] # "none"]

RemoveEntry ==
  /\ Removing
  /\ \/ /\ \E f \in Files : /\ disk[f] # "absent"
                            /\ disk' = [disk EXCEPT ![f] = "absent"]
        /\ UNCHANGED marker
     \/ marker /\ marker' = FALSE /\ UNCHANGED disk
  /\ torn' = TRUE
  /\ hit' = Struck
  /\ UNCHANGED <<objectVars, viewVars, queued, agentVars, dirExists, csiVars,
                 faults>>

\* The directory goes once it is empty; none there is no error.
RemoveDirectory ==
  /\ Removing
  /\ ~marker /\ \A f \in Files : disk[f] = "absent"
  /\ dirExists' = FALSE
  /\ torn' = FALSE
  /\ hit' = IF dirExists THEN Struck ELSE hit
  /\ pc' = IF pc = "evict" THEN "evicted" ELSE "unfinalize"
  /\ UNCHANGED <<objectVars, viewVars, queued, inHand, todo, disk, marker,
                 csiVars, faults>>

\* Two variants: an eviction that is not written to the status, and one that
\* writes a phase of the API the node-agent does not know.
EvictedUnpatched ==
  /\ pc = "evicted"
  /\ Return(FALSE)
  /\ UNCHANGED <<objectVars, viewVars, todo, dirVars, csiVars, histVars, faults>>

EvictedAsFailed ==
  /\ pc = "evicted"
  /\ mcn' = [mcn EXCEPT !.phase = "Failed"]
  /\ Return(FALSE)
  /\ UNCHANGED <<pod, viewVars, todo, dirVars, csiVars, histVars, faults>>

\* A variant: the status says Evicted before the directory is removed.
MarkEvictedFirst ==
  /\ pc = "evict"
  /\ mcn' = [mcn EXCEPT !.phase = "Evicted"]
  /\ Return(FALSE)
  /\ UNCHANGED <<pod, viewVars, todo, dirVars, csiVars, histVars, faults>>

MarkEvicted ==
  /\ pc = "evicted"
  /\ mcn' = [mcn EXCEPT !.phase = "Evicted"]
  /\ Return(FALSE)
  /\ UNCHANGED <<pod, viewVars, todo, dirVars, csiVars, histVars, faults>>

\* A variant: the finalizer goes although os.RemoveAll has failed.
RemoveFinalizerRegardless ==
  /\ pc \in {"purge", "unfinalize"}
  /\ mcn' = IF mcn.deleting THEN NoModelCacheNode
                            ELSE [mcn EXCEPT !.finalizer = FALSE]
  /\ Return(~mcn.exists)
  /\ UNCHANGED <<pod, viewVars, todo, dirVars, csiVars, histVars, faults>>

\* The API server drops a deleted object with its last finalizer.  A patch sent
\* for an object that is gone meets none, or the one created in its place.
RemoveFinalizer ==
  /\ pc = "unfinalize"
  /\ mcn' = IF mcn.deleting THEN NoModelCacheNode
                            ELSE [mcn EXCEPT !.finalizer = FALSE]
  /\ Return(~mcn.exists)
  /\ UNCHANGED <<pod, viewVars, todo, dirVars, csiVars, histVars, faults>>

-----------------------------------------------------------------------------
(***************************************************************************)
(* Failures of the node-agent: a call fails and the reconcile returns its  *)
(* error, to be retried; the directory cannot be prepared; the process     *)
(* dies, and starts again with informers that have synced.                 *)
(***************************************************************************)

Fault == faults < MaxFaults /\ faults' = faults + 1

ReconcileError ==
  /\ Fault
  /\ pc # "idle"
  /\ Return(TRUE)
  /\ todo' = {}
  /\ UNCHANGED <<objectVars, viewVars, dirVars, csiVars, histVars>>

\* MkdirAll may have made the directory before chmod or writeJSONFile failed.
PrepareError ==
  /\ Fault
  /\ pc = "prepare"
  /\ dirExists' \in {dirExists, TRUE}
  /\ mcn' = IF inHand = "Unset" THEN [mcn EXCEPT !.phase = "Pending"] ELSE mcn
  /\ Return(TRUE)
  /\ UNCHANGED <<pod, viewVars, todo, disk, marker, csiVars, histVars>>

AgentCrash ==
  /\ Fault
  /\ seen' = mcn
  /\ seenPods' = Present
  /\ seenModelCache' = mcn.exists
  /\ queued' = mcn.exists
  /\ pc' = "idle"
  /\ inHand' = "Unset"
  /\ todo' = {}
  /\ UNCHANGED <<objectVars, dirVars, csiVars, histVars>>

-----------------------------------------------------------------------------
(***************************************************************************)
(* The CSI driver: NodePublishVolume looks at the directory, then mounts   *)
(* whatever is at that path; the kubelet repeats a call that failed, and   *)
(* unpublishes once the Pod goes.                                          *)
(***************************************************************************)

\* A variant: the marker is not looked for.
PublishAnyDirectory(p) ==
  /\ pod[p] = "waiting" /\ csi[p] = "idle"
  /\ dirExists
  /\ csi' = [csi EXCEPT ![p] = "checked"]
  /\ hit' = [hit EXCEPT ![p] = torn \/ (mount[p] # "none" /\ hit[p])]
  /\ UNCHANGED <<objectVars, viewVars, queued, agentVars, dirVars, mount, torn,
                 faults>>

NodePublishVolume(p) ==
  /\ pod[p] = "waiting" /\ csi[p] = "idle"
  /\ dirExists /\ marker
  /\ csi' = [csi EXCEPT ![p] = "checked"]
  /\ hit' = [hit EXCEPT ![p] = torn \/ (mount[p] # "none" /\ hit[p])]
  /\ UNCHANGED <<objectVars, viewVars, queued, agentVars, dirVars, mount, torn,
                 faults>>

\* The call succeeds, and the kubelet starts a Pod that still waits.
Published(p) ==
  /\ csi' = [csi EXCEPT ![p] = "idle"]
  /\ pod' = [pod EXCEPT ![p] = IF @ = "waiting" THEN "running" ELSE @]

\* bindMount up to the first mount: an error when the directory is gone, done
\* when the target is a mount point already.
BindMount(p) ==
  /\ csi[p] = "checked"
  /\ \/ /\ ~dirExists
        /\ csi' = [csi EXCEPT ![p] = "idle"]
        /\ UNCHANGED <<pod, mount>>
     \/ /\ dirExists /\ mount[p] # "none"
        /\ Published(p)
        /\ UNCHANGED mount
     \/ /\ dirExists /\ mount[p] = "none"
        /\ mount' = [mount EXCEPT ![p] = "rw"]
        /\ csi' = [csi EXCEPT ![p] = "remount"]
        /\ UNCHANGED pod
  /\ UNCHANGED <<mcn, viewVars, queued, agentVars, dirVars, histVars, faults>>

\* The webhook asks for readOnly, so bindMount mounts a second time.
RemountReadOnly(p) ==
  /\ csi[p] = "remount"
  /\ mount' = [mount EXCEPT ![p] = "ro"]
  /\ Published(p)
  /\ UNCHANGED <<mcn, viewVars, queued, agentVars, dirVars, histVars, faults>>

\* A mount call fails, or the driver dies in the middle of one.
PublishError(p) ==
  /\ Fault
  /\ csi[p] # "idle"
  /\ csi' = [csi EXCEPT ![p] = "idle"]
  /\ UNCHANGED <<objectVars, viewVars, queued, agentVars, dirVars, mount,
                 histVars>>

NodeUnpublishVolume(p) ==
  /\ pod[p] \in {"stopping", "orphaned"} /\ csi[p] = "idle"
  /\ mount' = [mount EXCEPT ![p] = "none"]
  /\ pod' = [pod EXCEPT ![p] = "gone"]
  /\ UNCHANGED <<mcn, viewVars, queued, agentVars, dirVars, csi, histVars,
                 faults>>

-----------------------------------------------------------------------------
AgentStep ==
  \/ Reconcile \/ AddFinalizer \/ MarkUsed
  \/ PrepareDirectory
  \/ \E f \in Files : BeginFile(f) \/ EndFile(f)
  \/ WriteCompleteMarker \/ MarkReady
  \/ RemoveEntry \/ RemoveDirectory \/ MarkEvicted \/ RemoveFinalizer

PublishStep(p) == NodePublishVolume(p) \/ BindMount(p) \/ RemountReadOnly(p)

Next ==
  \/ CreateModelCacheNode \/ DeleteModelCacheNode \/ Tick
  \/ DeliverModelCacheNode \/ DeliverModelCache \/ Resync
  \/ AgentStep
  \/ ReconcileError \/ PrepareError \/ AgentCrash
  \/ \E p \in Pods :
       \/ BindPod(p) \/ DeletePod(p) \/ ForceDeletePod(p) \/ DeliverPod(p)
       \/ PublishStep(p) \/ PublishError(p) \/ NodeUnpublishVolume(p)

Spec == Init /\ [][Next]_vars

\* Time passes, watches deliver, the worker runs, the resync comes round, and
\* the kubelet repeats its calls.  Nobody need create or delete an object.
Fairness ==
  /\ WF_vars(Tick)
  /\ WF_vars(DeliverModelCacheNode)
  /\ WF_vars(DeliverModelCache)
  /\ WF_vars(Resync)
  /\ WF_vars(AgentStep)
  /\ \A p \in Pods : /\ WF_vars(DeliverPod(p))
                     /\ WF_vars(PublishStep(p))
                     /\ WF_vars(NodeUnpublishVolume(p))

FairSpec == Spec /\ Fairness

-----------------------------------------------------------------------------
(***************************************************************************)
(* Properties                                                              *)
(***************************************************************************)

\* The type invariant of the whole state.
TypeOK ==
  /\ mcn \in ModelCacheNode
  /\ pod \in [Pods -> PodStates]
  /\ seen \in ModelCacheNode
  /\ seenPods \subseteq Pods
  /\ seenModelCache \in BOOLEAN
  /\ queued \in BOOLEAN
  /\ pc \in AgentSteps
  /\ inHand \in Phases
  /\ todo \subseteq Files
  /\ dirExists \in BOOLEAN
  /\ disk \in [Files -> FileStates]
  /\ marker \in BOOLEAN
  /\ csi \in [Pods -> {"idle", "checked", "remount"}]
  /\ mount \in [Pods -> {"none", "rw", "ro"}]
  /\ torn \in BOOLEAN
  /\ hit \in [Pods -> BOOLEAN]
  /\ faults \in 0..MaxFaults

\* A model directory on the node never outlives the finalizer of its
\* ModelCacheNode: whatever crash, failed call or stale copy comes in between,
\* the agent has put the finalizer on before it makes the directory, and takes
\* it off only when the directory is gone (Reconcile, reconcileDelete).
DirectoryOwned == dirExists => mcn.exists /\ mcn.finalizer

\* .praesto-complete vouches for every file of the model, across attempts that
\* broke off and were repeated, as long as no os.RemoveAll has begun to take
\* the directory apart (Reconcile from Download to writeCompleteMarker).
MarkerSound == marker /\ ~torn => Whole

\* A ModelCacheNode that says Ready has a directory that is complete, or none at
\* all, or one that os.RemoveAll has begun to take apart: it is never Ready over
\* a download that is under way or broke off (markModelCacheNodeReady).
ReadyNeverPartial == mcn.phase = "Ready" /\ dirExists /\ ~torn => marker /\ Whole

\* A publish call that has seen the marker, and the Pod it mounts for, meet an
\* incomplete model only if os.RemoveAll ran under them: a download never writes
\* under a mount (NodePublishVolume against Reconcile).
OnlyRemovalExposes ==
  \A p \in Pods :
    (csi[p] # "idle" \/ mount[p] # "none") /\ ~hit[p] => marker /\ Whole

\* The inductive invariant behind the four, in named parts.  What the API server
\* holds and what the agent's copy of it may say:
ObjectInv ==
  /\ ~mcn.exists => mcn.phase = "Unset"
  /\ mcn.deleting => mcn.finalizer
  /\ mcn.finalizer => mcn.exists
  /\ seen.deleting => seen.finalizer
  /\ seen.finalizer => seen.exists
  /\ seen.finalizer /\ ~seen.deleting => mcn.finalizer
  /\ seen.deleting /\ mcn.finalizer => mcn.deleting

\* what a reconcile at each step may count on, however long ago it read its copy:
Working == pc \in {"used", "prepare", "download", "ready", "evict", "evicted"}

AgentInv ==
  /\ Working => mcn.finalizer
  /\ Working \/ pc = "addFinalizer" => (seen.deleting => mcn.deleting)
  /\ pc = "addFinalizer" /\ seen.finalizer => seen.phase = mcn.phase
  /\ pc \in {"purge", "unfinalize"} /\ mcn.finalizer =>
       mcn.deleting /\ seen.deleting

\* the directory at each step:
DirectoryInv ==
  /\ marker => dirExists
  /\ pc \in {"evicted", "unfinalize"} => ~dirExists
  /\ pc = "download" => /\ dirExists /\ ~marker /\ mcn.phase # "Ready"
                        /\ \A f \in Files \ todo : disk[f] = "whole"
  /\ pc = "ready" => marker

\* and the stale copies that hide a Ready phase from the agent: then the marker
\* is there, so the agent does not start over, and no removal is under way.
HidesReady ==
  mcn.phase = "Ready" /\ seen.finalizer /\ ~seen.deleting /\ seen.phase # "Ready"

StaleViewInv ==
  /\ HidesReady => marker /\ pc # "evict"
  /\ pc = "prepare" /\ mcn.phase = "Ready" => marker

IInv ==
  /\ TypeOK
  /\ ObjectInv /\ AgentInv /\ DirectoryInv /\ StaleViewInv
  /\ DirectoryOwned /\ MarkerSound /\ ReadyNeverPartial /\ OnlyRemovalExposes

\* What the operator and the CSI driver see of all this is a life of object and
\* directory that CacheLifecycle allows: whatever the agent's copies hide from
\* it, and wherever it is interrupted, it publishes Ready only over a marker and
\* Evicted only over no directory, completes a directory only by a download,
\* and lets the object go only when the directory is gone.
Life ==
  IF ~mcn.exists THEN "none"
  ELSE IF mcn.deleting THEN "deleting"
  ELSE IF mcn.finalizer THEN "owned" ELSE "new"

Directory ==
  IF ~dirExists THEN "absent"
  ELSE IF ~marker THEN "incomplete"
  ELSE IF torn THEN "damaged" ELSE "complete"

Lifecycle == INSTANCE CacheLifecycle
               WITH life <- Life, phase <- mcn.phase, dir <- Directory

ImplementsLifecycle == Lifecycle!Spec

\* What README.md says of the marker: a mount is only made of a directory that
\* holds it, and so all of the model (NodePublishVolume, bindMount).
NoPartialMount ==
  [][\A p \in Pods :
       mount[p] = "none" /\ mount'[p] # "none" => marker /\ Whole]_vars

\* A started Pod has its model mounted read-only (bindMount with readOnly).
MountedReadOnly ==
  \A p \in Pods : pod[p] = "running" => mount[p] = "ro"

\* A Pod that waits for its mount is served: the agent fills or rehydrates the
\* directory and the repeated NodePublishVolume succeeds, unless the
\* ModelCacheNode is deleted first.
PodEventuallyServed ==
  \A p \in Pods :
    pod[p] = "waiting" ~> pod[p] # "waiting" \/ ~mcn.exists \/ mcn.deleting

\* What holds of it when calls fail and processes crash: the Pod is served, or
\* phase Ready stands for ever over a directory that an eviction has removed, or
\* begun to, without getting to write Evicted (reconcileReadyCacheUsage takes
\* the phase at its word, and the publish calls fail).
Hollow == mcn.phase = "Ready" /\ ~marker

PodServedOrHollow ==
  \A p \in Pods :
    pod[p] = "waiting" ~> \/ pod[p] # "waiting" \/ ~mcn.exists \/ mcn.deleting
                          \/ []Hollow

\* A deleted ModelCacheNode goes away: the agent always gets to remove the
\* directory and then the finalizer (reconcileDelete).
DeletionCompletes == mcn.deleting ~> ~mcn.exists

\* A cache that no Pod uses any more does not stay Ready: its TTL runs out and
\* the agent comes back to evict it (reconcileUnusedReadyCache).
UnusedCacheEvicted == []<>(Present # {} \/ mcn.phase # "Ready")
=============================================================================
