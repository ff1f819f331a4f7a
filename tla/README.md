# Praesto: the verification development

Praesto is a Kubernetes operator that keeps copies of AI models close to the
Pods that use them. This directory models the parts of it that keep state and
race with one another, checks them with TLC on small instances, and proves the
main safety properties with TLAPS for every size of the instance.

Paths below are relative to the root of the repository; `agent.go` is
`src/internal/nodeagent/agent.go`, `modelcache_controller.go` is
`src/internal/controller/modelcache_controller.go`, `downloader.go` is
`src/internal/downloader/downloader.go`, `node_server.go` and `mount_linux.go`
are in `src/internal/csi/`, `pod_mutator.go` is in `src/internal/webhook/`, and
`modelcache_webhook.go` in `src/internal/webhook/v1alpha1/`.

## 1. Inventory

| Part | State it keeps | Operations | Talks to |
| --- | --- | --- | --- |
| ModelCache controller, local mode (`modelcache_controller.go`) | status of the `ModelCache`, its finalizer, one `ModelCacheNode` per selected node | Reconcile: validate the StorageClass, list nodes, ensure a `ModelCacheNode` each, aggregate their phases; reconcileModelCacheDelete | node-agents, through the `ModelCacheNode` objects |
| ModelCache controller, shared PVC mode (same file, `downloader.go`) | status of the `ModelCache` (phase, lastUsedTime), one claim, one download Job of fixed names | Reconcile: ensure claim and Job, turn the Job's condition into a phase, watch a Ready claim, evict after the TTL, rehydrate when a Pod asks | Job controller, garbage collection, storage, webhook |
| Node-agent (`agent.go`) | finalizer and status of the `ModelCacheNode`s of its node; `<cacheRoot>/<namespace>/<name>` with `.praesto-owner`, `.praesto-manifest.json`, `.praesto-complete` | Reconcile: finalizer, download, marker, Ready; stamp or evict; rehydrate; remove on deletion | informers (stale copies), Hugging Face, the file system the CSI driver reads |
| Download (`src/internal/modeldownload`) | files below the model directory | list the files, fetch each in turn | Hugging Face |
| CSI node driver (`node_server.go`, `mount_linux.go`) | mount table of the node | NodePublishVolume, NodeUnpublishVolume | the kubelet; the directories of the node-agent |
| Pod webhook (`pod_mutator.go`) | none | admit or reject an annotated Pod, inject volumes, mounts and a waiting init container | the phases the controllers write |
| ModelCache webhook (`src/internal/webhook/v1alpha1`) | none | admit or reject a `ModelCache` and its updates (spec is immutable) | StorageClasses |
| Names (`src/internal/kubeident`) | none | sanitise and cut names and label values | every object name |
| Job-side downloader (`src/internal/downloader/downloader.py`) | files of the claim, `.praesto-complete` | skip when the marker is there, fetch, write the marker | the claim |
| Set-up (`src/cmd`, `src/internal/csi/driver.go`), conditions (`src/internal/status`), API types | none of their own | wiring | |

**What is hard here.** The controllers decide from informer copies that lag
behind the API server, and write with merge patches that are mostly not guarded
by a resourceVersion. A reconcile is a sequence of calls, any of which may
fail, and the process may die between any two. The node-agent and the CSI
driver share a directory with no lock between them: the marker file is the
whole protocol. Eviction races with the Pods that arrive. Several steps are
only repeated when an event, a timer or the ten-hour resync brings the object
round again, so liveness is not obvious.

**What makes each part correct.**

* Node-agent: a directory exists only under an object with the finalizer; the
  marker vouches for all files; Ready is never written over a partial download;
  a deletion completes; an unused cache is evicted; a waiting Pod is served.
* CSI driver: a mount is made only of a complete model, and read-only.
* ModelCache controller, PVC mode: Ready means that the claim the Pods mount
  holds the model; an evicted cache comes back when a Pod asks, a failed one by
  itself; a cache in use is not evicted.
* ModelCache controller, local mode: one object per selected node, the summary
  counts what is there, the finalizer goes last.
* Pod webhook: a Pod is admitted only with mounts that do not overlap and
  caches that can be served.
* ModelCache webhook: a spec that is let in, and can no longer be changed, is one
  that the controllers and agents can work with.
* Names: distinct objects get distinct names; truncation keeps them valid.

`PROJECT.json` lists the components with what is and is not modelled, and under
`hazards` every place found where an order of steps, a failure or a stale copy
bites, with the property that looks at it.

## 2. Modules

| Module | Models | Checked by | Proved in |
| --- | --- | --- | --- |
| `NodeCache` | node-agent, CSI driver, Pods and object of one cache on one node | `MCNodeCache`, `node_*` | `NodeCacheProofs` |
| `CacheLifecycle` | what the node-agent promises: the life of object and directory, abstractly | `node_faults`, as a property of `NodeCache` | `NodeCacheRefinement` |
| `SharedPvc` | PVC mode: claim, Job, phases, eviction, rehydration, Pods | `MCSharedPvc`, `pvc_*` | `SharedPvcProofs` |
| `SharedModel` | what the shared mode promises: the life of object, phase, volume and Pods, abstractly | `pvc_evict`, as a property of `SharedPvc` | `SharedPvcRefinement` |
| `LocalCaches` | local mode seen from the operator: several nodes, several lives of a name | `MCLocalCaches`, `local_*` | `LocalCachesProofs` |
| `Admission` | both webhooks | `MCAdmission`, `admission`, `admission_token` | `AdmissionLemmas` (paths, sequences), `AdmissionProofs` |

How they fit together. `LocalCaches` creates and deletes the objects that
`NodeCache` takes as given, and its node-agents are `NodeCache` seen from afar:
they take an object into their care, make it Ready, evict it and let it go, the
moves that `CacheLifecycle` allows, which `NodeCache` is shown to implement.
`LocalCaches` does not instantiate `CacheLifecycle`: it also needs to know whose
model a directory holds, which one `ModelCacheNode` alone cannot tell.
`SharedPvc` is shown to implement `SharedModel` in the same way.
`Admission` decides which Pods get mounts; `NodeCache` and `SharedPvc` take the
Pods it admits, and count them as `UsersCounted` says they may.

## 3. NodeCache

One `ModelCacheNode` on one node. The variables are the API objects (`mcn`,
`pod`), the agent's informer copies (`seen`, `seenPods`, `seenModelCache`), its
workqueue and worker (`queued`, `pc`, `inHand`, `todo`), the directory
(`dirExists`, `disk`, `marker`) and the CSI driver (`csi`, `mount`). `torn`
and `hit` are history that no guard reads; `faults` bounds failures.

| Action | Code |
| --- | --- |
| `Reconcile`, `AddFinalizer` | `Reconcile` up to its first write, and the finalizer patch (agent.go:73-122) |
| `NextStep`, `Dispatch` | which branch the phase in hand selects (agent.go:97-122, 205-297) |
| `MarkUsed` | the patch of lastUsedTime (agent.go:222-231) |
| `PrepareDirectory`, `BeginFile`, `EndFile`, `WriteCompleteMarker`, `MarkReady` | directory, download file by file, marker, status (agent.go:124-203, 363-454; huggingface.go:104-170) |
| `RemoveEntry`, `RemoveDirectory` | `os.RemoveAll`, one entry at a time (agent.go:284, 305) |
| `MarkEvicted`, `RemoveFinalizer` | the patch after the removal (agent.go:288-296, 310-315) |
| `ReconcileError`, `PrepareError`, `AgentCrash` | a call that fails at any step; a directory that cannot be made; the process dies and its informers sync anew |
| `NodePublishVolume`, `BindMount`, `RemountReadOnly`, `PublishError` | the checks, the two mounts, and a failure between them (node_server.go:32-70, mount_linux.go:23-55) |
| `NodeUnpublishVolume` | node_server.go:72-83 |
| `CreateModelCacheNode`, `DeleteModelCacheNode` | the operator, or a user |
| `BindPod`, `DeletePod`, `ForceDeletePod` | the cluster's Pods |
| `Deliver...`, `Resync`, `Tick` | informers, the periodic resync, the clock |

Points of the translation worth knowing:

* An informer delivers the current object and may skip versions between.
  Deliveries of the three kinds are not ordered among each other.
* Patches are merge patches: they write the fields they change whatever the
  copy in hand was. The one exception is `MarkReady`: it is the second patch
  computed from the same original, so its diff carries the resourceVersion, and
  it may conflict with a deletion that came in between.
* Times are ages that stop at `TTL`; nothing else about the clock is bounded.
  A requeue timer may fire at any time, also early, which covers every delay.
* Phase Ready is never written without lastUsedTime, so the branch for a Ready
  object without a stamp (agent.go:267-277) is in the model but not reached
  from `Init`.
* Conditions, `status.localPath`, the owner and manifest files and the parent's
  UID are left out. The parent `ModelCache` is taken to exist while the
  `ModelCacheNode` does, as the controller's finalizer has it.
* The objects of one node share only the agent's worker, so one of them is
  modelled. That the worker comes round to it is fairness (below).

### Runs

| Run | Instance | Shows |
| --- | --- | --- |
| `node_faults` | 2 files, 1 Pod, TTL 1, 1 fault, fair | safety: `TypeOK`, `IInv`, `DirectoryOwned`, `MarkerSound`, `ReadyNeverPartial`, `OnlyRemovalExposes`; refinement: `ImplementsLifecycle`; liveness: `PodServedOrHollow`, `DeletionCompletes`, `UnusedCacheEvicted` |
| `node_partial_mount` | violated | `NoPartialMount` |
| `node_read_write` | violated | `MountedReadOnly` |
| `node_rehydrate` | violated: 1 fault, fair | `PodEventuallyServed` |

Bounds. Two files make a partial download and a partial removal differ from an
empty and a full directory, and one file started while another is whole. The
fault may hit any call of any reconcile, or kill the process there. One Pod
makes a cache used and unused, and may come and go around an eviction. TTL 1
gives the three ages the code tells apart: never, not yet, expired. Objects of
the name may come again and again; a Pod's life is one. The proofs cover any
number of files, Pods and faults and any TTL.

Fairness. Time passes; watches deliver and the resync comes round
(controller-runtime); the worker runs (`AgentStep`; MaxConcurrentReconciles is 1,
and a download is taken to end, although no HTTP timeout makes it); the kubelet
repeats publish and unpublish calls until they succeed. Creation, deletion and
faults are never required to happen.

`PodServedOrHollow` is what is left of `PodEventuallyServed` when calls fail: a
waiting Pod is served, its object goes, or phase Ready stands for ever over a
directory that has no marker. `UnusedCacheEvicted` shows that the hollow state
at least does not outlast the Pods.

### What the violated runs show

* **`node_partial_mount`** - the marker check and the mount are two steps, and
  an eviction or a deletion may remove entries between them.
* **`node_rehydrate`** - eviction removes the directory first and writes
  Evicted afterwards. If the write fails, or the agent dies, and a Pod arrives
  before the retry, the phase is still Ready, the agent only stamps
  lastUsedTime, and the directory is not filled again while the Pod waits.
* **`node_read_write`** - when the read-only remount fails, the target is left
  mounted read-write and the repeated call returns success.

### Proofs

`NodeCacheProofs` proves, for every set of files and Pods, every TTL and every
number of faults, `Spec => []IInv` and from it `TypeOK`, `DirectoryOwned`,
`MarkerSound`, `ReadyNeverPartial` and `OnlyRemovalExposes`. The only assumption
is `ConstantsAssumption` (`TTL` and `MaxFaults` are natural numbers); `Files` and
`Pods` may even be infinite or empty.

None of the four properties is inductive: `ReadyNeverPartial` survives
`PrepareDirectory` and `BeginFile` only because an agent that starts to download
does not hold a stale copy that hides a Ready phase. `IInv` adds, in named parts,
what the copy may still say about the object (`ObjectInv`), what each step of a
reconcile may count on (`AgentInv`, `DirectoryInv`), and which stale copies are
possible over a Ready object (`StaleViewInv`): if the agent's copy is alive,
has the finalizer and is not Ready while the object is, the marker is there, so
`cacheComplete` finds it and the agent does not start over. `TypeStep` and `InvStep` take
the actions one by one; `Invariance` combines them.

`CacheLifecycle` has three variables: `life` (no object, new, under the agent's
finalizer, in deletion), `phase`, and `dir` (absent, incomplete, complete, and
damaged: `os.RemoveAll` has begun and the marker is still there). It says what an
observer may rely on: Ready is published only over a marker, Evicted only over no
directory, a directory becomes complete only while the phase is not Ready and
never again once damaged, and an object under the finalizer goes only after its
directory. `NodeCacheRefinement` proves `Spec => ImplementsLifecycle` under the
mapping `Life`, `mcn.phase`, `Directory`: the initial states map to the initial
state, and under `IInv` every action maps to one action of `CacheLifecycle` or
leaves the mapped variables alone (`LifecycleStep`). `IInv` is needed exactly where the
agent acts on a stale copy: that a download runs only while the phase is not
Ready, and that the finalizer is taken off over an absent directory.

Liveness, and the three violated properties, are only model-checked: TLAPS does
not reach fairness and ENABLED, and a violation is a single trace.

`OnlyRemovalExposes` does not say that Pods keep their files. A deletion, or an
eviction that has missed a Pod, removes the directory from under a mount; the
property says that nothing else does it, and that no publish call sees a
download that has not ended.

## 4. SharedPvc

One `ModelCache` with a StorageClass. The variables are the API objects (`mc`,
`claim`, `job`, `pod`, `class`), what the volume holds (`content`), the informer
copies of the operator, which the webhook reads too (`seen`, `fresh`,
`seenClaim`, `seenJob`, `seenPods`), and the controller's worker (`queued`, `pc`,
`uidInHand`, `current`, `goal`, `again`). `misled` and `asked` are history that no
guard reads; `faults` and `MaxLives` bound failures and re-creations.

| Action | Code |
| --- | --- |
| `Reconcile`, `AddFinalizer` | `Reconcile` up to its first call, and the finalizer patch (modelcache_controller.go:88-131) |
| `NextStep`, `WaitsForTTL`, `Dispatch` | the Evicted branch, and reconcileReadyPVCModelCacheUsage up to its first write (115-128, 397-443) |
| `MarkUsed` | the two patches of lastUsedTime (402-438) |
| `VerifyClaim` | the claim of a Ready cache, read from the API server (133-184) |
| `DropJob`, `DropClaim`, `MarkEvicted` | deletePVCModeArtifacts and the Evicted patch (445-490) |
| `CheckClass`, `EnsureClaim`, `EnsureJob`, `UpdateStatus` | provisioning, and the status.Update each outcome ends in (185-329; downloader.go:71-102, 351-380, 632-642) |
| `ReleaseModelCache` | reconcileModelCacheDelete without ModelCacheNodes (543-573) |
| `ReconcileError`, `FailedCall`, `ControllerCrash` | a call that fails: the error is returned, or Failed is written first; the process dies |
| `CreatePod`, `MountPod`, `StartPod` | admission by the cached phase, the mount, the init container that polls for the marker (pod_mutator.go:182-197, 276-341) |
| `StartJob`, `CompleteJob` | `downloader.py`, which skips when the marker is there |
| `RemoveJob` | TTLSecondsAfterFinished, or the end of a deletion (downloader.go:507) |
| `BindClaim`, `RemoveClaim`, `CollectClaim`, `CollectJob`, `LoseClaim`, `FailJob`, `LoseClass`, `RestoreClass` | Kubernetes and its storage, modelled from what the code relies on |

Points of the translation worth knowing:

* Claim and Job have fixed names. `EnsureModelCachePVC` and `EnsureDownloadJob`
  check labels that every object of the name has, or nothing: they take an
  object that is being deleted, or that belongs to an earlier `ModelCache`.
  `owner` records the UID only for garbage collection.
* Deletion takes two steps. A deleted claim stays while a Pod mounts it
  (pvc-protection), and a deleted Job while it has a finalizer (the default
  propagation of batch/v1 orphans the Pods). A Job that is gone has no Pods left
  in the model.
* `Patch` writes its fields whatever the version; `status.Update` is refused
  unless the object in hand is the latest version (`current`). A write that
  changes nothing makes no new version. That another write has made one is
  `fresh = FALSE` in the informer and `current = FALSE` in the reconcile.
* The webhook reads the manager's cache, so a Pod is admitted by the phase of
  `seen`. What else the webhook checks of a Pod is in `Admission`.
* As in `NodeCache`, an age stops at `TTL`, a RequeueAfter may fire at any time,
  and the stamp of a Ready cache without lastUsedTime is not reached.
* Every claim binds in the end. A StorageClass whose binding mode is
  WaitForFirstConsumer would leave the claim pending, because the Job is only
  created afterwards (modelcache_controller.go:254): nothing here looks at that.

### Runs

| Run | Instance | Shows |
| --- | --- | --- |
| `pvc_faults` | no Pod, TTL 1, 1 fault, fair | `TypeOK`, `IInv`, `UnusedCacheEvicted` |
| `pvc_evict` | 1 Pod, TTL 1, no fault | safety: `RunningHasModel`, `ReadyMeansWhole`, `EvictedUntilAsked`; refinement: `ImplementsModel` |
| `pvc_loss` | no Pod, no TTL, 1 fault, fair | `BecomesReady`, `LossIsNoticed`, `DeletionCompletes` |
| `pvc_ready` | violated: 1 Pod, no TTL, 1 fault | `ReadyOverModel` |

Bounds. One fault may hit any call of any reconcile, the claim, the Job or the
StorageClass. One Pod makes the cache used and unused and may come at any point
of an eviction. A Pod and a fault together are more states than a run affords:
the safety properties have them from the proofs, which take any number of both,
and of lives of the `ModelCache`, whose second meets the claim and the Job of the
first. `pvc_loss` has no TTL because an eviction would rescue a lost claim that
the controller had not noticed, and hide what `LossIsNoticed` is about. The
liveness runs have no Pods, so `pvc_faults` shows the eviction of a cache that
nobody ever used, and not that of one whose Pods have gone. A Job may fail as
often as there are faults left: that a cache recovers from each failure is
checked, that a Job which fails every time ends is not claimed.

Fairness. Time passes, watches deliver, the resync comes round and the worker
runs. Kubernetes binds and removes claims, runs Jobs and removes finished ones;
an administrator brings a missing StorageClass back. Failures, creations and
deletions are never required, and neither are Pods.

Two of the liveness properties say less than one would wish, and name what they
leave out.

* `BecomesReady`: a cache that is neither Ready nor evicted becomes Ready, however
  often it was Failed. A failed Job stands in the way until its TTL is over; then
  it is made anew, and so is a claim that was removed. There are two ways out
  besides deletion. A claim that is Lost and nobody deletes is returned by
  `EnsureModelCachePVC` as it is, the cache turns Pending and stays Pending for ever
  (`WaitsOnLostClaim`; modelcache_controller.go:254-265). And a completed Job
  that is removed before the controller has seen it is run again: `JobsAreSeen`
  assumes that this does not go on for ever, as the Job stays for 60 s
  (downloader.go:507).
* `LossIsNoticed`: the claim of a Ready cache goes, and the phase changes. It is
  asked only once the controller's copy of the `ModelCache` says Ready and no
  reconcile that went by an older copy is left. Before that it is false: a
  reconcile that still reads Downloading makes a new, empty claim, its write of
  Pending conflicts, the claim binds, and from then on the check of the claim
  (modelcache_controller.go:133-184) finds one that can be mounted. Ready stays
  over an empty volume, as in `pvc_ready` and for the same want of a link between
  phase, claim and content; `misled` records it. Pods wait in their init
  container.

**What `pvc_ready` shows.** The Job completes, the claim is deleted or lost and
goes, and the reconcile that follows makes a new claim. The old Job is still
there for a minute, and its condition makes the `ModelCache` Ready over a claim
that holds nothing. Pods are safe: they wait in their init container
(`RunningHasModel`), but nothing fills the claim while the phase is Ready.

### Proofs

`SharedPvcProofs` proves, for every set of Pods, every TTL and any number of
faults and lives, `Spec => []IInv`, and from it `TypeOK`, `RunningHasModel`,
`ReadyMeansWhole` and `EvictedUntilAsked`. The only assumption is
`ConstantsAssumption`.

* `RunningHasModel` needs `MountInv`: the claim under a mounted Pod is there, so
  the volume cannot be emptied under it (`MountStep`).
* `ReadyMeansWhole` needs `VouchInv`: whatever may still become a Ready phase - a
  completed Job, the informer's copy of one, a reconcile about to write - is right
  about the content, and a Ready phase over an absent claim is known to the
  informer, so that no new claim is made before the phase has changed. That is
  false once a claim goes while one of them still speaks of it, which `misled`
  records and `pvc_ready` exhibits (`VouchStep`). So the property characterises the
  wrong Ready, and does not exclude it.
* `EvictedUntilAsked` needs `EvictedInv`: over an evicted cache nobody asked for,
  no reconcile on its way to `status.Update` holds the latest version
  (`EvictedStep`).

The other two parts of `IInv` are needed for the refinement below. `StoreInv`: a
claim that was never bound holds nothing, so a volume that is provisioned is
empty, and a Job that completes completes something (`StoreStep`). `ObjectInv`:
`ReleaseModelCache` takes the finalizer from whatever object has the name now,
and the copy that sent it there may be of a predecessor; then the object has no
finalizer yet, and nothing is lost (`ObjectInvStep`).

`SharedModel` has the object's life, its phase, what the volume holds, the Pods
that run on it, and the two histories, and none of the claims that wait, Jobs,
informers, steps and failures. It says what Pods and users may rely on: Ready is
published over the whole model or by a misled controller, no empty volume comes
under a Ready phase, a volume is filled in order and goes when no Pod runs on it,
an evicted cache comes back only when it was asked for, and an eviction does not
forget a Pod that runs. `SharedPvcRefinement` proves `Spec => ImplementsModel`
under the mapping `Life`, `mc.phase`, `Volume`, `Users`: the steps of the object
(`ObjectModelStep`), of claim and Job (`VolumeModelStep`) and of a Pod
(`PodModelStep`) map to one action each or leave the mapped variables alone, and
all others leave them alone (`ModelStep`). `Promised` then takes what every
implementation of `SharedModel` keeps (`PromiseStep`: a running Pod has the whole
model, and so has a volume under a Ready phase unless the controller was misled)
over to the code's steps. `misled` and `asked` mean the same in both, so the
refinement does not hide the weakness that `pvc_ready` shows.

The liveness properties and the violated one are only model-checked.

## 5. LocalCaches

One `ModelCache` without a StorageClass, several nodes, and a controller between
them. The variables are the objects (`mc`, `mcn`), the nodes (`selected` by the
nodeSelector, `alive`) and the model each holds (`model`, by the UID of the
`ModelCache` it was downloaded for), the operator's informer copies (`seen`,
`fresh`, `seenNodes`), its worker (`queued`, `pc`, `held`, `current`, `todo`, `listed`,
`found`). `orphaned` and `misled` are history that no guard reads; `changes`,
`faults` and `MaxLives` are bounds.

| Action | Code |
| --- | --- |
| `Reconcile`, `AddFinalizer` | `Reconcile` up to its first call, the finalizer patch, and the list of reconcileModelCacheDelete (modelcache_controller.go:88-113, 543-552) |
| `ListNodes`, `EnsureModelCacheNode`, `UpdateStatus` | the local branch: list, ensure one by one, sum up (205-245, 588-680) |
| `DeleteModelCacheNode`, `AwaitDeletion`, `ReleaseModelCache` | reconcileModelCacheDelete (554-573) |
| `ReconcileError`, `OperatorCrash` | a call that fails at any step; the process dies and its informers sync anew |
| `OwnCache`, `FillCache`, `EvictCache`, `RemoveCache` | the node-agent as the operator sees it (agent.go:89-95, 112-199, 252-297, 299-316) |
| `CreateModelCache`, `DeleteModelCache`, `Relabel`, `LoseNode`, `DropModelCacheNode` | users and the cluster |
| `Deliver...`, `Resync` | informers, the events of Pods and the periodic resync (716-753) |

Points of the translation worth knowing:

* The `ModelCacheNode` of a node has the same name for every `ModelCache` of a
  name, so one life may meet the object of another. `ensureModelCacheNode` makes
  it over by an Update, which keeps its status and is refused when the informer's
  copy is not the latest; lists go by the UID label.
* The finalizer patches name no UID and meet whatever object has the name now.
  The answer of the first one replaces the object in hand, and with it the UID a
  reconcile works for (`held`).
* An agent fetches the parent by name and does not compare its UID: `FillCache`
  takes the model of the current `ModelCache` or, from an outdated copy, of an
  earlier one.
* Nodes are listed from an informer too. A list that lags is a list made before
  the change, and a change of labels enqueues nothing, so no copy of it is kept.
* The agents write neither Downloading nor Failed, so those counts stay 0.
  A `ModelCacheNode` whose storage alone differs is left out, as the spec of a
  `ModelCache` is immutable; storage is compared by value, as the code does.

### Runs

| Run | Instance | Shows |
| --- | --- | --- |
| `local_lives` | 1 node, 2 lives, 1 change, 1 fault, fair | `TypeOK`, `IInv`, `WrongModelOnlyByOrphan`, `CreatedUnderFinalizer`, `DeletionCompletes`, `MatchingNodeServed`, `StatusSettles` |
| `local_orphan` | violated: 1 node, 1 life, no fault | `NothingOutlivesModelCache` |

Bounds. Two lives let the second meet the object, the copies and the model of
the first; one node is enough for that, because the nodes of a reconcile do not
depend on one another. The status of one node is still summed up from copies
read at different times, while the node, its object and the `ModelCache` change;
the mixture of several nodes' phases is in the model (`Summary`) and not in a
run: two nodes with lives and faults do not finish in reasonable time. A change
is a label, a node that leaves,
an object a user deletes or an eviction. All may stop when nothing is left to
create, so the cfgs do not look for deadlock.

Fairness. Watches deliver, the resync comes round, the worker runs, and the agent
of a node that is there removes what is deleted. Agents are not required to
download, so a status that settles is not always Ready. `DeletionCompletes` has to
except a `ModelCacheNode` on a node that has left: nobody else removes its
finalizer. `WrongModelOnlyByOrphan` likewise says how a wrong model under Ready
comes about - a `ModelCacheNode` that outlived its `ModelCache`, or an outdated
copy - and not that it never does.

**What `local_orphan` shows.** A reconcile creates a `ModelCacheNode`, the user
deletes the `ModelCache`, and the next reconcile lists `ModelCacheNode`s from an
informer that has not heard of the new one. The list is empty, the finalizer
goes, and the `ModelCacheNode` - it has no owner reference - stays with its
model. A later `ModelCache` of the name takes it over, Ready at once.

### Proofs

`LocalCachesProofs` proves, for every finite set of nodes and any bounds, that
`IInv` is invariant, and from it `TypeOK`, `WrongModelOnlyByOrphan` and
`CreatedUnderFinalizer`; the last is an action property. Its assumption is
`ConstantsAssumption`.

The heart of `IInv` is which stale copies are possible. A copy with the finalizer
that is not in deletion is of the `ModelCache` that is there (`ViewInv`): only the
controller takes a finalizer off, and only in deletion. So a reconcile past
`AddFinalizer` works for an object that exists and has the finalizer
(`ReconcileInv`), however old its copy; one that deletes may find that a
successor of the name has come, but then the successor has no finalizer yet,
and taking it off changes nothing. `NodesInv` then says that a `ModelCacheNode`
stands under the finalizer of the `ModelCache` it names, or has outlived it,
which only `ReleaseModelCache` can bring about. `ControllerStepInv` and
`NodesStepInv` take the actions one by one.

## 6. Admission

The two webhooks keep no state. The variables are the `ModelCache`s of a
namespace (`cache`: spec and phase), one Pod (`pod`, `stage`), and how often it has
been submitted again (`copies`).

| Definition | Code |
| --- | --- |
| `Valid`, `CreateModelCache` | ValidateCreate (modelcache_webhook.go:66-223); ValidateUpdate forbids any other spec |
| `Resolvable`, `Injectable` | resolveMultiModelMounts, fetchInjectableModelCache (pod_mutator.go:129-197) |
| `Mountable`, `Cleaned`, `Before`, `Overlapping` | cleanMountPath, rejectOverlappingMountPaths (199-233) |
| `VolumesFit`, `WaitsFit`, `MountFits` | what is there already under those names (247-341, 388-400) |
| `Targets`, `Accepts`, `Mutated`, `Admit` | Handle (51-116) |
| `RefsFromPod`, `NamesFromPod` | how agent and controller count users (agent.go:485-507, modelcache_controller.go:518-541) |
| `ClaimBuilds`, `JobBuilds`, `JobHasToken` | shared mode: when the builders of claim and Job return an error, and whether the Job gets the token (downloader.go:316-320, 471-482, 577-630) |
| `AgentDownloads` | local mode: when the downloader of the node-agents refuses a spec (huggingface.go:44-51) |

Points of the translation worth knowing:

* A path is a sequence of segments, a segment a sequence of bytes: the paths are
  sorted as strings, and `-` and `.` come before `/`. `Before` is that order.
* The webhook reads the manager's cache. The phase it sees is any phase a
  controller may have written; whether it is up to date is a matter for
  `SharedPvc`.
* A Pod may bring volumes and mounts of its own, one with Praesto's name among
  them, and an admitted Pod may be submitted again with the same annotation or
  another one, as a copy or a second call of the webhook does.
* `spec.eviction.unusedTTL`, which no rule of the validator looks at, is left out:
  one that does not parse is listed as a hazard. A repository is there or not; one
  that consists of blanks, which the validator takes and the node-agent refuses
  (modelcache_webhook.go:205, huggingface.go:45-48), is left out.
* Names of claims are per cache, so a volume is identified by its cache. The
  image and the command of a waiting container are fixed by its volume, path and
  cache.

The run `admission` has two caches, eleven specs (a good one of each mode, one of
the local mode with a token, and one per rule of the validator), five Pods, and annotations of up to three mounts over `/a`, `/a-b`, `/c` and what
lies below them, bad paths and every target container; a Pod is submitted
twice. These bounds contain each case the code distinguishes; a third cache or a
fourth mount brings no new comparison.

* `MountsWhatIsAsked`: a Pod that is let through shows every model it asked for
  at the path it asked for, and only that model there.
* `ReadmittedUnchanged`: a second call changes nothing.
* `OverlapHidden`: one model is nested in another only when a third path sorts
  between the two. It tells how far the check goes, and does not exclude the
  overlap. The test "rejects overlapping multi model mount paths"
  (`pod_mutator_test.go:217`) has two mounts; with `/a`, `/a-b`, `/a/c` the nested
  pair is let through, because neighbours of the sorted list are compared.
* `UsersCounted`: whoever may evict a cache counts the Pod that was given it. Pods
  that bring the volume of a cache themselves, without label and annotation, are
  outside it.
* `StoredSpecIsBuilt`: what the validator takes of the shared mode, the builders of
  claim and Job can build, with the token the spec asks for.

**What `admission_token` shows.** For the local mode the same does not hold. The
validator looks at a token's name and key whatever the mode, so a `ModelCache`
without a StorageClass and with a token is stored; every node-agent then refuses
the download ("huggingface token download is not supported by node-agent yet"),
the reconcile fails and is tried again for ever, and the spec cannot be changed.
`README.md:216` says that local mode supports public downloads only; nothing
refuses a spec that asks for more, and `modelcache_controller_test.go:454` creates
one.

### Proofs

`AdmissionProofs` proves all six properties of `admission` for any sets of caches, specs, Pods and
annotations, any number of mounts and paths of any length. The assumption beside
the types of the constants is that the Pods users submit are `WellFormed`: no two
volumes, containers or waiting containers of a name, no two mounts of a container
at one path. The API server refuses any other Pod after the webhook has
run, and Handle takes nothing out of a Pod, so those it leaves out are never
stored; without it two volumes of one name could disagree about what is mounted.

* `Types`: the Pod stays `WellFormed` when it is changed. Handle appends a volume,
  a waiting container or a mount only where the name and the path are free
  (`VolumesStayUnique`, `WaitsStayUnique`, `PathsStayUnique`); this is what
  the other theorems about Pods rest on.
* `Mounts` and `Readmission`: a mount that is asked for is `Missing` or was
  found in its place, and is there afterwards (`HitIsPresent`, `MountedFacts`);
  after that nothing is missing (`NothingMissing`), all checks pass
  (`MountedFits`), and a second round appends nothing (`MutatedAgain`).
* `Overlaps` is about the order of strings. Of the paths below `p` that are asked
  for, let `q` be the first in that order. `p` sorts before `q`, and because the
  comparison of neighbours found nothing, some path sorts between them. It is not
  below `p`, for `q` is the first of those. What sorts between `p` and a path below
  `p` and is not below `p` itself is a `Sibling`: it has the name of `p` with a
  byte smaller than `/` after it (`BetweenBytes`, `BetweenIsSibling`,
  `NestedHasSibling`).
* `StoredSpecs` (for the specs of the shared mode) and `Users` need the rules of the
  validator and what `Mutated` adds.

`AdmissionLemmas` holds what is known of the operators: `Without`, which filters a
sequence, is a recursive function, and `Before` is irreflexive and transitive. What
they need of induction takes sets instead of operators: a non-empty set of natural
numbers has a least element (`Least`), so one that holds 0 and every successor
holds them all (`Induction`, for the length of a sequence), and a finite set of paths
has one with none before it (`MinimalPath`, from the well-founded order of finite
sets).

`README.md:274` says that older single-model annotations are still supported. The
code reads `praesto.io/model-mounts` only, and so does the model.

## 7. What is only model-checked

All liveness properties (`PodServedOrHollow`, `DeletionCompletes`,
`UnusedCacheEvicted`, `BecomesReady`, `LossIsNoticed`, `MatchingNodeServed`,
`StatusSettles`): fairness and ENABLED are out of reach of TLAPS. And the six
properties that a run violates, which are single traces. Every other property of
the passing runs - each type invariant, inductive invariant, safety invariant,
action property and both refinements - is also a theorem, for every value of the
constants that the named assumptions admit.

## 8. Not modelled

* **Hugging Face** (`src/internal/modeldownload`): what a listing holds and how
  paths are cleaned. A download of `NodeCache` fetches a fixed set of files; a
  branch that moves between listing and fetching, or a file that is dropped
  from a repository between two attempts, is data nothing in the code compares.
* **Names** (`src/internal/kubeident`): string functions without state. That two
  composed names may meet is listed as a hazard.
* **ModelCacheNode controller** (`modelcachenode_controller.go`): its Reconcile
  returns at once, the rest is commented out. The volumes, claims and Jobs of a
  `ModelCacheNode` that `downloader.go` can build (about a third of that file) have
  no other caller and are never built.
* **Conditions** (`src/internal/status`) are written and never read.
* **Set-up** (`src/cmd`, `driver.go`, `identity_server.go`), deep copies, charts: wiring
  or generated.
* **Several `ModelCacheNode`s on one worker**: they share nothing else, and a
  download that never returns is against the fairness assumed.
* **The API server's own validation** beyond the unique names and paths of a Pod,
  such as a request above its limit, and what the kubelet makes of two mounts of
  one directory written differently.
