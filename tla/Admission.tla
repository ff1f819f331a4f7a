------------------------------ MODULE Admission ------------------------------
(***************************************************************************)
(* The two admission webhooks.  The one for Pods (PodMutator.Handle) reads *)
(* the model-mounts annotation of a new Pod and adds volumes, mounts,      *)
(* waiting init containers and a label; the one for ModelCaches validates  *)
(* their specs.  Neither keeps state of its own: the state is the          *)
(* ModelCaches, which come, change phase and go, and one Pod, which is     *)
(* submitted and, once it has been admitted, may be submitted again as it  *)
(* is, with the same annotation or another one, as a user does who copies  *)
(* a Pod.                                                                  *)
(*                                                                         *)
(* A string is what the code tells apart in it.  A path is a sequence of   *)
(* segments and a segment a sequence of bytes, because paths are sorted:   *)
(* '-' and '.' come before '/'.                                            *)
(***************************************************************************)
EXTENDS Integers, Sequences, FiniteSets

CONSTANTS
  Caches,    \* names of ModelCaches in the namespace of the Pod
  Specs,     \* the specs users write
  Bases,     \* the Pods users write, without an annotation
  Requests,  \* the annotations users write: mounts and target container
  MaxCopies  \* how often an admitted Pod is submitted again

VARIABLES
  cache,   \* cache[c]: the ModelCache of name c
  pod,     \* the Pod of the request
  stage,   \* what has become of it
  copies   \* how often it has been submitted again

vars == <<cache, pod, stage, copies>>

-----------------------------------------------------------------------------
(***************************************************************************)
(* ModelCaches and the webhook that validates them.                        *)
(***************************************************************************)

\* csi: there is no storageClassName.  A quantity is missing, no quantity, not
\* positive, or positive; quantity stands for the four of spec.downloader.
Quantities == {"missing", "malformed", "zero", "positive"}
Secrets == {"absent", "empty", "nameOnly", "keyOnly", "both"}
ModelCacheSpec == [csi: BOOLEAN, size: Quantities, repo: BOOLEAN, secret: Secrets,
          quantity: Quantities]

NoSpec == [csi |-> FALSE, size |-> "missing", repo |-> FALSE,
           secret |-> "absent", quantity |-> "missing"]

\* The phases the webhook tells apart; Pending is also Downloading and none.
Phases == {"Pending", "Ready", "Failed", "Evicted"}
ModelCache == [spec: Specs \cup {NoSpec}, phase: Phases]
NoModelCache == [spec |-> NoSpec, phase |-> "Pending"]

Exists(c) == cache[c].spec # NoSpec
UsesCSIVolume(c) == cache[c].spec.csi

\* Variant: a secret name without a key is taken.
ValidLoosely(spec) ==
  /\ spec.size = "positive"
  /\ spec.repo
  /\ spec.secret # "keyOnly"
  /\ spec.quantity \in {"missing", "positive"}

\* validateModelCacheFields.
Valid(spec) ==
  /\ spec.size = "positive"
  /\ spec.repo
  /\ spec.secret \in {"absent", "empty", "both"}
  /\ spec.quantity \in {"missing", "positive"}

-----------------------------------------------------------------------------
(***************************************************************************)
(* Mount paths                                                             *)
(***************************************************************************)

Slash == 47
Dot == <<46>>
DotDot == <<46, 46>>
Segment == Seq(1..126 \ {Slash})
Path == [abs: BOOLEAN, segments: Seq(Segment)]

\* The elements of s that are not in drop, in their order.
Without(s, drop) ==
  LET kept[n \in 0..Len(s)] ==
        IF n = 0 THEN <<>>
        ELSE IF s[n] \in drop THEN kept[n - 1] ELSE Append(kept[n - 1], s[n])
  IN  kept[Len(s)]

\* path.Clean, of an absolute path without "..".
Cleaned(path) == [path EXCEPT !.segments = Without(@, {<<>>, Dot})]

\* What cleanMountPath accepts.
Mountable(path) ==
  /\ path.abs
  /\ \A i \in DOMAIN path.segments : path.segments[i] # DotDot
  /\ Cleaned(path).segments # <<>>

\* strings.HasPrefix(child, parent+"/").
Under(child, parent) ==
  /\ Len(parent.segments) < Len(child.segments)
  /\ SubSeq(child.segments, 1, Len(parent.segments)) = parent.segments

\* The order of strings.
BytesBefore(s, t) ==
  \E i \in 1..Len(t) :
    /\ i <= Len(s) + 1
    /\ SubSeq(s, 1, i - 1) = SubSeq(t, 1, i - 1)
    /\ i <= Len(s) => s[i] < t[i]

\* The bytes of segment i, with the slash that ends it unless it is the last.
Bytes(path, i) ==
  IF i = Len(path.segments) THEN path.segments[i]
                            ELSE Append(path.segments[i], Slash)

\* The order of cleaned absolute paths as strings: the first segment in which
\* they differ decides.
Before(p, q) ==
  \/ Under(q, p)
  \/ \E i \in DOMAIN p.segments \cap DOMAIN q.segments :
       /\ SubSeq(p.segments, 1, i - 1) = SubSeq(q.segments, 1, i - 1)
       /\ p.segments[i] # q.segments[i]
       /\ BytesBefore(Bytes(p, i), Bytes(q, i))

\* Variant: looks at the first two of the sorted paths only.
OverlappingFirst(paths) ==
  \E p, q \in paths : Under(q, p) /\ ~\E r \in paths \ {p} : Before(r, q)

\* rejectOverlappingMountPaths: neighbours of the sorted list are compared.
Overlapping(paths) ==
  \E p, q \in paths :
    /\ Under(q, p)
    /\ ~\E r \in paths : Before(p, r) /\ Before(r, q)

-----------------------------------------------------------------------------
(***************************************************************************)
(* Pods                                                                    *)
(***************************************************************************)

NoName == "noName"      \* an empty modelCache
Omitted == "omitted"    \* no target-container annotation
Blank == "blank"        \* an empty one
Annotation == Seq([cache: Caches \cup {NoName}, path: Path])

\* The name of a volume: 0 is praesto-model-cache, i is praesto-model-cache-(i-1),
\* and a negative number is a name of the user's.  kind is "other" when it is not
\* a read-only volume of the Praesto driver or of a claim of Praesto.
Volume == [name: Int, kind: {"csi", "pvc", "other"}, cache: Caches \cup {NoName}]
Mount == [volume: Int, path: Path, readOnly: BOOLEAN]

\* An init container that waits for the model of cache in a volume it mounts at
\* path; named after the volume.
Wait == [volume: Int, path: Path, cache: Caches]

Container == [name: STRING, mounts: Seq(Mount)]

\* mounts is empty when the annotation is empty, does not parse or lists nothing.
Pod == [annotated: BOOLEAN, mounts: Annotation, target: STRING, label: BOOLEAN,
        volumes: SUBSET Volume, waits: SUBSET Wait, containers: Seq(Container)]

Request == [annotated: BOOLEAN, mounts: Annotation, target: STRING]

\* A Pod with another annotation.
With(base, request) ==
  [base EXCEPT !.annotated = request.annotated, !.mounts = request.mounts,
               !.target = request.target]

\* Names of volumes, of waiting containers and of containers are unique, and so
\* are the paths at which a container mounts something.
WellFormed(p) ==
  /\ \A v, w \in p.volumes : v.name = w.name => v = w
  /\ \A v, w \in p.waits : v.volume = w.volume => v = w
  /\ \A i, j \in DOMAIN p.containers :
       p.containers[i].name = p.containers[j].name => i = j
  /\ \A c \in DOMAIN p.containers :
       \A i, j \in DOMAIN p.containers[c].mounts :
         p.containers[c].mounts[i].path = p.containers[c].mounts[j].path => i = j

Stages == {"none", "submitted", "admitted", "rejected"}

\* A Pod that is not well-formed is refused by the API server whatever Handle
\* answers, for Handle takes nothing out of it; such Pods are left out.
ASSUME ConstantsAssumption ==
  /\ NoName \notin Caches
  /\ Bases \subseteq {p \in Pod : WellFormed(p)}
  /\ Specs \subseteq ModelCacheSpec \ {NoSpec}
  /\ Requests \subseteq Request
  /\ MaxCopies \in Nat

-----------------------------------------------------------------------------
(***************************************************************************)
(* PodMutator.Handle                                                       *)
(***************************************************************************)

\* resolveMultiModelMounts: the mounts asked for, their paths cleaned and their
\* volumes named.
Resolved(p) ==
  [i \in DOMAIN p.mounts |->
     [cache  |-> p.mounts[i].cache,
      path   |-> Cleaned(p.mounts[i].path),
      volume |-> IF Len(p.mounts) = 1 THEN 0 ELSE i]]

\* fetchInjectableModelCache.
Injectable(c) ==
  /\ Exists(c)
  /\ IF UsesCSIVolume(c) THEN cache[c].phase # "Failed"
                         ELSE cache[c].phase \in {"Ready", "Evicted"}

\* What resolveModelMounts accepts.
Resolvable(p) ==
  LET mounts == Resolved(p)
  IN  /\ mounts # <<>>
      /\ \A i \in DOMAIN mounts :
           /\ mounts[i].cache \in Caches /\ Injectable(mounts[i].cache)
           /\ Mountable(p.mounts[i].path)
           /\ \A j \in DOMAIN mounts : mounts[j].path = mounts[i].path => j = i
      /\ ~Overlapping({mounts[i].path : i \in DOMAIN mounts})

\* Variant: every cache is mounted from its claim.
ClaimVolumeFor(mount) ==
  [name |-> mount.volume, kind |-> "pvc", cache |-> mount.cache]

\* ensureModelCacheVolume: the driver's volume, or the claim of the cache.
VolumeFor(mount) ==
  [name |-> mount.volume, cache |-> mount.cache,
   kind |-> IF UsesCSIVolume(mount.cache) THEN "csi" ELSE "pvc"]

MountFor(mount) ==
  [volume |-> mount.volume, path |-> mount.path, readOnly |-> TRUE]

\* ensurePVCModelCacheWaitInitContainers: the containers it wants.
WaitsFor(mounts) ==
  {[volume |-> mounts[i].volume, path |-> mounts[i].path, cache |-> mounts[i].cache] :
     i \in {j \in DOMAIN mounts : ~UsesCSIVolume(mounts[j].cache)}}

VolumesFor(mounts) == {VolumeFor(mounts[i]) : i \in DOMAIN mounts}

\* Variant: the volumes of the Pod are not looked at.
VolumesUnchecked(p, mounts) == TRUE

\* Something of that name is there: it must be what is wanted.
VolumesFit(p, mounts) ==
  \A v \in p.volumes, w \in VolumesFor(mounts) : v.name = w.name => v = w

WaitsFit(p, mounts) ==
  \A v \in p.waits, w \in WaitsFor(mounts) : v.volume = w.volume => v = w

\* Variant: only the name of the volume is looked at.
MountFitsByName(container, mount) ==
  \A i \in DOMAIN container.mounts :
    container.mounts[i].volume = mount.volume => container.mounts[i] = MountFor(mount)

\* ensureModelCacheVolumeMount: the first mount of that volume or at that path,
\* compared as strings, decides.
MountFits(container, mount) ==
  LET hits == {i \in DOMAIN container.mounts :
                 \/ container.mounts[i].volume = mount.volume
                 \/ container.mounts[i].path = mount.path}
  IN  \A i \in hits : (\A j \in hits : i <= j) =>
        container.mounts[i] = MountFor(mount)

\* The containers the mounts may go into: the one the annotation names, or the
\* first one.  Names of containers are unique.
Targets(p) ==
  {i \in DOMAIN p.containers :
     IF p.target = Omitted THEN i = 1 ELSE p.containers[i].name = p.target}

\* Handle allows the Pod and changes it.
Accepts(p) ==
  /\ Resolvable(p)
  /\ VolumesFit(p, Resolved(p))
  /\ WaitsFit(p, Resolved(p))
  /\ \E t \in Targets(p) :
       \A i \in DOMAIN p.mounts : MountFits(p.containers[t], Resolved(p)[i])

\* Variant: all mounts, those that are there included.
AllOf(container, mounts) == [i \in DOMAIN mounts |-> MountFor(mounts[i])]

\* The mounts a container still lacks.
Missing(container, mounts) ==
  Without([i \in DOMAIN mounts |-> MountFor(mounts[i])],
          {container.mounts[i] : i \in DOMAIN container.mounts})

\* The container with the mounts it lacked.
Mounted(container, mounts) ==
  [container EXCEPT !.mounts = @ \o Missing(container, mounts)]

\* The Pod as Handle returns it.
Mutated(p) ==
  [p EXCEPT
     !.label = TRUE,
     !.volumes = p.volumes \cup VolumesFor(Resolved(p)),
     !.waits = p.waits \cup WaitsFor(Resolved(p)),
     !.containers = [i \in DOMAIN p.containers |->
        IF i \in Targets(p) THEN Mounted(p.containers[i], Resolved(p))
                            ELSE p.containers[i]]]

Admit ==
  /\ stage = "submitted"
  /\ \/ /\ ~pod.annotated
        /\ stage' = "admitted"
        /\ UNCHANGED pod
     \/ /\ pod.annotated /\ Accepts(pod)
        /\ stage' = "admitted"
        /\ pod' = Mutated(pod)
     \/ /\ pod.annotated /\ ~Accepts(pod)
        /\ stage' = "rejected"
        /\ UNCHANGED pod
  /\ UNCHANGED <<cache, copies>>

-----------------------------------------------------------------------------
(***************************************************************************)
(* Users and controllers.                                                  *)
(***************************************************************************)

Init ==
  /\ cache = [c \in Caches |-> NoModelCache]
  /\ pod \in Bases
  /\ stage = "none"
  /\ copies = 0

\* Through ValidateCreate.  A later update leaves the spec as it is
\* (ValidateUpdate), and changes nothing here.
CreateModelCache(c, spec) ==
  /\ ~Exists(c) /\ Valid(spec)
  /\ cache' = [cache EXCEPT ![c] = [spec |-> spec, phase |-> "Pending"]]
  /\ UNCHANGED <<pod, stage, copies>>

DeleteModelCache(c) ==
  /\ Exists(c)
  /\ cache' = [cache EXCEPT ![c] = NoModelCache]
  /\ UNCHANGED <<pod, stage, copies>>

\* A controller writes the phase.  A local cache is never Evicted as a whole.
SetPhase(c, phase) ==
  /\ Exists(c)
  /\ UsesCSIVolume(c) => phase # "Evicted"
  /\ cache' = [cache EXCEPT ![c].phase = phase]
  /\ UNCHANGED <<pod, stage, copies>>

SubmitPod(request) ==
  /\ stage = "none"
  /\ pod' = With(pod, request)
  /\ stage' = "submitted"
  /\ UNCHANGED <<cache, copies>>

\* A copy of an admitted Pod.
SubmitCopy(request) ==
  /\ stage = "admitted" /\ copies < MaxCopies
  /\ pod' = With(pod, request)
  /\ stage' = "submitted"
  /\ copies' = copies + 1
  /\ UNCHANGED cache

Next ==
  \/ Admit
  \/ \E c \in Caches :
       \/ \E spec \in Specs : CreateModelCache(c, spec)
       \/ DeleteModelCache(c)
       \/ \E phase \in Phases : SetPhase(c, phase)
  \/ \E request \in Requests : SubmitPod(request) \/ SubmitCopy(request)

Spec == Init /\ [][Next]_vars

-----------------------------------------------------------------------------
(***************************************************************************)
(* What other components make of Pods and specs.                           *)
(***************************************************************************)

\* modelCacheRefsFromPod of the node-agent: the caches whose driver's volumes
\* the Pod has.
RefsFromPod(p) == {v.cache : v \in {w \in p.volumes : w.kind = "csi"}}

\* modelCacheNamesFromPod of the ModelCache controller: the caches the annotation
\* names.
NamesFromPod(p) ==
  IF p.annotated THEN {p.mounts[i].cache : i \in DOMAIN p.mounts} \ {NoName} ELSE {}

\* Shared mode: PersistentVolumeClaimForModelCache and DownloadJobForModelCache
\* return no error, and the Job gets the token of the spec.
ClaimBuilds(spec) == spec.size \in {"zero", "positive"}
JobBuilds(spec) == spec.quantity \in {"missing", "positive"}
JobHasToken(spec) == spec.secret = "both"
AsksForToken(spec) == spec.secret \in {"nameOnly", "keyOnly", "both"}

\* Local mode: HuggingFaceClient.Download of the node-agent does not refuse the
\* spec.  It knows no tokens, not even empty ones.
AgentDownloads(spec) == spec.repo /\ spec.secret = "absent"

-----------------------------------------------------------------------------
(***************************************************************************)
(* Properties                                                              *)
(***************************************************************************)

\* The state holds values of its types, and the Pod stays one the API server takes:
\* no two of its volumes or waiting containers get the same name, and no container
\* two mounts at the same path (ensureModelCacheVolume, ensureModelCacheVolumeMount
\* and ensurePVCModelCacheWaitInitContainer append only what is not there).
TypeOK ==
  /\ cache \in [Caches -> ModelCache]
  /\ pod \in Pod /\ WellFormed(pod)
  /\ stage \in Stages
  /\ copies \in 0..MaxCopies

\* A Pod with the annotation is let through and changed.
Injects == stage = "submitted" /\ stage' = "admitted" /\ pod.annotated

\* Container c shows the model of m at its path: the only mount of that path is
\* read-only and of a volume that holds that cache, as the cache's mode says.
Shows(c, m) ==
  \E i \in DOMAIN c.mounts :
    /\ c.mounts[i].path = Cleaned(m.path) /\ c.mounts[i].readOnly
    /\ \A j \in DOMAIN c.mounts : c.mounts[j].path = Cleaned(m.path) => j = i
    /\ \A v \in pod'.volumes : v.name = c.mounts[i].volume =>
         /\ v.cache = m.cache
         /\ v.kind = IF UsesCSIVolume(m.cache) THEN "csi" ELSE "pvc"

\* A Pod let through shows, in the container asked for, every model its
\* annotation names at the path it names, and one that comes from a claim has an
\* init container that waits for it there, whatever volumes and mounts the Pod
\* brought, those of an earlier admission with another annotation included
\* (PodMutator.Handle).
MountsWhatIsAsked ==
  [][Injects =>
       /\ \E t \in Targets(pod) : \A i \in DOMAIN pod.mounts :
            Shows(pod'.containers[t], pod.mounts[i])
       /\ \A i \in DOMAIN pod.mounts : ~UsesCSIVolume(pod.mounts[i].cache) =>
            \E w \in pod'.waits :
              /\ w.cache = pod.mounts[i].cache
              /\ w.path = Cleaned(pod.mounts[i].path)]_vars

\* Handle leaves alone what it has made: the API server may call it again for
\* the same Pod, and a user may submit the Pod it returned (the checks for what
\* is there already in ensureModelCacheVolume, ensureModelCacheVolumeMount and
\* ensurePVCModelCacheWaitInitContainer).
ReadmittedUnchanged ==
  [][Injects => Accepts(pod') /\ Mutated(pod') = pod']_vars

\* Path r is the name of p with something after it that sorts before '/', as
\* /a-b is for /a.
Sibling(r, p) ==
  LET n == Len(p.segments)
      k == Len(p.segments[n])
  IN  /\ Len(r.segments) >= n
      /\ SubSeq(r.segments, 1, n - 1) = SubSeq(p.segments, 1, n - 1)
      /\ Len(r.segments[n]) > k
      /\ SubSeq(r.segments[n], 1, k) = p.segments[n]
      /\ r.segments[n][k + 1] < Slash

\* Of two models one is mounted inside the other only when the annotation also
\* asks for a path that sorts between them (rejectOverlappingMountPaths compares
\* neighbours only).
OverlapHidden ==
  [][Injects =>
       LET paths == {Cleaned(pod.mounts[i].path) : i \in DOMAIN pod.mounts}
       IN  \A p, q \in paths : Under(q, p) => \E r \in paths : Sibling(r, p)]_vars

\* Whoever may evict a cache counts the Pod that was given it: the node-agent by
\* its volumes, the ModelCache controller by its annotation, and both only among
\* the Pods with the label (modelCacheRefsFromPod, modelCacheNamesFromPod).
UsersCounted ==
  [][Injects =>
       /\ pod'.label
       /\ \A i \in DOMAIN pod.mounts :
            pod.mounts[i].cache \in
              IF UsesCSIVolume(pod.mounts[i].cache) THEN RefsFromPod(pod')
                                                    ELSE NamesFromPod(pod')]_vars

\* In the shared mode, what the validator lets in the builders of the claim and of
\* the Job can build, with the token the spec asks for; the spec can no longer be
\* changed, so that what they refused they would refuse on every reconcile
\* (validateModelCacheFields; the token: HF_TOKEN in DownloadJobForModelCache).
StoredSpecIsBuilt ==
  \A c \in Caches : Exists(c) /\ ~UsesCSIVolume(c) =>
    /\ ClaimBuilds(cache[c].spec)
    /\ JobBuilds(cache[c].spec)
    /\ AsksForToken(cache[c].spec) => JobHasToken(cache[c].spec)

\* In the local mode, what the validator lets in the node-agents can download:
\* "You declare which model you need with a ModelCache. Praesto prepares that cache
\* on the selected Kubernetes nodes" (validateSource, HuggingFaceClient.Download).
StoredSpecIsDownloaded ==
  \A c \in Caches : Exists(c) /\ UsesCSIVolume(c) => AgentDownloads(cache[c].spec)
=============================================================================
