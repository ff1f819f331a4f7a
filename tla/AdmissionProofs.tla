--------------------------- MODULE AdmissionProofs ---------------------------
(***************************************************************************)
(* Proofs about Admission, from the lemmas of AdmissionLemmas about its    *)
(* operators.  The inductive invariant is TypeOK with the fact that every  *)
(* stored spec has passed the validator.                                   *)
(***************************************************************************)
EXTENDS AdmissionLemmas

-----------------------------------------------------------------------------
(***************************************************************************)
(* What Handle makes of a Pod                                              *)
(***************************************************************************)

\* Cleaning a path makes a path (path.Clean in cleanMountPath).
LEMMA CleanedType ==
  ASSUME NEW path \in Path
  PROVE  Cleaned(path) \in Path
<1>1. Without(path.segments, {<<>>, Dot}) \in Seq(Segment)
  BY WithoutFacts DEF Path
<1> QED
  BY <1>1 DEF Cleaned, Path

\* The mounts asked for, and that their volumes have different names.
LEMMA ResolvedFacts ==
  ASSUME NEW p \in Pod
  PROVE  /\ DOMAIN p.mounts = 1..Len(p.mounts) /\ Len(p.mounts) \in Nat
         /\ DOMAIN Resolved(p) = DOMAIN p.mounts
         /\ \A i \in DOMAIN p.mounts :
              LET mount == Resolved(p)[i]
              IN  /\ mount.cache = p.mounts[i].cache
                  /\ mount.path = Cleaned(p.mounts[i].path) /\ mount.path \in Path
                  /\ mount.volume \in Int
         /\ \A i, j \in DOMAIN p.mounts :
              Resolved(p)[i].volume = Resolved(p)[j].volume => i = j
<1>1. p.mounts \in Seq([cache : Caches \cup {NoName}, path : Path])
  BY DEF Pod, Annotation
<1>2. DOMAIN p.mounts = 1..Len(p.mounts) /\ Len(p.mounts) \in Nat
  BY <1>1
<1>3. \A i \in DOMAIN p.mounts : p.mounts[i].path \in Path
  <2> DEFINE M == [cache : Caches \cup {NoName}, path : Path]
  <2>1. \A m \in M : m.path \in Path
    OBVIOUS
  <2>2. p.mounts \in Seq(M)
    BY <1>1
  <2> HIDE DEF M
  <2>3. \A i \in DOMAIN p.mounts : p.mounts[i] \in M
    BY <1>2, <2>2, ElementOfSeq
  <2> QED
    BY <2>1, <2>3
<1>4. \A i \in DOMAIN p.mounts : Cleaned(p.mounts[i].path) \in Path
  BY <1>3, CleanedType
<1>5. DOMAIN Resolved(p) = DOMAIN p.mounts
  BY DEF Resolved
<1>6. \A i \in DOMAIN p.mounts :
        /\ Resolved(p)[i].cache = p.mounts[i].cache
        /\ Resolved(p)[i].path = Cleaned(p.mounts[i].path)
        /\ Resolved(p)[i].volume = IF Len(p.mounts) = 1 THEN 0 ELSE i
  BY DEF Resolved
<1>7. \A i, j \in DOMAIN p.mounts :
        Resolved(p)[i].volume = Resolved(p)[j].volume => i = j
  BY <1>2, <1>6
<1>8. \A i \in DOMAIN p.mounts : Resolved(p)[i].volume \in Int
  BY <1>2, <1>6
<1> QED
  BY <1>2, <1>4, <1>5, <1>6, <1>7, <1>8

\* What Resolvable says of the mounts asked for.
LEMMA ResolvableFacts ==
  ASSUME NEW p \in Pod, Resolvable(p)
  PROVE  /\ \A i \in DOMAIN p.mounts : p.mounts[i].cache \in Caches
         /\ \A i, j \in DOMAIN p.mounts : Resolved(p)[i].path = Resolved(p)[j].path => i = j
<1>1. DOMAIN Resolved(p) = DOMAIN p.mounts
  BY ResolvedFacts
<1> QED
  BY <1>1, ResolvedFacts DEF Resolvable

\* Of a mount that fits, the container has the mount itself as soon as it has one
\* of that volume or at that path.
LEMMA HitIsPresent ==
  ASSUME NEW container \in Container, NEW mount, MountFits(container, mount),
         NEW k \in DOMAIN container.mounts,
         \/ container.mounts[k].volume = mount.volume
         \/ container.mounts[k].path = mount.path
  PROVE  \E i \in DOMAIN container.mounts : container.mounts[i] = MountFor(mount)
<1> DEFINE hits == {i \in DOMAIN container.mounts :
                      \/ container.mounts[i].volume = mount.volume
                      \/ container.mounts[i].path = mount.path}
<1>1. hits \subseteq Nat /\ hits # {}
  BY DEF Container
<1>2. PICK i \in hits : \A j \in hits : i <= j
  <2> HIDE DEF hits
  <2> QED
    BY <1>1, Least
<1> QED
  BY <1>2 DEF MountFits

\* The mounts of a container after Handle: those it had, followed by those asked
\* for that it had not, each once.
LEMMA MountedFacts ==
  ASSUME NEW p \in Pod, Resolvable(p), NEW container \in Container
  PROVE  LET asked == Resolved(p)
             old == container.mounts
             new == Mounted(container, asked).mounts
         IN  /\ Mounted(container, asked) \in Container
             /\ Mounted(container, asked).name = container.name
             /\ \A k \in DOMAIN old : k \in DOMAIN new /\ new[k] = old[k]
             /\ \A k \in DOMAIN new \ DOMAIN old :
                  /\ k > Len(old)
                  /\ \A j \in DOMAIN old : old[j] # new[k]
                  /\ \E i \in DOMAIN p.mounts : new[k] = MountFor(asked[i])
             /\ \A i \in DOMAIN p.mounts : \E k \in DOMAIN new : new[k] = MountFor(asked[i])
             /\ \A k, l \in DOMAIN new \ DOMAIN old : new[k] = new[l] => k = l
<1> DEFINE asked == Resolved(p)
           old == container.mounts
           wanted == [i \in DOMAIN asked |-> MountFor(asked[i])]
           present == {old[i] : i \in DOMAIN old}
           more == Missing(container, asked)
           new == old \o more
<1>1. old \in Seq(Mount) /\ container = [name |-> container.name, mounts |-> old]
      /\ container.name \in STRING
  BY DEF Container
<1>2. DOMAIN asked = DOMAIN p.mounts /\ DOMAIN asked = 1..Len(p.mounts) /\ Len(p.mounts) \in Nat
  BY ResolvedFacts
<1>3. \A i \in DOMAIN asked : MountFor(asked[i]) \in Mount
  BY <1>2, ResolvedFacts DEF MountFor, Mount
<1>4. wanted \in Seq(Mount) /\ DOMAIN wanted = DOMAIN asked
  BY <1>2, <1>3
<1>5. \A i, j \in DOMAIN wanted : wanted[i] = wanted[j] => i = j
  <2>1. \A i \in DOMAIN asked : MountFor(asked[i]).path = asked[i].path
    BY DEF MountFor
  <2> QED
    BY <1>2, <2>1, ResolvableFacts
<1>6. more = Without(wanted, present)
  BY DEF Missing
<1>7. /\ more \in Seq(Mount)
      /\ \A j \in DOMAIN more : more[j] \notin present /\ \E i \in DOMAIN wanted : wanted[i] = more[j]
      /\ \A i \in DOMAIN wanted : wanted[i] \notin present => \E j \in DOMAIN more : more[j] = wanted[i]
      /\ \A i, j \in DOMAIN more : more[i] = more[j] => i = j
  <2> HIDE DEF wanted, present, more
  <2> QED
    BY <1>4, <1>5, <1>6, WithoutFacts
<1>8. Mounted(container, asked) = [name |-> container.name, mounts |-> new]
  <2>1. Mounted(container, asked) = [container EXCEPT !.mounts = new]
    BY Zenon DEF Mounted
  <2> HIDE DEF new
  <2> QED
    BY <1>1, <2>1
<1> HIDE DEF more, asked
<1>9. /\ new \in Seq(Mount)
      /\ Len(new) = Len(old) + Len(more)
      /\ DOMAIN new = 1..Len(new) /\ DOMAIN old = 1..Len(old) /\ DOMAIN more = 1..Len(more)
      /\ Len(old) \in Nat /\ Len(more) \in Nat
      /\ \A k \in 1..Len(old) : new[k] = old[k]
      /\ \A k \in 1..Len(more) : new[Len(old) + k] = more[k]
  BY <1>1, <1>7
<1> HIDE DEF new
<1>10. \A k \in DOMAIN old : k \in DOMAIN new /\ new[k] = old[k]
  BY <1>9
<1>11. ASSUME NEW k \in DOMAIN new \ DOMAIN old
       PROVE  /\ k > Len(old) /\ k - Len(old) \in DOMAIN more
              /\ new[k] = more[k - Len(old)]
  <2>1. k > Len(old) /\ k - Len(old) \in DOMAIN more
    BY <1>9
  <2>2. k = Len(old) + (k - Len(old))
    BY <1>9
  <2> QED
    BY <1>9, <2>1, <2>2
<1>12. ASSUME NEW k \in DOMAIN new \ DOMAIN old
       PROVE  /\ \A j \in DOMAIN old : old[j] # new[k]
              /\ \E i \in DOMAIN p.mounts : new[k] = MountFor(asked[i])
  <2>1. PICK j \in DOMAIN more : new[k] = more[j]
    BY <1>11
  <2>2. PICK i \in DOMAIN wanted : wanted[i] = more[j]
    BY <1>7
  <2>3. new[k] = MountFor(asked[i]) /\ i \in DOMAIN p.mounts
    BY <1>2, <1>4, <2>1, <2>2
  <2>4. new[k] \notin present
    BY <1>7, <2>1
  <2>5. \A m \in DOMAIN old : old[m] \in present
    OBVIOUS
  <2> QED
    BY <2>3, <2>4, <2>5
<1>13. ASSUME NEW i \in DOMAIN p.mounts
       PROVE  \E k \in DOMAIN new : new[k] = MountFor(asked[i])
  <2>1. CASE wanted[i] \in present
    BY <1>2, <1>10, <2>1
  <2>2. CASE wanted[i] \notin present
    <3>1. PICK j \in DOMAIN more : more[j] = wanted[i]
      BY <1>2, <1>4, <1>7, <2>2
    <3>2. Len(old) + j \in DOMAIN new /\ new[Len(old) + j] = more[j]
      BY <1>9
    <3> QED
      BY <1>2, <3>1, <3>2
  <2> QED
    BY <2>1, <2>2
<1>14. ASSUME NEW k \in DOMAIN new \ DOMAIN old, NEW l \in DOMAIN new \ DOMAIN old,
              new[k] = new[l]
       PROVE  k = l
  <2>1. k - Len(old) = l - Len(old)
    BY <1>7, <1>11, <1>14
  <2> QED
    BY <1>9, <2>1
<1>15. Mounted(container, asked) \in Container /\ Mounted(container, asked).name = container.name
       /\ Mounted(container, asked).mounts = new
  BY <1>1, <1>8, <1>9 DEF Container
<1> QED
  BY <1>10, <1>11, <1>12, <1>13, <1>14, <1>15 DEF asked

\* The fields of the Pod that Handle returns.
LEMMA MutatedParts ==
  ASSUME NEW p \in Pod
  PROVE  LET q == Mutated(p)
         IN  /\ q = [annotated |-> p.annotated, mounts |-> p.mounts, target |-> p.target,
                     label |-> TRUE, volumes |-> q.volumes, waits |-> q.waits,
                     containers |-> q.containers]
             /\ q.volumes = p.volumes \cup VolumesFor(Resolved(p))
             /\ q.waits = p.waits \cup WaitsFor(Resolved(p))
             /\ DOMAIN p.containers = 1..Len(p.containers) /\ Len(p.containers) \in Nat
             /\ q.containers = [i \in DOMAIN p.containers |->
                  IF i \in Targets(p) THEN Mounted(p.containers[i], Resolved(p))
                                      ELSE p.containers[i]]
             /\ \A i \in DOMAIN p.containers : p.containers[i] \in Container
<1>1. p.containers \in Seq(Container)
  BY DEF Pod
<1>2. DOMAIN p.containers = 1..Len(p.containers) /\ Len(p.containers) \in Nat
  BY <1>1
<1>3. \A i \in DOMAIN p.containers : p.containers[i] \in Container
  BY <1>1, <1>2, ElementOfSeq
<1>4. p = [annotated |-> p.annotated, mounts |-> p.mounts, target |-> p.target,
           label |-> p.label, volumes |-> p.volumes, waits |-> p.waits,
           containers |-> p.containers]
  BY DEF Pod
<1> DEFINE V == p.volumes \cup VolumesFor(Resolved(p))
           W == p.waits \cup WaitsFor(Resolved(p))
           C == [i \in DOMAIN p.containers |->
                   IF i \in Targets(p) THEN Mounted(p.containers[i], Resolved(p))
                                       ELSE p.containers[i]]
<1>5. Mutated(p) =
        [p EXCEPT !.label = TRUE, !.volumes = V, !.waits = W, !.containers = C]
  BY Zenon DEF Mutated
<1>6. Mutated(p) = [annotated |-> p.annotated, mounts |-> p.mounts, target |-> p.target,
                    label |-> TRUE, volumes |-> V, waits |-> W, containers |-> C]
  <2> HIDE DEF V, W, C
  <2> QED
    BY <1>4, <1>5
<1>7. Mutated(p).volumes = V /\ Mutated(p).waits = W /\ Mutated(p).containers = C
  <2> HIDE DEF V, W, C
  <2> QED
    BY <1>6
<1> QED
  BY <1>2, <1>3, <1>6, <1>7

\* At most one container is meant, as their names are unique.
LEMMA OneTarget ==
  ASSUME NEW p, WellFormed(p), NEW i \in Targets(p), NEW j \in Targets(p)
  PROVE  i = j
BY DEF Targets, WellFormed

\* No two mounts of a container that fits get the same path.
LEMMA PathsStayUnique ==
  ASSUME NEW p \in Pod, Resolvable(p), NEW container \in Container,
         \A i, j \in DOMAIN container.mounts :
           container.mounts[i].path = container.mounts[j].path => i = j,
         \A i \in DOMAIN p.mounts : MountFits(container, Resolved(p)[i])
  PROVE  LET new == Mounted(container, Resolved(p)).mounts
         IN  \A k, l \in DOMAIN new : new[k].path = new[l].path => k = l
<1> DEFINE old == container.mounts
           asked == Resolved(p)
           new == Mounted(container, asked).mounts
<1>1. /\ \A k \in DOMAIN old : k \in DOMAIN new /\ new[k] = old[k]
      /\ \A k \in DOMAIN new \ DOMAIN old :
           /\ \A j \in DOMAIN old : old[j] # new[k]
           /\ \E i \in DOMAIN p.mounts : new[k] = MountFor(asked[i])
      /\ \A k, l \in DOMAIN new \ DOMAIN old : new[k] = new[l] => k = l
  BY MountedFacts
<1>2. \A m : MountFor(m).path = m.path
  BY DEF MountFor
<1>3. ASSUME NEW k \in DOMAIN old, NEW l \in DOMAIN new \ DOMAIN old,
             new[k].path = new[l].path
      PROVE  FALSE
  <2>1. PICK i \in DOMAIN p.mounts : new[l] = MountFor(asked[i])
    BY <1>1
  <2>2. old[k].path = asked[i].path
    BY <1>1, <1>2, <1>3, <2>1
  <2>3. \E j \in DOMAIN old : old[j] = MountFor(asked[i])
    BY <2>2, HitIsPresent
  <2> QED
    BY <1>1, <2>1, <2>3
<1>4. ASSUME NEW k \in DOMAIN new \ DOMAIN old, NEW l \in DOMAIN new \ DOMAIN old,
             new[k].path = new[l].path
      PROVE  k = l
  <2>1. PICK i \in DOMAIN p.mounts : new[k] = MountFor(asked[i])
    BY <1>1
  <2>2. PICK j \in DOMAIN p.mounts : new[l] = MountFor(asked[j])
    BY <1>1
  <2>3. asked[i].path = asked[j].path
    BY <1>2, <1>4, <2>1, <2>2
  <2>4. i = j
    BY <2>3, ResolvableFacts
  <2> QED
    BY <1>1, <2>1, <2>2, <2>4
<1>5. ASSUME NEW k \in DOMAIN old, NEW l \in DOMAIN old, new[k].path = new[l].path
      PROVE  k = l
  <2>1. old[k].path = old[l].path
    BY <1>1, <1>5
  <2> QED
    BY <2>1
<1> HIDE DEF new, old
<1>6. ASSUME NEW k \in DOMAIN new, NEW l \in DOMAIN new, new[k].path = new[l].path
      PROVE  k = l
  <2>1. CASE k \in DOMAIN old /\ l \in DOMAIN old
    BY <1>5, <1>6, <2>1
  <2>2. CASE k \in DOMAIN old /\ l \notin DOMAIN old
    BY <1>3, <1>6, <2>2
  <2>3. CASE k \notin DOMAIN old /\ l \in DOMAIN old
    BY <1>3, <1>6, <2>3
  <2>4. CASE k \notin DOMAIN old /\ l \notin DOMAIN old
    BY <1>4, <1>6, <2>4
  <2> QED
    BY <2>1, <2>2, <2>3, <2>4
<1> QED
  BY <1>6 DEF new

\* The volumes asked for are those of the Pod that bear their names, afterwards too.
LEMMA VolumesStayUnique ==
  ASSUME NEW p \in Pod, VolumesFit(p, Resolved(p)),
         NEW i \in DOMAIN p.mounts, NEW v \in Mutated(p).volumes,
         v.name = Resolved(p)[i].volume
  PROVE  v = VolumeFor(Resolved(p)[i])
<1> DEFINE asked == Resolved(p)
<1>1. DOMAIN asked = DOMAIN p.mounts
  BY ResolvedFacts
<1>2. \A j \in DOMAIN p.mounts : VolumeFor(asked[j]).name = asked[j].volume
  BY DEF VolumeFor
<1>3. CASE v \in p.volumes
  <2>1. VolumeFor(asked[i]) \in VolumesFor(asked)
    BY <1>1 DEF VolumesFor
  <2> QED
    BY <1>2, <1>3, <2>1 DEF VolumesFit
<1>4. CASE v \in VolumesFor(asked)
  <2>1. PICK j \in DOMAIN p.mounts : v = VolumeFor(asked[j])
    BY <1>1, <1>4 DEF VolumesFor
  <2>2. j = i
    BY <1>2, <2>1, ResolvedFacts
  <2> QED
    BY <2>1, <2>2
<1> QED
  BY <1>3, <1>4, MutatedParts

\* The same of the init containers that wait.
LEMMA WaitsStayUnique ==
  ASSUME NEW p \in Pod, WaitsFit(p, Resolved(p)),
         NEW v \in Mutated(p).waits, NEW w \in WaitsFor(Resolved(p)),
         v.volume = w.volume
  PROVE  v = w
<1> DEFINE asked == Resolved(p)
<1>1. DOMAIN asked = DOMAIN p.mounts
  BY ResolvedFacts
<1>2. CASE v \in p.waits
  BY <1>2 DEF WaitsFit
<1>3. CASE v \in WaitsFor(asked)
  <2>1. PICK i \in DOMAIN p.mounts :
          v = [volume |-> asked[i].volume, path |-> asked[i].path, cache |-> asked[i].cache]
    BY <1>1, <1>3 DEF WaitsFor
  <2>2. PICK j \in DOMAIN p.mounts :
          w = [volume |-> asked[j].volume, path |-> asked[j].path, cache |-> asked[j].cache]
    BY <1>1 DEF WaitsFor
  <2>3. i = j
    BY <2>1, <2>2, ResolvedFacts
  <2> QED
    BY <2>1, <2>2, <2>3
<1> QED
  BY <1>2, <1>3, MutatedParts

\* Handle returns a Pod, and one the API server takes.
LEMMA MutatedType ==
  ASSUME NEW p \in Pod, WellFormed(p), Accepts(p)
  PROVE  Mutated(p) \in Pod /\ WellFormed(Mutated(p))
<1> DEFINE asked == Resolved(p)
           q == Mutated(p)
<1>1. /\ q = [annotated |-> p.annotated, mounts |-> p.mounts, target |-> p.target,
              label |-> TRUE, volumes |-> q.volumes, waits |-> q.waits,
              containers |-> q.containers]
      /\ q.volumes = p.volumes \cup VolumesFor(asked)
      /\ q.waits = p.waits \cup WaitsFor(asked)
      /\ DOMAIN p.containers = 1..Len(p.containers) /\ Len(p.containers) \in Nat
      /\ q.containers = [i \in DOMAIN p.containers |->
           IF i \in Targets(p) THEN Mounted(p.containers[i], asked) ELSE p.containers[i]]
      /\ \A i \in DOMAIN p.containers : p.containers[i] \in Container
  BY MutatedParts
<1>2. Resolvable(p) /\ VolumesFit(p, asked) /\ WaitsFit(p, asked)
  BY DEF Accepts
<1>3. /\ DOMAIN asked = DOMAIN p.mounts
      /\ \A i \in DOMAIN p.mounts :
           asked[i].cache \in Caches /\ asked[i].path \in Path /\ asked[i].volume \in Int
  BY <1>2, ResolvedFacts, ResolvableFacts
<1>4. q.volumes \in SUBSET Volume
  <2>1. \A i \in DOMAIN p.mounts : VolumeFor(asked[i]) \in Volume
    BY <1>3 DEF VolumeFor, Volume
  <2>2. p.volumes \in SUBSET Volume
    BY DEF Pod
  <2> QED
    BY <1>1, <1>3, <2>1, <2>2 DEF VolumesFor
<1>5. q.waits \in SUBSET Wait
  <2>1. \A i \in DOMAIN p.mounts :
          [volume |-> asked[i].volume, path |-> asked[i].path, cache |-> asked[i].cache] \in Wait
    BY <1>3 DEF Wait
  <2>2. p.waits \in SUBSET Wait
    BY DEF Pod
  <2> QED
    BY <1>1, <1>3, <2>1, <2>2 DEF WaitsFor
<1>6. \A i \in DOMAIN p.containers :
        Mounted(p.containers[i], asked) \in Container
        /\ Mounted(p.containers[i], asked).name = p.containers[i].name
  BY <1>1, <1>2, MountedFacts
<1>7. /\ DOMAIN q.containers = DOMAIN p.containers
      /\ \A i \in DOMAIN p.containers :
           q.containers[i] \in Container /\ q.containers[i].name = p.containers[i].name
  BY <1>1, <1>6
<1>8. q.containers \in Seq(Container)
  <2>1. q.containers \in [1..Len(p.containers) -> Container]
    BY <1>1, <1>7
  <2> QED
    BY <1>1, <2>1, SeqDef
<1>9. q \in Pod
  <2>1. /\ p.annotated \in BOOLEAN /\ p.mounts \in Annotation /\ p.target \in STRING
    BY DEF Pod
  <2>2. q = [annotated |-> p.annotated, mounts |-> p.mounts, target |-> p.target,
             label |-> TRUE, volumes |-> q.volumes, waits |-> q.waits,
             containers |-> q.containers]
    BY <1>1
  <2>3. ASSUME NEW v \in SUBSET Volume, NEW w \in SUBSET Wait, NEW c \in Seq(Container)
        PROVE  [annotated |-> p.annotated, mounts |-> p.mounts, target |-> p.target,
                label |-> TRUE, volumes |-> v, waits |-> w, containers |-> c] \in Pod
    BY <2>1 DEF Pod
  <2> HIDE DEF q
  <2>4. [annotated |-> p.annotated, mounts |-> p.mounts, target |-> p.target,
         label |-> TRUE, volumes |-> q.volumes, waits |-> q.waits,
         containers |-> q.containers] \in Pod
    BY <1>4, <1>5, <1>8, <2>3
  <2> QED
    BY <2>2, <2>4
<1>10. \A v, w \in q.volumes : v.name = w.name => v = w
  <2> SUFFICES ASSUME NEW v \in q.volumes, NEW w \in q.volumes, v.name = w.name
               PROVE  v = w
    OBVIOUS
  <2>1. ASSUME NEW x \in q.volumes, NEW y \in VolumesFor(asked), x.name = y.name
        PROVE  x = y
    <3>1. PICK i \in DOMAIN p.mounts : y = VolumeFor(asked[i])
      BY <1>3 DEF VolumesFor
    <3>2. x.name = asked[i].volume
      BY <2>1, <3>1 DEF VolumeFor
    <3> QED
      BY <1>2, <3>1, <3>2, VolumesStayUnique
  <2>2. CASE v \in p.volumes /\ w \in p.volumes
    BY <2>2 DEF WellFormed
  <2>3. CASE w \in VolumesFor(asked)
    BY <2>1, <2>3
  <2>4. CASE v \in VolumesFor(asked)
    BY <2>1, <2>4
  <2> QED
    BY <1>1, <2>2, <2>3, <2>4
<1>11. \A v, w \in q.waits : v.volume = w.volume => v = w
  <2> SUFFICES ASSUME NEW v \in q.waits, NEW w \in q.waits, v.volume = w.volume
               PROVE  v = w
    OBVIOUS
  <2>1. CASE v \in p.waits /\ w \in p.waits
    BY <2>1 DEF WellFormed
  <2>2. CASE w \in WaitsFor(asked)
    BY <1>2, <2>2, WaitsStayUnique
  <2>3. CASE v \in WaitsFor(asked)
    BY <1>2, <2>3, WaitsStayUnique
  <2> QED
    BY <1>1, <2>1, <2>2, <2>3
<1>12. \A i, j \in DOMAIN q.containers :
         q.containers[i].name = q.containers[j].name => i = j
  BY <1>7 DEF WellFormed
<1>13. ASSUME NEW c \in DOMAIN q.containers
       PROVE  \A i, j \in DOMAIN q.containers[c].mounts :
                q.containers[c].mounts[i].path = q.containers[c].mounts[j].path => i = j
  <2>1. /\ c \in DOMAIN p.containers /\ p.containers[c] \in Container
        /\ \A i, j \in DOMAIN p.containers[c].mounts :
             p.containers[c].mounts[i].path = p.containers[c].mounts[j].path => i = j
    BY <1>1, <1>7 DEF WellFormed
  <2>2. CASE c \in Targets(p)
    <3>1. \A i \in DOMAIN p.mounts : MountFits(p.containers[c], asked[i])
      <4>1. PICK t \in Targets(p) :
              \A i \in DOMAIN p.mounts : MountFits(p.containers[t], asked[i])
        BY DEF Accepts
      <4>2. t = c
        BY <2>2, OneTarget
      <4> QED
        BY <4>1, <4>2
    <3>2. q.containers[c] = Mounted(p.containers[c], asked)
      BY <1>1, <2>1, <2>2
    <3> QED
      BY <1>2, <2>1, <3>1, <3>2, PathsStayUnique
  <2>3. CASE c \notin Targets(p)
    <3>1. q.containers[c] = p.containers[c]
      BY <1>1, <2>1, <2>3
    <3> QED
      BY <2>1, <3>1
  <2> QED
    BY <2>2, <2>3
<1> QED
  BY <1>9, <1>10, <1>11, <1>12, <1>13 DEF WellFormed

\* A container that has all mounts asked for is left as it is.
LEMMA NothingMissing ==
  ASSUME NEW p \in Pod, Resolvable(p), NEW container \in Container,
         \A i \in DOMAIN p.mounts : \E k \in DOMAIN container.mounts :
           container.mounts[k] = MountFor(Resolved(p)[i])
  PROVE  Mounted(container, Resolved(p)) = container
<1> DEFINE old == container.mounts
           after == Mounted(container, Resolved(p))
           new == after.mounts
<1>1. /\ after \in Container /\ after.name = container.name
      /\ \A k \in DOMAIN old : k \in DOMAIN new /\ new[k] = old[k]
      /\ \A k \in DOMAIN new \ DOMAIN old :
           /\ \A j \in DOMAIN old : old[j] # new[k]
           /\ \E i \in DOMAIN p.mounts : new[k] = MountFor(Resolved(p)[i])
  BY MountedFacts
<1>2. DOMAIN new \subseteq DOMAIN old
  BY <1>1
<1>3. /\ after = [name |-> after.name, mounts |-> new] /\ new \in Seq(Mount)
      /\ container = [name |-> container.name, mounts |-> old] /\ old \in Seq(Mount)
  BY <1>1 DEF Container
<1> HIDE DEF new, old, after
<1>4. new = old
  <2>1. DOMAIN new = DOMAIN old /\ \A k \in DOMAIN new : new[k] = old[k]
    BY <1>1, <1>2
  <2>2. new = [k \in DOMAIN new |-> new[k]] /\ old = [k \in DOMAIN old |-> old[k]]
    BY <1>3
  <2> QED
    BY <2>1, <2>2
<1> QED
  BY <1>1, <1>3, <1>4 DEF after

\* What has been mounted fits when it is asked for again: of a volume or at a path
\* the container has the mount asked for and no other.
LEMMA MountedFits ==
  ASSUME NEW p \in Pod, Resolvable(p), NEW container \in Container,
         \A i \in DOMAIN p.mounts : MountFits(container, Resolved(p)[i]),
         NEW i \in DOMAIN p.mounts
  PROVE  MountFits(Mounted(container, Resolved(p)), Resolved(p)[i])
<1> DEFINE asked == Resolved(p)
           old == container.mounts
           new == Mounted(container, asked).mounts
           Hit(m) == m.volume = asked[i].volume \/ m.path = asked[i].path
<1> SUFFICES ASSUME NEW k \in DOMAIN new, Hit(new[k]),
                    \A l \in DOMAIN new : Hit(new[l]) => k <= l
             PROVE  new[k] = MountFor(asked[i])
  BY DEF MountFits
<1>1. /\ \A l \in DOMAIN old : l \in DOMAIN new /\ new[l] = old[l]
      /\ \A l \in DOMAIN new \ DOMAIN old :
           \E j \in DOMAIN p.mounts : new[l] = MountFor(asked[j])
  BY MountedFacts
<1>2. CASE k \in DOMAIN old
  <2>1. Hit(old[k]) /\ \A l \in DOMAIN old : Hit(old[l]) => k <= l
    BY <1>1, <1>2
  <2>2. old[k] = MountFor(asked[i])
    BY <1>2, <2>1 DEF MountFits
  <2> QED
    BY <1>1, <1>2, <2>2
<1>3. CASE k \notin DOMAIN old
  <2>1. PICK j \in DOMAIN p.mounts : new[k] = MountFor(asked[j])
    BY <1>1, <1>3
  <2>2. new[k].volume = asked[j].volume /\ new[k].path = asked[j].path
    BY <2>1 DEF MountFor
  <2>3. asked[j].volume = asked[i].volume \/ asked[j].path = asked[i].path
    BY <2>2
  <2>4. j = i
    BY <2>3, ResolvedFacts, ResolvableFacts
  <2> QED
    BY <2>1, <2>4
<1> QED
  BY <1>2, <1>3

\* Handle takes what it has made and does not change it.
LEMMA MutatedAgain ==
  ASSUME NEW p \in Pod, WellFormed(p), Accepts(p)
  PROVE  Accepts(Mutated(p)) /\ Mutated(Mutated(p)) = Mutated(p)
<1> DEFINE asked == Resolved(p)
           q == Mutated(p)
<1>1. /\ q = [annotated |-> p.annotated, mounts |-> p.mounts, target |-> p.target,
              label |-> TRUE, volumes |-> q.volumes, waits |-> q.waits,
              containers |-> q.containers]
      /\ q.volumes = p.volumes \cup VolumesFor(asked)
      /\ q.waits = p.waits \cup WaitsFor(asked)
      /\ q.containers = [i \in DOMAIN p.containers |->
           IF i \in Targets(p) THEN Mounted(p.containers[i], asked) ELSE p.containers[i]]
      /\ \A i \in DOMAIN p.containers : p.containers[i] \in Container
  BY MutatedParts
<1>2. Resolvable(p) /\ VolumesFit(p, asked) /\ WaitsFit(p, asked)
  BY DEF Accepts
<1>3. q \in Pod /\ DOMAIN asked = DOMAIN p.mounts
  BY MutatedType, ResolvedFacts
<1>4. q.mounts = p.mounts /\ q.target = p.target
  BY <1>1
<1>5. Resolved(q) = asked
  BY <1>4 DEF Resolved
<1>6. Resolvable(q)
  BY <1>2, <1>4, <1>5 DEF Resolvable
<1>7. /\ DOMAIN q.containers = DOMAIN p.containers
      /\ \A i \in DOMAIN p.containers : q.containers[i].name = p.containers[i].name
  BY <1>1, <1>2, MountedFacts
<1>8. Targets(q) = Targets(p)
  BY <1>4, <1>7 DEF Targets
<1>9. VolumesFit(q, asked)
  <2> SUFFICES ASSUME NEW v \in q.volumes, NEW w \in VolumesFor(asked), v.name = w.name
               PROVE  v = w
    BY DEF VolumesFit
  <2>1. PICK i \in DOMAIN p.mounts : w = VolumeFor(asked[i])
    BY <1>3 DEF VolumesFor
  <2>2. v.name = asked[i].volume
    BY <2>1 DEF VolumeFor
  <2> QED
    BY <1>2, <2>1, <2>2, VolumesStayUnique
<1>10. WaitsFit(q, asked)
  BY <1>2, WaitsStayUnique DEF WaitsFit
<1>11. PICK t \in Targets(p) : \A i \in DOMAIN p.mounts : MountFits(p.containers[t], asked[i])
  BY DEF Accepts
<1>12. t \in DOMAIN p.containers /\ q.containers[t] = Mounted(p.containers[t], asked)
  BY <1>1 DEF Targets
<1>13. \A i \in DOMAIN p.mounts : MountFits(q.containers[t], asked[i])
  BY <1>1, <1>2, <1>11, <1>12, MountedFits
<1>14. Accepts(q)
  <2> HIDE DEF q, asked
  <2> QED
    BY <1>4, <1>5, <1>6, <1>8, <1>9, <1>10, <1>13 DEF Accepts
<1>15. /\ Mutated(q).volumes = q.volumes
       /\ Mutated(q).waits = q.waits
       /\ Mutated(q).containers = [i \in DOMAIN q.containers |->
            IF i \in Targets(q) THEN Mounted(q.containers[i], asked) ELSE q.containers[i]]
       /\ Mutated(q) = [annotated |-> p.annotated, mounts |-> p.mounts, target |-> p.target,
              label |-> TRUE, volumes |-> Mutated(q).volumes, waits |-> Mutated(q).waits,
              containers |-> Mutated(q).containers]
  <2> HIDE DEF q
  <2>1. /\ Mutated(q).volumes = q.volumes \cup VolumesFor(asked)
        /\ Mutated(q).waits = q.waits \cup WaitsFor(asked)
        /\ Mutated(q).containers = [i \in DOMAIN q.containers |->
             IF i \in Targets(q) THEN Mounted(q.containers[i], asked) ELSE q.containers[i]]
        /\ Mutated(q) =
             [annotated |-> q.annotated, mounts |-> q.mounts, target |-> q.target,
              label |-> TRUE, volumes |-> Mutated(q).volumes, waits |-> Mutated(q).waits,
              containers |-> Mutated(q).containers]
    BY <1>3, <1>5, MutatedParts
  <2>2. q.annotated = p.annotated
    BY <1>1
  <2> QED
    BY <1>1, <1>4, <2>1, <2>2
<1>16. \A i \in DOMAIN q.containers : i \in Targets(q) =>
         Mounted(q.containers[i], asked) = q.containers[i]
  <2> SUFFICES ASSUME NEW i \in Targets(p), i \in DOMAIN p.containers
               PROVE  Mounted(q.containers[i], asked) = q.containers[i]
    BY <1>7, <1>8
  <2>1. q.containers[i] = Mounted(p.containers[i], asked) /\ p.containers[i] \in Container
    BY <1>1
  <2>2. /\ q.containers[i] \in Container
        /\ \A j \in DOMAIN p.mounts : \E k \in DOMAIN q.containers[i].mounts :
             q.containers[i].mounts[k] = MountFor(asked[j])
    BY <1>2, <2>1, MountedFacts
  <2> QED
    BY <1>2, <2>2, NothingMissing
<1>17. Mutated(q).containers = q.containers
  <2>1. q.containers = [i \in DOMAIN q.containers |-> q.containers[i]]
    BY <1>1
  <2> HIDE DEF q, asked
  <2> QED
    BY <1>15, <1>16, <2>1
<1>18. Mutated(q) = q
  <2> HIDE DEF q
  <2> QED
    BY <1>1, <1>15, <1>17
<1> QED
  BY <1>14, <1>18

-----------------------------------------------------------------------------
(***************************************************************************)
(* The invariant                                                           *)
(***************************************************************************)

\* Every stored spec is none or passed the validator.
Validated ==
  /\ cache \in [Caches -> ModelCache]
  /\ \A c \in Caches : Exists(c) => Valid(cache[c].spec)

Inv == TypeOK /\ Validated

\* A spec that passes the validator is one the builders of claim and Job take.
LEMMA ValidIsBuilt ==
  ASSUME NEW spec, Valid(spec)
  PROVE  /\ ClaimBuilds(spec) /\ JobBuilds(spec)
         /\ AsksForToken(spec) => JobHasToken(spec)
BY DEF Valid, ClaimBuilds, JobBuilds, AsksForToken, JobHasToken

\* The annotation of a Pod can be exchanged for another one.
LEMMA WithType ==
  ASSUME NEW p \in Pod, WellFormed(p), NEW request \in Request
  PROVE  With(p, request) \in Pod /\ WellFormed(With(p, request))
<1>1. p = [annotated |-> p.annotated, mounts |-> p.mounts, target |-> p.target,
           label |-> p.label, volumes |-> p.volumes, waits |-> p.waits,
           containers |-> p.containers]
  BY DEF Pod
<1>2. With(p, request) =
        [annotated |-> request.annotated, mounts |-> request.mounts,
         target |-> request.target, label |-> p.label, volumes |-> p.volumes,
         waits |-> p.waits, containers |-> p.containers]
  <2>1. With(p, request) =
          [p EXCEPT !.annotated = request.annotated, !.mounts = request.mounts,
                    !.target = request.target]
    BY Zenon DEF With
  <2> QED
    BY <1>1, <2>1
<1>3. With(p, request) \in Pod
  <2>1. /\ p.label \in BOOLEAN /\ p.volumes \in SUBSET Volume /\ p.waits \in SUBSET Wait
        /\ p.containers \in Seq(Container)
    BY DEF Pod
  <2>2. /\ request.annotated \in BOOLEAN /\ request.mounts \in Annotation
        /\ request.target \in STRING
    BY DEF Request
  <2> QED
    BY <1>2, <2>1, <2>2 DEF Pod
<1> QED
  BY <1>2, <1>3 DEF WellFormed

\* Before anything is created the invariant holds.
LEMMA InitInv == Init => Inv
<1> SUFFICES ASSUME Init PROVE Inv
  OBVIOUS
<1>1. NoModelCache \in ModelCache
  BY DEF NoModelCache, ModelCache, Phases
<1>2. \A c \in Caches : ~Exists(c)
  BY DEF Init, Exists, NoModelCache
<1>3. Validated
  BY <1>1, <1>2 DEF Init, Validated
<1>4. pod \in Pod /\ WellFormed(pod) /\ copies \in 0..MaxCopies
  BY ConstantsAssumption DEF Init
<1> QED
  BY <1>3, <1>4 DEF Init, Inv, TypeOK, Validated, Stages

\* Users, controllers and Handle keep it.
LEMMA StepInv == Inv /\ [Next]_vars => Inv'
<1> SUFFICES ASSUME Inv, [Next]_vars PROVE Inv'
  OBVIOUS
<1> USE DEF Inv
<1>1. CASE Admit
  <2>1. (pod \in Pod /\ WellFormed(pod))'
    <3>1. CASE pod' = pod
      BY <3>1 DEF TypeOK
    <3>2. CASE Accepts(pod) /\ pod' = Mutated(pod)
      BY <3>2, MutatedType DEF TypeOK
    <3> QED
      BY <1>1, <3>1, <3>2 DEF Admit
  <2>2. TypeOK'
    BY <1>1, <2>1 DEF Admit, TypeOK, Stages
  <2> QED
    BY <1>1, <2>2 DEF Admit, Validated, Exists
<1>2. ASSUME NEW c \in Caches, NEW spec \in Specs, CreateModelCache(c, spec)
      PROVE  Inv'
  <2> DEFINE new == [spec |-> spec, phase |-> "Pending"]
  <2>1. new \in ModelCache
    BY DEF ModelCache, Phases
  <2>2. cache' = [cache EXCEPT ![c] = new] /\ Valid(spec)
    BY <1>2 DEF CreateModelCache
  <2>3. \A d \in Caches : cache'[d] = IF d = c THEN new ELSE cache[d]
    BY <2>2 DEF Validated
  <2>4. Validated'
    BY <2>1, <2>2, <2>3 DEF Validated, Exists
  <2> QED
    BY <1>2, <2>4 DEF CreateModelCache, TypeOK, Validated, WellFormed
<1>3. ASSUME NEW c \in Caches, DeleteModelCache(c)
      PROVE  Inv'
  <2>1. NoModelCache \in ModelCache
    BY DEF NoModelCache, ModelCache, Phases
  <2>2. \A d \in Caches : cache'[d] = IF d = c THEN NoModelCache ELSE cache[d]
    BY <1>3 DEF DeleteModelCache, Validated
  <2>3. NoModelCache.spec = NoSpec
    BY DEF NoModelCache
  <2>4. Validated'
    BY <1>3, <2>1, <2>2, <2>3 DEF DeleteModelCache, Validated, Exists
  <2> QED
    BY <1>3, <2>4 DEF DeleteModelCache, TypeOK, Validated, WellFormed
<1>4. ASSUME NEW c \in Caches, NEW phase \in Phases, SetPhase(c, phase)
      PROVE  Inv'
  <2>1. cache[c] \in ModelCache
    BY DEF Validated
  <2>2. [cache[c] EXCEPT !.phase = phase] \in ModelCache
    BY <2>1 DEF ModelCache
  <2>3. \A d \in Caches :
          cache'[d] = IF d = c THEN [cache[c] EXCEPT !.phase = phase] ELSE cache[d]
    BY <1>4 DEF SetPhase, Validated
  <2>4. [cache[c] EXCEPT !.phase = phase].spec = cache[c].spec
    BY <2>1 DEF ModelCache
  <2>5. Validated'
    BY <1>4, <2>2, <2>3, <2>4 DEF SetPhase, Validated, Exists
  <2> QED
    BY <1>4, <2>5 DEF SetPhase, TypeOK, Validated, WellFormed
<1>5. ASSUME NEW request \in Requests, SubmitPod(request) \/ SubmitCopy(request)
      PROVE  Inv'
  <2>1. pod' = With(pod, request) /\ cache' = cache /\ stage' = "submitted"
    BY <1>5 DEF SubmitPod, SubmitCopy
  <2>2. (pod \in Pod /\ WellFormed(pod))'
    BY <2>1, WithType, ConstantsAssumption DEF TypeOK
  <2>3. copies' \in 0..MaxCopies
    BY <1>5, ConstantsAssumption DEF SubmitPod, SubmitCopy, TypeOK
  <2> QED
    BY <2>1, <2>2, <2>3 DEF TypeOK, Stages, Validated, Exists
<1>6. CASE UNCHANGED vars
  BY <1>6 DEF vars, TypeOK, WellFormed, Validated, Exists
<1> QED
  BY <1>1, <1>2, <1>3, <1>4, <1>5, <1>6 DEF Next

\* Types, well-formed Pods and validated specs are what every state has.
LEMMA Invariance == Spec => []Inv
BY InitInv, StepInv, PTL DEF Spec

\* Only Handle lets a Pod with an annotation through, and only one it accepts.
LEMMA InjectsIsAdmit ==
  ASSUME Inv, [Next]_vars, Injects
  PROVE  /\ pod \in Pod /\ WellFormed(pod) /\ Accepts(pod)
         /\ pod' = Mutated(pod) /\ cache' = cache
<1>1. Admit
  BY DEF Injects, Next, vars, CreateModelCache, DeleteModelCache, SetPhase,
         SubmitPod, SubmitCopy
<1> QED
  BY <1>1 DEF Injects, Admit, Inv, TypeOK

-----------------------------------------------------------------------------
(***************************************************************************)
(* Theorems                                                                *)
(***************************************************************************)

\* Whatever Pods and annotations users write and however often an admitted Pod is
\* submitted again, the Pod stays one the API server takes: Handle adds no second
\* volume or waiting container of a name, and no second mount at a path
\* (ensureModelCacheVolume, ensureModelCacheVolumeMount,
\* ensurePVCModelCacheWaitInitContainer).
THEOREM Types == Spec => []TypeOK
<1>1. Inv => TypeOK
  BY DEF Inv
<1> QED
  BY Invariance, <1>1, PTL

\* Every stored spec of the shared mode is one that the builders of claim and Job
\* take, with its token, whatever specs users write: only valid ones are stored, and
\* no handler changes one (validateModelCacheFields against the parsers of the
\* downloader package).  Specs of the local mode have no such builders; that a
\* node-agent may refuse one is what StoredSpecIsDownloaded is violated by.
THEOREM StoredSpecs == Spec => []StoredSpecIsBuilt
<1>1. Inv => StoredSpecIsBuilt
  BY ValidIsBuilt DEF Inv, Validated, StoredSpecIsBuilt
<1> QED
  BY Invariance, <1>1, PTL

\* Every Pod that is given a cache is counted among its users, whatever Pods and
\* annotations users write (PodMutator.Handle against modelCacheRefsFromPod and
\* modelCacheNamesFromPod).
THEOREM Users == Spec => UsersCounted
<1> DEFINE Counted(i) ==
      pod.mounts[i].cache \in
        IF UsesCSIVolume(pod.mounts[i].cache) THEN RefsFromPod(pod')
                                              ELSE NamesFromPod(pod')
<1>1. ASSUME Inv, [Next]_vars, Injects
      PROVE  pod'.label /\ \A i \in DOMAIN pod.mounts : Counted(i)
  <2>2. pod \in Pod /\ Accepts(pod) /\ pod' = Mutated(pod)
    BY <1>1, InjectsIsAdmit
  <2>3. /\ pod'.label
        /\ pod'.annotated
        /\ pod'.mounts = pod.mounts
        /\ pod'.volumes = pod.volumes \cup VolumesFor(Resolved(pod))
    <3>1. pod' = [annotated |-> pod.annotated, mounts |-> pod.mounts,
                  target |-> pod.target, label |-> TRUE, volumes |-> pod'.volumes,
                  waits |-> pod'.waits, containers |-> pod'.containers]
      BY <2>2, MutatedParts
    <3>2. pod'.volumes = pod.volumes \cup VolumesFor(Resolved(pod))
      BY <2>2, MutatedParts
    <3>3. pod.annotated
      BY <1>1 DEF Injects
    <3> QED
      BY <3>1, <3>2, <3>3
  <2>4. ASSUME NEW i \in DOMAIN pod.mounts
        PROVE  Counted(i)
    <3> DEFINE c == pod.mounts[i].cache
               mount == Resolved(pod)[i]
    <3>1. i \in DOMAIN Resolved(pod) /\ mount.cache = c
      BY DEF Resolved
    <3>2. c \in Caches
      BY <2>2, <3>1 DEF Accepts, Resolvable
    <3>3. CASE UsesCSIVolume(c)
      <4>1. VolumeFor(mount) \in pod'.volumes
        BY <2>3, <3>1 DEF VolumesFor
      <4>2. VolumeFor(mount).kind = "csi" /\ VolumeFor(mount).cache = c
        BY <3>1, <3>3 DEF VolumeFor
      <4> QED
        BY <3>3, <4>1, <4>2 DEF RefsFromPod
    <3>4. CASE ~UsesCSIVolume(c)
      BY <2>3, <3>2, <3>4, ConstantsAssumption DEF NamesFromPod
    <3> QED
      BY <3>3, <3>4
  <2> QED
    BY <2>3, <2>4
<1>2. Inv /\ [Next]_vars => [Injects => pod'.label /\ \A i \in DOMAIN pod.mounts : Counted(i)]_vars
  BY <1>1
<1> QED
  BY Invariance, <1>2, PTL DEF Spec, UsersCounted

\* A model is mounted inside another one only past a sibling that was asked for
\* too, for every annotation: the neighbours that rejectOverlappingMountPaths
\* compares are enough otherwise.
THEOREM Overlaps == Spec => OverlapHidden
<1> DEFINE paths == {Cleaned(pod.mounts[i].path) : i \in DOMAIN pod.mounts}
<1>1. ASSUME Inv, [Next]_vars, Injects
      PROVE  \A p, q \in paths : Under(q, p) => \E r \in paths : Sibling(r, p)
  <2>1. pod \in Pod /\ Resolvable(pod)
    BY <1>1, InjectsIsAdmit DEF Accepts
  <2>2. /\ DOMAIN Resolved(pod) = DOMAIN pod.mounts
        /\ DOMAIN pod.mounts = 1..Len(pod.mounts) /\ Len(pod.mounts) \in Nat
        /\ \A i \in DOMAIN pod.mounts :
             Resolved(pod)[i].path = Cleaned(pod.mounts[i].path)
             /\ Cleaned(pod.mounts[i].path) \in Path
    BY <2>1, ResolvedFacts
  <2>3. ~Overlapping(paths)
    <3>1. paths = {Resolved(pod)[i].path : i \in DOMAIN Resolved(pod)}
      BY <2>2
    <3> HIDE DEF paths
    <3> QED
      BY <2>1, <3>1 DEF Resolvable
  <2>4. \A p \in paths : p.segments # <<>>
    BY <2>1, <2>2 DEF Resolvable, Mountable
  <2>5. IsFiniteSet(paths)
    <3> DEFINE f == [i \in DOMAIN pod.mounts |-> Cleaned(pod.mounts[i].path)]
    <3>1. IsFiniteSet(DOMAIN pod.mounts)
      BY <2>2, FS_Interval
    <3>2. f \in Surjection(DOMAIN pod.mounts, paths)
      BY DEF Surjection
    <3> HIDE DEF paths, f
    <3> QED
      BY <3>1, <3>2, FS_Surjection
  <2>6. paths \subseteq Path
    BY <2>2
  <2> HIDE DEF paths
  <2> QED
    BY <2>3, <2>4, <2>5, <2>6, NestedHasSibling
<1>2. Inv /\ [Next]_vars =>
        [Injects => \A p, q \in paths : Under(q, p) => \E r \in paths : Sibling(r, p)]_vars
  BY <1>1
<1> QED
  BY Invariance, <1>2, PTL DEF Spec, OverlapHidden

\* What Handle has made it takes again and leaves as it is, for every Pod and every
\* annotation, so that neither a second call of the API server nor a Pod that is
\* submitted as it was returned changes anything.
THEOREM Readmission == Spec => ReadmittedUnchanged
<1>1. ASSUME Inv, [Next]_vars, Injects
      PROVE  Accepts(pod') /\ Mutated(pod') = pod'
  BY <1>1, InjectsIsAdmit, MutatedAgain
<1>2. Inv /\ [Next]_vars => [Injects => Accepts(pod') /\ Mutated(pod') = pod']_vars
  BY <1>1
<1> QED
  BY Invariance, <1>2, PTL DEF Spec, ReadmittedUnchanged

\* A Pod that is let through shows every model it asks for at the path it names,
\* and waits for those that come from a claim, whatever volumes and mounts it
\* brought (PodMutator.Handle).
THEOREM Mounts == Spec => MountsWhatIsAsked
<1> DEFINE Shown == \E t \in Targets(pod) : \A i \in DOMAIN pod.mounts :
                      Shows(pod'.containers[t], pod.mounts[i])
           WaitedFor == \A i \in DOMAIN pod.mounts : ~UsesCSIVolume(pod.mounts[i].cache) =>
                          \E w \in pod'.waits :
                            /\ w.cache = pod.mounts[i].cache
                            /\ w.path = Cleaned(pod.mounts[i].path)
<1>1. ASSUME Inv, [Next]_vars, Injects
      PROVE  Shown /\ WaitedFor
  <2> DEFINE asked == Resolved(pod)
  <2>1. pod \in Pod /\ WellFormed(pod) /\ Accepts(pod) /\ pod' = Mutated(pod)
    BY <1>1, InjectsIsAdmit
  <2>2. Resolvable(pod) /\ VolumesFit(pod, asked)
    BY <2>1 DEF Accepts
  <2>3. /\ DOMAIN asked = DOMAIN pod.mounts
        /\ \A i \in DOMAIN pod.mounts :
             /\ asked[i].cache = pod.mounts[i].cache
             /\ asked[i].path = Cleaned(pod.mounts[i].path)
    BY <2>1, ResolvedFacts
  <2>4. WaitedFor
    <3> SUFFICES ASSUME NEW i \in DOMAIN pod.mounts, ~UsesCSIVolume(pod.mounts[i].cache)
                 PROVE  \E w \in pod'.waits :
                          /\ w.cache = pod.mounts[i].cache
                          /\ w.path = Cleaned(pod.mounts[i].path)
      OBVIOUS
    <3> DEFINE w == [volume |-> asked[i].volume, path |-> asked[i].path,
                     cache |-> asked[i].cache]
    <3>1. w \in WaitsFor(asked)
      BY <2>3 DEF WaitsFor
    <3>2. w \in pod'.waits
      BY <2>1, <3>1, MutatedParts
    <3> QED
      BY <2>3, <3>2
  <2>5. PICK t \in Targets(pod) :
          \A i \in DOMAIN pod.mounts : MountFits(pod.containers[t], asked[i])
    BY <2>1 DEF Accepts
  <2>6. t \in DOMAIN pod.containers /\ pod.containers[t] \in Container
        /\ pod'.containers[t] = Mounted(pod.containers[t], asked)
    <3>1. t \in DOMAIN pod.containers
      BY DEF Targets
    <3> QED
      BY <2>1, <3>1, MutatedParts
  <2> DEFINE new == pod'.containers[t].mounts
  <2>7. \A k, l \in DOMAIN new : new[k].path = new[l].path => k = l
    <3>1. \A i, j \in DOMAIN pod.containers[t].mounts :
            pod.containers[t].mounts[i].path = pod.containers[t].mounts[j].path => i = j
      BY <2>1, <2>6 DEF WellFormed
    <3> QED
      BY <2>1, <2>2, <2>5, <2>6, <3>1, PathsStayUnique
  <2>8. ASSUME NEW i \in DOMAIN pod.mounts
        PROVE  Shows(pod'.containers[t], pod.mounts[i])
    <3>1. PICK k \in DOMAIN new : new[k] = MountFor(asked[i])
      BY <2>1, <2>2, <2>6, MountedFacts
    <3>2. /\ new[k].path = Cleaned(pod.mounts[i].path)
          /\ new[k].readOnly
          /\ new[k].volume = asked[i].volume
      BY <2>3, <3>1 DEF MountFor
    <3>3. \A j \in DOMAIN new : new[j].path = Cleaned(pod.mounts[i].path) => j = k
      BY <2>7, <3>2
    <3>4. ASSUME NEW v \in pod'.volumes, v.name = new[k].volume
          PROVE  /\ v.cache = pod.mounts[i].cache
                 /\ v.kind = IF UsesCSIVolume(pod.mounts[i].cache) THEN "csi" ELSE "pvc"
      <4>1. v = VolumeFor(asked[i])
        BY <2>1, <2>2, <3>2, <3>4, VolumesStayUnique
      <4> QED
        BY <2>3, <4>1 DEF VolumeFor
    <3> HIDE DEF new
    <3>5. /\ \A v \in pod'.volumes : v.name = new[k].volume =>
               /\ v.cache = pod.mounts[i].cache
               /\ v.kind = IF UsesCSIVolume(pod.mounts[i].cache) THEN "csi" ELSE "pvc"
      BY <3>4
    <3> QED
      BY <3>1, <3>2, <3>3, <3>5 DEF Shows, new
  <2> QED
    BY <2>4, <2>8
<1>2. Inv /\ [Next]_vars => [Injects => Shown /\ WaitedFor]_vars
  BY <1>1
<1> QED
  BY Invariance, <1>2, PTL DEF Spec, MountsWhatIsAsked
=============================================================================
