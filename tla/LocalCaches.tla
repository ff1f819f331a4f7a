----------------------------- MODULE LocalCaches -----------------------------
(***************************************************************************)
(* Local CSI mode seen from the operator: one ModelCache without a         *)
(* StorageClass, the controller that keeps one ModelCacheNode for every    *)
(* node the nodeSelector matches and sums up their phases, and the         *)
(* node-agents, of which only what the operator can see is left: an agent  *)
(* adds its finalizer, makes the cache Ready, evicts it, and removes it    *)
(* when the object is deleted.  NodeCache has an agent in full.            *)
(*                                                                         *)
(* A ModelCache may be deleted and created again under its name; metadata. *)
(* uid tells the two apart, and here it is their number.  The              *)
(* ModelCacheNode of a node has one name for all of them.                  *)
(***************************************************************************)
EXTENDS Integers, FiniteSets

CONSTANTS
  Nodes,       \* nodes of the cluster
  MaxLives,    \* how many ModelCaches of the name are created in turn
  MaxChanges,  \* how often labels change, nodes go, ModelCacheNodes are deleted by
               \* users and caches evicted
  MaxFaults    \* how many calls may fail and how often the operator may crash

ASSUME ConstantsAssumption ==
  /\ IsFiniteSet(Nodes)
  /\ MaxLives \in Nat /\ MaxChanges \in Nat /\ MaxFaults \in Nat

VARIABLES
  \* API server and nodes
  mc,         \* the ModelCache object
  mcn,        \* mcn[n]: the ModelCacheNode object of node n
  selected,   \* nodes whose labels match the nodeSelector
  alive,      \* nodes on which an agent runs
  model,      \* model[n]: uid of the ModelCache whose model n holds, 0 for none
  \* informer caches of the operator
  seen,       \* its copy of mc
  fresh,      \* it is the latest version
  seenNodes,  \* seenNodes[n]: its copy of mcn[n]
  \* the controller's worker
  queued,     \* a request for the ModelCache is in the workqueue
  pc,         \* the step the running reconcile is at
  held,       \* metadata.uid of the object the reconcile holds
  current,    \* that object is the latest version
  todo,       \* nodes whose ModelCacheNode is still to be ensured or deleted
  listed,     \* the nodes the reconcile has listed
  found,      \* those whose ModelCacheNode it has found Ready
  \* history, read by no guard
  orphaned,   \* nodes whose ModelCacheNode has outlived its ModelCache
  misled,     \* nodes filled from an outdated copy of the ModelCache
  changes,    \* changes so far
  faults      \* faults so far

nodeVars   == <<mcn, selected, alive, model>>
viewVars   == <<seen, fresh, seenNodes>>
workerVars == <<pc, held, current, todo, listed, found>>
boundVars  == <<changes, faults>>
historyVars == <<orphaned, misled>>
vars == <<mc, nodeVars, viewVars, queued, workerVars, historyVars, boundVars>>

-----------------------------------------------------------------------------
(***************************************************************************)
(* Data                                                                    *)
(***************************************************************************)

Uids == 0..MaxLives

\* status.phase and the counts of setNodeModelCacheStatusSummary.  The agents
\* write no phase Downloading or Failed, so those counts are always 0.
Phases == {"Unset", "Pending", "Downloading", "Ready", "Failed"}
Status == [phase: Phases, ready: Nat, total: Nat]
NoStatus == [phase |-> "Unset", ready |-> 0, total |-> 0]

ModelCache ==
  [exists: BOOLEAN, uid: Uids, deleting: BOOLEAN, finalizer: BOOLEAN,
   status: Status]

\* No object; uid is that of the last one, 0 before the first.
NoModelCache(uid) ==
  [exists |-> FALSE, uid |-> uid, deleting |-> FALSE, finalizer |-> FALSE,
   status |-> NoStatus]

\* uid is spec.modelCacheRef.uid and the UID label, 0 when there is no object;
\* ready says whether status.phase is Ready.
ModelCacheNode ==
  [uid: Uids, finalizer: BOOLEAN, deleting: BOOLEAN, ready: BOOLEAN]

NewModelCacheNode(uid) ==
  [uid |-> uid, finalizer |-> FALSE, deleting |-> FALSE, ready |-> FALSE]
NoModelCacheNode == NewModelCacheNode(0)

\* updateModelCacheStatusFromNodes, and Failed when no node matches.
Summary(nodes, ready) ==
  [phase |-> CASE nodes = {} -> "Failed"
               [] nodes # {} /\ ready = nodes -> "Ready"
               [] ready # {} /\ ready # nodes -> "Downloading"
               [] OTHER -> "Pending",
   ready |-> Cardinality(ready), total |-> Cardinality(nodes)]

Steps == {"idle", "addFinalizer", "list", "ensure", "update", "delete", "release"}

Init ==
  /\ mc = NoModelCache(0)
  /\ mcn = [n \in Nodes |-> NoModelCacheNode]
  /\ selected \in SUBSET Nodes
  /\ alive = Nodes
  /\ model = [n \in Nodes |-> 0]
  /\ seen = NoModelCache(0)
  /\ fresh = TRUE
  /\ seenNodes = mcn
  /\ queued = FALSE
  /\ pc = "idle"
  /\ held = 0
  /\ current = FALSE
  /\ todo = {} /\ listed = {} /\ found = {}
  /\ orphaned = {} /\ misled = {}
  /\ changes = 0
  /\ faults = 0

-----------------------------------------------------------------------------
(***************************************************************************)
(* Users and nodes.                                                        *)
(***************************************************************************)

CreateModelCache ==
  /\ ~mc.exists /\ mc.uid < MaxLives
  /\ mc' = [NoModelCache(mc.uid + 1) EXCEPT !.exists = TRUE]
  /\ fresh' = FALSE /\ current' = FALSE
  /\ UNCHANGED <<nodeVars, seen, seenNodes, queued, pc, held, todo,
                 listed, found, historyVars, boundVars>>

DeleteModelCache ==
  /\ mc.exists /\ ~mc.deleting
  /\ mc' = IF mc.finalizer THEN [mc EXCEPT !.deleting = TRUE]
                           ELSE NoModelCache(mc.uid)
  /\ fresh' = FALSE /\ current' = FALSE
  /\ UNCHANGED <<nodeVars, seen, seenNodes, queued, pc, held, todo,
                 listed, found, historyVars, boundVars>>

Change ==
  /\ changes < MaxChanges
  /\ changes' = changes + 1
  /\ UNCHANGED <<mc, viewVars, queued, workerVars, historyVars, faults>>

Relabel(n) ==
  /\ n \in alive
  /\ selected' = IF n \in selected THEN selected \ {n} ELSE selected \cup {n}
  /\ Change /\ UNCHANGED <<mcn, alive, model>>

\* The node leaves the cluster, and its agent with it.
LoseNode(n) ==
  /\ n \in alive
  /\ alive' = alive \ {n}
  /\ selected' = selected \ {n}
  /\ Change /\ UNCHANGED <<mcn, model>>

\* A deletion of the object: at once without a finalizer of an agent.
Deleted(object) ==
  IF object.finalizer THEN [object EXCEPT !.deleting = TRUE] ELSE NoModelCacheNode

\* A user deletes a ModelCacheNode.
DropModelCacheNode(n) ==
  /\ mcn[n].uid # 0 /\ ~mcn[n].deleting
  /\ mcn' = [mcn EXCEPT ![n] = Deleted(@)]
  /\ Change /\ UNCHANGED <<selected, alive, model>>

-----------------------------------------------------------------------------
(***************************************************************************)
(* The node-agents.  An agent downloads the model of the ModelCache that   *)
(* has the name in its informer's copy, whatever uid the ModelCacheNode    *)
(* names, and that copy may be of an earlier one.                          *)
(***************************************************************************)

AgentStep(n) ==
  /\ n \in alive
  /\ UNCHANGED <<mc, selected, alive, viewVars, queued, workerVars, orphaned,
                 boundVars>>

OwnCache(n) ==
  /\ mcn[n].uid # 0 /\ ~mcn[n].finalizer
  /\ mcn' = [mcn EXCEPT ![n].finalizer = TRUE]
  /\ AgentStep(n) /\ UNCHANGED <<model, misled>>

Settled(n) == mcn[n].finalizer /\ ~mcn[n].deleting

FillCache(n) ==
  /\ Settled(n) /\ ~mcn[n].ready
  /\ mcn' = [mcn EXCEPT ![n].ready = TRUE]
  /\ \E uid \in 1..mc.uid :
       /\ model' = [model EXCEPT ![n] = uid]
       /\ misled' = IF uid = mc.uid THEN misled \ {n} ELSE misled \cup {n}
  /\ AgentStep(n)

EvictCache(n) ==
  /\ n \in alive
  /\ Settled(n) /\ mcn[n].ready
  /\ mcn' = [mcn EXCEPT ![n].ready = FALSE]
  /\ model' = [model EXCEPT ![n] = 0]
  /\ Change /\ UNCHANGED <<selected, alive>>

RemoveCache(n) ==
  /\ mcn[n].deleting
  /\ mcn' = [mcn EXCEPT ![n] = NoModelCacheNode]
  /\ model' = [model EXCEPT ![n] = 0]
  /\ AgentStep(n) /\ UNCHANGED misled

-----------------------------------------------------------------------------
(***************************************************************************)
(* Informers.  A change of the ModelCache or of a ModelCacheNode enqueues  *)
(* the ModelCache.  Nodes are listed and not watched: a change of labels   *)
(* enqueues nothing.  Their informer needs no copy of its own here: a list *)
(* that lags is a list made before the change.                             *)
(***************************************************************************)

Delivered == UNCHANGED <<mc, nodeVars, workerVars, historyVars, boundVars>>

DeliverModelCache ==
  /\ ~fresh
  /\ seen' = mc /\ fresh' = TRUE
  /\ queued' = TRUE
  /\ Delivered /\ UNCHANGED seenNodes

DeliverModelCacheNode(n) ==
  /\ seenNodes[n] # mcn[n]
  /\ seenNodes' = [seenNodes EXCEPT ![n] = mcn[n]]
  /\ queued' = TRUE
  /\ Delivered /\ UNCHANGED <<seen, fresh>>

\* The periodic resync, or an event of a Pod that uses the model.
Resync ==
  /\ seen.exists /\ ~queued
  /\ queued' = TRUE
  /\ Delivered /\ UNCHANGED viewVars

-----------------------------------------------------------------------------
(***************************************************************************)
(* The controller's Reconcile.                                             *)
(***************************************************************************)

Working ==
  UNCHANGED <<selected, alive, model, seen, seenNodes, misled, boundVars>>

\* A reconcile returns; again says whether the request is queued once more.
Return(again) ==
  /\ pc' = "idle"
  /\ held' = 0
  /\ current' = FALSE
  /\ todo' = {} /\ listed' = {} /\ found' = {}
  /\ queued' = (queued \/ again)

\* listModelCacheNodesForModelCache: by the UID label, in the informer's cache.
Owned(uid) == {n \in Nodes : seenNodes[n].uid = uid}

\* Variant: works without its finalizer.
ReconcileUnprotected ==
  /\ pc = "idle" /\ queued
  /\ queued' = FALSE
  /\ seen.exists /\ ~seen.deleting
  /\ pc' = "list"
  /\ held' = seen.uid
  /\ current' = fresh
  /\ Working /\ UNCHANGED <<todo, listed, found, mc, mcn, fresh, orphaned>>

\* Reconcile up to its first call, and the list of reconcileModelCacheDelete.
\* The finalizer is the only one of a ModelCache, so one in deletion has it.
Reconcile ==
  /\ pc = "idle" /\ queued
  /\ queued' = FALSE
  /\ \/ /\ ~seen.exists
        /\ UNCHANGED workerVars
     \/ /\ seen.exists /\ seen.deleting
        /\ pc' = IF Owned(seen.uid) = {} THEN "release" ELSE "delete"
        /\ todo' = {n \in Owned(seen.uid) : ~seenNodes[n].deleting}
        /\ held' = seen.uid
        /\ UNCHANGED <<current, listed, found>>
     \/ /\ seen.exists /\ ~seen.deleting
        /\ pc' = IF seen.finalizer THEN "list" ELSE "addFinalizer"
        /\ held' = seen.uid
        /\ current' = fresh
        /\ UNCHANGED <<todo, listed, found>>
  /\ Working /\ UNCHANGED <<mc, mcn, fresh, orphaned>>

\* Variant: keeps the object in hand instead of the one the API server answers.
AddFinalizerUnanswered ==
  /\ pc = "addFinalizer" /\ mc.exists
  /\ mc' = [mc EXCEPT !.finalizer = TRUE]
  /\ fresh' = FALSE /\ current' = TRUE
  /\ pc' = "list"
  /\ Working
  /\ UNCHANGED <<todo, listed, found, queued, held, mcn, orphaned>>

\* Variant: sets the finalizer in memory only.
AddFinalizerUnpatched ==
  /\ pc = "addFinalizer"
  /\ pc' = "list"
  /\ Working
  /\ UNCHANGED <<todo, listed, found, queued, held, current, mc, fresh, mcn,
                 orphaned>>

\* The patch names no uid: it is for the object that has the name now, and the
\* answer replaces the object in hand.
AddFinalizer ==
  /\ pc = "addFinalizer"
  /\ \/ /\ mc.exists
        /\ mc' = [mc EXCEPT !.finalizer = TRUE]
        /\ fresh' = FALSE
        /\ pc' = "list"
        /\ held' = mc.uid
        /\ current' = TRUE
        /\ UNCHANGED <<todo, listed, found, queued>>
     \/ /\ ~mc.exists
        /\ Return(TRUE)
        /\ UNCHANGED <<mc, fresh>>
  /\ Working /\ UNCHANGED <<mcn, orphaned>>

\* Variant: forgets how many nodes match.
ListNodesUncounted ==
  /\ pc = "list"
  /\ todo' = selected
  /\ pc' = IF selected = {} THEN "update" ELSE "ensure"
  /\ Working
  /\ UNCHANGED <<mc, mcn, fresh, queued, held, current, listed, found, orphaned>>

ListNodes ==
  /\ pc = "list"
  /\ listed' = selected
  /\ todo' = selected
  /\ pc' = IF selected = {} THEN "update" ELSE "ensure"
  /\ Working /\ UNCHANGED <<mc, mcn, fresh, queued, held, current, found, orphaned>>

\* One ModelCacheNode has been ensured, and its copy is what is counted.
Ensured(n, copy) ==
  /\ todo' = todo \ {n}
  /\ found' = IF copy.ready THEN found \cup {n} ELSE found
  /\ pc' = IF todo' = {} THEN "update" ELSE "ensure"
  /\ UNCHANGED <<queued, held, current, listed>>

\* Variant: takes any ModelCacheNode of the name as it is.
EnsureAnyModelCacheNode(n) ==
  /\ pc = "ensure" /\ n \in todo
  /\ mcn' = IF mcn[n].uid = 0 THEN [mcn EXCEPT ![n] = NewModelCacheNode(held)]
                              ELSE mcn
  /\ Ensured(n, seenNodes[n])
  /\ Working /\ UNCHANGED <<mc, fresh, orphaned>>

\* ensureModelCacheNode: create it, take it as it is, or make it over to the
\* ModelCache in hand, its status kept.
EnsureModelCacheNode(n) ==
  /\ pc = "ensure" /\ n \in todo
  /\ LET copy == seenNodes[n] IN
       \/ /\ copy.uid = 0 /\ mcn[n].uid = 0
          /\ mcn' = [mcn EXCEPT ![n] = NewModelCacheNode(held)]
          /\ Ensured(n, copy)
       \/ /\ copy.uid = held
          /\ Ensured(n, copy)
          /\ UNCHANGED mcn
       \/ /\ copy.uid \notin {0, held} /\ copy = mcn[n]
          /\ mcn' = [mcn EXCEPT ![n].uid = held]
          /\ Ensured(n, copy)
       \/ /\ copy.uid # held /\ copy # mcn[n] /\ (copy.uid = 0 => mcn[n].uid # 0)
          /\ Return(TRUE)
          /\ UNCHANGED mcn
  /\ Working /\ UNCHANGED <<mc, fresh, orphaned>>

\* Variant: leaves a status alone that says Ready.
UpdateStatusUnlessReady ==
  /\ pc = "update"
  /\ mc' = IF current /\ mc.status.phase # "Ready"
           THEN [mc EXCEPT !.status = Summary(listed, found)] ELSE mc
  /\ fresh' = (fresh /\ mc' = mc)
  /\ Return(~current)
  /\ Working /\ UNCHANGED <<mcn, orphaned>>

\* status.Update of the object in hand: refused unless it is the latest
\* version, and no new version when nothing changes.
UpdateStatus ==
  /\ pc = "update"
  /\ \/ /\ current
        /\ mc' = [mc EXCEPT !.status = Summary(listed, found)]
        /\ fresh' = (fresh /\ mc' = mc)
        /\ Return(FALSE)
     \/ /\ ~current
        /\ Return(TRUE)
        /\ UNCHANGED <<mc, fresh>>
  /\ Working /\ UNCHANGED <<mcn, orphaned>>

\* Variant: waits for the ModelCacheNodes without deleting them.
AwaitModelCacheNode(n) ==
  /\ pc = "delete" /\ n \in todo
  /\ todo' = todo \ {n}
  /\ Working
  /\ UNCHANGED <<mc, mcn, fresh, queued, pc, held, current, listed, found, orphaned>>

\* The loop of reconcileModelCacheDelete; one that is gone is no error.
DeleteModelCacheNode(n) ==
  /\ pc = "delete" /\ n \in todo
  /\ mcn' = [mcn EXCEPT ![n] = IF @.uid = 0 THEN @ ELSE Deleted(@)]
  /\ todo' = todo \ {n}
  /\ Working
  /\ UNCHANGED <<mc, fresh, queued, pc, held, current, listed, found, orphaned>>

\* RequeueAfter: 2 * time.Second.
AwaitDeletion ==
  /\ pc = "delete" /\ todo = {}
  /\ Return(TRUE)
  /\ Working /\ UNCHANGED <<mc, mcn, fresh, orphaned>>

\* RemoveFinalizer and Patch, by the name again.
ReleaseModelCache ==
  /\ pc = "release"
  /\ mc' = IF mc.deleting THEN NoModelCache(mc.uid)
                          ELSE [mc EXCEPT !.finalizer = FALSE]
  /\ fresh' = (fresh /\ mc' = mc)
  /\ orphaned' = IF mc.deleting
                 THEN orphaned \cup {n \in Nodes : mcn[n].uid = mc.uid}
                 ELSE orphaned
  /\ Return(~mc.exists)
  /\ Working /\ UNCHANGED mcn

Fault == faults < MaxFaults /\ faults' = faults + 1

ReconcileError ==
  /\ Fault
  /\ pc # "idle"
  /\ Return(TRUE)
  /\ UNCHANGED <<mc, nodeVars, viewVars, historyVars, changes>>

\* The operator starts again with informers that have synced.
OperatorCrash ==
  /\ Fault
  /\ pc' = "idle" /\ held' = 0 /\ current' = FALSE
  /\ todo' = {} /\ listed' = {} /\ found' = {}
  /\ queued' = mc.exists
  /\ seen' = mc /\ fresh' = TRUE
  /\ seenNodes' = mcn
  /\ UNCHANGED <<mc, nodeVars, historyVars, changes>>

-----------------------------------------------------------------------------
ControllerStep ==
  \/ Reconcile \/ AddFinalizer \/ ListNodes
  \/ \E n \in Nodes : EnsureModelCacheNode(n) \/ DeleteModelCacheNode(n)
  \/ UpdateStatus \/ AwaitDeletion \/ ReleaseModelCache

Next ==
  \/ CreateModelCache \/ DeleteModelCache
  \/ DeliverModelCache \/ Resync
  \/ ControllerStep
  \/ ReconcileError \/ OperatorCrash
  \/ \E n \in Nodes :
       \/ Relabel(n) \/ LoseNode(n) \/ DropModelCacheNode(n)
       \/ OwnCache(n) \/ FillCache(n) \/ EvictCache(n) \/ RemoveCache(n)
       \/ DeliverModelCacheNode(n)

Spec == Init /\ [][Next]_vars

\* Watches deliver, the resync comes round, the worker runs, and the agent of a
\* node that is there removes what is deleted.
Fairness ==
  /\ WF_vars(DeliverModelCache) /\ WF_vars(Resync) /\ WF_vars(ControllerStep)
  /\ \A n \in Nodes : /\ WF_vars(DeliverModelCacheNode(n))
                      /\ WF_vars(RemoveCache(n))

FairSpec == Spec /\ Fairness

-----------------------------------------------------------------------------
(***************************************************************************)
(* Properties                                                              *)
(***************************************************************************)

\* The type invariant of the whole state.
TypeOK ==
  /\ mc \in ModelCache
  /\ mcn \in [Nodes -> ModelCacheNode]
  /\ selected \subseteq Nodes
  /\ alive \subseteq Nodes
  /\ model \in [Nodes -> Uids]
  /\ seen \in ModelCache
  /\ fresh \in BOOLEAN
  /\ seenNodes \in [Nodes -> ModelCacheNode]
  /\ queued \in BOOLEAN
  /\ pc \in Steps
  /\ held \in Uids
  /\ current \in BOOLEAN
  /\ todo \subseteq Nodes
  /\ listed \subseteq Nodes
  /\ found \subseteq listed
  /\ orphaned \subseteq Nodes /\ misled \subseteq Nodes
  /\ changes \in 0..MaxChanges
  /\ faults \in 0..MaxFaults

\* A ModelCacheNode that is Ready holds the model of the ModelCache it names,
\* with two exceptions: it once outlived its ModelCache, and
\* ensureModelCacheNode made it over to the next one of the name with its status
\* and its files; or the agent filled it from an outdated copy, whose uid it does
\* not compare.
WrongModelOnlyByOrphan ==
  \A n \in Nodes :
    mcn[n].ready /\ model[n] # mcn[n].uid => n \in orphaned \cup misled

\* The ModelCacheNodes of a ModelCache are created and made over under its
\* finalizer: however stale the copy a reconcile began with, the ModelCache it
\* works for is still there (Reconcile, ensureModelCacheNode).
CreatedUnderFinalizer ==
  [][\A n \in Nodes :
       mcn'[n].uid \notin {0, mcn[n].uid} =>
         mc.exists /\ mc.finalizer /\ mc.uid = mcn'[n].uid]_vars

\* What the steps of the workers may count on.  With TypeOK it is inductive.
ObjectInv ==
  /\ IF mc.exists THEN mc.uid # 0 ELSE mc = NoModelCache(mc.uid)
  /\ mc.deleting => mc.finalizer

\* The informer's copy against the object: a copy with the finalizer that is not
\* in deletion is of the ModelCache that is there, and one in deletion is either
\* of it or of one whose successor has no finalizer yet.
ViewInv ==
  /\ seen.uid <= mc.uid
  /\ ~seen.exists => seen = NoModelCache(seen.uid)
  /\ seen.deleting => seen.finalizer
  /\ seen.finalizer /\ ~seen.deleting =>
       mc.exists /\ mc.finalizer /\ mc.uid = seen.uid
  /\ seen.deleting /\ mc.exists /\ mc.uid = seen.uid => mc.deleting
  /\ seen.deleting /\ mc.uid # seen.uid => ~mc.finalizer

ReconcileInv ==
  /\ pc \notin {"ensure", "update"} => found = {}
  /\ pc = "ensure" => todo \subseteq listed
  /\ pc = "addFinalizer" /\ seen.deleting => mc.exists /\ mc.uid = seen.uid
  /\ pc \in {"list", "ensure", "update"} =>
       mc.exists /\ mc.finalizer /\ held = mc.uid
  /\ pc \in {"delete", "release"} =>
       /\ held <= mc.uid
       /\ mc.uid = held /\ mc.exists => mc.deleting
       /\ mc.uid # held => ~mc.finalizer
       /\ seen.uid = held /\ seen.exists => seen.deleting

\* An object of a ModelCache stands under its finalizer, or has outlived it.
NodesInv ==
  \A n \in Nodes :
    /\ mcn[n].uid = 0 => ~mcn[n].finalizer /\ ~mcn[n].ready
    /\ mcn[n].uid # 0 /\ n \notin orphaned =>
         mc.exists /\ mc.finalizer /\ mc.uid = mcn[n].uid

IInv == TypeOK /\ ObjectInv /\ ViewInv /\ ReconcileInv /\ NodesInv
               /\ WrongModelOnlyByOrphan

\* What README.md says of a deletion: it deletes the ModelCacheNodes.
NothingOutlivesModelCache ==
  \A n \in Nodes : mcn[n].uid # 0 => mc.exists /\ mc.uid = mcn[n].uid

\* A deleted ModelCache goes, unless a node that has left the cluster holds one
\* of its ModelCacheNodes (reconcileModelCacheDelete).
DeletionCompletes ==
  mc.deleting ~> \/ ~mc.exists
                 \/ \E n \in Nodes \ alive : mcn[n].uid = mc.uid

Wanted(n) == mc.exists /\ ~mc.deleting /\ n \in selected

\* Every node that matches gets its ModelCacheNode, also one that began to match
\* without an event, or whose object a user has deleted.
MatchingNodeServed ==
  \A n \in Nodes : Wanted(n) ~> mcn[n].uid = mc.uid \/ ~Wanted(n)

\* Once nodes and ModelCacheNodes no longer change, the status of the ModelCache
\* says what they are, and goes on saying it (updateModelCacheStatusFromNodes).
Honest == mc.status = Summary(selected, {n \in selected : mcn[n].ready})

StatusSettles == <>[](mc.exists /\ ~mc.deleting => Honest)
=============================================================================
