------------------------------ MODULE NodeStore ------------------------------
(***************************************************************************)
(* The Vuex node store of si-web-app (store/modules/node.ts) together with *)
(* the backend it talks to.                                                *)
(*                                                                         *)
(* JavaScript object identity matters here: state.current is a reference   *)
(* that is normally one of the objects of state.nodes, but the `add`       *)
(* mutation replaces stored objects by new ones (unionBy keeps the new     *)
(* object), after which state.current still points at the old one.  The   *)
(* model keeps the id of the focused node in `current` and, while the      *)
(* focused object is no longer the stored one, that object in `detached`;  *)
(* detached = None means state.current IS the stored object with that id.  *)
(*                                                                         *)
(* The backend (GraphQL API and the entity store that relays entity        *)
(* updates, neither under src/) is reduced to what the store observes:     *)
(* srvStack[e] lists the snapshots of entity e in the order the backend    *)
(* made them, srvNodes the nodes it created, and `inbox` the entity        *)
(* updates relayed to the `add` action and not yet handled by it.          *)
(***************************************************************************)
EXTENDS Projection

CONSTANTS
    NodeIds,      \* node ids the backend can hand out
    EntityIds,    \* entity ids
    SnapIdsFor(_, _), \* ids the k-th snapshot of an entity can carry
    Positions,    \* diagram positions
    Origin,       \* the position {x: 0, y: 0} nodes are created with
    MaxEvents,    \* bound on the snapshots the backend makes
    MaxLoads,     \* bound on the `load` actions dispatched
    SrvVals       \* field values the backend's snapshots carry

NodeRec == [id: NodeIds, entityId: EntityIds, stack: Seq(Snap),
            display: Display, position: Positions]

ASSUME NodeStoreAssumption ==
    /\ \A e \in EntityIds, k \in 1..MaxEvents :
          SnapIdsFor(e, k) \subseteq SnapIds /\ SnapIdsFor(e, k) # {}
    /\ Origin \in Positions
    /\ MaxEvents \in Nat /\ MaxEvents <= MaxCount
    /\ MaxLoads \in Nat
    /\ SrvVals \subseteq Vals /\ SrvVals # {}
    /\ None \notin NodeIds \cup EntityIds \cup NodeRec

VARIABLES
    nodes,          \* state.nodes
    current,        \* id of the object state.current points at, or None
    detached,       \* that object when it is no longer the stored one
    mouseTrack,     \* state.mouseTrackSelection
    activeCS,       \* rootState.changeSet.current?.id, NoCS when unset
    srvNodes,       \* nodes the backend created, in creation order
    srvStack,       \* snapshots of each entity, in the order they were made
    csCount,        \* changeSetEntryCount last handed out per change set
    inbox,          \* entity updates relayed to node/add, not yet handled
    creating,       \* add actions suspended on the node-create mutation
    loads,          \* load actions suspended on graphqlQueryListAll
    pendingCreate,  \* create actions suspended on entity/create
    events,         \* snapshots made so far
    loadsSent       \* load actions dispatched so far

storeVars == <<nodes, current, detached, mouseTrack>>
envVars == <<activeCS, srvNodes, srvStack, csCount, inbox, creating, loads,
              pendingCreate, events, loadsSent>>
vars == <<storeVars, envVars>>

Item == [entityId: EntityIds, object: Snap]

-----------------------------------------------------------------------------
(* Lookups of the store.                                                   *)

Ids(s) == {s[p].id : p \in 1..Len(s)}

\* Position in state.nodes of the node with id n (ids are unique).
At(n) == CHOOSE p \in 1..Len(nodes) : nodes[p].id = n

\* p is where _.find(state.nodes, ["entityId", e]) stops.
FirstOfEntity(p, e) ==
    /\ nodes[p].entityId = e
    /\ \A q \in 1..(p - 1) : nodes[q].entityId # e

\* The object state.current points at.
CurObj == IF detached # None THEN detached ELSE nodes[At(current)]

\* state.current?.entityId
CurEntity == IF current = None THEN None ELSE CurObj.entityId

\* Mutant of WithDisplay: the display is left as it was.
WithDisplayKept(r) == r

\* A node record whose display is computed from its stack, as the `add`
\* mutation does for every payload node that has a stack.
WithDisplay(r) == [r EXCEPT !.display = Project(r.stack)]

(***************************************************************************)
(* The `add` mutation (node.ts 585-616) on payload P, whose displays are   *)
(* already computed: state.nodes = _.unionBy(P, state.nodes, "id").  The   *)
(* payload objects are always new objects, so when one of them replaces   *)
(* the object state.current points at, that object becomes detached.       *)
(***************************************************************************)
\* Mutant of NodesAfterAdd: the payload is concatenated, not merged by id.
NodesAfterAddConcat(P) == P \o nodes

NodesAfterAdd(P) == UnionById(P \o nodes)

DetachedAfterAdd(P) ==
    IF current # None /\ detached = None /\ current \in Ids(P)
    THEN nodes[At(current)] ELSE detached

\* Mutant of Refocus: state.current is set from the node's entityId.
RefocusByEntity(p) ==
    /\ nodes' = [nodes EXCEPT ![p] = WithDisplay(@)]
    /\ current' = nodes[p].entityId
    /\ detached' = None

\* The `current` mutation (617-645) on the stored node at position p: its
\* display is recomputed in place and state.current points at it.
Refocus(p) ==
    /\ nodes' = [nodes EXCEPT ![p] = WithDisplay(@)]
    /\ current' = nodes[p].id
    /\ detached' = None

\* _.set(node.display[key], path, v): a no-op when that entry is undefined.
SetVal(r, key, v) ==
    IF r.display[key] = None THEN r
    ELSE [r EXCEPT !.display[key].val = v]

\* The setFieldValue mutation without a nodeId: _.set on the active entry of
\* the object state.current points at, wherever that object lives.
UpdateCurObj(v) ==
    IF detached # None
    THEN /\ detached' = SetVal(detached, ActiveKey(detached.display, activeCS), v)
         /\ UNCHANGED nodes
    ELSE /\ nodes' = [nodes EXCEPT ![At(current)] =
                         SetVal(@, ActiveKey(@.display, activeCS), v)]
         /\ UNCHANGED detached

-----------------------------------------------------------------------------
Init ==
    /\ nodes = <<>>
    /\ current = None
    /\ detached = None
    /\ mouseTrack = None
    /\ activeCS \in ChangeSets \cup {NoCS}
    /\ srvNodes = <<>>
    /\ srvStack = [e \in EntityIds |-> <<>>]
    /\ csCount = [c \in ChangeSets |-> 0]
    /\ inbox = {}
    /\ creating = {}
    /\ loads = {}
    /\ pendingCreate = {}
    /\ events = 0
    /\ loadsSent = 0

-----------------------------------------------------------------------------
(* The backend.                                                            *)

\* A snapshot the backend makes: the next entry count of its change set.
NewSnap(e, c, del, sid, v) ==
    [id |-> sid, cs |-> c,
     count |-> IF c = NoCS THEN 0 ELSE csCount[c] + 1,
     deleted |-> del, val |-> v]

RecordSnap(e, s) ==
    /\ srvStack' = [srvStack EXCEPT ![e] = Append(@, s)]
    /\ csCount' = IF s.cs = NoCS THEN csCount
                  ELSE [csCount EXCEPT ![s.cs] = s.count]
    /\ events' = events + 1

(***************************************************************************)
(* A new version of entity e is saved or edited in a change set (by this   *)
(* or another client) and the entity store relays it to node/add.  A       *)
(* snapshot's id is one of SnapIdsFor(e, k) for the entity's k-th one.   *)
(***************************************************************************)
EntityUpdate(e, c, del, sid, v) ==
    LET s == NewSnap(e, c, del, sid, v) IN
    /\ events < MaxEvents
    /\ RecordSnap(e, s)
    /\ inbox' = inbox \cup {[entityId |-> e, object |-> s]}
    /\ UNCHANGED <<storeVars, activeCS, srvNodes, creating, loads,
                   pendingCreate, loadsSent>>

\* The user selects another change set, or none, in the change-set store.
SelectChangeSet(c) ==
    /\ activeCS' = c
    /\ UNCHANGED <<storeVars, srvNodes, srvStack, csCount, inbox, creating,
                   loads, pendingCreate, events, loadsSent>>

-----------------------------------------------------------------------------
(* The actions of the node store.                                          *)

(***************************************************************************)
(* Action `add` for one relayed item (848-863): if a node of the entity    *)
(* exists, a deep clone of the first one gets the stack                    *)
(* unionBy([item.object], stack, "id"), is committed with `add`, and       *)
(* becomes state.current when the focused node is of the same entity.      *)
(* Otherwise the action awaits the node-create mutation (864-890).         *)
(***************************************************************************)
\* Mutant of AddExisting: the new stack is committed without recomputing
\* the display.
AddExistingStaleDisplay(it, p) ==
    LET new == [nodes[p] EXCEPT
                  !.stack = UnionById(<<it.object>> \o nodes[p].stack)]
        refocus == CurEntity = it.entityId
    IN
    /\ nodes' = NodesAfterAdd(<<new>>)
    /\ current' = IF refocus THEN new.id ELSE current
    /\ detached' = IF refocus THEN None ELSE DetachedAfterAdd(<<new>>)
    /\ UNCHANGED creating

AddExisting(it, p) ==
    LET new == WithDisplay([nodes[p] EXCEPT
                  !.stack = UnionById(<<it.object>> \o nodes[p].stack)])
        refocus == CurEntity = it.entityId
    IN
    /\ nodes' = NodesAfterAdd(<<new>>)
    /\ current' = IF refocus THEN new.id ELSE current
    /\ detached' = IF refocus THEN None ELSE DetachedAfterAdd(<<new>>)
    /\ UNCHANGED creating

Add(it) ==
    /\ it \in inbox
    /\ inbox' = inbox \ {it}
    /\ \/ \E p \in 1..Len(nodes) :
             /\ FirstOfEntity(p, it.entityId)
             /\ AddExisting(it, p)
       \/ /\ ~\E p \in 1..Len(nodes) : FirstOfEntity(p, it.entityId)
          /\ creating' = creating \cup {it}
          /\ UNCHANGED <<nodes, current, detached>>
    /\ UNCHANGED <<mouseTrack, activeCS, srvNodes, srvStack, csCount, loads,
                   pendingCreate, events, loadsSent>>

(***************************************************************************)
(* The node-create mutation of `add` returns (891-898): the backend made   *)
(* node n; its stack is [item.object]; it is committed with `add` and      *)
(* becomes state.current when state.current?.entityId equals               *)
(* item.object.id.  The edges created afterwards live in the edge store.   *)
(***************************************************************************)
AddCreated(it, n) ==
    LET new == WithDisplay([id |-> n, entityId |-> it.entityId,
                            stack |-> <<it.object>>, display |-> EmptyDisplay,
                            position |-> Origin])
        refocus == CurEntity = it.object.id
    IN
    /\ it \in creating
    /\ n \notin Ids(srvNodes)
    /\ creating' = creating \ {it}
    /\ srvNodes' = Append(srvNodes, [id |-> n, entityId |-> it.entityId])
    /\ nodes' = NodesAfterAdd(<<new>>)
    /\ current' = IF refocus THEN n ELSE current
    /\ detached' = IF refocus THEN None ELSE DetachedAfterAdd(<<new>>)
    /\ UNCHANGED <<mouseTrack, activeCS, srvStack, csCount, inbox, loads,
                   pendingCreate, events, loadsSent>>

(***************************************************************************)
(* Action `load` (953-960): graphqlQueryListAll returns every node of the  *)
(* backend with its stack (request), and a non-empty result is committed  *)
(* with `add` when it arrives (response).                                  *)
(***************************************************************************)
ServerNodes ==
    [j \in 1..Len(srvNodes) |->
        WithDisplay([id |-> srvNodes[j].id,
                     entityId |-> srvNodes[j].entityId,
                     stack |-> srvStack[srvNodes[j].entityId],
                     display |-> EmptyDisplay, position |-> Origin])]

LoadRequest ==
    /\ loadsSent < MaxLoads
    /\ loads' = loads \cup {ServerNodes}
    /\ loadsSent' = loadsSent + 1
    /\ UNCHANGED <<storeVars, activeCS, srvNodes, srvStack, csCount, inbox,
                   creating, pendingCreate, events>>

LoadResponse(r) ==
    /\ r \in loads
    /\ loads' = loads \ {r}
    /\ \/ /\ Len(r) > 0
          /\ nodes' = NodesAfterAdd(r)
          /\ detached' = DetachedAfterAdd(r)
       \/ /\ Len(r) = 0
          /\ UNCHANGED <<nodes, detached>>
    /\ UNCHANGED <<current, mouseTrack, activeCS, srvNodes, srvStack, csCount,
                   inbox, creating, pendingCreate, events, loadsSent>>

\* Action `current` (776-778) with a node the `list` getter shows.
SelectNode(p) ==
    /\ p \in 1..Len(nodes)
    /\ Visible(nodes[p].stack, nodes[p].display, activeCS)
    /\ Refocus(p)
    /\ UNCHANGED <<mouseTrack, envVars>>

(***************************************************************************)
(* Action `setFieldValue` (722-735) and its mutation (655-674) without a   *)
(* nodeId: the `current` getter throws when nothing is focused; the value  *)
(* goes into the focused object's active display entry.                    *)
(***************************************************************************)
SetFieldValue(v) ==
    /\ current # None
    /\ UpdateCurObj(v)
    /\ UNCHANGED <<current, mouseTrack, envVars>>

(***************************************************************************)
(* Action `setFieldValueByNode` (736-758) and the mutation with a nodeId:  *)
(* it throws when no stored node has the id; otherwise the value goes     *)
(* into that stored node's active display entry.                           *)
(***************************************************************************)
SetFieldValueByNode(n, v) ==
    /\ n \in Ids(nodes)
    /\ nodes' = [nodes EXCEPT ![At(n)] =
                    SetVal(@, ActiveKey(@.display, activeCS), v)]
    /\ UNCHANGED <<current, detached, mouseTrack, envVars>>

(***************************************************************************)
(* Action and mutation `setNodePosition` (787-792, 675-683): the stored    *)
(* node with that id, and state.current when its id matches.               *)
(***************************************************************************)
SetNodePosition(n, pos) ==
    /\ nodes' = IF n \in Ids(nodes)
                THEN [nodes EXCEPT ![At(n)].position = pos] ELSE nodes
    /\ detached' = IF current = n /\ detached # None
                   THEN [detached EXCEPT !.position = pos] ELSE detached
    /\ UNCHANGED <<current, mouseTrack, envVars>>

(***************************************************************************)
(* Action `create` for an entity node (760-775): entity/create makes the   *)
(* entity's first snapshot, in the active change set, and the entity      *)
(* store relays it to node/add (request); when entity/create resolves,    *)
(* getNodeByEntityId finds the node, which becomes state.current and the  *)
(* mouse-track selection (response).  When no node of the entity exists   *)
(* yet, commit("current", undefined) throws before changing anything.     *)
(***************************************************************************)
CreateRequest(e, sid, v) ==
    LET s == NewSnap(e, activeCS, FALSE, sid, v) IN
    /\ events < MaxEvents
    /\ srvStack[e] = <<>>
    /\ e \notin pendingCreate
    /\ RecordSnap(e, s)
    /\ inbox' = inbox \cup {[entityId |-> e, object |-> s]}
    /\ pendingCreate' = pendingCreate \cup {e}
    /\ UNCHANGED <<storeVars, activeCS, srvNodes, creating, loads, loadsSent>>

CreateResponse(e) ==
    /\ e \in pendingCreate
    /\ pendingCreate' = pendingCreate \ {e}
    /\ \/ \E p \in 1..Len(nodes) :
             /\ FirstOfEntity(p, e)
             /\ Refocus(p)
             /\ mouseTrack' = nodes[p].id
       \/ /\ ~\E p \in 1..Len(nodes) : FirstOfEntity(p, e)
          /\ UNCHANGED storeVars
    /\ UNCHANGED <<activeCS, srvNodes, srvStack, csCount, inbox, creating,
                   loads, events, loadsSent>>

\* Action `unsetMouseTrackSelection` (784-786, 652-654).
UnsetMouseTrackSelection ==
    /\ mouseTrack' = None
    /\ UNCHANGED <<nodes, current, detached, envVars>>

-----------------------------------------------------------------------------
Next ==
    \/ \E e \in EntityIds : \E c \in ChangeSets \cup {NoCS}, del \in BOOLEAN,
          sid \in SnapIdsFor(e, Len(srvStack[e]) + 1), v \in SrvVals :
          EntityUpdate(e, c, del, sid, v)
    \/ \E c \in ChangeSets \cup {NoCS} : SelectChangeSet(c)
    \/ \E it \in inbox : Add(it)
    \/ \E it \in creating, n \in NodeIds : AddCreated(it, n)
    \/ LoadRequest
    \/ \E r \in loads : LoadResponse(r)
    \/ \E p \in 1..Len(nodes) : SelectNode(p)
    \/ \E v \in Vals : SetFieldValue(v)
    \/ \E n \in NodeIds, v \in Vals : SetFieldValueByNode(n, v)
    \/ \E n \in NodeIds, pos \in Positions : SetNodePosition(n, pos)
    \/ \E e \in EntityIds : \E sid \in SnapIdsFor(e, Len(srvStack[e]) + 1),
                                  v \in SrvVals :
          CreateRequest(e, sid, v)
    \/ \E e \in pendingCreate : CreateResponse(e)
    \/ UnsetMouseTrackSelection

Spec == Init /\ [][Next]_vars

-----------------------------------------------------------------------------
(* Properties.                                                             *)

\* The node objects the store holds: state.nodes and a detached focus.
Held == {nodes[p] : p \in 1..Len(nodes)} \cup
        (IF detached = None THEN {} ELSE {detached})

TypeOK ==
    /\ nodes \in Seq(NodeRec)
    /\ current \in NodeIds \cup {None}
    /\ detached \in NodeRec \cup {None}
    /\ mouseTrack \in NodeIds \cup {None}
    /\ activeCS \in ChangeSets \cup {NoCS}
    /\ srvNodes \in Seq([id: NodeIds, entityId: EntityIds])
    /\ srvStack \in [EntityIds -> Seq(Snap)]
    /\ csCount \in [ChangeSets -> 0..MaxCount]
    /\ inbox \subseteq Item
    /\ creating \subseteq Item
    /\ loads \subseteq Seq(NodeRec)
    /\ pendingCreate \subseteq EntityIds
    /\ events \in 0..MaxEvents
    /\ loadsSent \in 0..MaxLoads

\* Two display entries agree on everything but the edited field value.
SameEntry(a, b) ==
    \/ a = None /\ b = None
    \/ /\ a # None /\ b # None
       /\ a.id = b.id /\ a.cs = b.cs /\ a.count = b.count
       /\ a.deleted = b.deleted

(***************************************************************************)
(* The display projection of every node object the store holds is never   *)
(* stale: each slot holds the snapshot that the projection of the node's   *)
(* stack selects, up to field values edited in place by setFieldValue.     *)
(* Every code path that replaces a stack (the add mutation, the current    *)
(* mutation) must recompute node.display with it, and the in-place edits   *)
(* must never create or drop a slot.                                       *)
(***************************************************************************)
DisplayCoherent ==
    \A r \in Held : \A k \in Keys : SameEntry(r.display[k], Project(r.stack)[k])

(***************************************************************************)
(* state.nodes never holds two nodes with the same id, however loads,      *)
(* relayed updates and node creations interleave: the `add` mutation's     *)
(* unionBy must drop the replaced object.  getNodeById, setNodePosition    *)
(* and setFieldValue with a nodeId all act on the first match only.        *)
(***************************************************************************)
NodeIdsUnique ==
    \A p, q \in 1..Len(nodes) : nodes[p].id = nodes[q].id => p = q

(***************************************************************************)
(* At most one node per entity: getNodeByEntityId, the `add` action and    *)
(* `create` all take the first node whose entityId matches, so a second   *)
(* node of the same entity would never receive that entity's updates.     *)
(***************************************************************************)
OneNodePerEntity ==
    \A p, q \in 1..Len(nodes) : nodes[p].entityId = nodes[q].entityId => p = q

(***************************************************************************)
(* Once every update of an entity that the backend relayed has been        *)
(* handled by the `add` action, the display of each node of that entity   *)
(* is the projection of the entity's snapshots in the order they were     *)
(* made: the newest saved snapshot, and per change set the one of highest *)
(* entry count (spec 3 and 4.3: snapshots are appended, never removed,    *)
(* and the projection is recomputed from the whole stack).                 *)
(***************************************************************************)
Settled(e) == \A it \in inbox \cup creating : it.entityId # e

DisplayTracksBackend ==
    \A p \in 1..Len(nodes) :
        LET e == nodes[p].entityId IN
        Settled(e) =>
            \A k \in Keys : SameEntry(nodes[p].display[k], Project(srvStack[e])[k])

(***************************************************************************)
(* The object state.current points at shows what the stored node of the   *)
(* same id shows, so the form (getFieldValue, propertiesList) and the      *)
(* diagram (list) agree, and an edit made through setFieldValue lands in   *)
(* the stored node (spec 4.4).                                             *)
(***************************************************************************)
FocusMatchesStore ==
    current # None /\ current \in Ids(nodes) => CurObj = nodes[At(current)]

(***************************************************************************)
(* diffCurrent on a node never saved compares two snapshots of the active *)
(* change set: spec 4.3 says the start and end of the diff are the        *)
(* entries of least and greatest entry count "among entries sharing that  *)
(* change-set id".  The loop of node.ts 209-235 scans the whole stack.     *)
(***************************************************************************)
DiffWithinChangeSet ==
    current # None /\ activeCS \in ChangeSets =>
        LET r == CurObj
            pair == DiffPair(r.stack, r.display, activeCS)
        IN  r.display[activeCS] # None /\ r.display[Saved] = None =>
                pair[1].cs = activeCS /\ pair[2].cs = activeCS
=============================================================================
