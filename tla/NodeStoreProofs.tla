--------------------------- MODULE NodeStoreProofs ---------------------------
(***************************************************************************)
(* Proofs about the node store model (module NodeStore), for every value  *)
(* of its constants.                                                       *)
(***************************************************************************)
EXTENDS NodeStore, ProjectionProofs

(***************************************************************************)
(* TypeOK alone is not inductive.  Three facts strengthen it:              *)
(*   - the backend's bounds: an entity has no more snapshots, and a change *)
(*     set no higher entry count, than snapshots were made, so the next   *)
(*     snapshot's index and count stay in range while events < MaxEvents; *)
(*   - while state.current is the stored object (detached = None) a node   *)
(*     with its id is stored, so At(current) -- the lookup that the `add` *)
(*     mutation and setFieldValue make through state.current -- is a node.*)
(***************************************************************************)
Counts ==
    /\ \A e \in EntityIds : Len(srvStack[e]) <= events
    /\ \A c \in ChangeSets : csCount[c] <= events

FocusOK == current # None /\ detached = None => current \in Ids(nodes)

IInv == TypeOK /\ Counts /\ FocusOK

-----------------------------------------------------------------------------
(* Lemmas about the store's helpers.                                       *)

\* The stored node with a stored id is found by At.
LEMMA AtFound ==
    ASSUME nodes \in Seq(NodeRec), NEW n \in Ids(nodes)
    PROVE  /\ At(n) \in 1..Len(nodes)
           /\ nodes[At(n)].id = n
           /\ nodes[At(n)] \in NodeRec
<1>1. \E p \in 1..Len(nodes) : nodes[p].id = n
  BY DEF Ids
<1>2. At(n) \in 1..Len(nodes) /\ nodes[At(n)].id = n
  BY <1>1 DEF At
<1>3. QED
  BY <1>2, ElementOfSeq

\* Recomputing the display keeps a node a node, with the same id.
LEMMA WithDisplayType ==
    ASSUME NEW r \in NodeRec
    PROVE  /\ WithDisplay(r) \in NodeRec
           /\ WithDisplay(r).id = r.id
           /\ WithDisplay(r).entityId = r.entityId
<1>1. Project(r.stack) \in Display
  BY ProjectType DEF NodeRec
<1>2. QED
  BY <1>1 DEF WithDisplay, NodeRec

\* An in-place field edit keeps a node a node, with the same id.
LEMMA SetValType ==
    ASSUME NEW r \in NodeRec, NEW key \in Keys, NEW v \in Vals
    PROVE  /\ SetVal(r, key, v) \in NodeRec
           /\ SetVal(r, key, v).id = r.id
<1>1. CASE r.display[key] = None
  BY <1>1 DEF SetVal
<1>2. CASE r.display[key] # None
  <2>1. r.display[key] \in Snap
    BY <1>2 DEF NodeRec, Display
  <2>2. [r.display[key] EXCEPT !.val = v] \in Snap
    BY <2>1 DEF Snap
  <2>3. [r.display EXCEPT ![key] = [r.display[key] EXCEPT !.val = v]] \in Display
    BY <2>2 DEF NodeRec, Display
  <2>4. QED
    BY <1>2, <2>3 DEF SetVal, NodeRec
<1>3. QED
  BY <1>1, <1>2

\* The slot ActiveKey picks is a display key.
LEMMA ActiveKeyType ==
    ASSUME NEW d, NEW cs
    PROVE  ActiveKey(d, cs) \in Keys
BY DEF ActiveKey, Keys

\* Replacing a stored node by a node with the same id keeps the ids.
LEMMA ReplaceNode ==
    ASSUME nodes \in Seq(NodeRec), NEW p \in 1..Len(nodes),
           NEW r \in NodeRec, r.id = nodes[p].id
    PROVE  /\ [nodes EXCEPT ![p] = r] \in Seq(NodeRec)
           /\ Ids([nodes EXCEPT ![p] = r]) = Ids(nodes)
<1>1. [nodes EXCEPT ![p] = r] \in Seq(NodeRec) /\
      Len([nodes EXCEPT ![p] = r]) = Len(nodes)
  BY ExceptSeq
<1>2. QED
  BY <1>1 DEF Ids

(***************************************************************************)
(* The `add` mutation: unionBy(P, state.nodes, "id") with a non-empty      *)
(* payload is a sequence of nodes that starts with P[1] and keeps every   *)
(* stored id.                                                              *)
(***************************************************************************)
LEMMA NodesAfterAddProps ==
    ASSUME nodes \in Seq(NodeRec), NEW P \in Seq(NodeRec), Len(P) >= 1
    PROVE  /\ NodesAfterAdd(P) \in Seq(NodeRec)
           /\ NodesAfterAdd(P)[1] = P[1]
           /\ Len(NodesAfterAdd(P)) >= 1
           /\ Ids(nodes) \subseteq Ids(NodesAfterAdd(P))
<1> DEFINE s == P \o nodes
<1>1. s \in Seq(NodeRec) /\ Len(s) = Len(P) + Len(nodes) /\
      \A i \in 1..Len(P) + Len(nodes) :
         s[i] = IF i <= Len(P) THEN P[i] ELSE nodes[i - Len(P)]
  BY ConcatProperties
<1>2. Len(s) >= 1 /\ s[1] = P[1]
  BY <1>1
<1>3. UnionById(s) \in Seq(NodeRec)
  BY <1>1, <1>2, UnionByIdType
<1>4. Len(UnionById(s)) >= 1 /\ UnionById(s)[1] = P[1]
  BY <1>1, <1>2, UnionByIdHead
<1>5. ASSUME NEW q \in 1..Len(nodes)
      PROVE  nodes[q].id \in Ids(UnionById(s))
  <2>1. Len(P) + q \in 1..Len(s) /\ s[Len(P) + q] = nodes[q]
    BY <1>1
  <2>2. \E r \in 1..Len(UnionById(s)) :
           UnionById(s)[r].id = s[Len(P) + q].id
    BY <1>1, <1>2, <2>1, UnionByIdKeepsIds
  <2>3. QED
    BY <2>1, <2>2 DEF Ids
<1>6. QED
  BY <1>3, <1>4, <1>5 DEF NodesAfterAdd, Ids

-----------------------------------------------------------------------------
(* The pieces that several actions share.                                  *)

\* The backend records a snapshot (EntityUpdate, CreateRequest).
LEMMA RecordSnapStep ==
    ASSUME IInv, NEW e \in EntityIds, NEW c \in ChangeSets \cup {NoCS},
           NEW del \in BOOLEAN, NEW sid \in SnapIdsFor(e, Len(srvStack[e]) + 1),
           NEW v \in SrvVals, events < MaxEvents,
           RecordSnap(e, NewSnap(e, c, del, sid, v))
    PROVE  /\ NewSnap(e, c, del, sid, v) \in Snap
           /\ srvStack' \in [EntityIds -> Seq(Snap)]
           /\ csCount' \in [ChangeSets -> 0..MaxCount]
           /\ events' \in 0..MaxEvents
           /\ Counts'
<1> DEFINE sn == NewSnap(e, c, del, sid, v)
<1>1. Len(srvStack[e]) \in Nat /\ Len(srvStack[e]) <= events /\ events \in Nat
  BY DEF IInv, TypeOK, Counts
<1>2. sid \in SnapIds
  BY <1>1, NodeStoreAssumption
<1>3. c \in ChangeSets => csCount[c] + 1 \in 0..MaxCount /\ csCount[c] + 1 <= events + 1
  <2>1. SUFFICES ASSUME c \in ChangeSets
                 PROVE  csCount[c] + 1 \in 0..MaxCount /\ csCount[c] + 1 <= events + 1
    OBVIOUS
  <2>2. csCount[c] \in 0..MaxCount /\ csCount[c] <= events
    BY <2>1 DEF IInv, TypeOK, Counts
  <2>3. MaxEvents \in Nat /\ MaxEvents <= MaxCount /\ MaxCount \in Nat
    BY NodeStoreAssumption, ProjectionAssumption
  <2>4. QED
    BY <1>1, <2>2, <2>3
<1>4. sn \in Snap
  BY <1>2, <1>3, NodeStoreAssumption, ProjectionAssumption DEF NewSnap, Snap
<1>5. srvStack' \in [EntityIds -> Seq(Snap)] /\
      Len(srvStack'[e]) = Len(srvStack[e]) + 1 /\
      \A f \in EntityIds \ {e} : srvStack'[f] = srvStack[f]
  BY <1>4, AppendProperties DEF RecordSnap, IInv, TypeOK
<1>6. csCount' \in [ChangeSets -> 0..MaxCount] /\
      \A d \in ChangeSets : csCount'[d] <= events + 1
  BY <1>3, ProjectionAssumption DEF RecordSnap, NewSnap, IInv, TypeOK, Counts
<1>7. events' = events + 1 /\ events' \in 0..MaxEvents
  BY <1>1, NodeStoreAssumption DEF RecordSnap
<1>8. Counts'
  <2>1. ASSUME NEW f \in EntityIds PROVE Len(srvStack'[f]) <= events'
    <3>1. Len(srvStack[f]) \in Nat /\ Len(srvStack[f]) <= events
      BY DEF IInv, TypeOK, Counts
    <3>2. QED
      BY <1>1, <1>5, <1>7, <3>1
  <2>2. QED
    BY <1>6, <1>7, <2>1 DEF Counts
<1>9. QED
  BY <1>4, <1>5, <1>6, <1>7, <1>8

(***************************************************************************)
(* The `add` mutation on a non-empty payload P, with state.current moved   *)
(* to the first payload node (refocus) or left pointing where it did.      *)
(***************************************************************************)
LEMMA AddMutationStep ==
    ASSUME IInv, NEW P \in Seq(NodeRec), Len(P) >= 1, NEW refocus \in BOOLEAN,
           nodes' = NodesAfterAdd(P),
           current' = IF refocus THEN P[1].id ELSE current,
           detached' = IF refocus THEN None ELSE DetachedAfterAdd(P)
    PROVE  /\ nodes' \in Seq(NodeRec)
           /\ current' \in NodeIds \cup {None}
           /\ detached' \in NodeRec \cup {None}
           /\ FocusOK'
<1>1. /\ NodesAfterAdd(P) \in Seq(NodeRec)
      /\ NodesAfterAdd(P)[1] = P[1]
      /\ Len(NodesAfterAdd(P)) >= 1
      /\ Ids(nodes) \subseteq Ids(NodesAfterAdd(P))
  BY NodesAfterAddProps DEF IInv, TypeOK
<1>2. P[1] \in NodeRec
  BY ElementOfSeq
<1>3. P[1].id \in Ids(nodes')
  BY <1>1 DEF Ids
<1>4. DetachedAfterAdd(P) \in NodeRec \cup {None}
  <2>1. CASE current # None /\ detached = None /\ current \in Ids(P)
    <3>1. current \in Ids(nodes)
      BY <2>1 DEF IInv, FocusOK
    <3>2. QED
      BY <2>1, <3>1, AtFound DEF DetachedAfterAdd, IInv, TypeOK
  <2>2. CASE ~(current # None /\ detached = None /\ current \in Ids(P))
    BY <2>2 DEF DetachedAfterAdd, IInv, TypeOK
  <2>3. QED
    BY <2>1, <2>2
<1>5. ~refocus /\ current # None /\ DetachedAfterAdd(P) = None
        => current \in Ids(nodes')
  <2>1. SUFFICES ASSUME current # None, DetachedAfterAdd(P) = None
                 PROVE  current \in Ids(nodes')
    OBVIOUS
  <2>2. detached = None
    BY <2>1 DEF DetachedAfterAdd, NodeRec
  <2>3. QED
    BY <1>1, <2>1, <2>2 DEF IInv, FocusOK
<1>6. QED
  BY <1>1, <1>2, <1>3, <1>4, <1>5 DEF FocusOK, NodeRec, IInv, TypeOK

\* The `current` mutation on the stored node at position p.
LEMMA RefocusStep ==
    ASSUME IInv, NEW p \in 1..Len(nodes), Refocus(p)
    PROVE  /\ nodes' \in Seq(NodeRec)
           /\ current' \in NodeIds
           /\ detached' = None
           /\ FocusOK'
<1>1. nodes[p] \in NodeRec
  BY ElementOfSeq DEF IInv, TypeOK
<1>2. WithDisplay(nodes[p]) \in NodeRec /\ WithDisplay(nodes[p]).id = nodes[p].id
  BY <1>1, WithDisplayType
<1>3. nodes' \in Seq(NodeRec) /\ Ids(nodes') = Ids(nodes)
  BY <1>2, ReplaceNode DEF Refocus, IInv, TypeOK
<1>4. current' \in Ids(nodes)
  BY DEF Refocus, Ids
<1>5. QED
  BY <1>1, <1>3, <1>4 DEF Refocus, FocusOK, NodeRec

-----------------------------------------------------------------------------
(* One lemma per action of Next: it preserves IInv.                        *)

LEMMA InitIInv == Init => IInv
<1> SUFFICES ASSUME Init PROVE IInv
  OBVIOUS
<1>1. TypeOK
  BY ProjectionAssumption, NodeStoreAssumption, EmptySeq DEF Init, TypeOK
<1>2. Counts
  BY EmptySeq DEF Init, Counts
<1>3. FocusOK
  BY DEF Init, FocusOK
<1>4. QED
  BY <1>1, <1>2, <1>3 DEF IInv

LEMMA EntityUpdateIInv ==
    ASSUME IInv, NEW e \in EntityIds, NEW c \in ChangeSets \cup {NoCS},
           NEW del \in BOOLEAN, NEW sid \in SnapIdsFor(e, Len(srvStack[e]) + 1),
           NEW v \in SrvVals, EntityUpdate(e, c, del, sid, v)
    PROVE  IInv'
<1>1. /\ NewSnap(e, c, del, sid, v) \in Snap
      /\ srvStack' \in [EntityIds -> Seq(Snap)]
      /\ csCount' \in [ChangeSets -> 0..MaxCount]
      /\ events' \in 0..MaxEvents
      /\ Counts'
  BY RecordSnapStep DEF EntityUpdate
<1>2. inbox' \subseteq Item
  BY <1>1 DEF EntityUpdate, Item, IInv, TypeOK
<1>3. QED
  BY <1>1, <1>2 DEF EntityUpdate, IInv, TypeOK, FocusOK, storeVars

LEMMA SelectChangeSetIInv ==
    ASSUME IInv, NEW c \in ChangeSets \cup {NoCS}, SelectChangeSet(c)
    PROVE  IInv'
BY DEF SelectChangeSet, IInv, TypeOK, Counts, FocusOK, storeVars

LEMMA AddIInv ==
    ASSUME IInv, NEW it \in inbox, Add(it)
    PROVE  IInv'
<1>1. it \in Item
  BY DEF IInv, TypeOK
<1>2. inbox' \subseteq Item
  BY DEF Add, IInv, TypeOK
<1>3. CASE \E p \in 1..Len(nodes) : FirstOfEntity(p, it.entityId) /\ AddExisting(it, p)
  <2>1. PICK p \in 1..Len(nodes) : AddExisting(it, p)
    BY <1>3
  <2>2. nodes[p] \in NodeRec
    BY ElementOfSeq DEF IInv, TypeOK
  <2> DEFINE st == UnionById(<<it.object>> \o nodes[p].stack)
             new == WithDisplay([nodes[p] EXCEPT !.stack = st])
  <2>3. <<it.object>> \o nodes[p].stack \in Seq(Snap) /\
        Len(<<it.object>> \o nodes[p].stack) >= 1
    BY <1>1, <2>2 DEF Item, NodeRec
  <2>4. st \in Seq(Snap)
    BY <2>3, UnionByIdType
  <2>5. [nodes[p] EXCEPT !.stack = st] \in NodeRec
    BY <2>2, <2>4 DEF NodeRec
  <2>6. new \in NodeRec /\ <<new>> \in Seq(NodeRec) /\ Len(<<new>>) = 1
    BY <2>5, WithDisplayType
  <2>7. /\ nodes' \in Seq(NodeRec)
        /\ current' \in NodeIds \cup {None}
        /\ detached' \in NodeRec \cup {None}
        /\ FocusOK'
    <3> DEFINE refocus == CurEntity = it.entityId
    <3>1. <<new>>[1].id = new.id
      OBVIOUS
    <3>2. /\ nodes' = NodesAfterAdd(<<new>>)
          /\ current' = IF refocus THEN <<new>>[1].id ELSE current
          /\ detached' = IF refocus THEN None ELSE DetachedAfterAdd(<<new>>)
      BY <2>1, <3>1 DEF AddExisting
    <3>3. refocus \in BOOLEAN /\ Len(<<new>>) >= 1
      BY <2>6
    <3>4. QED
      BY <2>6, <3>2, <3>3, AddMutationStep, Zenon
  <2>8. QED
    BY <1>2, <2>1, <2>7 DEF Add, AddExisting, IInv, TypeOK, Counts
<1>4. CASE /\ ~\E p \in 1..Len(nodes) : FirstOfEntity(p, it.entityId)
           /\ creating' = creating \cup {it}
           /\ UNCHANGED <<nodes, current, detached>>
  BY <1>1, <1>2, <1>4 DEF Add, IInv, TypeOK, Counts, FocusOK
<1>5. QED
  BY <1>3, <1>4 DEF Add

LEMMA AddCreatedIInv ==
    ASSUME IInv, NEW it \in creating, NEW n \in NodeIds, AddCreated(it, n)
    PROVE  IInv'
<1>1. it \in Item
  BY DEF IInv, TypeOK
<1> DEFINE new == WithDisplay([id |-> n, entityId |-> it.entityId,
                               stack |-> <<it.object>>,
                               display |-> EmptyDisplay, position |-> Origin])
           refocus == CurEntity = it.object.id
<1>2. [id |-> n, entityId |-> it.entityId, stack |-> <<it.object>>,
       display |-> EmptyDisplay, position |-> Origin] \in NodeRec
  BY <1>1, NodeStoreAssumption DEF Item, NodeRec, EmptyDisplay, Display
<1>3. new \in NodeRec /\ new.id = n /\ <<new>> \in Seq(NodeRec) /\ Len(<<new>>) >= 1
  BY <1>2, WithDisplayType
<1>4. /\ nodes' = NodesAfterAdd(<<new>>)
      /\ current' = IF refocus THEN <<new>>[1].id ELSE current
      /\ detached' = IF refocus THEN None ELSE DetachedAfterAdd(<<new>>)
  BY <1>3 DEF AddCreated
<1>5. refocus \in BOOLEAN
  OBVIOUS
<1>6. /\ nodes' \in Seq(NodeRec)
      /\ current' \in NodeIds \cup {None}
      /\ detached' \in NodeRec \cup {None}
      /\ FocusOK'
  BY <1>3, <1>4, <1>5, AddMutationStep, Zenon
<1>7. srvNodes' \in Seq([id: NodeIds, entityId: EntityIds])
  BY <1>1, AppendProperties DEF AddCreated, Item, IInv, TypeOK
<1>8. creating' \subseteq Item
  BY DEF AddCreated, IInv, TypeOK
<1>9. QED
  BY <1>6, <1>7, <1>8 DEF AddCreated, IInv, TypeOK, Counts

\* The nodes graphqlQueryListAll returns are nodes.
LEMMA ServerNodesType ==
    ASSUME TypeOK
    PROVE  ServerNodes \in Seq(NodeRec)
<1>1. ASSUME NEW j \in 1..Len(srvNodes)
      PROVE  WithDisplay([id |-> srvNodes[j].id,
                          entityId |-> srvNodes[j].entityId,
                          stack |-> srvStack[srvNodes[j].entityId],
                          display |-> EmptyDisplay, position |-> Origin])
             \in NodeRec
  <2>1. srvNodes[j] \in [id: NodeIds, entityId: EntityIds]
    BY ElementOfSeq DEF TypeOK
  <2>2. [id |-> srvNodes[j].id, entityId |-> srvNodes[j].entityId,
         stack |-> srvStack[srvNodes[j].entityId],
         display |-> EmptyDisplay, position |-> Origin] \in NodeRec
    BY <2>1, NodeStoreAssumption DEF TypeOK, NodeRec, EmptyDisplay, Display
  <2>3. QED
    BY <2>2, WithDisplayType
<1>2. Len(srvNodes) \in Nat
  BY DEF TypeOK
<1>3. QED
  BY <1>1, <1>2 DEF ServerNodes

LEMMA LoadRequestIInv ==
    ASSUME IInv, LoadRequest
    PROVE  IInv'
<1>1. ServerNodes \in Seq(NodeRec)
  BY ServerNodesType DEF IInv
<1>2. QED
  BY <1>1, NodeStoreAssumption
     DEF LoadRequest, IInv, TypeOK, Counts, FocusOK, storeVars

LEMMA LoadResponseIInv ==
    ASSUME IInv, NEW r \in loads, LoadResponse(r)
    PROVE  IInv'
<1>1. r \in Seq(NodeRec)
  BY DEF IInv, TypeOK
<1>2. loads' \subseteq Seq(NodeRec)
  BY DEF LoadResponse, IInv, TypeOK
<1>3. CASE Len(r) > 0 /\ nodes' = NodesAfterAdd(r) /\ detached' = DetachedAfterAdd(r)
  <2>1. /\ current' = IF FALSE THEN r[1].id ELSE current
        /\ detached' = IF FALSE THEN None ELSE DetachedAfterAdd(r)
        /\ Len(r) >= 1
    BY <1>3 DEF LoadResponse
  <2>2. /\ nodes' \in Seq(NodeRec)
        /\ current' \in NodeIds \cup {None}
        /\ detached' \in NodeRec \cup {None}
        /\ FocusOK'
    BY <1>1, <1>3, <2>1, AddMutationStep, Zenon
  <2>3. QED
    BY <1>2, <2>2 DEF LoadResponse, IInv, TypeOK, Counts
<1>4. CASE Len(r) = 0 /\ UNCHANGED <<nodes, detached>>
  BY <1>2, <1>4 DEF LoadResponse, IInv, TypeOK, Counts, FocusOK
<1>5. QED
  BY <1>3, <1>4 DEF LoadResponse

LEMMA SelectNodeIInv ==
    ASSUME IInv, NEW p \in 1..Len(nodes), SelectNode(p)
    PROVE  IInv'
<1>1. /\ nodes' \in Seq(NodeRec)
      /\ current' \in NodeIds
      /\ detached' = None
      /\ FocusOK'
  BY RefocusStep DEF SelectNode
<1>2. QED
  BY <1>1 DEF SelectNode, IInv, TypeOK, Counts, envVars

LEMMA SetFieldValueIInv ==
    ASSUME IInv, NEW v \in Vals, SetFieldValue(v)
    PROVE  IInv'
<1> DEFINE F(r) == SetVal(r, ActiveKey(r.display, activeCS), v)
<1>1. ASSUME NEW r \in NodeRec PROVE F(r) \in NodeRec /\ F(r).id = r.id
  BY ActiveKeyType, SetValType
<1>2. CASE detached # None
  <2>1. detached' = F(detached) /\ UNCHANGED nodes
    BY <1>2 DEF SetFieldValue, UpdateCurObj
  <2>2. detached \in NodeRec
    BY <1>2 DEF IInv, TypeOK
  <2>3. detached' \in NodeRec /\ detached' # None
    BY <1>1, <2>1, <2>2, NodeStoreAssumption
  <2>4. QED
    BY <2>1, <2>3 DEF SetFieldValue, IInv, TypeOK, Counts, FocusOK, envVars
<1>3. CASE detached = None
  <2>1. current \in Ids(nodes)
    BY <1>3 DEF SetFieldValue, IInv, FocusOK
  <2>2. At(current) \in 1..Len(nodes) /\ nodes[At(current)] \in NodeRec
    BY <2>1, AtFound DEF IInv, TypeOK
  <2>3. nodes' = [nodes EXCEPT ![At(current)] = F(nodes[At(current)])] /\
        UNCHANGED detached
    BY <1>3, <2>2 DEF SetFieldValue, UpdateCurObj
  <2>4. nodes' \in Seq(NodeRec) /\ Ids(nodes') = Ids(nodes)
    BY <1>1, <2>2, <2>3, ReplaceNode DEF IInv, TypeOK
  <2>5. QED
    BY <2>3, <2>4 DEF SetFieldValue, IInv, TypeOK, Counts, FocusOK, envVars
<1>4. QED
  BY <1>2, <1>3

LEMMA SetFieldValueByNodeIInv ==
    ASSUME IInv, NEW n \in NodeIds, NEW v \in Vals, SetFieldValueByNode(n, v)
    PROVE  IInv'
<1>1. n \in Ids(nodes)
  BY DEF SetFieldValueByNode
<1>2. At(n) \in 1..Len(nodes) /\ nodes[At(n)] \in NodeRec
  BY <1>1, AtFound DEF IInv, TypeOK
<1> DEFINE r == nodes[At(n)]
           r2 == SetVal(r, ActiveKey(r.display, activeCS), v)
<1>3. r2 \in NodeRec /\ r2.id = r.id
  BY <1>2, ActiveKeyType, SetValType
<1>4. nodes' = [nodes EXCEPT ![At(n)] = r2]
  BY DEF SetFieldValueByNode
<1>5. nodes' \in Seq(NodeRec) /\ Ids(nodes') = Ids(nodes)
  BY <1>2, <1>3, <1>4, ReplaceNode DEF IInv, TypeOK
<1>6. QED
  BY <1>5 DEF SetFieldValueByNode, IInv, TypeOK, Counts, FocusOK, envVars

LEMMA SetNodePositionIInv ==
    ASSUME IInv, NEW n \in NodeIds, NEW pos \in Positions, SetNodePosition(n, pos)
    PROVE  IInv'
<1>1. nodes' \in Seq(NodeRec) /\ Ids(nodes') = Ids(nodes)
  <2>1. CASE n \in Ids(nodes)
    <3>1. At(n) \in 1..Len(nodes) /\ nodes[At(n)] \in NodeRec
      BY <2>1, AtFound DEF IInv, TypeOK
    <3>2. [nodes[At(n)] EXCEPT !.position = pos] \in NodeRec /\
          [nodes[At(n)] EXCEPT !.position = pos].id = nodes[At(n)].id
      BY <3>1 DEF NodeRec
    <3>3. nodes' = [nodes EXCEPT ![At(n)] = [nodes[At(n)] EXCEPT !.position = pos]]
      BY <2>1, <3>1 DEF SetNodePosition
    <3>4. QED
      BY <3>1, <3>2, <3>3, ReplaceNode DEF IInv, TypeOK
  <2>2. CASE n \notin Ids(nodes)
    BY <2>2 DEF SetNodePosition, IInv, TypeOK
  <2>3. QED
    BY <2>1, <2>2
<1>2. detached' \in NodeRec \cup {None} /\ (detached' = None <=> detached = None)
  <2>1. CASE current = n /\ detached # None
    <3>1. detached \in NodeRec
      BY <2>1 DEF IInv, TypeOK
    <3>2. [detached EXCEPT !.position = pos] \in NodeRec
      BY <3>1 DEF NodeRec
    <3>3. QED
      BY <2>1, <3>2, NodeStoreAssumption DEF SetNodePosition
  <2>2. CASE ~(current = n /\ detached # None)
    BY <2>2 DEF SetNodePosition, IInv, TypeOK
  <2>3. QED
    BY <2>1, <2>2
<1>3. QED
  BY <1>1, <1>2 DEF SetNodePosition, IInv, TypeOK, Counts, FocusOK, envVars

LEMMA CreateRequestIInv ==
    ASSUME IInv, NEW e \in EntityIds,
           NEW sid \in SnapIdsFor(e, Len(srvStack[e]) + 1), NEW v \in SrvVals,
           CreateRequest(e, sid, v)
    PROVE  IInv'
<1>1. activeCS \in ChangeSets \cup {NoCS}
  BY DEF IInv, TypeOK
<1>2. /\ NewSnap(e, activeCS, FALSE, sid, v) \in Snap
      /\ srvStack' \in [EntityIds -> Seq(Snap)]
      /\ csCount' \in [ChangeSets -> 0..MaxCount]
      /\ events' \in 0..MaxEvents
      /\ Counts'
  BY <1>1, RecordSnapStep DEF CreateRequest
<1>3. inbox' \subseteq Item /\ pendingCreate' \subseteq EntityIds
  <2>1. [entityId |-> e, object |-> NewSnap(e, activeCS, FALSE, sid, v)] \in Item
    BY <1>2 DEF Item
  <2>2. QED
    BY <2>1 DEF CreateRequest, IInv, TypeOK
<1>4. QED
  BY <1>2, <1>3 DEF CreateRequest, IInv, TypeOK, FocusOK, storeVars

LEMMA CreateResponseIInv ==
    ASSUME IInv, NEW e \in pendingCreate, CreateResponse(e)
    PROVE  IInv'
<1>1. pendingCreate' \subseteq EntityIds
  BY DEF CreateResponse, IInv, TypeOK
<1>2. CASE \E p \in 1..Len(nodes) : /\ FirstOfEntity(p, e)
                                    /\ Refocus(p)
                                    /\ mouseTrack' = nodes[p].id
  <2>1. PICK p \in 1..Len(nodes) : Refocus(p) /\ mouseTrack' = nodes[p].id
    BY <1>2
  <2>2. /\ nodes' \in Seq(NodeRec)
        /\ current' \in NodeIds
        /\ detached' = None
        /\ FocusOK'
    BY <2>1, RefocusStep
  <2>3. mouseTrack' \in NodeIds
    <3>1. nodes[p] \in NodeRec
      BY ElementOfSeq DEF IInv, TypeOK
    <3>2. QED
      BY <2>1, <3>1 DEF NodeRec
  <2>4. QED
    BY <1>1, <2>2, <2>3 DEF CreateResponse, IInv, TypeOK, Counts
<1>3. CASE UNCHANGED storeVars
  BY <1>1, <1>3 DEF CreateResponse, IInv, TypeOK, Counts, FocusOK, storeVars
<1>4. QED
  BY <1>2, <1>3 DEF CreateResponse

LEMMA UnsetMouseTrackSelectionIInv ==
    ASSUME IInv, UnsetMouseTrackSelection
    PROVE  IInv'
BY DEF UnsetMouseTrackSelection, IInv, TypeOK, Counts, FocusOK, envVars

-----------------------------------------------------------------------------
(* Every step of the store and its environment preserves IInv.             *)
LEMMA IInvInductive == IInv /\ [Next]_vars => IInv'
<1> SUFFICES ASSUME IInv, [Next]_vars PROVE IInv'
  OBVIOUS
<1>1. CASE \E e \in EntityIds : \E c \in ChangeSets \cup {NoCS}, del \in BOOLEAN,
              sid \in SnapIdsFor(e, Len(srvStack[e]) + 1), v \in SrvVals :
              EntityUpdate(e, c, del, sid, v)
  BY <1>1, EntityUpdateIInv
<1>2. CASE \E c \in ChangeSets \cup {NoCS} : SelectChangeSet(c)
  BY <1>2, SelectChangeSetIInv
<1>3. CASE \E it \in inbox : Add(it)
  BY <1>3, AddIInv
<1>4. CASE \E it \in creating, n \in NodeIds : AddCreated(it, n)
  BY <1>4, AddCreatedIInv
<1>5. CASE LoadRequest
  BY <1>5, LoadRequestIInv
<1>6. CASE \E r \in loads : LoadResponse(r)
  BY <1>6, LoadResponseIInv
<1>7. CASE \E p \in 1..Len(nodes) : SelectNode(p)
  BY <1>7, SelectNodeIInv
<1>8. CASE \E v \in Vals : SetFieldValue(v)
  BY <1>8, SetFieldValueIInv
<1>9. CASE \E n \in NodeIds, v \in Vals : SetFieldValueByNode(n, v)
  BY <1>9, SetFieldValueByNodeIInv
<1>10. CASE \E n \in NodeIds, pos \in Positions : SetNodePosition(n, pos)
  BY <1>10, SetNodePositionIInv
<1>11. CASE \E e \in EntityIds : \E sid \in SnapIdsFor(e, Len(srvStack[e]) + 1),
                                       v \in SrvVals :
               CreateRequest(e, sid, v)
  BY <1>11, CreateRequestIInv
<1>12. CASE \E e \in pendingCreate : CreateResponse(e)
  BY <1>12, CreateResponseIInv
<1>13. CASE UnsetMouseTrackSelection
  BY <1>13, UnsetMouseTrackSelectionIInv
<1>14. CASE UNCHANGED vars
  BY <1>14 DEF vars, storeVars, envVars, IInv, TypeOK, Counts, FocusOK
<1>15. QED
  BY <1>1, <1>2, <1>3, <1>4, <1>5, <1>6, <1>7, <1>8, <1>9, <1>10, <1>11,
     <1>12, <1>13, <1>14 DEF Next

(***************************************************************************)
(* Type correctness of the node store: whatever the order in which the    *)
(* backend's relayed updates, load responses, node creations, selections  *)
(* and in-place edits of node.ts happen, state.nodes is a sequence of node *)
(* records whose displays are display maps, state.current refers to a     *)
(* node id, and the bookkeeping of the backend stays within its bounds.   *)
(***************************************************************************)
THEOREM TypeCorrect == Spec => []TypeOK
<1>1. Init => IInv
  BY InitIInv
<1>2. IInv /\ [Next]_vars => IInv'
  BY IInvInductive
<1>3. IInv => TypeOK
  BY DEF IInv
<1>4. QED
  BY <1>1, <1>2, <1>3, PTL DEF Spec

(***************************************************************************)
(* While state.current is the stored object (no `add` has replaced it),   *)
(* a node with its id is in state.nodes: the lookups that setFieldValue   *)
(* and the `add` mutation make through state.current never miss.          *)
(***************************************************************************)
THEOREM FocusStored == Spec => []FocusOK
<1>1. IInv => FocusOK
  BY DEF IInv
<1>2. QED
  BY <1>1, InitIInv, IInvInductive, PTL DEF Spec

-----------------------------------------------------------------------------
(***************************************************************************)
(* DisplayCoherent.  It is not inductive on its own: a load response       *)
(* commits the nodes graphqlQueryListAll returned, so their displays must *)
(* be coherent while the response is in flight, and every node object must *)
(* be coherent, the stored ones and a detached state.current alike.        *)
(***************************************************************************)
Coherent(r) == \A k \in Keys : SameEntry(r.display[k], Project(r.stack)[k])

NodesCoherent == \A p \in 1..Len(nodes) : Coherent(nodes[p])

DetachedCoherent == detached # None => Coherent(detached)

LoadsCoherent == \A r \in loads : \A j \in 1..Len(r) : Coherent(r[j])

CInv == IInv /\ NodesCoherent /\ DetachedCoherent /\ LoadsCoherent

\* The per-object conjuncts of CInv give DisplayCoherent.
LEMMA CoherentHeld ==
    ASSUME NodesCoherent, DetachedCoherent
    PROVE  DisplayCoherent
BY DEF NodesCoherent, DetachedCoherent, DisplayCoherent, Held, Coherent

\* A display just computed from the stack is coherent.
LEMMA WithDisplayCoherent ==
    ASSUME NEW r \in NodeRec
    PROVE  Coherent(WithDisplay(r))
<1>1. WithDisplay(r).stack = r.stack /\
      WithDisplay(r).display = Project(r.stack)
  BY DEF WithDisplay, NodeRec
<1>2. QED
  BY <1>1 DEF Coherent, SameEntry

\* An in-place field edit keeps a node coherent: it changes only `val`.
LEMMA SetValCoherent ==
    ASSUME NEW r \in NodeRec, Coherent(r), NEW key \in Keys, NEW v \in Vals
    PROVE  Coherent(SetVal(r, key, v))
<1>1. CASE r.display[key] = None
  BY <1>1 DEF SetVal
<1>2. CASE r.display[key] # None
  <2> DEFINE old == r.display[key]
             d2 == [r.display EXCEPT ![key] = [old EXCEPT !.val = v]]
  <2>1. old \in Snap
    BY <1>2 DEF NodeRec, Display
  <2>2. SetVal(r, key, v) = [r EXCEPT !.display = d2]
    BY <1>2 DEF SetVal
  <2>3. ASSUME NEW k \in Keys
        PROVE  SameEntry(d2[k], Project(r.stack)[k])
    <3>1. CASE k = key
      <4>1. d2[k] = [old EXCEPT !.val = v]
        BY <3>1 DEF NodeRec, Display
      <4>2. SameEntry(old, Project(r.stack)[k])
        BY <3>1 DEF Coherent
      <4>3. [old EXCEPT !.val = v] \in Snap
        BY <2>1 DEF Snap
      <4>5. d2[k] # None
        BY <4>1, <4>3, ProjectionAssumption
      <4>4. QED
        BY <1>2, <2>1, <4>1, <4>2, <4>5 DEF SameEntry, Snap
    <3>2. CASE k # key
      BY <3>2 DEF Coherent, NodeRec, Display
    <3>3. QED
      BY <3>1, <3>2
  <2>4. QED
    BY <2>2, <2>3 DEF Coherent, NodeRec
<1>3. QED
  BY <1>1, <1>2

\* Moving a node on the diagram keeps it coherent.
LEMMA PositionCoherent ==
    ASSUME NEW r \in NodeRec, Coherent(r), NEW pos
    PROVE  Coherent([r EXCEPT !.position = pos])
BY DEF Coherent, NodeRec

\* The `add` mutation with a coherent payload keeps state.nodes coherent.
LEMMA AddCoherent ==
    ASSUME nodes \in Seq(NodeRec), NodesCoherent,
           NEW P \in Seq(NodeRec), Len(P) >= 1,
           \A j \in 1..Len(P) : Coherent(P[j])
    PROVE  \A q \in 1..Len(NodesAfterAdd(P)) : Coherent(NodesAfterAdd(P)[q])
<1> DEFINE s == P \o nodes
<1>1. s \in Seq(NodeRec) /\ Len(s) = Len(P) + Len(nodes) /\
      \A i \in 1..Len(P) + Len(nodes) :
         s[i] = IF i <= Len(P) THEN P[i] ELSE nodes[i - Len(P)]
  BY ConcatProperties
<1>2. \A i \in 1..Len(s) : Coherent(s[i])
  BY <1>1 DEF NodesCoherent
<1>3. \A q \in 1..Len(UnionById(s)) : \E i \in 1..Len(s) : UnionById(s)[q] = s[i]
  <2>1. Len(s) >= 1
    BY <1>1, LenProperties
  <2>2. QED
    BY <1>1, <2>1, UnionByIdType
<1>4. QED
  BY <1>2, <1>3 DEF NodesAfterAdd

\* Replacing a stored node by a coherent one keeps state.nodes coherent.
LEMMA ReplaceCoherent ==
    ASSUME nodes \in Seq(NodeRec), NodesCoherent, NEW p \in 1..Len(nodes),
           NEW r, Coherent(r)
    PROVE  \A q \in 1..Len([nodes EXCEPT ![p] = r]) :
              Coherent([nodes EXCEPT ![p] = r][q])
BY DEF NodesCoherent

\* The object the `add` mutation detaches was a coherent stored node.
LEMMA DetachedAfterAddCoherent ==
    ASSUME IInv, NodesCoherent, DetachedCoherent, NEW P
    PROVE  DetachedAfterAdd(P) # None => Coherent(DetachedAfterAdd(P))
<1>1. CASE current # None /\ detached = None /\ current \in Ids(P)
  <2>1. current \in Ids(nodes)
    BY <1>1 DEF IInv, FocusOK
  <2>2. At(current) \in 1..Len(nodes)
    BY <2>1, AtFound DEF IInv, TypeOK
  <2>3. QED
    BY <1>1, <2>2 DEF DetachedAfterAdd, NodesCoherent
<1>2. CASE ~(current # None /\ detached = None /\ current \in Ids(P))
  BY <1>2 DEF DetachedAfterAdd, DetachedCoherent
<1>3. QED
  BY <1>1, <1>2

\* The nodes a `load` request returns are coherent.
LEMMA ServerNodesCoherent ==
    ASSUME TypeOK
    PROVE  \A j \in 1..Len(ServerNodes) : Coherent(ServerNodes[j])
<1>1. ASSUME NEW j \in 1..Len(srvNodes)
      PROVE  Coherent(ServerNodes[j])
  <2> DEFINE rec == [id |-> srvNodes[j].id,
                     entityId |-> srvNodes[j].entityId,
                     stack |-> srvStack[srvNodes[j].entityId],
                     display |-> EmptyDisplay, position |-> Origin]
  <2>1. srvNodes[j] \in [id: NodeIds, entityId: EntityIds]
    BY ElementOfSeq DEF TypeOK
  <2>2. rec \in NodeRec
    BY <2>1, NodeStoreAssumption DEF TypeOK, NodeRec, EmptyDisplay, Display
  <2>3. ServerNodes[j] = WithDisplay(rec)
    BY DEF ServerNodes
  <2>4. QED
    BY <2>2, <2>3, WithDisplayCoherent
<1>2. Len(ServerNodes) = Len(srvNodes)
  <2>1. Len(srvNodes) \in Nat
    BY DEF TypeOK
  <2>2. QED
    BY <2>1 DEF ServerNodes
<1>3. QED
  BY <1>1, <1>2

\* The `add` mutation with a coherent payload keeps every object coherent.
LEMMA AddMutationCoherent ==
    ASSUME CInv, NEW P \in Seq(NodeRec), Len(P) >= 1,
           \A j \in 1..Len(P) : Coherent(P[j]), NEW refocus \in BOOLEAN,
           nodes' = NodesAfterAdd(P),
           detached' = IF refocus THEN None ELSE DetachedAfterAdd(P)
    PROVE  NodesCoherent' /\ DetachedCoherent'
<1>1. NodesCoherent'
  BY AddCoherent DEF CInv, IInv, TypeOK, NodesCoherent
<1>2. DetachedCoherent'
  BY DetachedAfterAddCoherent DEF CInv, DetachedCoherent
<1>3. QED
  BY <1>1, <1>2

\* The `current` mutation keeps every object coherent.
LEMMA RefocusCoherent ==
    ASSUME CInv, NEW p \in 1..Len(nodes), Refocus(p)
    PROVE  NodesCoherent' /\ DetachedCoherent'
<1>1. nodes[p] \in NodeRec
  BY ElementOfSeq DEF CInv, IInv, TypeOK
<1>2. Coherent(WithDisplay(nodes[p]))
  BY <1>1, WithDisplayCoherent
<1>3. nodes' = [nodes EXCEPT ![p] = WithDisplay(nodes[p])]
  BY DEF Refocus
<1>4. QED
  BY <1>2, <1>3, ReplaceCoherent DEF Refocus, CInv, IInv, TypeOK,
     NodesCoherent, DetachedCoherent

\* Steps that leave the node objects and the pending loads alone.
LEMMA UntouchedCoherent ==
    ASSUME CInv, UNCHANGED <<nodes, detached, loads>>
    PROVE  NodesCoherent' /\ DetachedCoherent' /\ LoadsCoherent'
BY DEF CInv, NodesCoherent, DetachedCoherent, LoadsCoherent

LEMMA AddCoh ==
    ASSUME CInv, NEW it \in inbox, Add(it)
    PROVE  NodesCoherent' /\ DetachedCoherent' /\ LoadsCoherent'
<1>1. it \in Item
  BY DEF CInv, IInv, TypeOK
<1>2. LoadsCoherent'
  BY DEF Add, CInv, LoadsCoherent
<1>3. CASE \E p \in 1..Len(nodes) : FirstOfEntity(p, it.entityId) /\ AddExisting(it, p)
  <2>1. PICK p \in 1..Len(nodes) : AddExisting(it, p)
    BY <1>3
  <2>2. nodes[p] \in NodeRec
    BY ElementOfSeq DEF CInv, IInv, TypeOK
  <2> DEFINE st == UnionById(<<it.object>> \o nodes[p].stack)
             rec == [nodes[p] EXCEPT !.stack = st]
             new == WithDisplay(rec)
             refocus == CurEntity = it.entityId
  <2>3. <<it.object>> \o nodes[p].stack \in Seq(Snap) /\
        Len(<<it.object>> \o nodes[p].stack) >= 1
    BY <1>1, <2>2 DEF Item, NodeRec
  <2>4. rec \in NodeRec
    BY <2>2, <2>3, UnionByIdType DEF NodeRec
  <2>5. new \in NodeRec /\ Coherent(new)
    BY <2>4, WithDisplayType, WithDisplayCoherent
  <2>6. <<new>> \in Seq(NodeRec) /\ Len(<<new>>) >= 1 /\
        \A j \in 1..Len(<<new>>) : Coherent(<<new>>[j])
    BY <2>5
  <2>7. /\ nodes' = NodesAfterAdd(<<new>>)
        /\ detached' = IF refocus THEN None ELSE DetachedAfterAdd(<<new>>)
        /\ refocus \in BOOLEAN
    BY <2>1 DEF AddExisting
  <2>8. QED
    BY <1>2, <2>6, <2>7, AddMutationCoherent, Zenon
<1>4. CASE UNCHANGED <<nodes, current, detached>>
  BY <1>2, <1>4 DEF CInv, NodesCoherent, DetachedCoherent
<1>5. QED
  BY <1>3, <1>4 DEF Add

LEMMA AddCreatedCoh ==
    ASSUME CInv, NEW it \in creating, NEW n \in NodeIds, AddCreated(it, n)
    PROVE  NodesCoherent' /\ DetachedCoherent' /\ LoadsCoherent'
<1>1. it \in Item
  BY DEF CInv, IInv, TypeOK
<1> DEFINE rec == [id |-> n, entityId |-> it.entityId,
                   stack |-> <<it.object>>,
                   display |-> EmptyDisplay, position |-> Origin]
           new == WithDisplay(rec)
           refocus == CurEntity = it.object.id
<1>2. rec \in NodeRec
  BY <1>1, NodeStoreAssumption DEF Item, NodeRec, EmptyDisplay, Display
<1>3. <<new>> \in Seq(NodeRec) /\ Len(<<new>>) >= 1 /\
      \A j \in 1..Len(<<new>>) : Coherent(<<new>>[j])
  BY <1>2, WithDisplayType, WithDisplayCoherent
<1>4. /\ nodes' = NodesAfterAdd(<<new>>)
      /\ detached' = IF refocus THEN None ELSE DetachedAfterAdd(<<new>>)
      /\ refocus \in BOOLEAN
  BY DEF AddCreated
<1>5. NodesCoherent' /\ DetachedCoherent'
  BY <1>3, <1>4, AddMutationCoherent, Zenon
<1>6. QED
  BY <1>5 DEF AddCreated, CInv, LoadsCoherent

LEMMA LoadRequestCoh ==
    ASSUME CInv, LoadRequest
    PROVE  NodesCoherent' /\ DetachedCoherent' /\ LoadsCoherent'
<1>1. \A j \in 1..Len(ServerNodes) : Coherent(ServerNodes[j])
  BY ServerNodesCoherent DEF CInv, IInv
<1>2. QED
  BY <1>1 DEF LoadRequest, CInv, NodesCoherent, DetachedCoherent,
     LoadsCoherent, storeVars

LEMMA LoadResponseCoh ==
    ASSUME CInv, NEW r \in loads, LoadResponse(r)
    PROVE  NodesCoherent' /\ DetachedCoherent' /\ LoadsCoherent'
<1>1. r \in Seq(NodeRec) /\ \A j \in 1..Len(r) : Coherent(r[j])
  BY DEF CInv, IInv, TypeOK, LoadsCoherent
<1>2. LoadsCoherent'
  BY DEF LoadResponse, CInv, LoadsCoherent
<1>3. CASE Len(r) > 0 /\ nodes' = NodesAfterAdd(r) /\ detached' = DetachedAfterAdd(r)
  <2>1. /\ detached' = IF FALSE THEN None ELSE DetachedAfterAdd(r)
        /\ Len(r) >= 1
        /\ FALSE \in BOOLEAN
    BY <1>3
  <2>2. NodesCoherent' /\ DetachedCoherent'
    BY <1>1, <1>3, <2>1, AddMutationCoherent, Zenon
  <2>3. QED
    BY <1>2, <2>2
<1>4. CASE Len(r) = 0 /\ UNCHANGED <<nodes, detached>>
  BY <1>2, <1>4 DEF CInv, NodesCoherent, DetachedCoherent
<1>5. QED
  BY <1>3, <1>4 DEF LoadResponse

LEMMA SetFieldValueCoh ==
    ASSUME CInv, NEW v \in Vals, SetFieldValue(v)
    PROVE  NodesCoherent' /\ DetachedCoherent' /\ LoadsCoherent'
<1> DEFINE F(r) == SetVal(r, ActiveKey(r.display, activeCS), v)
<1>1. ASSUME NEW r \in NodeRec, Coherent(r) PROVE Coherent(F(r))
  BY <1>1, ActiveKeyType, SetValCoherent
<1>2. LoadsCoherent'
  BY DEF SetFieldValue, CInv, LoadsCoherent, envVars
<1>3. CASE detached # None
  <2>1. detached' = F(detached) /\ UNCHANGED nodes
    BY <1>3 DEF SetFieldValue, UpdateCurObj
  <2>2. detached \in NodeRec /\ Coherent(detached)
    BY <1>3 DEF CInv, IInv, TypeOK, DetachedCoherent
  <2>3. QED
    BY <1>1, <1>2, <2>1, <2>2 DEF CInv, NodesCoherent, DetachedCoherent
<1>4. CASE detached = None
  <2>1. current \in Ids(nodes)
    BY <1>4 DEF SetFieldValue, CInv, IInv, FocusOK
  <2>2. At(current) \in 1..Len(nodes) /\ nodes[At(current)] \in NodeRec
    BY <2>1, AtFound DEF CInv, IInv, TypeOK
  <2>3. nodes' = [nodes EXCEPT ![At(current)] = F(nodes[At(current)])] /\
        UNCHANGED detached
    BY <1>4, <2>2 DEF SetFieldValue, UpdateCurObj
  <2>4. Coherent(F(nodes[At(current)]))
    BY <1>1, <2>2 DEF CInv, NodesCoherent
  <2>5. NodesCoherent'
    BY <2>2, <2>3, <2>4, ReplaceCoherent DEF CInv, IInv, TypeOK, NodesCoherent
  <2>6. QED
    BY <1>2, <1>4, <2>3, <2>5 DEF DetachedCoherent
<1>5. QED
  BY <1>3, <1>4

LEMMA SetFieldValueByNodeCoh ==
    ASSUME CInv, NEW n \in NodeIds, NEW v \in Vals, SetFieldValueByNode(n, v)
    PROVE  NodesCoherent' /\ DetachedCoherent' /\ LoadsCoherent'
<1>1. At(n) \in 1..Len(nodes) /\ nodes[At(n)] \in NodeRec
  BY AtFound DEF SetFieldValueByNode, CInv, IInv, TypeOK
<1> DEFINE r == nodes[At(n)]
           r2 == SetVal(r, ActiveKey(r.display, activeCS), v)
<1>2. Coherent(r2)
  BY <1>1, ActiveKeyType, SetValCoherent DEF CInv, NodesCoherent
<1>3. nodes' = [nodes EXCEPT ![At(n)] = r2]
  BY DEF SetFieldValueByNode
<1>4. NodesCoherent'
  BY <1>1, <1>2, <1>3, ReplaceCoherent DEF CInv, IInv, TypeOK, NodesCoherent
<1>5. QED
  BY <1>4 DEF SetFieldValueByNode, CInv, DetachedCoherent, LoadsCoherent, envVars

LEMMA SetNodePositionCoh ==
    ASSUME CInv, NEW n \in NodeIds, NEW pos \in Positions, SetNodePosition(n, pos)
    PROVE  NodesCoherent' /\ DetachedCoherent' /\ LoadsCoherent'
<1>1. NodesCoherent'
  <2>1. CASE n \in Ids(nodes)
    <3>1. At(n) \in 1..Len(nodes) /\ nodes[At(n)] \in NodeRec
      BY <2>1, AtFound DEF CInv, IInv, TypeOK
    <3>2. Coherent([nodes[At(n)] EXCEPT !.position = pos])
      BY <3>1, PositionCoherent DEF CInv, NodesCoherent
    <3>3. nodes' = [nodes EXCEPT ![At(n)] = [nodes[At(n)] EXCEPT !.position = pos]]
      BY <2>1, <3>1 DEF SetNodePosition
    <3>4. QED
      BY <3>1, <3>2, <3>3, ReplaceCoherent DEF CInv, IInv, TypeOK, NodesCoherent
  <2>2. CASE n \notin Ids(nodes)
    BY <2>2 DEF SetNodePosition, CInv, NodesCoherent
  <2>3. QED
    BY <2>1, <2>2
<1>2. DetachedCoherent'
  <2>1. CASE current = n /\ detached # None
    <3>1. detached \in NodeRec /\ Coherent(detached)
      BY <2>1 DEF CInv, IInv, TypeOK, DetachedCoherent
    <3>2. QED
      BY <2>1, <3>1, PositionCoherent DEF SetNodePosition, DetachedCoherent
  <2>2. CASE ~(current = n /\ detached # None)
    BY <2>2 DEF SetNodePosition, CInv, DetachedCoherent
  <2>3. QED
    BY <2>1, <2>2
<1>3. QED
  BY <1>1, <1>2 DEF SetNodePosition, CInv, LoadsCoherent, envVars

LEMMA CreateResponseCoh ==
    ASSUME CInv, NEW e \in pendingCreate, CreateResponse(e)
    PROVE  NodesCoherent' /\ DetachedCoherent' /\ LoadsCoherent'
<1>1. LoadsCoherent'
  BY DEF CreateResponse, CInv, LoadsCoherent
<1>2. CASE \E p \in 1..Len(nodes) : /\ FirstOfEntity(p, e)
                                    /\ Refocus(p)
                                    /\ mouseTrack' = nodes[p].id
  BY <1>1, <1>2, RefocusCoherent
<1>3. CASE UNCHANGED storeVars
  BY <1>1, <1>3 DEF CInv, NodesCoherent, DetachedCoherent, storeVars
<1>4. QED
  BY <1>2, <1>3 DEF CreateResponse

LEMMA InitCInv == Init => CInv
BY InitIInv, EmptySeq
   DEF Init, CInv, NodesCoherent, DetachedCoherent, LoadsCoherent

(* Every step preserves CInv: IInv by IInvInductive, coherence per action. *)
LEMMA CInvInductive == CInv /\ [Next]_vars => CInv'
<1> SUFFICES ASSUME CInv, [Next]_vars PROVE CInv'
  OBVIOUS
<1>1. IInv'
  BY IInvInductive DEF CInv
<1> DEFINE Coh == NodesCoherent' /\ DetachedCoherent' /\ LoadsCoherent'
<1>2. Coh
  <2>1. CASE \E e \in EntityIds : \E c \in ChangeSets \cup {NoCS}, del \in BOOLEAN,
                sid \in SnapIdsFor(e, Len(srvStack[e]) + 1), v \in SrvVals :
                EntityUpdate(e, c, del, sid, v)
    BY <2>1, UntouchedCoherent DEF EntityUpdate, storeVars
  <2>2. CASE \E c \in ChangeSets \cup {NoCS} : SelectChangeSet(c)
    BY <2>2, UntouchedCoherent DEF SelectChangeSet, storeVars
  <2>3. CASE \E it \in inbox : Add(it)
    BY <2>3, AddCoh
  <2>4. CASE \E it \in creating, n \in NodeIds : AddCreated(it, n)
    BY <2>4, AddCreatedCoh
  <2>5. CASE LoadRequest
    BY <2>5, LoadRequestCoh
  <2>6. CASE \E r \in loads : LoadResponse(r)
    BY <2>6, LoadResponseCoh
  <2>7. CASE \E p \in 1..Len(nodes) : SelectNode(p)
    <3>1. PICK p \in 1..Len(nodes) : SelectNode(p)
      BY <2>7
    <3>2. NodesCoherent' /\ DetachedCoherent'
      BY <3>1, RefocusCoherent DEF SelectNode
    <3>3. QED
      BY <3>1, <3>2 DEF SelectNode, CInv, LoadsCoherent, envVars
  <2>8. CASE \E v \in Vals : SetFieldValue(v)
    BY <2>8, SetFieldValueCoh
  <2>9. CASE \E n \in NodeIds, v \in Vals : SetFieldValueByNode(n, v)
    BY <2>9, SetFieldValueByNodeCoh
  <2>10. CASE \E n \in NodeIds, pos \in Positions : SetNodePosition(n, pos)
    BY <2>10, SetNodePositionCoh
  <2>11. CASE \E e \in EntityIds : \E sid \in SnapIdsFor(e, Len(srvStack[e]) + 1),
                                         v \in SrvVals :
                 CreateRequest(e, sid, v)
    BY <2>11, UntouchedCoherent DEF CreateRequest, storeVars
  <2>12. CASE \E e \in pendingCreate : CreateResponse(e)
    BY <2>12, CreateResponseCoh
  <2>13. CASE UnsetMouseTrackSelection
    BY <2>13, UntouchedCoherent DEF UnsetMouseTrackSelection, envVars
  <2>14. CASE UNCHANGED vars
    <3>1. UNCHANGED <<nodes, detached, loads>>
      BY <2>14 DEF vars, storeVars, envVars
    <3>2. QED
      BY <3>1, UntouchedCoherent
  <2>15. QED
    BY <2>1, <2>2, <2>3, <2>4, <2>5, <2>6, <2>7, <2>8, <2>9, <2>10, <2>11,
       <2>12, <2>13, <2>14 DEF Next
<1>3. QED
  BY <1>1, <1>2 DEF CInv

(***************************************************************************)
(* DisplayCoherent for every value of the constants: whatever order the   *)
(* relayed entity updates, load responses, node creations, selections and *)
(* setFieldValue / setNodePosition edits of node.ts happen in, the display *)
(* of every node object the store holds -- each of state.nodes and a      *)
(* state.current the `add` mutation has detached -- shows, slot by slot,  *)
(* the snapshot the projection of its own stack selects, up to field     *)
(* values edited in place.                                                 *)
(***************************************************************************)
THEOREM DisplayAlwaysCoherent == Spec => []DisplayCoherent
<1>1. CInv => DisplayCoherent
  BY CoherentHeld DEF CInv
<1>2. QED
  BY <1>1, InitCInv, CInvInductive, PTL DEF Spec

-----------------------------------------------------------------------------
(***************************************************************************)
(* NodeIdsUnique.  Every write of state.nodes is either the `add` mutation *)
(* -- unionBy, whose result has unique ids whatever its argument -- or an  *)
(* in-place update of one stored node that keeps its id.  So the property  *)
(* is inductive together with IInv, which gives the types and, through    *)
(* FocusOK, that setFieldValue's lookup At(current) finds a stored node.   *)
(***************************************************************************)
UniqueIds(s) == \A p, q \in 1..Len(s) : s[p].id = s[q].id => p = q

UInv == IInv /\ NodeIdsUnique

\* The `add` mutation leaves state.nodes without two nodes of one id.
LEMMA NodesAfterAddUnique ==
    ASSUME nodes \in Seq(NodeRec), NEW S, NEW P \in Seq(S), Len(P) >= 1
    PROVE  UniqueIds(NodesAfterAdd(P))
<1> DEFINE s == P \o nodes
<1>1. s \in Seq(S \cup NodeRec) /\ Len(s) = Len(P) + Len(nodes)
  <2>1. P \in Seq(S \cup NodeRec) /\ nodes \in Seq(S \cup NodeRec)
    OBVIOUS
  <2>2. QED
    BY <2>1, ConcatProperties
<1>2. Len(s) >= 1
  BY <1>1
<1>3. QED
  BY <1>1, <1>2, UnionByIdUnique DEF UniqueIds, NodesAfterAdd

\* Replacing one stored node by a node of the same id keeps ids unique.
LEMMA ReplaceUnique ==
    ASSUME nodes \in Seq(NodeRec), UniqueIds(nodes), NEW p \in 1..Len(nodes),
           NEW r \in NodeRec, r.id = nodes[p].id
    PROVE  UniqueIds([nodes EXCEPT ![p] = r])
<1>1. /\ Len([nodes EXCEPT ![p] = r]) = Len(nodes)
      /\ \A j \in 1..Len(nodes) :
            [nodes EXCEPT ![p] = r][j].id = nodes[j].id
  BY ExceptSeq
<1>2. QED
  BY <1>1 DEF UniqueIds

\* The `add` mutation with a one-node payload.
LEMMA NodesAfterAddOne ==
    ASSUME nodes \in Seq(NodeRec), NEW x
    PROVE  UniqueIds(NodesAfterAdd(<<x>>))
<1>1. <<x>> \in Seq({x}) /\ Len(<<x>>) >= 1
  OBVIOUS
<1>2. QED
  BY <1>1, NodesAfterAddUnique

LEMMA InitUInv == Init => UInv
BY InitIInv DEF Init, UInv, NodeIdsUnique

\* Rewriting the stored node of id n by F keeps ids unique when F keeps ids.
LEMMA ReplaceAtUnique ==
    ASSUME nodes \in Seq(NodeRec), UniqueIds(nodes), NEW n \in Ids(nodes),
           NEW r \in NodeRec, r.id = nodes[At(n)].id
    PROVE  UniqueIds([nodes EXCEPT ![At(n)] = r])
BY AtFound, ReplaceUnique

\* Each action keeps NodeIdsUnique.
LEMMA UniqueStep == UInv /\ [Next]_vars => NodeIdsUnique'
<1> SUFFICES ASSUME UInv, [Next]_vars PROVE UniqueIds(nodes')
  BY DEF NodeIdsUnique, UniqueIds
<1>0. nodes \in Seq(NodeRec) /\ UniqueIds(nodes)
  BY DEF UInv, IInv, TypeOK, NodeIdsUnique, UniqueIds
<1>1. CASE UNCHANGED nodes
  BY <1>0, <1>1
<1>2. ASSUME NEW p \in 1..Len(nodes), Refocus(p) PROVE UniqueIds(nodes')
  <2>1. nodes[p] \in NodeRec
    BY <1>0, ElementOfSeq
  <2>2. WithDisplay(nodes[p]) \in NodeRec /\ WithDisplay(nodes[p]).id = nodes[p].id
    BY <2>1, WithDisplayType
  <2>3. nodes' = [nodes EXCEPT ![p] = WithDisplay(nodes[p])]
    BY <1>2 DEF Refocus
  <2>4. QED
    BY <1>0, <2>2, <2>3, ReplaceUnique
<1>3. ASSUME NEW n \in Ids(nodes), NEW v \in Vals,
             nodes' = [nodes EXCEPT ![At(n)] = SetVal(@, ActiveKey(@.display, activeCS), v)]
      PROVE  UniqueIds(nodes')
  <2>1. At(n) \in 1..Len(nodes) /\ nodes[At(n)] \in NodeRec
    BY <1>0, AtFound
  <2> DEFINE r == nodes[At(n)]
             r2 == SetVal(r, ActiveKey(r.display, activeCS), v)
  <2>2. r2 \in NodeRec /\ r2.id = r.id
    BY <2>1, ActiveKeyType, SetValType
  <2>3. nodes' = [nodes EXCEPT ![At(n)] = r2]
    BY <1>3
  <2>4. QED
    BY <1>0, <2>2, <2>3, ReplaceAtUnique
<1>4. ASSUME NEW it \in inbox, Add(it) PROVE UniqueIds(nodes')
  <2>1. CASE \E p \in 1..Len(nodes) : FirstOfEntity(p, it.entityId) /\ AddExisting(it, p)
    <3>1. PICK p \in 1..Len(nodes) : AddExisting(it, p)
      BY <2>1
    <3> DEFINE new == WithDisplay([nodes[p] EXCEPT
                  !.stack = UnionById(<<it.object>> \o nodes[p].stack)])
    <3>2. nodes' = NodesAfterAdd(<<new>>)
      BY <3>1 DEF AddExisting
    <3>3. QED
      BY <1>0, <3>2, NodesAfterAddOne
  <2>2. CASE UNCHANGED nodes
    BY <1>0, <2>2
  <2>3. QED
    BY <1>4, <2>1, <2>2 DEF Add
<1>5. ASSUME NEW it \in creating, NEW n \in NodeIds, AddCreated(it, n)
      PROVE UniqueIds(nodes')
  <2> DEFINE new == WithDisplay([id |-> n, entityId |-> it.entityId,
                            stack |-> <<it.object>>, display |-> EmptyDisplay,
                            position |-> Origin])
  <2>1. nodes' = NodesAfterAdd(<<new>>)
    BY <1>5 DEF AddCreated
  <2>2. QED
    BY <1>0, <2>1, NodesAfterAddOne
<1>6. ASSUME NEW r \in loads, LoadResponse(r) PROVE UniqueIds(nodes')
  <2>1. r \in Seq(NodeRec)
    BY DEF UInv, IInv, TypeOK
  <2>2. CASE Len(r) > 0 /\ nodes' = NodesAfterAdd(r)
    BY <1>0, <2>1, <2>2, NodesAfterAddUnique
  <2>3. CASE UNCHANGED nodes
    BY <1>0, <2>3
  <2>4. QED
    BY <1>6, <2>2, <2>3 DEF LoadResponse
<1>7. ASSUME NEW v \in Vals, SetFieldValue(v) PROVE UniqueIds(nodes')
  <2>1. CASE detached # None
    BY <1>0, <1>7, <2>1 DEF SetFieldValue, UpdateCurObj
  <2>2. CASE detached = None
    <3>1. current \in Ids(nodes)
      BY <1>7, <2>2 DEF SetFieldValue, UInv, IInv, FocusOK
    <3>2. nodes' = [nodes EXCEPT ![At(current)] =
                       SetVal(@, ActiveKey(@.display, activeCS), v)]
      BY <1>7, <2>2 DEF SetFieldValue, UpdateCurObj
    <3>3. QED
      BY <3>1, <3>2, <1>3
  <2>3. QED
    BY <2>1, <2>2
<1>8. ASSUME NEW n \in NodeIds, NEW v \in Vals, SetFieldValueByNode(n, v)
      PROVE UniqueIds(nodes')
  BY <1>8, <1>3 DEF SetFieldValueByNode
<1>9. ASSUME NEW n \in NodeIds, NEW pos \in Positions, SetNodePosition(n, pos)
      PROVE UniqueIds(nodes')
  <2>1. CASE n \in Ids(nodes)
    <3>1. At(n) \in 1..Len(nodes) /\ nodes[At(n)] \in NodeRec
      BY <1>0, <2>1, AtFound
    <3>2. [nodes[At(n)] EXCEPT !.position = pos] \in NodeRec /\
          [nodes[At(n)] EXCEPT !.position = pos].id = nodes[At(n)].id
      BY <3>1 DEF NodeRec
    <3>3. nodes' = [nodes EXCEPT ![At(n)] = [nodes[At(n)] EXCEPT !.position = pos]]
      BY <1>9, <2>1, <3>1 DEF SetNodePosition
    <3>4. QED
      BY <1>0, <2>1, <3>2, <3>3, ReplaceAtUnique
  <2>2. CASE n \notin Ids(nodes)
    BY <1>0, <1>9, <2>2 DEF SetNodePosition
  <2>3. QED
    BY <2>1, <2>2
<1>10. ASSUME NEW p \in 1..Len(nodes), SelectNode(p) PROVE UniqueIds(nodes')
  BY <1>10, <1>2 DEF SelectNode
<1>11. ASSUME NEW e \in pendingCreate, CreateResponse(e) PROVE UniqueIds(nodes')
  BY <1>11, <1>2, <1>1 DEF CreateResponse, storeVars
<1>12. QED
  BY <1>1, <1>2, <1>4, <1>5, <1>6, <1>7, <1>8, <1>9, <1>10, <1>11
  DEF Next, vars, storeVars, EntityUpdate, SelectChangeSet, LoadRequest,
      CreateRequest, UnsetMouseTrackSelection

(***************************************************************************)
(* state.nodes never holds two nodes with the same id, for every value of  *)
(* the constants and every order of relayed updates, load responses, node  *)
(* creations and edits: the `add` mutation's unionBy keeps one node per id *)
(* and every other mutation rewrites a node in place under its own id.     *)
(***************************************************************************)
THEOREM NodeIdsAlwaysUnique == Spec => []NodeIdsUnique
<1>1. UInv /\ [Next]_vars => UInv'
  BY IInvInductive, UniqueStep DEF UInv
<1>2. UInv => NodeIdsUnique
  BY DEF UInv
<1>3. QED
  BY <1>1, <1>2, InitUInv, PTL DEF Spec

-----------------------------------------------------------------------------
(***************************************************************************)
(* No step removes a node id from state.nodes: the `add` mutation's        *)
(* unionBy keeps one element of every id of its arguments, and the other   *)
(* mutations rewrite a node in place under its own id.                     *)
(***************************************************************************)
\* unionBy(P, state.nodes, "id") keeps every stored id, whatever P holds.
LEMMA NodesAfterAddKeeps ==
    ASSUME nodes \in Seq(NodeRec), NEW S, NEW P \in Seq(S), Len(P) >= 1
    PROVE  Ids(nodes) \subseteq Ids(NodesAfterAdd(P))
<1> DEFINE s == P \o nodes
<1>1. /\ P \in Seq(S \cup NodeRec) /\ nodes \in Seq(S \cup NodeRec)
  OBVIOUS
<1>2. s \in Seq(S \cup NodeRec) /\ Len(s) = Len(P) + Len(nodes) /\
      \A i \in 1..Len(P) + Len(nodes) :
         s[i] = IF i <= Len(P) THEN P[i] ELSE nodes[i - Len(P)]
  BY <1>1, ConcatProperties
<1>3. ASSUME NEW q \in 1..Len(nodes)
      PROVE  nodes[q].id \in Ids(UnionById(s))
  <2>1. Len(P) + q \in 1..Len(s) /\ s[Len(P) + q] = nodes[q] /\ Len(s) >= 1
    BY <1>2
  <2>2. \E r \in 1..Len(UnionById(s)) : UnionById(s)[r].id = s[Len(P) + q].id
    BY <1>2, <2>1, UnionByIdKeepsIds
  <2>3. QED
    BY <2>1, <2>2 DEF Ids
<1>4. QED
  BY <1>3 DEF NodesAfterAdd, Ids

\* Replacing the stored node of a stored id by one of the same id.
LEMMA ReplaceAtKeeps ==
    ASSUME nodes \in Seq(NodeRec), NEW n \in Ids(nodes),
           NEW r \in NodeRec, r.id = nodes[At(n)].id
    PROVE  Ids([nodes EXCEPT ![At(n)] = r]) = Ids(nodes)
BY AtFound, ReplaceNode

\* KeepsIds as a property of one step.
KeepsIds == Ids(nodes) \subseteq Ids(nodes')

LEMMA KeepsIdsStep == IInv /\ [Next]_vars => [KeepsIds]_vars
<1> SUFFICES ASSUME IInv, [Next]_vars PROVE Ids(nodes) \subseteq Ids(nodes')
  BY DEF KeepsIds
<1>0. nodes \in Seq(NodeRec)
  BY DEF IInv, TypeOK
<1>1. CASE UNCHANGED nodes
  BY <1>1
<1>2. ASSUME NEW p \in 1..Len(nodes), Refocus(p) PROVE Ids(nodes) \subseteq Ids(nodes')
  <2>1. nodes[p] \in NodeRec
    BY <1>0, ElementOfSeq
  <2>2. WithDisplay(nodes[p]) \in NodeRec /\ WithDisplay(nodes[p]).id = nodes[p].id
    BY <2>1, WithDisplayType
  <2>3. nodes' = [nodes EXCEPT ![p] = WithDisplay(nodes[p])]
    BY <1>2 DEF Refocus
  <2>4. QED
    BY <1>0, <2>2, <2>3, ReplaceNode
<1>3. ASSUME NEW n \in Ids(nodes), NEW v \in Vals,
             nodes' = [nodes EXCEPT ![At(n)] = SetVal(@, ActiveKey(@.display, activeCS), v)]
      PROVE  Ids(nodes) \subseteq Ids(nodes')
  <2>1. At(n) \in 1..Len(nodes) /\ nodes[At(n)] \in NodeRec
    BY <1>0, AtFound
  <2> DEFINE r == nodes[At(n)]
             r2 == SetVal(r, ActiveKey(r.display, activeCS), v)
  <2>2. r2 \in NodeRec /\ r2.id = r.id
    BY <2>1, ActiveKeyType, SetValType
  <2>3. nodes' = [nodes EXCEPT ![At(n)] = r2]
    BY <1>3
  <2>4. QED
    BY <1>0, <2>2, <2>3, ReplaceAtKeeps
<1>4. ASSUME NEW x, nodes' = NodesAfterAdd(<<x>>) PROVE Ids(nodes) \subseteq Ids(nodes')
  <2>1. <<x>> \in Seq({x}) /\ Len(<<x>>) >= 1
    OBVIOUS
  <2>2. QED
    BY <1>0, <1>4, <2>1, NodesAfterAddKeeps
<1>5. ASSUME NEW it \in inbox, Add(it) PROVE Ids(nodes) \subseteq Ids(nodes')
  <2>1. CASE \E p \in 1..Len(nodes) : FirstOfEntity(p, it.entityId) /\ AddExisting(it, p)
    <3>1. PICK p \in 1..Len(nodes) : AddExisting(it, p)
      BY <2>1
    <3> DEFINE new == WithDisplay([nodes[p] EXCEPT
                  !.stack = UnionById(<<it.object>> \o nodes[p].stack)])
    <3>2. nodes' = NodesAfterAdd(<<new>>)
      BY <3>1 DEF AddExisting
    <3>3. QED
      BY <3>2, <1>4
  <2>2. CASE UNCHANGED nodes
    BY <2>2
  <2>3. QED
    BY <1>5, <2>1, <2>2 DEF Add
<1>6. ASSUME NEW it \in creating, NEW n \in NodeIds, AddCreated(it, n)
      PROVE Ids(nodes) \subseteq Ids(nodes')
  <2> DEFINE new == WithDisplay([id |-> n, entityId |-> it.entityId,
                            stack |-> <<it.object>>, display |-> EmptyDisplay,
                            position |-> Origin])
  <2>1. nodes' = NodesAfterAdd(<<new>>)
    BY <1>6 DEF AddCreated
  <2>2. QED
    BY <2>1, <1>4
<1>7. ASSUME NEW r \in loads, LoadResponse(r) PROVE Ids(nodes) \subseteq Ids(nodes')
  <2>1. r \in Seq(NodeRec)
    BY DEF IInv, TypeOK
  <2>2. CASE Len(r) > 0 /\ nodes' = NodesAfterAdd(r)
    BY <1>0, <2>1, <2>2, NodesAfterAddKeeps
  <2>3. CASE UNCHANGED nodes
    BY <2>3
  <2>4. QED
    BY <1>7, <2>2, <2>3 DEF LoadResponse
<1>8. ASSUME NEW v \in Vals, SetFieldValue(v) PROVE Ids(nodes) \subseteq Ids(nodes')
  <2>1. CASE detached # None
    BY <1>8, <2>1 DEF SetFieldValue, UpdateCurObj
  <2>2. CASE detached = None
    <3>1. current \in Ids(nodes)
      BY <1>8, <2>2 DEF SetFieldValue, IInv, FocusOK
    <3>2. nodes' = [nodes EXCEPT ![At(current)] =
                       SetVal(@, ActiveKey(@.display, activeCS), v)]
      BY <1>8, <2>2 DEF SetFieldValue, UpdateCurObj
    <3>3. QED
      BY <3>1, <3>2, <1>3
  <2>3. QED
    BY <2>1, <2>2
<1>9. ASSUME NEW n \in NodeIds, NEW v \in Vals, SetFieldValueByNode(n, v)
      PROVE Ids(nodes) \subseteq Ids(nodes')
  BY <1>9, <1>3 DEF SetFieldValueByNode
<1>10. ASSUME NEW n \in NodeIds, NEW pos \in Positions, SetNodePosition(n, pos)
       PROVE Ids(nodes) \subseteq Ids(nodes')
  <2>1. CASE n \in Ids(nodes)
    <3>1. At(n) \in 1..Len(nodes) /\ nodes[At(n)] \in NodeRec
      BY <1>0, <2>1, AtFound
    <3>2. [nodes[At(n)] EXCEPT !.position = pos] \in NodeRec /\
          [nodes[At(n)] EXCEPT !.position = pos].id = nodes[At(n)].id
      BY <3>1 DEF NodeRec
    <3>3. nodes' = [nodes EXCEPT ![At(n)] = [nodes[At(n)] EXCEPT !.position = pos]]
      BY <1>10, <2>1, <3>1 DEF SetNodePosition
    <3>4. QED
      BY <1>0, <2>1, <3>2, <3>3, ReplaceAtKeeps
  <2>2. CASE n \notin Ids(nodes)
    BY <1>10, <2>2 DEF SetNodePosition
  <2>3. QED
    BY <2>1, <2>2
<1>11. ASSUME NEW p \in 1..Len(nodes), SelectNode(p) PROVE Ids(nodes) \subseteq Ids(nodes')
  BY <1>11, <1>2 DEF SelectNode
<1>12. ASSUME NEW e \in pendingCreate, CreateResponse(e)
       PROVE Ids(nodes) \subseteq Ids(nodes')
  BY <1>12, <1>2, <1>1 DEF CreateResponse, storeVars
<1>13. QED
  BY <1>1, <1>2, <1>5, <1>6, <1>7, <1>8, <1>9, <1>10, <1>11, <1>12
  DEF Next, vars, storeVars, EntityUpdate, SelectChangeSet, LoadRequest,
      CreateRequest, UnsetMouseTrackSelection

(***************************************************************************)
(* A node, once in state.nodes, stays there under its id: no `add` of a   *)
(* relayed update or of a load response, and no in-place edit, ever drops *)
(* a stored node id, whatever the order of these steps.                    *)
(***************************************************************************)
THEOREM NodesNeverDropped == Spec => [][KeepsIds]_vars
BY InitIInv, IInvInductive, KeepsIdsStep, PTL DEF Spec
=============================================================================
