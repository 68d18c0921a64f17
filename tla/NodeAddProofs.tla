---------------------------- MODULE NodeAddProofs ----------------------------
(***************************************************************************)
(* Proofs about NodeAddManager: type correctness, and that afterAddNode    *)
(* asks for at most one backend node per temporary node placed.            *)
(***************************************************************************)
EXTENDS NodeAdd, TLAPS, WellFoundedInduction

\* Every non-empty set of naturals has a least element.
LEMMA LeastIndex ==
    ASSUME NEW T \in SUBSET Nat, T # {}
    PROVE  \E m \in T : \A y \in T : m <= y
<1>1. \E m \in T : \A y \in T : ~(<<y, m>> \in OpToRel(<, Nat))
  BY NatLessThanWellFounded, WFMin
<1>2. PICK m \in T : \A y \in T : ~(<<y, m>> \in OpToRel(<, Nat))
  BY <1>1
<1>3. ASSUME NEW y \in T PROVE m <= y
  <2>1. <<y, m>> \in Nat \X Nat /\ ~(<<y, m>> \in OpToRel(<, Nat))
    BY <1>2
  <2>2. QED
    BY <2>1 DEF OpToRel
<1>4. QED
  BY <1>3

\* getGeo finds a node of a name that occurs in the scene.
LEMMA GetGeoFound ==
    ASSUME NEW sc \in Seq(SchemaIds), NEW name, NEW k \in 1..Len(sc), sc[k] = name
    PROVE  GetGeo(sc, name) \in 1..Len(sc)
<1> DEFINE T == {i \in 1..Len(sc) : sc[i] = name}
<1>1. T \in SUBSET Nat /\ T # {}
  OBVIOUS
<1>2. PICK m \in T : \A y \in T : m <= y
  BY <1>1, LeastIndex
<1>3. sc[m] = name /\ \A j \in 1..(m - 1) : sc[j] # name
  BY <1>2
<1>4. \E i \in 1..Len(sc) : sc[i] = name /\ \A j \in 1..(i - 1) : sc[j] # name
  BY <1>3
<1>5. QED
  BY <1>4 DEF GetGeo

\* At most one createNode per placed node: a set this.node stands for a
\* placement not yet handed to the backend.
Budget == Len(created) + (IF node = None THEN 0 ELSE 1) <= Len(scene)

\* A template answers a call, and every call records its pick.
Picked == lastPick = None => pending = {} /\ node = None

Inv == TypeOK /\ Budget /\ Picked

LEMMA InitInv == Init => Inv
<1> SUFFICES ASSUME Init PROVE Inv
  OBVIOUS
<1>1. TypeOK
  <2>1. created \in Seq([schema : SchemaIds, pick : SchemaIds]) /\ scene \in Seq(SchemaIds)
    BY DEF Init
  <2>2. node \in (1..Len(scene)) \cup {None} /\ dragged \in (1..Len(scene)) \cup {None}
    BY DEF Init
  <2>3. calls \in 0..MaxCalls
    BY NodeAddAssumption DEF Init
  <2>4. QED
    BY <2>1, <2>2, <2>3 DEF Init, TypeOK
<1>2. Budget /\ Picked
  BY DEF Init, Budget, Picked
<1>3. QED
  BY <1>1, <1>2 DEF Inv

LEMMA InvInductive == Inv /\ [Next]_vars => Inv'
<1> SUFFICES ASSUME Inv, [Next]_vars PROVE Inv'
  OBVIOUS
<1>0. TypeOK /\ Budget /\ Picked
  BY DEF Inv
<1>1. CASE BeforeAddNode
  BY <1>0, <1>1 DEF BeforeAddNode, Inv, TypeOK, Budget, Picked
<1>2. ASSUME NEW s \in SchemaIds, AddNode(s) PROVE Inv'
  BY <1>0, <1>2, NodeAddAssumption DEF AddNode, Inv, TypeOK, Budget, Picked, Call
<1>3. ASSUME NEW c \in pending, TemplateError(c) PROVE Inv'
  BY <1>0, <1>3 DEF TemplateError, Inv, TypeOK, Budget, Picked
<1>4. ASSUME NEW c \in pending, TemplateArrives(c) PROVE Inv'
  <2>1. c \in Call /\ scene' = Append(scene, c.schema) /\ scene' \in Seq(SchemaIds)
    BY <1>0, <1>4 DEF TemplateArrives, TypeOK, Call
  <2>2. Len(scene') = Len(scene) + 1 /\ scene'[Len(scene')] = c.schema
    BY <2>1, <1>0 DEF TypeOK
  <2>3. node' \in 1..Len(scene')
    <3>1. Len(scene') \in 1..Len(scene')
      BY <2>1, <2>2, <1>0 DEF TypeOK
    <3>2. GetGeo(scene', c.schema) \in 1..Len(scene')
      BY <2>1, <2>2, <3>1, GetGeoFound
    <3>3. QED
      BY <3>2, <1>4 DEF TemplateArrives
  <2>4. TypeOK'
    BY <1>0, <1>4, <2>1, <2>2, <2>3 DEF TemplateArrives, TypeOK
  <2>5. Budget'
    BY <1>0, <1>4, <2>2, <2>3 DEF TemplateArrives, TypeOK, Budget
  <2>6. Picked'
    BY <1>0, <1>4 DEF TemplateArrives, Picked
  <2>7. QED
    BY <2>4, <2>5, <2>6 DEF Inv
<1>5. CASE Drag
  BY <1>0, <1>5 DEF Drag, Inv, TypeOK, Budget, Picked
<1>6. CASE AfterAddNode
  <2>1. schemaSel \in SchemaIds /\ lastPick \in SchemaIds
    <3>1. schemaSel # None
      BY <1>6 DEF AfterAddNode, Truthy
    <3>2. lastPick # None
      BY <1>0, <1>6 DEF AfterAddNode, Picked
    <3>3. QED
      BY <3>1, <3>2, <1>0 DEF TypeOK
  <2>2. TypeOK'
    BY <1>0, <1>6, <2>1 DEF AfterAddNode, TypeOK
  <2>3. Budget' /\ Picked'
    BY <1>0, <1>6 DEF AfterAddNode, TypeOK, Budget, Picked
  <2>4. QED
    BY <2>2, <2>3 DEF Inv
<1>7. CASE UNCHANGED vars
  BY <1>0, <1>7 DEF vars, Inv, TypeOK, Budget, Picked
<1>8. QED
  BY <1>1, <1>2, <1>3, <1>4, <1>5, <1>6, <1>7 DEF Next

\* NodeAddManager's state is always well typed.
THEOREM NodeAddTypeCorrect == Spec => []TypeOK
<1>1. Inv => TypeOK
  BY DEF Inv
<1>2. QED
  BY InitInv, InvInductive, <1>1, PTL DEF Spec

-----------------------------------------------------------------------------
(***************************************************************************)
(* CreatedMatchesPlaced.  The witness is the map from each createNode      *)
(* request to the scene node whose template set this.nodeAddSchemaId.     *)
(* While this.node is set, the newest scene node is the placement owed a  *)
(* request: no request maps to it yet, and its schema is the one recorded. *)
(* this.node and this.nodeAddSchemaId are set and cleared together.        *)
(***************************************************************************)
\* f maps the requests one-to-one onto scene nodes of their schema.
Matches(f, cr, sc) ==
    /\ f \in [1..Len(cr) -> 1..Len(sc)]
    /\ \A i, j \in 1..Len(cr) : f[i] = f[j] => i = j
    /\ \A i \in 1..Len(cr) : sc[f[i]] = cr[i].schema

\* ... and, while a placement is owed, leaves the newest scene node free.
Owes(f, cr, sc, nd, sel) ==
    nd # None => /\ \A i \in 1..Len(cr) : f[i] # Len(sc)
                 /\ sel = sc[Len(sc)]

Placements ==
    /\ (node = None) = (schemaSel = None)
    /\ \E f : Matches(f, created, scene) /\ Owes(f, created, scene, node, schemaSel)

MInv == Inv /\ Placements

LEMMA InitPlacements == Init => Placements
<1> SUFFICES ASSUME Init PROVE Placements
  OBVIOUS
<1> DEFINE f0 == [i \in 1..0 |-> 1]
<1>1. Matches(f0, created, scene) /\ Owes(f0, created, scene, node, schemaSel)
  BY DEF Init, Matches, Owes
<1>2. QED
  BY <1>1 DEF Init, Placements

LEMMA PlacementsStep == MInv /\ [Next]_vars => Placements'
<1> SUFFICES ASSUME Inv, Placements, [Next]_vars PROVE Placements'
  BY DEF MInv
<1>0. TypeOK
  BY DEF Inv
<1>1. PICK f : Matches(f, created, scene) /\ Owes(f, created, scene, node, schemaSel)
  BY DEF Placements
\* Steps that touch neither the scene, the requests nor the two fields.
<1>2. CASE UNCHANGED <<node, schemaSel, scene, created>>
  BY <1>1, <1>2 DEF Placements, Matches, Owes
<1>3. ASSUME NEW c \in pending, TemplateArrives(c) PROVE Placements'
  <2>1. c \in Call /\ c.schema \in SchemaIds
    BY <1>0 DEF TypeOK, Call
  <2>2. /\ scene' = Append(scene, c.schema) /\ UNCHANGED created
        /\ Len(scene') = Len(scene) + 1 /\ scene'[Len(scene')] = c.schema
        /\ schemaSel' = c.schema
    BY <1>0, <1>3, <2>1 DEF TemplateArrives, TypeOK
  <2>3. node' # None
    <3>1. scene' \in Seq(SchemaIds) /\ Len(scene') \in 1..Len(scene')
      BY <1>0, <2>1, <2>2 DEF TypeOK
    <3>2. GetGeo(scene', c.schema) \in 1..Len(scene')
      BY <2>2, <3>1, GetGeoFound
    <3>3. QED
      BY <1>3, <3>2, NodeAddAssumption DEF TemplateArrives
  <2>4. Matches(f, created', scene') /\ Owes(f, created', scene', node', schemaSel')
    BY <1>0, <1>1, <2>2, <2>3 DEF Matches, Owes, TypeOK
  <2>5. QED
    BY <2>1, <2>2, <2>3, <2>4, NodeAddAssumption DEF Placements
<1>4. CASE AfterAddNode
  <2>1. node # None /\ schemaSel # None /\ node \in 1..Len(scene)
    BY <1>0, <1>4 DEF AfterAddNode, Truthy, TypeOK
  <2>2. Len(scene) \in 1..Len(scene) /\ schemaSel = scene[Len(scene)]
        /\ \A i \in 1..Len(created) : f[i] # Len(scene)
    BY <1>0, <1>1, <2>1 DEF Owes, TypeOK
  <2> DEFINE g == [i \in 1..Len(created) + 1 |->
                     IF i <= Len(created) THEN f[i] ELSE Len(scene)]
  <2>3. /\ created' = Append(created, [schema |-> schemaSel, pick |-> lastPick])
        /\ UNCHANGED scene /\ node' = None /\ schemaSel' = None
    BY <1>4 DEF AfterAddNode
  <2>4. created \in Seq([schema : SchemaIds, pick : SchemaIds])
    BY <1>0 DEF TypeOK
  <2>5. Len(created') = Len(created) + 1
        /\ \A i \in 1..Len(created) : created'[i] = created[i]
        /\ created'[Len(created) + 1].schema = schemaSel
    BY <2>3, <2>4
  <2>6. g \in [1..Len(created') -> 1..Len(scene')]
    BY <1>1, <2>2, <2>3, <2>4, <2>5 DEF Matches
  <2>7. \A i, j \in 1..Len(created') : g[i] = g[j] => i = j
    BY <1>1, <2>2, <2>4, <2>5 DEF Matches
  <2>8. \A i \in 1..Len(created') : scene'[g[i]] = created'[i].schema
    BY <1>1, <2>2, <2>3, <2>4, <2>5 DEF Matches
  <2>9. Matches(g, created', scene') /\ Owes(g, created', scene', node', schemaSel')
    BY <2>3, <2>6, <2>7, <2>8 DEF Matches, Owes
  <2>10. QED
    BY <2>3, <2>9 DEF Placements
<1>5. QED
  BY <1>2, <1>3, <1>4
  DEF Next, vars, BeforeAddNode, AddNode, TemplateError, Drag

(***************************************************************************)
(* Each createNode request afterAddNode sends stands for its own temporary *)
(* node of the scene, of the same schema, for any schemas and any number   *)
(* of addNode calls whose templates arrive late or in any order.           *)
(***************************************************************************)
THEOREM CreatesMatchPlacements == Spec => []CreatedMatchesPlaced
<1>1. Init => MInv
  BY InitInv, InitPlacements DEF MInv
<1>2. MInv /\ [Next]_vars => MInv'
  BY InvInductive, PlacementsStep DEF MInv
<1>3. MInv => CreatedMatchesPlaced
  BY DEF MInv, Placements, Matches, CreatedMatchesPlaced
<1>4. QED
  BY <1>1, <1>2, <1>3, PTL DEF Spec

-----------------------------------------------------------------------------
(* Refinement of NodePlacementSpec under the mapping of module NodeAdd.    *)

\* While this.node is set, the recorded schema is the newest placement's.
LEMMA OwedIsNewest ==
    ASSUME Inv, Placements, node # None
    PROVE  Len(scene) >= 1 /\ schemaSel = scene[Len(scene)]
<1>1. PICK f : Matches(f, created, scene) /\ Owes(f, created, scene, node, schemaSel)
  BY DEF Placements
<1>2. node \in 1..Len(scene)
  BY DEF Inv, TypeOK
<1>3. QED
  BY <1>1, <1>2 DEF Owes

\* Every step of NodeAddManager is a step of NodePlacementSpec or leaves the
\* placements, the owed flag and the requests unchanged.
LEMMA PlacementStep ==
    MInv /\ [Next]_vars => [Placement!Next]_Placement!vars
<1> SUFFICES ASSUME Inv, Placements, [Next]_vars
             PROVE  [Placement!Next]_Placement!vars
  BY DEF MInv
<1>0. TypeOK
  BY DEF Inv
<1>1. CASE UNCHANGED <<node, scene, created>>
  BY <1>1 DEF Placement!vars
<1>2. ASSUME NEW c \in pending, TemplateArrives(c) PROVE Placement!Place(c.schema)
  <2>1. c.schema \in SchemaIds /\ scene' = Append(scene, c.schema)
    BY <1>0, <1>2 DEF TypeOK, Call, TemplateArrives
  <2>2. node' # None
    <3>1. scene' \in Seq(SchemaIds) /\ Len(scene') \in 1..Len(scene')
          /\ scene'[Len(scene')] = c.schema
      BY <1>0, <2>1 DEF TypeOK
    <3>2. GetGeo(scene', c.schema) \in 1..Len(scene')
      BY <3>1, GetGeoFound
    <3>3. QED
      BY <1>2, <3>2, NodeAddAssumption DEF TemplateArrives
  <2>3. QED
    BY <1>2, <2>1, <2>2 DEF TemplateArrives, Placement!Place
<1>5. ASSUME NEW c \in pending, TemplateArrives(c) PROVE Placement!Next
  <2>1. c.schema \in SchemaIds
    BY <1>0 DEF TypeOK, Call
  <2>2. QED
    BY <1>2, <1>5, <2>1 DEF Placement!Next
<1>3. CASE AfterAddNode
  <2>1. node # None /\ node' = None /\ UNCHANGED scene
    BY <1>3 DEF AfterAddNode
  <2>2. Len(scene) >= 1 /\ schemaSel = scene[Len(scene)]
    BY <2>1, OwedIsNewest
  <2>3. created \in Seq([schema : SchemaIds, pick : SchemaIds])
        /\ created' = Append(created, [schema |-> schemaSel, pick |-> lastPick])
    BY <1>0, <1>3 DEF TypeOK, AfterAddNode
  <2>4. [i \in 1..Len(created') |-> created'[i].schema]
          = Append([i \in 1..Len(created) |-> created[i].schema], scene[Len(scene)])
    BY <2>2, <2>3
  <2>5. QED
    BY <2>1, <2>4 DEF Placement!Next, Placement!Request
<1>6. CASE \/ BeforeAddNode
          \/ Drag
          \/ (\E s \in SchemaIds : AddNode(s))
          \/ UNCHANGED vars
  BY <1>1, <1>6 DEF BeforeAddNode, Drag, AddNode, vars
<1>7. CASE \E c \in pending : TemplateArrives(c)
  <2>1. PICK c \in pending : TemplateArrives(c)
    BY <1>7
  <2>2. Placement!Next
    BY <2>1, <1>5
  <2>3. QED
    BY <2>2
<1>8. CASE \E c \in pending : TemplateError(c)
  <2>1. PICK c \in pending : TemplateError(c)
    BY <1>8
  <2>2. UNCHANGED <<node, scene, created>>
    BY <2>1 DEF TemplateError
  <2>3. QED
    BY <2>2, <1>1
<1>9. QED
  BY <1>3, <1>6, <1>7, <1>8 DEF Next

(***************************************************************************)
(* NodeAddManager implements NodePlacementSpec, for any schemas and any    *)
(* number of addNode calls: a template that arrives places a node and      *)
(* makes it the one owed a request, and afterAddNode asks the backend for *)
(* the newest placement's schema once, however templates, drags and        *)
(* mouse-ups interleave.                                                   *)
(***************************************************************************)
THEOREM NodeAddImplementsPlacement == Spec => ImplementsPlacementSpec
<1>1. Init => Placement!Init
  BY DEF Init, Placement!Init
<1>2. Init => MInv
  BY InitInv, InitPlacements DEF MInv
<1>3. MInv /\ [Next]_vars => MInv'
  BY InvInductive, PlacementsStep DEF MInv
<1>4. QED
  BY <1>1, <1>2, <1>3, PlacementStep, PTL
  DEF Spec, ImplementsPlacementSpec, Placement!Spec
=============================================================================
