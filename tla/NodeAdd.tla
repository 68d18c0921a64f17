------------------------------- MODULE NodeAdd -------------------------------
(***************************************************************************)
(* NodeAddManager of the schematic viewer (interaction/nodeAdd.ts): the    *)
(* user picks a schema, addNode fetches its node template and puts a       *)
(* temporary node into the scene, the mouse drags it, and afterAddNode     *)
(* asks the backend to create a node of the schema.                        *)
(*                                                                         *)
(* addNode suspends on the template request (line 50), so several calls    *)
(* can be in flight, and their answers arrive in any order.  The scene     *)
(* (SceneManager, not under src/) is the list of temporary nodes in the    *)
(* order they were added; a node from a template is named after its       *)
(* schema, and getGeo(name) returns the first node of that name.  Nothing  *)
(* in this file removes a temporary node.                                  *)
(***************************************************************************)
EXTENDS Naturals, Sequences

CONSTANTS SchemaIds, MaxCalls, None

ASSUME NodeAddAssumption ==
    /\ SchemaIds \subseteq Nat
    /\ MaxCalls \in Nat
    /\ None \notin Nat

VARIABLES
    data,       \* this.data has been set by beforeAddNode
    node,       \* this.node: position in the scene, or None
    schemaSel,  \* this.nodeAddSchemaId, or None
    pending,    \* addNode calls waiting for their template
    scene,      \* the temporary nodes of the scene: their schema (name)
    dragged,    \* scene node the last drag moved, or None
    created,    \* createNode requests sent: schema, and the last pick then
    lastPick,   \* schema of the last addNode call, or None
    calls       \* addNode calls made

vars == <<data, node, schemaSel, pending, scene, dragged, created, lastPick, calls>>

Call == [id : Nat, schema : SchemaIds]

\* JavaScript truthiness of this.nodeAddSchemaId: undefined and 0 are false.
Truthy(s) == s # None /\ s # 0

\* this.sceneManager.getGeo(name): the first scene node with that name.
GetGeo(sc, name) == CHOOSE i \in 1..Len(sc) :
                        sc[i] = name /\ \A j \in 1..(i - 1) : sc[j] # name

Init ==
    /\ data = FALSE
    /\ node = None
    /\ schemaSel = None
    /\ pending = {}
    /\ scene = <<>>
    /\ dragged = None
    /\ created = <<>>
    /\ lastPick = None
    /\ calls = 0

\* beforeAddNode (39-41).
BeforeAddNode ==
    /\ data' = TRUE
    /\ UNCHANGED <<node, schemaSel, pending, scene, dragged, created, lastPick, calls>>

\* addNode(schemaId) up to the await of the template request (43-52).
AddNode(s) ==
    /\ calls < MaxCalls
    /\ pending' = pending \cup {[id |-> calls, schema |-> s]}
    /\ lastPick' = s
    /\ calls' = calls + 1
    /\ UNCHANGED <<data, node, schemaSel, scene, dragged, created>>

\* The template request of call c fails: the error is reported (53-56).
TemplateError(c) ==
    /\ pending' = pending \ {c}
    /\ UNCHANGED <<data, node, schemaSel, scene, dragged, created, lastPick, calls>>

\* Mutant of TemplateArrives: this.node is one past the new node.
TemplateArrivesOffByOne(c) ==
    /\ pending' = pending \ {c}
    /\ scene' = Append(scene, c.schema)
    /\ schemaSel' = c.schema
    /\ node' = Len(scene') + 1
    /\ UNCHANGED <<data, dragged, created, lastPick, calls>>

\* Mutant of TemplateArrives: the schema recorded is the last one picked.
TemplateArrivesLastPick(c) ==
    /\ pending' = pending \ {c}
    /\ scene' = Append(scene, c.schema)
    /\ schemaSel' = lastPick
    /\ node' = GetGeo(scene', c.schema)
    /\ UNCHANGED <<data, dragged, created, lastPick, calls>>

\* The template of call c arrives: the node is added to the scene, the
\* schema recorded, and this.node looked up by name (57-64).
TemplateArrives(c) ==
    /\ pending' = pending \ {c}
    /\ scene' = Append(scene, c.schema)
    /\ schemaSel' = c.schema
    /\ node' = GetGeo(scene', c.schema)
    /\ UNCHANGED <<data, dragged, created, lastPick, calls>>

\* drag (71-82): the node follows the mouse when both are known.
Drag ==
    /\ data /\ node # None
    /\ dragged' = node
    /\ UNCHANGED <<data, node, schemaSel, pending, scene, created, lastPick, calls>>

\* Mutant of AfterAddNode: the manager's fields are not cleared.
AfterAddNodeKeep ==
    /\ node # None /\ Truthy(schemaSel)
    /\ created' = Append(created, [schema |-> schemaSel, pick |-> lastPick])
    /\ UNCHANGED <<data, node, schemaSel, pending, scene, dragged, lastPick, calls>>

\* afterAddNode (101-119): createNode for the recorded schema, then both
\* fields are cleared; the temporary node stays in the scene.
AfterAddNode ==
    /\ node # None /\ Truthy(schemaSel)
    /\ created' = Append(created, [schema |-> schemaSel, pick |-> lastPick])
    /\ node' = None
    /\ schemaSel' = None
    /\ UNCHANGED <<data, pending, scene, dragged, lastPick, calls>>

Next ==
    \/ BeforeAddNode
    \/ \E s \in SchemaIds : AddNode(s)
    \/ \E c \in pending : TemplateError(c) \/ TemplateArrives(c)
    \/ Drag
    \/ AfterAddNode

Spec == Init /\ [][Next]_vars

-----------------------------------------------------------------------------

TypeOK ==
    /\ data \in BOOLEAN
    /\ node \in (1..Len(scene)) \cup {None}
    /\ schemaSel \in SchemaIds \cup {None}
    /\ pending \subseteq Call
    /\ scene \in Seq(SchemaIds)
    /\ dragged \in (1..Len(scene)) \cup {None}
    /\ created \in Seq([schema : SchemaIds, pick : SchemaIds])
    /\ lastPick \in SchemaIds \cup {None}
    /\ calls \in 0..MaxCalls

(***************************************************************************)
(* Every createNode request of afterAddNode stands for its own temporary  *)
(* node of the same schema: requests map one-to-one onto scene nodes, and *)
(* each asks for the schema of its node, however late templates, drags   *)
(* and repeated mouse-ups interleave (lines 57-64 and 101-116).            *)
(***************************************************************************)
CreatedMatchesPlaced ==
    \E f \in [1..Len(created) -> 1..Len(scene)] :
        /\ \A i, j \in 1..Len(created) : f[i] = f[j] => i = j
        /\ \A i \in 1..Len(created) : scene[f[i]] = created[i].schema

(***************************************************************************)
(* NodeAddManager implements NodePlacementSpec: the scene is the list of   *)
(* placements, a set this.node marks the newest one as owed a request, and *)
(* the requests are the schemas of the createNode calls.  A template that  *)
(* arrives is a placement, afterAddNode a request for the newest one, and  *)
(* every other step leaves all three unchanged.                            *)
(***************************************************************************)
Placement == INSTANCE NodePlacementSpec WITH
    placed <- scene,
    owed <- (node # None),
    requested <- [i \in 1..Len(created) |-> created[i].schema]

ImplementsPlacementSpec == Placement!Spec

=============================================================================
