--------------------------- MODULE NodePlacementSpec ---------------------------
(***************************************************************************)
(* What NodeAddManager (interaction/nodeAdd.ts) promises the schematic     *)
(* viewer, without its fields or the template requests in flight: nodes    *)
(* are placed in the scene one after another, and a mouse-up asks the      *)
(* backend for a node of the newest placement's schema, at most once per   *)
(* placement.  A placement still owed a request when a newer one is made   *)
(* is left in the scene without one.                                       *)
(***************************************************************************)
EXTENDS Sequences

CONSTANT SchemaIds

VARIABLES
    placed,     \* schemas of the temporary nodes placed, in order
    owed,       \* the newest placement has not been requested yet
    requested   \* schemas of the createNode requests, in order

vars == <<placed, owed, requested>>

Init ==
    /\ placed = <<>>
    /\ owed = FALSE
    /\ requested = <<>>

\* A temporary node of schema s is placed; it is now the one owed a request.
Place(s) ==
    /\ placed' = Append(placed, s)
    /\ owed' = TRUE
    /\ UNCHANGED requested

\* The backend is asked once for a node of the newest placement's schema.
Request ==
    /\ owed
    /\ requested' = Append(requested, placed[Len(placed)])
    /\ owed' = FALSE
    /\ UNCHANGED placed

Next == (\E s \in SchemaIds : Place(s)) \/ Request

Spec == Init /\ [][Next]_vars
=============================================================================
