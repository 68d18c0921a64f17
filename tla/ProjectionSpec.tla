--------------------------- MODULE ProjectionSpec ---------------------------
(***************************************************************************)
(* What the projection loop of the `add` and `current` mutations promises  *)
(* (node.ts 588-612, 619-642): a mutation runs to completion before any    *)
(* getter reads the node, so an observer sees node.display go in one step *)
(* from the empty object to the projection Project(node.stack) of the      *)
(* whole stack.  `done` says whether the mutation has returned.            *)
(***************************************************************************)
EXTENDS Projection

CONSTANT MaxLen

VARIABLES stack, display, done

vars == <<stack, display, done>>

StacksUpTo(n) == UNION {[1..m -> Snap] : m \in 0..n}

Init ==
    /\ stack \in StacksUpTo(MaxLen)
    /\ display = EmptyDisplay
    /\ done = (stack = <<>>)

\* The mutation sets node.display to the projection of node.stack.
Commit ==
    /\ ~done
    /\ display' = Project(stack)
    /\ done' = TRUE
    /\ UNCHANGED stack

\* The safety part: what every step may do.
SafeSpec == Init /\ [][Commit]_vars

\* The mutation does return.
Spec == SafeSpec /\ WF_vars(Commit)
=============================================================================
