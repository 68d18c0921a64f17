--------------------------- MODULE ProjectionLoop ---------------------------
(***************************************************************************)
(* The projection loop of the `add` and `current` mutations (node.ts       *)
(* 588-612, 619-642) run one item at a time: `stack` is node.stack,        *)
(* `i` how many items the for-loop has consumed, `display` the displayData *)
(* object being built.  Every stack of at most MaxLen items over the       *)
(* snapshots of the model is an initial state, so a run checks the loop    *)
(* against the per-slot statement Project of module Projection for all     *)
(* of them.                                                                *)
(***************************************************************************)
EXTENDS Projection

CONSTANT MaxLen

ASSUME MaxLenAssumption == MaxLen \in Nat

VARIABLES stack, i, display

vars == <<stack, i, display>>

StacksUpTo(n) == UNION {[1..m -> Snap] : m \in 0..n}

TypeOK ==
    /\ stack \in StacksUpTo(MaxLen)
    /\ i \in 0..Len(stack)
    /\ display \in Display

Init ==
    /\ stack \in StacksUpTo(MaxLen)
    /\ i = 0
    /\ display = EmptyDisplay

\* Mutant of LoopStep: the index advances past an item.
LoopStepSkip ==
    /\ i < Len(stack)
    /\ display' = AddToDisplay(display, stack[i + 1])
    /\ i' = i + 2
    /\ UNCHANGED stack

\* One pass of `for (let item of node.stack)`.
LoopStep ==
    /\ i < Len(stack)
    /\ display' = AddToDisplay(display, stack[i + 1])
    /\ i' = i + 1
    /\ UNCHANGED stack

Next == LoopStep

Spec == Init /\ [][Next]_vars /\ WF_vars(LoopStep)

(***************************************************************************)
(* Loop invariant: after consuming the first i items, displayData is the   *)
(* projection of those i items -- for each change set the first item of   *)
(* highest entry count (later items win only with a strictly greater      *)
(* count), and the last saved item -- so at the end node.display is       *)
(* Project(node.stack).                                                    *)
(***************************************************************************)
LoopComputesProjection == display = Project(SubSeq(stack, 1, i))

-----------------------------------------------------------------------------
(***************************************************************************)
(* Refinement: until the loop has consumed the whole stack the mutation   *)
(* has not returned and node.display is not observable, so it stands for   *)
(* the empty object; from then on it is what the loop built.               *)
(***************************************************************************)
Abs == INSTANCE ProjectionSpec
           WITH display <- IF i = Len(stack) THEN display ELSE EmptyDisplay,
                done    <- (i = Len(stack))

=============================================================================
