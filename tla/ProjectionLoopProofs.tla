------------------------- MODULE ProjectionLoopProofs -------------------------
(***************************************************************************)
(* Proofs about the projection loop of the `add` and `current` mutations:  *)
(* for every set of change sets, snapshots and stack bound, the loop       *)
(* computes the per-slot projection Project, and it implements the         *)
(* one-step specification ProjectionSpec (its safety part; that the loop   *)
(* ends is checked by TLC only).                                           *)
(***************************************************************************)
EXTENDS ProjectionLoop, ProjectionProofs

\* The stacks of the model are sequences of snapshots.
LEMMA StacksAreSeqs ==
    ASSUME NEW st \in StacksUpTo(MaxLen)
    PROVE  st \in Seq(Snap)
<1>1. PICK m \in 0..MaxLen : st \in [1..m -> Snap]
  BY DEF StacksUpTo
<1>2. m \in Nat
  BY MaxLenAssumption
<1>3. QED
  BY <1>1, <1>2

\* The prefix of one more item is the prefix with that item appended.
LEMMA PrefixStep ==
    ASSUME NEW st \in Seq(Snap), NEW n \in 0..(Len(st) - 1)
    PROVE  SubSeq(st, 1, n + 1) = Append(SubSeq(st, 1, n), st[n + 1])
<1>1. /\ SubSeq(st, 1, n + 1) \in Seq(Snap)
      /\ Len(SubSeq(st, 1, n + 1)) = n + 1
      /\ Append(SubSeq(st, 1, n), st[n + 1]) \in Seq(Snap)
      /\ Len(Append(SubSeq(st, 1, n), st[n + 1])) = n + 1
  OBVIOUS
<1>2. \A j \in 1..(n + 1) :
        SubSeq(st, 1, n + 1)[j] = Append(SubSeq(st, 1, n), st[n + 1])[j]
  OBVIOUS
<1>3. QED
  BY <1>1, <1>2, SeqEqual

\* The prefixes at both ends of the loop.
LEMMA PrefixEnds ==
    ASSUME NEW st \in Seq(Snap)
    PROVE  SubSeq(st, 1, 0) = <<>> /\ SubSeq(st, 1, Len(st)) = st
<1>1. SubSeq(st, 1, 0) = <<>>
  OBVIOUS
<1>2. SubSeq(st, 1, Len(st)) = st
  BY SeqEqual
<1>3. QED
  BY <1>1, <1>2

\* The loop invariant, with the type of the loop's state.
Inv == TypeOK /\ LoopComputesProjection

LEMMA InitInv == Init => Inv
<1> SUFFICES ASSUME Init PROVE Inv
  OBVIOUS
<1>1. stack \in Seq(Snap)
  BY StacksAreSeqs DEF Init
<1>2. TypeOK
  BY <1>1, ProjectType, ProjectEmpty DEF Init, TypeOK, Display, EmptyDisplay
<1>3. LoopComputesProjection
  BY <1>1, PrefixEnds, ProjectEmpty DEF Init, LoopComputesProjection
<1>4. QED
  BY <1>2, <1>3 DEF Inv

LEMMA InvInductive == Inv /\ [Next]_vars => Inv'
<1> SUFFICES ASSUME Inv, [Next]_vars PROVE Inv'
  OBVIOUS
<1>1. stack \in Seq(Snap) /\ i \in 0..Len(stack)
  BY StacksAreSeqs DEF Inv, TypeOK
<1>2. CASE LoopStep
  <2>1. i \in 0..(Len(stack) - 1) /\ stack[i + 1] \in Snap /\ stack' = stack
    BY <1>1, <1>2 DEF LoopStep
  <2>2. SubSeq(stack, 1, i + 1) = Append(SubSeq(stack, 1, i), stack[i + 1])
    BY <1>1, <2>1, PrefixStep
  <2>3. SubSeq(stack, 1, i) \in Seq(Snap)
    BY <1>1, <2>1
  <2>4. display' = Project(SubSeq(stack', 1, i'))
    <3>1. display' = AddToDisplay(Project(SubSeq(stack, 1, i)), stack[i + 1])
      BY <1>2 DEF Inv, LoopComputesProjection, LoopStep
    <3>2. AddToDisplay(Project(SubSeq(stack, 1, i)), stack[i + 1])
            = Project(SubSeq(stack, 1, i + 1))
      BY <2>1, <2>2, <2>3, ProjectAppend
    <3>3. QED
      BY <1>2, <2>1, <3>1, <3>2 DEF LoopStep
  <2>5. display' \in Display
    <3>1. SubSeq(stack, 1, i + 1) \in Seq(Snap)
      BY <1>1, <2>1
    <3>2. display' = Project(SubSeq(stack, 1, i + 1))
      BY <1>2, <2>1, <2>4 DEF LoopStep
    <3>3. QED
      BY <3>1, <3>2, ProjectType
  <2>6. TypeOK'
    BY <1>2, <2>1, <2>5 DEF Inv, TypeOK, LoopStep
  <2>7. QED
    BY <2>4, <2>6 DEF Inv, LoopComputesProjection
<1>3. CASE UNCHANGED vars
  BY <1>3 DEF Inv, TypeOK, LoopComputesProjection, vars
<1>4. QED
  BY <1>2, <1>3 DEF Next

(***************************************************************************)
(* The loop of the add and current mutations leaves in node.display the    *)
(* projection of the items it has consumed (first item of highest entry   *)
(* count per change set, last saved item), for every stack and every set  *)
(* of change sets: the invariant TLC checks on stacks of three items.      *)
(***************************************************************************)
THEOREM LoopCorrect == Spec => []LoopComputesProjection
<1>1. Inv => LoopComputesProjection
  BY DEF Inv
<1>2. QED
  BY InitInv, InvInductive, <1>1, PTL DEF Spec

(***************************************************************************)
(* The loop's state is always well formed: the stack is never longer than  *)
(* the bound, the index of the for-loop never passes the end of the stack, *)
(* and node.display is a map from slots to snapshots or None.              *)
(***************************************************************************)
THEOREM LoopTypeCorrect == Spec => []TypeOK
<1>1. Inv => TypeOK
  BY DEF Inv
<1>2. QED
  BY InitInv, InvInductive, <1>1, PTL DEF Spec

-----------------------------------------------------------------------------
(* Refinement of ProjectionSpec under the mapping of module ProjectionLoop. *)

\* ProjectionSpec is instantiated with the constants of the same names, so
\* its operators are those of module Projection.
LEMMA AbsSame ==
    /\ \A st : Abs!Project(st) = Project(st)
    /\ Abs!EmptyDisplay = EmptyDisplay
    /\ Abs!StacksUpTo(MaxLen) = StacksUpTo(MaxLen)
<1>1. \A st : Abs!Project(st) = Project(st)
  BY DEF Abs!Project, Project, Abs!Wins, Wins, Abs!IdxOf, IdxOf, Abs!KeyOf, KeyOf,
         Abs!Keys, Keys, Abs!Saved, Saved
<1>2. Abs!EmptyDisplay = EmptyDisplay
  BY DEF Abs!EmptyDisplay, EmptyDisplay, Abs!Keys, Keys, Abs!Saved, Saved
<1>3. Abs!StacksUpTo(MaxLen) = StacksUpTo(MaxLen)
  BY DEF Abs!StacksUpTo, StacksUpTo, Abs!Snap, Snap
<1>4. QED
  BY <1>1, <1>2, <1>3

\* Every pass of the loop is a step of the one-step specification or leaves
\* what an observer sees unchanged.
LEMMA RefinementStep == Inv /\ Inv' /\ [Next]_vars => [Abs!Commit]_Abs!vars
<1> SUFFICES ASSUME Inv, Inv', [Next]_vars PROVE [Abs!Commit]_Abs!vars
  OBVIOUS
<1>1. stack \in Seq(Snap) /\ i \in 0..Len(stack)
  BY StacksAreSeqs DEF Inv, TypeOK
<1>2. CASE LoopStep /\ i + 1 < Len(stack)
  <2>1. stack' = stack /\ i' = i + 1 /\ i # Len(stack) /\ i' # Len(stack')
    BY <1>1, <1>2 DEF LoopStep
  <2>2. UNCHANGED Abs!vars
    BY <2>1 DEF Abs!vars
  <2>3. QED
    BY <2>2
<1>3. CASE LoopStep /\ i + 1 = Len(stack)
  <2>1. stack' = stack /\ i' = Len(stack') /\ i # Len(stack)
    BY <1>1, <1>3 DEF LoopStep
  <2>2. display' = Project(stack)
    BY <1>1, <2>1, PrefixEnds DEF Inv, LoopComputesProjection
  <2>3. Abs!Commit
    BY <2>1, <2>2, AbsSame DEF Abs!Commit
  <2>4. QED
    BY <2>3
<1>4. CASE UNCHANGED vars
  BY <1>4 DEF vars, Abs!vars
<1>5. QED
  BY <1>1, <1>2, <1>3, <1>4 DEF Next, LoopStep

(***************************************************************************)
(* The projection loop of the mutations implements the one-step projection *)
(* of spec 4.3: from a stack of any length over any change sets, no pass   *)
(* but the last changes what a reader of node.display can see, and the     *)
(* last one publishes Project(node.stack).  That the last pass comes is    *)
(* the fairness part of ProjectionSpec, checked by TLC.                    *)
(***************************************************************************)
THEOREM LoopImplementsSpec == Spec => Abs!SafeSpec
<1>1. Init => Abs!Init
  <2>1. SUFFICES ASSUME Init PROVE Abs!Init
    OBVIOUS
  <2>2. stack \in Seq(Snap)
    BY <2>1, StacksAreSeqs DEF Init
  <2>3. (0 = Len(stack)) = (stack = <<>>)
    BY <2>2
  <2>4. QED
    BY <2>1, <2>3, AbsSame DEF Init, Abs!Init
<1>2. QED
  BY <1>1, InitInv, InvInductive, RefinementStep, PTL DEF Spec, Abs!SafeSpec
=============================================================================
