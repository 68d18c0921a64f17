----------------------------- MODULE Projection -----------------------------
(***************************************************************************)
(* The pure helpers of the node store (si-web-app store/modules/node.ts):  *)
(* the snapshot records a node's stack holds, the display projection that  *)
(* the `add` and `current` mutations compute from a stack, the entry the   *)
(* getters and `setFieldValue` target, the visibility filter of `list`,    *)
(* the pair of snapshots `diffCurrent` compares, and lodash `unionBy` on   *)
(* the `id` field.                                                         *)
(*                                                                         *)
(* A snapshot keeps only what the store branches on: its `id`, its         *)
(* siStorable.changeSetId (NoCS when absent), its changeSetEntryCount as   *)
(* the number parseInt reads from it, its deleted flag, and one abstract   *)
(* field value `val` that stands for the entity's properties.              *)
(***************************************************************************)
EXTENDS Naturals, Sequences, FiniteSets

CONSTANTS
    ChangeSets,   \* change-set ids
    NoCS,         \* absent siStorable.changeSetId (a saved snapshot)
    SnapIds,      \* values of a snapshot's `id` field
    Vals,         \* abstract entity field values
    MaxCount,     \* largest changeSetEntryCount a run produces
    None          \* absent/undefined (a missing key, a null reference)

\* The literal key "saved" of node.display.
Saved == "saved"

Keys == ChangeSets \cup {Saved}

Snap == [id: SnapIds, cs: ChangeSets \cup {NoCS}, count: 0..MaxCount,
         deleted: BOOLEAN, val: Vals]

ASSUME ProjectionAssumption ==
    /\ NoCS \notin ChangeSets
    /\ Saved \notin ChangeSets
    /\ None \notin ChangeSets \cup Snap
    /\ MaxCount \in Nat

Display == [Keys -> Snap \cup {None}]

\* The display slot a snapshot competes for.
KeyOf(item) == IF item.cs = NoCS THEN Saved ELSE item.cs

(***************************************************************************)
(* One iteration of the projection loop (node.ts 590-610): a saved item    *)
(* always overwrites the "saved" slot; a change-set item takes its slot    *)
(* when the slot is empty or its entry count is strictly greater.          *)
(***************************************************************************)
\* Mutant of Keeps: a later item of equal entry count also wins.
KeepsOnTie(d, item) ==
    \/ item.cs = NoCS
    \/ d[item.cs] = None
    \/ item.count >= d[item.cs].count

Keeps(d, item) ==
    \/ item.cs = NoCS
    \/ d[item.cs] = None
    \/ item.count > d[item.cs].count

AddToDisplay(d, item) ==
    IF Keeps(d, item) THEN [d EXCEPT ![KeyOf(item)] = item] ELSE d

EmptyDisplay == [k \in Keys |-> None]

(***************************************************************************)
(* What the whole loop computes (node.ts 588-612 and 619-642), stated per  *)
(* slot: the "saved" slot holds the last saved item of the stack; the slot *)
(* of change set c holds, among the items of c, the first one of highest   *)
(* entry count.  Module ProjectionLoop checks, for every bounded stack,    *)
(* that iterating AddToDisplay from EmptyDisplay gives exactly this.       *)
(***************************************************************************)
IdxOf(s, k) == {i \in 1..Len(s) : KeyOf(s[i]) = k}

Wins(s, k, i) ==
    /\ i \in IdxOf(s, k)
    /\ \A j \in IdxOf(s, k) :
          IF k = Saved THEN j <= i
          ELSE \/ s[j].count < s[i].count
               \/ s[j].count = s[i].count /\ i <= j

Project(s) ==
    [k \in Keys |-> IF \E i \in 1..Len(s) : Wins(s, k, i)
                    THEN s[CHOOSE i \in 1..Len(s) : Wins(s, k, i)]
                    ELSE None]

(***************************************************************************)
(* The display entry the getters (getFieldValue, propertiesList) and the   *)
(* setFieldValue actions use: the active change set's entry when the node  *)
(* has one, "saved" otherwise (node.ts 727-733, 750-756).                  *)
(***************************************************************************)
ActiveKey(d, cs) == IF cs \in ChangeSets /\ d[cs] # None THEN cs ELSE Saved

(***************************************************************************)
(* The visibility filter of the `list` getter (node.ts 303-360) for a node *)
(* with stack `st` and display `d` under active change set `cs` (NoCS when *)
(* none is selected).                                                      *)
(***************************************************************************)
InChangeSet(st, c) == \E i \in 1..Len(st) : st[i].cs = c

HasLiveSaved(st) == \E i \in 1..Len(st) : st[i].cs = NoCS /\ ~st[i].deleted

Visible(st, d, cs) ==
    IF cs \in ChangeSets /\ InChangeSet(st, cs)
    THEN ~(d[cs].deleted /\ d[Saved] = None)
    ELSE HasLiveSaved(st)

(***************************************************************************)
(* The pair of snapshots diffCurrent hands to diffEntity (node.ts          *)
(* 190-254), or NoDiff when it returns the empty result.  When the active  *)
(* change set has an entry but there is no saved one, the loop of lines    *)
(* 209-235 scans the WHOLE stack: start is the first item of least entry   *)
(* count, final the first item of greatest entry count.                    *)
(***************************************************************************)
NoDiff == <<>>

FirstMin(st, i) ==
    \A j \in 1..Len(st) : st[j].count >= st[i].count /\
                          (st[j].count = st[i].count => i <= j)

FirstMax(st, i) ==
    \A j \in 1..Len(st) : st[j].count <= st[i].count /\
                          (st[j].count = st[i].count => i <= j)

DiffPair(st, d, cs) ==
    IF cs \notin ChangeSets \/ d[cs] = None THEN NoDiff
    ELSE IF d[Saved] # None THEN <<d[Saved], d[cs]>>
    ELSE <<st[CHOOSE i \in 1..Len(st) : FirstMin(st, i)],
           st[CHOOSE i \in 1..Len(st) : FirstMax(st, i)]>>

(***************************************************************************)
(* lodash unionBy(a, b, "id") applied to the concatenation s = a \o b:     *)
(* the elements of s whose id did not occur earlier, in order.  The i-th   *)
(* kept element is the kept index with exactly i kept indices up to it;    *)
(* the ELSE branch is never taken (every rank in 1..n is the rank of one   *)
(* kept index) and only makes the result's type evident.                   *)
(***************************************************************************)
FirstById(s) == {i \in 1..Len(s) : \A j \in 1..(i - 1) : s[j].id # s[i].id}

RankIn(K, i) == Cardinality({j \in K : j <= i})

UnionById(s) ==
    LET K == FirstById(s)
    IN  [r \in 1..Cardinality(K) |->
            IF \E i \in K : RankIn(K, i) = r
            THEN s[CHOOSE i \in K : RankIn(K, i) = r]
            ELSE s[1]]
=============================================================================
