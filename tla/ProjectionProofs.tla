-------------------------- MODULE ProjectionProofs --------------------------
(***************************************************************************)
(* Lemmas about the helpers of module Projection: the type of the display *)
(* projection and what lodash unionBy on `id` keeps.                       *)
(***************************************************************************)
EXTENDS Projection, TLAPS, SequenceTheorems, FiniteSetTheorems,
        WellFoundedInduction

\* Every non-empty set of naturals has a least element.
LEMMA LeastElement ==
    ASSUME NEW T \in SUBSET Nat, T # {}
    PROVE  \E m \in T : \A y \in T : m <= y
<1>1. \E m \in T : \A y \in T : ~(<<y, m>> \in OpToRel(<, Nat))
  BY NatLessThanWellFounded, WFMin
<1>2. PICK m \in T : \A y \in T : ~(<<y, m>> \in OpToRel(<, Nat))
  BY <1>1
<1>3. ASSUME NEW y \in T PROVE m <= y
  <2>1. ~(<<y, m>> \in OpToRel(<, Nat))
    BY <1>2
  <2>2. <<y, m>> \in Nat \X Nat
    OBVIOUS
  <2>3. ~(y < m)
    BY <2>1, <2>2 DEF OpToRel
  <2>4. QED
    BY <2>3
<1>4. QED
  BY <1>3

\* The projection of a stack of snapshots is a display map.
LEMMA ProjectType ==
    ASSUME NEW s \in Seq(Snap)
    PROVE  Project(s) \in Display
<1>1. SUFFICES ASSUME NEW k \in Keys
               PROVE  Project(s)[k] \in Snap \cup {None}
  BY DEF Project, Display
<1>2. CASE \E i \in 1..Len(s) : Wins(s, k, i)
  <2>1. (CHOOSE i \in 1..Len(s) : Wins(s, k, i)) \in 1..Len(s)
    BY <1>2
  <2>2. QED
    BY <1>2, <2>1 DEF Project
<1>3. CASE ~\E i \in 1..Len(s) : Wins(s, k, i)
  BY <1>3 DEF Project
<1>4. QED
  BY <1>2, <1>3

-----------------------------------------------------------------------------
(* Ranks of the kept indices in the unionBy result.                        *)

\* A set of indices of a sequence is finite and no larger than it.
LEMMA IndexSetFinite ==
    ASSUME NEW n \in Nat, NEW K \in SUBSET (1..n)
    PROVE  /\ IsFiniteSet(K)
           /\ Cardinality(K) \in 0..n
<1>1. IsFiniteSet(1..n) /\ Cardinality(1..n) = n
  BY FS_Interval
<1>2. IsFiniteSet(K) /\ Cardinality(K) <= n
  BY <1>1, FS_Subset
<1>3. Cardinality(K) \in Nat
  BY <1>2, FS_CardinalityType
<1>4. QED
  BY <1>2, <1>3

\* The rank of a kept index lies between 1 and the number of kept indices.
LEMMA RankBounds ==
    ASSUME NEW K, IsFiniteSet(K), K \subseteq Nat, NEW i \in K
    PROVE  /\ RankIn(K, i) \in Nat
           /\ Cardinality(K) \in Nat
           /\ RankIn(K, i) \in 1..Cardinality(K)
<1> DEFINE A == {j \in K : j <= i}
<1>1. IsFiniteSet(A) /\ Cardinality(A) <= Cardinality(K)
  BY FS_Subset
<1>2. Cardinality(A) \in Nat /\ Cardinality(K) \in Nat
  BY <1>1, FS_CardinalityType
<1>3. A # {}
  OBVIOUS
<1>4. Cardinality(A) # 0
  BY <1>1, <1>3, FS_EmptySet
<1>5. QED
  BY <1>1, <1>2, <1>4 DEF RankIn

\* Ranks strictly increase with the index, so no two kept indices share one.
LEMMA RankMono ==
    ASSUME NEW K, IsFiniteSet(K), K \subseteq Nat,
           NEW i \in K, NEW i2 \in K, i < i2
    PROVE  RankIn(K, i) < RankIn(K, i2)
<1> DEFINE A == {j \in K : j <= i}
           B == {j \in K : j <= i2}
<1>1. IsFiniteSet(B)
  BY FS_Subset
<1>2. A \subseteq B
  <2>1. SUFFICES ASSUME NEW j \in K, j <= i PROVE j <= i2
    OBVIOUS
  <2>2. j \in Nat /\ i \in Nat /\ i2 \in Nat
    OBVIOUS
  <2>3. QED
    BY <2>1, <2>2
<1>3. Cardinality(A) <= Cardinality(B) /\
      (Cardinality(B) = Cardinality(A) => B = A)
  BY <1>1, <1>2, FS_Subset
<1>4. B # A
  BY i2 \in B
<1>5. Cardinality(A) \in Nat /\ Cardinality(B) \in Nat
  BY <1>1, <1>2, FS_Subset, FS_CardinalityType
<1>6. QED
  BY <1>3, <1>4, <1>5 DEF RankIn

LEMMA RankInjective ==
    ASSUME NEW K, IsFiniteSet(K), K \subseteq Nat,
           NEW i \in K, NEW i2 \in K, RankIn(K, i) = RankIn(K, i2)
    PROVE  i = i2
<1>1. i \in Nat /\ i2 \in Nat
  OBVIOUS
<1>0. RankIn(K, i) \in Nat /\ RankIn(K, i2) \in Nat
  BY RankBounds
<1>2. ~(i < i2)
  <2>1. ASSUME i < i2 PROVE RankIn(K, i) < RankIn(K, i2)
    BY <2>1, RankMono
  <2>2. QED
    BY <2>1, <1>0
<1>3. ~(i2 < i)
  <2>1. ASSUME i2 < i PROVE RankIn(K, i2) < RankIn(K, i)
    BY <2>1, RankMono
  <2>2. QED
    BY <2>1, <1>0
<1>4. QED
  BY <1>1, <1>2, <1>3

-----------------------------------------------------------------------------
(* lodash unionBy on `id`.                                                 *)

\* The indices unionBy keeps are indices of its argument.
LEMMA KeptIndices ==
    ASSUME NEW T, NEW s \in Seq(T)
    PROVE  /\ FirstById(s) \subseteq 1..Len(s)
           /\ IsFiniteSet(FirstById(s))
           /\ Cardinality(FirstById(s)) \in 0..Len(s)
<1>1. FirstById(s) \subseteq 1..Len(s)
  BY DEF FirstById
<1>2. QED
  BY <1>1, IndexSetFinite

\* unionBy of a non-empty sequence of T is a sequence of T, whose elements
\* are elements of the argument.
LEMMA UnionByIdType ==
    ASSUME NEW T, NEW s \in Seq(T), Len(s) >= 1
    PROVE  /\ UnionById(s) \in Seq(T)
           /\ Len(UnionById(s)) = Cardinality(FirstById(s))
           /\ \A r \in 1..Len(UnionById(s)) :
                 \E i \in 1..Len(s) : UnionById(s)[r] = s[i]
<1> DEFINE K == FirstById(s)
           n == Cardinality(K)
<1>1. K \subseteq 1..Len(s) /\ n \in Nat
  BY KeptIndices
<1>2. ASSUME NEW r \in 1..n
      PROVE  /\ UnionById(s)[r] \in T
             /\ \E i \in 1..Len(s) : UnionById(s)[r] = s[i]
  <2>1. CASE \E i \in K : RankIn(K, i) = r
    <3>1. PICK c \in 1..Len(s) : c = CHOOSE i \in K : RankIn(K, i) = r
      BY <2>1, <1>1
    <3>2. UnionById(s)[r] = s[c]
      BY <2>1, <3>1 DEF UnionById
    <3>3. s[c] \in T
      BY <3>1, ElementOfSeq
    <3>4. QED
      BY <3>2, <3>3
  <2>2. CASE ~\E i \in K : RankIn(K, i) = r
    BY <2>2 DEF UnionById
  <2>3. QED
    BY <2>1, <2>2
<1>3. UnionById(s) = [r \in 1..n |-> UnionById(s)[r]]
  BY DEF UnionById
<1>4. QED
  BY <1>1, <1>2, <1>3

\* The kept element of rank r is the kept index of rank r.
LEMMA UnionByIdAt ==
    ASSUME NEW T, NEW s \in Seq(T), Len(s) >= 1, NEW m \in FirstById(s)
    PROVE  /\ RankIn(FirstById(s), m) \in 1..Len(UnionById(s))
           /\ UnionById(s)[RankIn(FirstById(s), m)] = s[m]
<1> DEFINE K == FirstById(s)
           r == RankIn(K, m)
<1>1. K \subseteq Nat /\ IsFiniteSet(K)
  BY KeptIndices
<1>2. r \in 1..Cardinality(K)
  BY <1>1, RankBounds
<1>3. Len(UnionById(s)) = Cardinality(K)
  BY UnionByIdType
<1>4. (CHOOSE i \in K : RankIn(K, i) = r) = m
  <2>1. \E i \in K : RankIn(K, i) = r
    OBVIOUS
  <2>2. PICK c \in K : c = CHOOSE i \in K : RankIn(K, i) = r
    OBVIOUS
  <2>3. RankIn(K, c) = r
    BY <2>1, <2>2
  <2>4. QED
    BY <1>1, <2>2, <2>3, RankInjective
<1>5. UnionById(s)[r] = s[m]
  BY <1>2, <1>4 DEF UnionById
<1>6. QED
  BY <1>2, <1>3, <1>5

\* unionBy keeps the first element of its argument in front.
LEMMA UnionByIdHead ==
    ASSUME NEW T, NEW s \in Seq(T), Len(s) >= 1
    PROVE  /\ Len(UnionById(s)) >= 1
           /\ UnionById(s)[1] = s[1]
<1>1. 1 \in FirstById(s)
  BY DEF FirstById
<1>2. {j \in FirstById(s) : j <= 1} = {1}
  BY <1>1, KeptIndices
<1>3. RankIn(FirstById(s), 1) = 1
  BY <1>2, FS_Singleton DEF RankIn
<1>4. QED
  BY <1>1, <1>3, UnionByIdAt

\* Every id of the argument is the id of some element of the unionBy result.
LEMMA UnionByIdKeepsIds ==
    ASSUME NEW T, NEW s \in Seq(T), Len(s) >= 1, NEW i \in 1..Len(s)
    PROVE  \E r \in 1..Len(UnionById(s)) : UnionById(s)[r].id = s[i].id
<1> DEFINE M == {j \in 1..Len(s) : s[j].id = s[i].id}
<1>1. M \subseteq Nat /\ M # {}
  OBVIOUS
<1>2. PICK m \in M : \A y \in M : m <= y
  BY <1>1, LeastElement
<1>3. m \in FirstById(s)
  <2>1. SUFFICES ASSUME NEW j \in 1..(m - 1), s[j].id = s[m].id
                 PROVE  FALSE
    BY DEF FirstById
  <2>2. j \in M
    BY <2>1
  <2>3. QED
    BY <1>2, <2>1, <2>2
<1>4. QED
  BY <1>3, UnionByIdAt

\* Every rank 1..n is the rank of a kept index: ranking is an injection of
\* the n kept indices into 1..n, hence onto.
LEMMA RankOnto ==
    ASSUME NEW K, IsFiniteSet(K), K \subseteq Nat,
           NEW r \in 1..Cardinality(K)
    PROVE  \E i \in K : RankIn(K, i) = r
<1> DEFINE n == Cardinality(K)
           f == [i \in K |-> RankIn(K, i)]
<1>1. n \in Nat
  BY FS_CardinalityType
<1>2. f \in [K -> 1..n]
  <2>1. ASSUME NEW i \in K PROVE RankIn(K, i) \in 1..n
    BY RankBounds
  <2>2. QED
    BY <2>1
<1>3. IsInjective(f)
  <2>1. ASSUME NEW a \in K, NEW b \in K, f[a] = f[b] PROVE a = b
    <3>1. RankIn(K, a) = RankIn(K, b)
      BY <2>1
    <3>2. QED
      BY <3>1, RankInjective
  <2>2. QED
    BY <2>1 DEF IsInjective
<1>4. f \in Injection(K, 1..n)
  BY <1>2, <1>3 DEF Injection
<1>5. IsFiniteSet(1..n) /\ Cardinality(1..n) = n
  BY <1>1, FS_Interval
<1>6. f \in Surjection(K, 1..n)
  BY <1>4, <1>5, FS_Injection
<1>7. QED
  BY <1>6 DEF Surjection

\* Every element of the unionBy result is the kept element of its rank.
LEMMA UnionByIdFrom ==
    ASSUME NEW T, NEW s \in Seq(T), Len(s) >= 1,
           NEW r \in 1..Len(UnionById(s))
    PROVE  \E i \in FirstById(s) : RankIn(FirstById(s), i) = r /\ UnionById(s)[r] = s[i]
<1> DEFINE K == FirstById(s)
<1>1. K \subseteq Nat /\ IsFiniteSet(K)
  BY KeptIndices
<1>2. Len(UnionById(s)) = Cardinality(K)
  BY UnionByIdType
<1>3. PICK i \in K : RankIn(K, i) = r
  <2>1. r \in 1..Cardinality(K)
    BY <1>2
  <2>2. QED
    BY <1>1, <2>1, RankOnto
<1>4. UnionById(s)[RankIn(K, i)] = s[i]
  BY UnionByIdAt
<1>5. QED
  BY <1>3, <1>4

\* No two elements of the unionBy result share an id.
LEMMA UnionByIdUnique ==
    ASSUME NEW T, NEW s \in Seq(T), Len(s) >= 1,
           NEW p \in 1..Len(UnionById(s)), NEW q \in 1..Len(UnionById(s)),
           UnionById(s)[p].id = UnionById(s)[q].id
    PROVE  p = q
<1> DEFINE K == FirstById(s)
<1>1. K \subseteq 1..Len(s) /\ IsFiniteSet(K)
  BY KeptIndices
<1>2. PICK i \in K : RankIn(K, i) = p /\ UnionById(s)[p] = s[i]
  BY UnionByIdFrom
<1>3. PICK j \in K : RankIn(K, j) = q /\ UnionById(s)[q] = s[j]
  BY UnionByIdFrom
<1>4. s[i].id = s[j].id
  BY <1>2, <1>3
<1>5. ~(i < j)
  BY <1>1, <1>4 DEF FirstById
<1>6. ~(j < i)
  BY <1>1, <1>4 DEF FirstById
<1>7. i = j
  BY <1>1, <1>5, <1>6
<1>8. QED
  BY <1>2, <1>3, <1>7
-----------------------------------------------------------------------------
(* The winner of a display slot, and the projection of a longer stack.     *)

\* A slot has at most one winner.
LEMMA WinsUnique ==
    ASSUME NEW s \in Seq(Snap), NEW k \in Keys, NEW i \in 1..Len(s), NEW j \in 1..Len(s),
           Wins(s, k, i), Wins(s, k, j)
    PROVE  i = j
<1>1. CASE k = Saved
  BY <1>1 DEF Wins
<1>2. CASE k # Saved
  <2>1. s[i] \in Snap /\ s[j] \in Snap
    OBVIOUS
  <2>2. s[i].count \in Nat /\ s[j].count \in Nat
    BY <2>1, ProjectionAssumption DEF Snap
  <2>3. /\ \/ s[j].count < s[i].count
           \/ s[j].count = s[i].count /\ i <= j
        /\ \/ s[i].count < s[j].count
           \/ s[i].count = s[j].count /\ j <= i
    BY <1>2 DEF Wins
  <2>4. QED
    BY <2>2, <2>3
<1>3. QED
  BY <1>1, <1>2

\* The slot holds its winner.
LEMMA ProjectAt ==
    ASSUME NEW s \in Seq(Snap), NEW k \in Keys, NEW w \in 1..Len(s), Wins(s, k, w)
    PROVE  Project(s)[k] = s[w]
<1>1. PICK c \in 1..Len(s) : c = CHOOSE i \in 1..Len(s) : Wins(s, k, i)
  OBVIOUS
<1>2. Wins(s, k, c)
  BY <1>1
<1>3. c = w
  BY <1>2, WinsUnique
<1>4. QED
  BY <1>1, <1>3 DEF Project

\* A slot with no winner is empty.
LEMMA ProjectNone ==
    ASSUME NEW s \in Seq(Snap), NEW k \in Keys, ~\E i \in 1..Len(s) : Wins(s, k, i)
    PROVE  Project(s)[k] = None
BY DEF Project

\* A slot some item of the stack competes for has a winner: the last item
\* for "saved", the first item of highest entry count for a change set.
LEMMA WinnerExists ==
    ASSUME NEW s \in Seq(Snap), NEW k \in Keys, IdxOf(s, k) # {}
    PROVE  \E i \in 1..Len(s) : Wins(s, k, i)
<1> DEFINE I == IdxOf(s, k)
           n == Len(s)
<1>1. I \subseteq 1..n
  BY DEF IdxOf
<1>2. CASE k = Saved
  <2> DEFINE T == {n - j : j \in I}
  <2>1. T \subseteq Nat /\ T # {}
    BY <1>1
  <2>2. PICK m \in T : \A y \in T : m <= y
    BY <2>1, LeastElement
  <2>3. PICK i \in I : m = n - i
    BY <2>2
  <2>4. \A j \in I : j <= i
    <3>1. SUFFICES ASSUME NEW j \in I PROVE j <= i
      OBVIOUS
    <3>2. n - j \in T /\ m <= n - j
      BY <2>2
    <3>3. QED
      BY <1>1, <2>3, <3>2
  <2>5. QED
    BY <1>1, <1>2, <2>3, <2>4 DEF Wins
<1>3. CASE k # Saved
  <2>1. \A j \in I : s[j].count \in 0..MaxCount
    <3>1. SUFFICES ASSUME NEW j \in I PROVE s[j].count \in 0..MaxCount
      OBVIOUS
    <3>2. s[j] \in Snap
      BY <1>1
    <3>3. QED
      BY <3>2 DEF Snap
  <2> DEFINE C == {MaxCount - s[j].count : j \in I}
  <2>2. C \subseteq Nat /\ C # {}
    BY <2>1, ProjectionAssumption
  <2>3. PICK m \in C : \A y \in C : m <= y
    BY <2>2, LeastElement
  <2>4. PICK a \in I : m = MaxCount - s[a].count
    BY <2>3
  <2>5. \A j \in I : s[j].count <= s[a].count
    <3>1. SUFFICES ASSUME NEW j \in I PROVE s[j].count <= s[a].count
      OBVIOUS
    <3>2. MaxCount - s[j].count \in C /\ m <= MaxCount - s[j].count
      BY <2>3
    <3>3. QED
      BY <2>1, <2>4, <3>2, ProjectionAssumption
  <2> DEFINE F == {j \in I : s[j].count = s[a].count}
  <2>6. F \subseteq Nat /\ F # {}
    BY <1>1
  <2>7. PICK i \in F : \A y \in F : i <= y
    BY <2>6, LeastElement
  <2>8. \A j \in I : \/ s[j].count < s[i].count
                     \/ s[j].count = s[i].count /\ i <= j
    <3>1. SUFFICES ASSUME NEW j \in I
                   PROVE  \/ s[j].count < s[i].count
                          \/ s[j].count = s[i].count /\ i <= j
      OBVIOUS
    <3>2. s[j].count <= s[i].count /\ s[i].count \in Nat /\ s[j].count \in Nat
      BY <2>1, <2>5, <2>7
    <3>3. s[j].count = s[i].count => j \in F
      BY <2>7
    <3>4. QED
      BY <2>7, <3>2, <3>3
  <2>9. QED
    BY <1>1, <1>3, <2>7, <2>8 DEF Wins
<1>4. QED
  BY <1>2, <1>3

\* The projection of the empty stack is the empty display.
LEMMA ProjectEmpty == Project(<<>>) = EmptyDisplay
BY DEF Project, EmptyDisplay

(***************************************************************************)
(* One more pass of the loop: the projection of a stack with one item more *)
(* is the projection of the stack with that item added by AddToDisplay.    *)
(***************************************************************************)
LEMMA ProjectAppend ==
    ASSUME NEW s \in Seq(Snap), NEW item \in Snap
    PROVE  Project(Append(s, item)) = AddToDisplay(Project(s), item)
<1> DEFINE t == Append(s, item)
           n == Len(s)
           d == Project(s)
<1>1. /\ t \in Seq(Snap) /\ Len(t) = n + 1 /\ t[n + 1] = item
      /\ \A j \in 1..n : t[j] = s[j]
  OBVIOUS
<1>2. d \in Display /\ n + 1 \in 1..Len(t)
  BY <1>1, ProjectType
<1>3. KeyOf(item) \in Keys
  BY DEF KeyOf, Keys, Snap
<1>4. /\ Project(t) = [k \in Keys |-> Project(t)[k]]
      /\ AddToDisplay(d, item) = [k \in Keys |-> AddToDisplay(d, item)[k]]
  BY <1>2 DEF Project, AddToDisplay, Display
<1>5. SUFFICES ASSUME NEW k \in Keys PROVE Project(t)[k] = AddToDisplay(d, item)[k]
  BY <1>4
<1>6. CASE k # KeyOf(item)
  <2>1. AddToDisplay(d, item)[k] = d[k]
    BY <1>2, <1>6 DEF AddToDisplay, Display
  <2>2. IdxOf(t, k) = IdxOf(s, k)
    BY <1>1, <1>6 DEF IdxOf
  <2>3. \A i \in 1..n : Wins(t, k, i) <=> Wins(s, k, i)
    BY <1>1, <2>2 DEF Wins, IdxOf
  <2>4. ~Wins(t, k, n + 1)
    BY <2>2 DEF Wins, IdxOf
  <2>5. CASE \E w \in 1..n : Wins(s, k, w)
    <3>1. PICK w \in 1..n : Wins(s, k, w)
      BY <2>5
    <3>2. w \in 1..Len(t) /\ Wins(t, k, w)
      BY <1>1, <2>3, <3>1
    <3>3. Project(t)[k] = t[w]
      BY <1>1, <3>2, ProjectAt
    <3>4. d[k] = s[w]
      BY <3>1, ProjectAt
    <3>5. QED
      BY <1>1, <2>1, <3>3, <3>4
  <2>6. CASE ~\E w \in 1..n : Wins(s, k, w)
    <3>1. ~\E w \in 1..Len(t) : Wins(t, k, w)
      BY <1>1, <2>3, <2>4, <2>6
    <3>2. QED
      BY <1>1, <2>1, <2>6, <3>1, ProjectNone
  <2>7. QED
    BY <2>5, <2>6
<1>7. CASE k = KeyOf(item) /\ item.cs = NoCS
  <2>1. k = Saved
    BY <1>7 DEF KeyOf
  <2>2. n + 1 \in IdxOf(t, k) /\ \A j \in IdxOf(t, k) : j <= n + 1
    BY <1>1, <1>7 DEF IdxOf
  <2>3. Project(t)[k] = item
    <3>1. Wins(t, k, n + 1)
      BY <2>1, <2>2 DEF Wins
    <3>2. QED
      BY <1>1, <1>2, <3>1, ProjectAt
  <2>4. AddToDisplay(d, item)[k] = item
    BY <1>2, <1>3, <1>7 DEF AddToDisplay, Keeps, Display
  <2>5. QED
    BY <2>3, <2>4
<1>8. CASE k = KeyOf(item) /\ item.cs # NoCS
  <2>1. k = item.cs /\ k \in ChangeSets /\ k # Saved
    BY <1>8, ProjectionAssumption DEF KeyOf, Snap
  <2>2. IdxOf(t, k) = IdxOf(s, k) \cup {n + 1}
    BY <1>1, <1>8 DEF IdxOf
  <2>3. \A j \in IdxOf(s, k) : j \in 1..n /\ t[j] = s[j] /\ s[j].count \in Nat
    <3>1. SUFFICES ASSUME NEW j \in IdxOf(s, k)
                   PROVE  j \in 1..n /\ t[j] = s[j] /\ s[j].count \in Nat
      OBVIOUS
    <3>2. j \in 1..n /\ t[j] = s[j] /\ s[j] \in Snap
      BY <1>1 DEF IdxOf
    <3>3. QED
      BY <3>2 DEF Snap
  <2>4. item.count \in Nat
    BY DEF Snap
  <2>5. CASE d[k] = None
    <3>1. IdxOf(s, k) = {}
      <4>1. SUFFICES ASSUME IdxOf(s, k) # {} PROVE FALSE
        OBVIOUS
      <4>2. PICK w \in 1..n : Wins(s, k, w)
        BY <4>1, WinnerExists
      <4>3. d[k] = s[w] /\ s[w] \in Snap
        BY <4>2, ProjectAt
      <4>4. QED
        BY <2>5, <4>3, ProjectionAssumption
    <3>2. Wins(t, k, n + 1)
      BY <2>1, <2>2, <3>1 DEF Wins
    <3>3. Project(t)[k] = item
      BY <1>1, <1>2, <3>2, ProjectAt
    <3>4. AddToDisplay(d, item)[k] = item
      BY <1>2, <1>8, <2>1, <2>5 DEF AddToDisplay, Keeps, Display
    <3>5. QED
      BY <3>3, <3>4
  <2>6. CASE d[k] # None
    <3>1. PICK w \in 1..n : Wins(s, k, w)
      BY <2>1, <2>6, ProjectNone
    <3>2. d[k] = s[w] /\ s[w].count \in Nat
      <4>1. d[k] = s[w] /\ s[w] \in Snap
        BY <3>1, ProjectAt
      <4>2. QED
        BY <4>1 DEF Snap
    <3>3. \A j \in IdxOf(s, k) : \/ s[j].count < s[w].count
                                 \/ s[j].count = s[w].count /\ w <= j
      BY <2>1, <3>1 DEF Wins
    <3>4. CASE item.count > s[w].count
      <4>1. Wins(t, k, n + 1)
        <5>1. n + 1 \in IdxOf(t, k)
          BY <2>2
        <5>2. \A j \in IdxOf(s, k) : t[j].count < item.count
          BY <2>3, <2>4, <3>2, <3>3, <3>4
        <5>3. \A j \in IdxOf(t, k) : \/ t[j].count < t[n + 1].count
                                     \/ t[j].count = t[n + 1].count /\ n + 1 <= j
          <6>1. SUFFICES ASSUME NEW j \in IdxOf(t, k)
                         PROVE  \/ t[j].count < t[n + 1].count
                                \/ t[j].count = t[n + 1].count /\ n + 1 <= j
            OBVIOUS
          <6>2. CASE j = n + 1
            BY <6>2
          <6>3. CASE j \in IdxOf(s, k)
            BY <1>1, <5>2, <6>3
          <6>4. QED
            BY <2>2, <6>2, <6>3
        <5>4. QED
          BY <2>1, <5>1, <5>3 DEF Wins
      <4>2. Project(t)[k] = item
        BY <1>1, <1>2, <4>1, ProjectAt
      <4>3. AddToDisplay(d, item)[k] = item
        BY <1>2, <1>8, <2>1, <3>2, <3>4 DEF AddToDisplay, Keeps, Display
      <4>4. QED
        BY <4>2, <4>3
    <3>5. CASE ~(item.count > s[w].count)
      <4>1. Wins(t, k, w)
        <5>1. w \in IdxOf(t, k) /\ t[w] = s[w]
          BY <1>1, <2>2, <3>1 DEF Wins
        <5>2. \A j \in IdxOf(s, k) : \/ t[j].count < t[w].count
                                     \/ t[j].count = t[w].count /\ w <= j
          BY <2>3, <3>3, <5>1
        <5>3. \/ t[n + 1].count < t[w].count
              \/ t[n + 1].count = t[w].count /\ w <= n + 1
          BY <1>1, <2>4, <3>2, <3>5, <5>1
        <5>4. QED
          BY <2>1, <2>2, <5>1, <5>2, <5>3 DEF Wins
      <4>2. Project(t)[k] = s[w]
        <5>1. w \in 1..Len(t)
          BY <1>1
        <5>2. QED
          BY <1>1, <4>1, <5>1, ProjectAt
      <4>3. ~Keeps(d, item)
        BY <1>8, <2>1, <2>6, <3>2, <3>5 DEF Keeps
      <4>4. AddToDisplay(d, item)[k] = d[k]
        BY <4>3 DEF AddToDisplay
      <4>5. QED
        BY <3>2, <4>2, <4>4
    <3>6. QED
      BY <3>4, <3>5
  <2>7. QED
    BY <2>5, <2>6
<1>9. QED
  BY <1>6, <1>7, <1>8
=============================================================================
