------------------------- MODULE PackageStoreProofs -------------------------
(***************************************************************************)
(* Proofs about the package store, for any set of change-set stores, any   *)
(* amounts generateMockPackages may return and any number of loads: the    *)
(* store is well typed, and a selected package id always names a package  *)
(* of its store.                                                           *)
(***************************************************************************)
EXTENDS PackageStore, TLAPS

\* A store's unanswered requests are among the requests sent.
PendingBounded == \A s \in Stores : pending[s] <= loads

\* The inductive invariant: TypeOK alone does not bound pending[s] when a
\* request is sent, and SelectionResolves needs the shape TypeOK gives.
IInv == TypeOK /\ PendingBounded /\ SelectionResolves

\* A generated packagesById is keyed 0..n-1 by packages whose id and slug
\* are the key, with n - 1 <= MaxId.
LEMMA MockShape ==
    ASSUME NEW p \in MockPackages
    PROVE  /\ DOMAIN p \subseteq 0..MaxId
           /\ 0 \in DOMAIN p
           /\ \A i \in DOMAIN p : p[i].id = i /\ p[i].slug = i
<1>1. PICK n \in Amounts :
        p = [i \in 0..(n - 1) |-> [id |-> i, slug |-> i, installed |-> FALSE]]
    BY DEF MockPackages
<1>2. n \in 5..24
    BY PackageStoreAssumption
<1>3. DOMAIN p = 0..(n - 1)
    BY <1>1
<1> QED
    BY <1>1, <1>2, <1>3 DEF MaxId

\* A selection argument that is not falsy is an id in 0..MaxId.
LEMMA SelectionsIds ==
    ASSUME NEW x \in Selections, x \notin {None, Empty}
    PROVE  x \in 0..MaxId
BY DEF Selections

\* Every store is empty or holds one generated set of packages.
LEMMA StoreShape ==
    ASSUME TypeOK, NEW s \in Stores
    PROVE  /\ DOMAIN pkgs[s] \subseteq 0..MaxId
           /\ DOMAIN pkgs[s] # {} <=> 0 \in DOMAIN pkgs[s]
           /\ \A i \in DOMAIN pkgs[s] : pkgs[s][i].id = i /\ pkgs[s][i].slug = i
<1>1. CASE pkgs[s] = NoPackages
    BY <1>1 DEF NoPackages
<1>2. CASE pkgs[s] \in MockPackages
    BY <1>2, MockShape
<1> QED
    BY <1>1, <1>2 DEF TypeOK

LEMMA InitIInv == Init => IInv
BY PackageStoreAssumption
   DEF Init, IInv, TypeOK, PendingBounded, SelectionResolves

LEMMA NextIInv == IInv /\ [Next]_vars => IInv'
<1> SUFFICES ASSUME IInv, [Next]_vars PROVE IInv'
    OBVIOUS
<1> USE DEF IInv
<1>1. ASSUME NEW s \in Stores, Activate(s) PROVE IInv'
    <2>1. (pending \in [Stores -> 0..MaxLoads] /\ loads \in 0..MaxLoads /\ PendingBounded)'
        BY <1>1, PackageStoreAssumption DEF Activate, TypeOK, PendingBounded
    <2>2. (pkgs \in [Stores -> {NoPackages} \cup MockPackages]
           /\ sel \in [Stores -> (0..MaxId) \cup {None}] /\ SelectionResolves)'
        BY <1>1 DEF Activate, TypeOK, SelectionResolves, SelectedPackage
    <2> QED
        BY <2>1, <2>2 DEF TypeOK
<1>2. ASSUME NEW s \in Stores, LoadFailure(s) PROVE IInv'
    <2>1. (pending \in [Stores -> 0..MaxLoads] /\ loads \in 0..MaxLoads /\ PendingBounded)'
        BY <1>2, PackageStoreAssumption DEF LoadFailure, TypeOK, PendingBounded
    <2>2. (pkgs \in [Stores -> {NoPackages} \cup MockPackages]
           /\ sel \in [Stores -> (0..MaxId) \cup {None}] /\ SelectionResolves)'
        BY <1>2 DEF LoadFailure, TypeOK, SelectionResolves, SelectedPackage
    <2> QED
        BY <2>1, <2>2 DEF TypeOK
<1>3. ASSUME NEW s \in Stores, LoadSuccess(s) PROVE IInv'
    <2>1. (pending \in [Stores -> 0..MaxLoads] /\ loads \in 0..MaxLoads /\ PendingBounded)'
        BY <1>3, PackageStoreAssumption DEF LoadSuccess, TypeOK, PendingBounded
    <2>2. CASE 0 \notin DOMAIN pkgs[s]
        <3>1. sel[s] = None
            BY <2>2, StoreShape DEF SelectionResolves
        <3>2. PICK p \in MockPackages : pkgs' = [pkgs EXCEPT ![s] = p]
            BY <2>2, <1>3 DEF LoadSuccess
        <3>3. UNCHANGED sel
            BY <1>3 DEF LoadSuccess
        <3> QED
            BY <2>1, <3>1, <3>2, <3>3 DEF TypeOK, SelectionResolves, SelectedPackage
    <2>3. CASE 0 \in DOMAIN pkgs[s]
        BY <2>1, <2>3, <1>3 DEF LoadSuccess, TypeOK, SelectionResolves, SelectedPackage
    <2> QED
        BY <2>2, <2>3
<1>4. ASSUME NEW s \in Stores, NEW x \in Selections, SetSelectedPackageId(s, x)
      PROVE IInv'
    <2>1. x \notin {None, Empty} => x \in 0..MaxId
        BY SelectionsIds
    <2>2. \A i \in DOMAIN pkgs[s] : pkgs[s][i].id = i
        BY StoreShape
    <2> QED
        BY <1>4, <2>1, <2>2
        DEF SetSelectedPackageId, TypeOK, PendingBounded, SelectionResolves, SelectedPackage
<1>5. ASSUME NEW s \in Stores, NEW x \in Selections, SetSelectedPackageBySlug(s, x)
      PROVE IInv'
    <2>1. DOMAIN pkgs[s] \subseteq 0..MaxId
        BY StoreShape
    <2>2. \A i \in DOMAIN pkgs[s] : pkgs[s][i].id = i
        BY StoreShape
    <2> QED
        BY <1>5, <2>1, <2>2
        DEF SetSelectedPackageBySlug, TypeOK, PendingBounded, SelectionResolves, SelectedPackage
<1>6. CASE UNCHANGED vars
    BY <1>6 DEF vars, TypeOK, PendingBounded, SelectionResolves, SelectedPackage
<1> QED
    BY <1>1, <1>2, <1>3, <1>4, <1>5, <1>6 DEF Next

(***************************************************************************)
(* The package store is always well typed, for every set of stores and     *)
(* every amount 5..24 generateMockPackages may return: a selection is an   *)
(* id of at most 23 or null, a store holds no packages or one generated   *)
(* set, and a store never has more than MaxLoads requests in flight.      *)
(***************************************************************************)
THEOREM PackageStoreTypeCorrect == Spec => []TypeOK
BY InitIInv, NextIInv, PTL DEF Spec, IInv

(***************************************************************************)
(* SelectionResolves for every value of the constants: whatever the order  *)
(* of LOAD_PACKAGES answers and selections, selectedPackage returns the     *)
(* package whose id is selected (package.store.ts 49-76, 149).             *)
(***************************************************************************)
THEOREM SelectionAlwaysResolves == Spec => []SelectionResolves
BY InitIInv, NextIInv, PTL DEF Spec, IInv

=============================================================================
