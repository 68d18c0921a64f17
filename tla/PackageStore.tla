---------------------------- MODULE PackageStore ----------------------------
(***************************************************************************)
(* The pinia package store of the web app (app/web/src/store/              *)
(* package.store.ts).  usePackageStore() names the store after the change  *)
(* set selected when it is called, so there is one store per change set    *)
(* (Stores), each with its own packagesById and selectedPackageId, and a   *)
(* caller keeps the store it got.  Activating a store sends LOAD_PACKAGES; *)
(* its answers arrive later, in any order, and on success the store fills  *)
(* itself with mock packages unless packagesById[0] is already there.      *)
(*                                                                         *)
(* A package keeps what the store branches on: its id, its slug and its    *)
(* installed flag.  Package i has id `${i}` and slug `test${i}`; both are  *)
(* written i, and a selection argument is such an i, null or "".           *)
(***************************************************************************)
EXTENDS Naturals

CONSTANTS
    Stores,     \* the change sets (and "NONE") a store has been made for
    Amounts,    \* how many packages generateMockPackages may return (93)
    MaxLoads,   \* bound on the LOAD_PACKAGES requests of a run
    None,       \* null
    Empty       \* the empty string ""

ASSUME PackageStoreAssumption ==
    /\ Amounts \subseteq 5..24 /\ Amounts # {}
    /\ MaxLoads \in Nat
    /\ None \notin Nat /\ Empty \notin Nat /\ None # Empty

VARIABLES
    pkgs,       \* packagesById of each store
    sel,        \* selectedPackageId of each store
    pending,    \* LOAD_PACKAGES requests of each store not answered yet
    loads       \* LOAD_PACKAGES requests sent

vars == <<pkgs, sel, pending, loads>>

\* The largest package id generateMockPackages can produce: amount <= 24.
MaxId == 23

\* The ids, or slugs, a caller can pass, and the falsy arguments.
Selections == (0..MaxId) \cup {None, Empty}

\* The empty packagesById object.
NoPackages == [i \in {} |-> None]

\* generateMockPackages (91-124): `amount` packages keyed 0..amount-1, with
\* id i, slug test{i}, not installed.
MockPackages ==
    { [i \in 0..(n - 1) |-> [id |-> i, slug |-> i, installed |-> FALSE]] : n \in Amounts }

Init ==
    /\ pkgs = [s \in Stores |-> NoPackages]
    /\ sel = [s \in Stores |-> None]
    /\ pending = [s \in Stores |-> 0]
    /\ loads = 0

\* onActivated calls LOAD_PACKAGES, which sends its request (145-147, 157-159).
Activate(s) ==
    /\ loads < MaxLoads
    /\ pending' = [pending EXCEPT ![s] = @ + 1]
    /\ loads' = loads + 1
    /\ UNCHANGED <<pkgs, sel>>

\* onSuccess (148-153): mock packages only if packagesById[0] is missing.
LoadSuccess(s) ==
    /\ pending[s] > 0
    /\ pending' = [pending EXCEPT ![s] = @ - 1]
    /\ IF 0 \notin DOMAIN pkgs[s]
       THEN \E p \in MockPackages : pkgs' = [pkgs EXCEPT ![s] = p]
       ELSE UNCHANGED pkgs
    /\ UNCHANGED <<sel, loads>>

\* The request fails: ApiRequest records the error, the store is untouched.
LoadFailure(s) ==
    /\ pending[s] > 0
    /\ pending' = [pending EXCEPT ![s] = @ - 1]
    /\ UNCHANGED <<pkgs, sel, loads>>

\* Mutant of SetSelectedPackageId: the id is taken without the lookup.
SetSelectedPackageIdUnchecked(s, x) ==
    /\ sel' = [sel EXCEPT ![s] = IF x \in {None, Empty} THEN None ELSE x]
    /\ UNCHANGED <<pkgs, pending, loads>>

\* Mutant of SetSelectedPackageId: the falsy branch stores the argument.
SetSelectedPackageIdRaw(s, x) ==
    /\ \/ x \in {None, Empty} /\ sel' = [sel EXCEPT ![s] = x]
       \/ x \notin {None, Empty} /\ x \in DOMAIN pkgs[s] /\ sel' = [sel EXCEPT ![s] = x]
       \/ x \notin {None, Empty} /\ x \notin DOMAIN pkgs[s] /\ UNCHANGED sel
    /\ UNCHANGED <<pkgs, pending, loads>>

\* setSelectedPackageId (58-66): falsy clears; an unknown id is ignored.
SetSelectedPackageId(s, x) ==
    /\ \/ x \in {None, Empty} /\ sel' = [sel EXCEPT ![s] = None]
       \/ x \notin {None, Empty} /\ x \in DOMAIN pkgs[s] /\ sel' = [sel EXCEPT ![s] = x]
       \/ x \notin {None, Empty} /\ x \notin DOMAIN pkgs[s] /\ UNCHANGED sel
    /\ UNCHANGED <<pkgs, pending, loads>>

\* setSelectedPackageBySlug (67-76): the id of the package of that slug in
\* _.values(packagesById); an unknown slug is ignored.
SetSelectedPackageBySlug(s, x) ==
    LET found == {i \in DOMAIN pkgs[s] : pkgs[s][i].slug = x}
    IN  /\ \/ x \in {None, Empty} /\ sel' = [sel EXCEPT ![s] = None]
           \/ x \notin {None, Empty} /\ found # {} /\
              sel' = [sel EXCEPT ![s] = pkgs[s][CHOOSE i \in found : TRUE].id]
           \/ x \notin {None, Empty} /\ found = {} /\ UNCHANGED sel
        /\ UNCHANGED <<pkgs, pending, loads>>

Next ==
    \/ \E s \in Stores : Activate(s) \/ LoadSuccess(s) \/ LoadFailure(s)
    \/ \E s \in Stores, x \in Selections :
          SetSelectedPackageId(s, x) \/ SetSelectedPackageBySlug(s, x)

Spec == Init /\ [][Next]_vars

\* The selectedPackage getter (49-51): packagesById[selectedPackageId || 0].
SelectedPackage(s) == IF sel[s] = None THEN pkgs[s][0] ELSE pkgs[s][sel[s]]
-----------------------------------------------------------------------------

TypeOK ==
    /\ pkgs \in [Stores -> {NoPackages} \cup MockPackages]
    /\ sel \in [Stores -> (0..MaxId) \cup {None}]
    /\ pending \in [Stores -> 0..MaxLoads]
    /\ loads \in 0..MaxLoads

(***************************************************************************)
(* A selected id always names a package of its store, so selectedPackage   *)
(* returns that package: selecting checks the id (62) or takes it from a   *)
(* found package (71-73), and a second LOAD_PACKAGES answer never replaces *)
(* the packages the selection was made from (149).                         *)
(***************************************************************************)
SelectionResolves ==
    \A s \in Stores : sel[s] # None =>
        /\ sel[s] \in DOMAIN pkgs[s]
        /\ SelectedPackage(s).id = sel[s]

=============================================================================
