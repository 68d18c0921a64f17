-------------------------- MODULE PropertyResolver --------------------------
(***************************************************************************)
(* The Property Resolver of the node store (node.ts 387-582): the getters  *)
(* propertiesList and propertiesListRepeated.  Both walk the registry     *)
(* schema breadth-first with a worklist they push onto while iterating     *)
(* it, then reorder the fields with lodash groupBy and flatten.            *)
(*                                                                         *)
(* The schema is data: a set Props of registry properties with a Name, a   *)
(* Kind, a Repeated flag, the Children of an object and the property a     *)
(* link resolves to (LinkTo, lookupMyself).  RootAttrs are the attrs of   *)
(* the `update` request field the list starts from.                        *)
(*                                                                         *)
(* The getters are pure, so their loops are recursive operators; the      *)
(* state is what outlives a call: `fields`, the cached result of           *)
(* propertiesList whose `path` arrays propertiesListRepeated receives by    *)
(* reference and may mutate, and `out`, the last result of                 *)
(* propertiesListRepeated.  `fresh` and `call` are history: the list as    *)
(* computed, and the arguments of the last propertiesListRepeated call.    *)
(***************************************************************************)
EXTENDS Naturals, Sequences, SequencesExt

CONSTANTS Props, Names, Name, Kind, Repeated, Children, LinkTo,
          RootAttrs, Indices, MaxCalls, None

\* The kind() values of the registry's properties that the schema uses.
Kinds == {"object", "link", "text", "number", "map"}

ASSUME ResolverAssumption ==
    /\ Name \in [Props -> Names]
    /\ Kind \in [Props -> Kinds]
    /\ Repeated \in [Props -> BOOLEAN]
    /\ Children \in [Props -> Seq(Props)]
    /\ LinkTo \in [Props -> Props]
    /\ \A p \in Props : Kind[p] = "link" => Kind[LinkTo[p]] # "link"
    /\ RootAttrs \in Seq(Props)
    /\ MaxCalls \in Nat
    /\ None \notin Nat \X Indices

VARIABLES fields, out, fresh, call, calls

vars == <<fields, out, fresh, call, calls>>

Path == Seq(Names \cup Indices)

\* A RegistryProperty as the getters build it (node.ts 514-523); spath is
\* history: the field names from where the walk started.
Field == [name : Names, prop : Props, repeated : BOOLEAN,
          kind : Kinds \ {"link"}, path : Path, spath : Seq(Names)]

\* A PropEntry of the worklist.
Entry == [prop : Props, path : Path, spath : Seq(Names)]

\* `cprop.lookupMyself()` for a link, the property itself otherwise.
RealProp(p) == IF Kind[p] = "link" THEN LinkTo[p] ELSE p

\* Mutant of Expands: a link is not looked up before the kind test.
ExpandsNoLink(p) == Kind[p] = "object" /\ ~Repeated[p]

\* Whether the walk splices the children of a visited property: an object,
\* or a link to one, that is not repeated.
Expands(p) == Kind[RealProp(p)] = "object" /\ ~Repeated[p]

\* Mutant of Emit: the link branch records the link's own kind.
EmitLinkKind(p, path, spath) ==
    [name |-> Name[p], prop |-> RealProp(p), repeated |-> Repeated[p],
     kind |-> Kind[p], path |-> path, spath |-> spath]

\* The RegistryProperty pushed onto `result` for property p.
Emit(p, path, spath) ==
    [name |-> Name[p], prop |-> RealProp(p), repeated |-> Repeated[p],
     kind |-> Kind[RealProp(p)], path |-> path, spath |-> spath]

\* The entries `attrs.map(prop => ({prop, path: _.clone(path)}))`.
EntriesOf(attrs, path, spath) ==
    [j \in 1..Len(attrs) |-> [prop |-> attrs[j], path |-> path, spath |-> spath]]

(***************************************************************************)
(* The for-of loop over the worklist.  `seg` is what the loop pushes onto  *)
(* the entry's path before the name: nothing in propertiesList, the index *)
(* in propertiesListRepeated.  Children inherit the pushed path.           *)
(***************************************************************************)
RECURSIVE Walk(_, _, _, _)
Walk(work, pos, result, seg) ==
    IF pos > Len(work) THEN result
    ELSE LET e     == work[pos]
             p     == e.prop
             path  == e.path \o seg \o <<Name[p]>>
             spath == Append(e.spath, Name[p])
             more  == IF Expands(p)
                      THEN EntriesOf(Children[RealProp(p)], path, spath)
                      ELSE <<>>
         IN  Walk(work \o more, pos + 1,
                  Append(result, Emit(p, path, spath)), seg)

\* Mutant of GroupKey: an object is grouped with its siblings.
GroupKeyParent(f) == Front(f.path)

\* The key of `_.groupBy`: an object's own path, any other field's path
\* without its last segment.
GroupKey(f) == IF f.kind = "object" THEN f.path ELSE Front(f.path)

\* `_.flatten(Object.values(_.groupBy(result, key)))`: the groups in the
\* order their keys first occur, each in the order of `result`.
Grouped(result) ==
    LET keys == FoldLeft(LAMBDA acc, f :
                           IF Contains(acc, GroupKey(f)) THEN acc
                           ELSE Append(acc, GroupKey(f)),
                         <<>>, result)
    IN  FlattenSeq([i \in 1..Len(keys) |->
                      SelectSeq(result, LAMBDA f : GroupKey(f) = keys[i])])

\* propertiesList: the walk from the attrs of the update field.
PropertiesList == Grouped(Walk(EntriesOf(RootAttrs, <<>>, <<>>), 1, <<>>, <<>>))

-----------------------------------------------------------------------------

TypeOK ==
    /\ fields \in Seq(Field)
    /\ fresh \in Seq(Field)
    /\ out \in Seq(Field)
    /\ call \in (Nat \X Indices) \cup {None}
    /\ calls \in 0..MaxCalls

Init ==
    /\ fields = <<>>
    /\ fresh = <<>>
    /\ out = <<>>
    /\ call = None
    /\ calls = 0

\* The getter is (re)evaluated: Vuex caches a fresh result.
ComputeList ==
    /\ fields' = PropertiesList
    /\ fresh' = fields'
    /\ out' = <<>>
    /\ call' = None
    /\ UNCHANGED calls

\* propertiesListRepeated(fields[k], idx) on an object field: the walk of
\* its children from a clone of its path, pushing idx before every name.
RepeatedObject(k, idx) ==
    /\ fields[k].kind = "object"
    /\ out' = Grouped(Walk(EntriesOf(Children[fields[k].prop], fields[k].path, <<>>),
                           1, <<>>, <<idx>>))
    /\ UNCHANGED fields

\* propertiesListRepeated(fields[k], idx) on any other field: `path` is
\* entityProperty.path itself, so push(idx) changes the cached field too.
RepeatedScalar(k, idx) ==
    /\ fields[k].kind # "object"
    /\ fields' = [fields EXCEPT ![k].path = Append(@, idx)]
    /\ out' = <<[fields'[k] EXCEPT !.spath = <<>>]>>

\* The UI asks for the fields of element idx of a repeated field.
PropertiesListRepeated(k, idx) ==
    /\ calls < MaxCalls
    /\ fields[k].repeated
    /\ \/ RepeatedObject(k, idx)
       \/ RepeatedScalar(k, idx)
    /\ call' = <<k, idx>>
    /\ calls' = calls + 1
    /\ UNCHANGED fresh

Next ==
    \/ ComputeList
    \/ \E k \in 1..Len(fields), idx \in Indices : PropertiesListRepeated(k, idx)

Spec == Init /\ [][Next]_vars

-----------------------------------------------------------------------------
(* A reference for the list, written depth-first and independently of the  *)
(* walk: the path of every field the schema reaches from RootAttrs without *)
(* entering a repeated property.                                           *)

RefReal(p) == IF Kind[p] = "link" THEN LinkTo[p] ELSE p

RefOpens(p) ==
    IF Kind[RefReal(p)] = "object" /\ ~Repeated[p] THEN Children[RefReal(p)]
    ELSE <<>>

RECURSIVE RefPaths(_, _)
RefPaths(attrs, prefix) ==
    IF attrs = <<>> THEN {}
    ELSE LET here == Append(prefix, Name[Head(attrs)])
         IN  {here} \cup RefPaths(RefOpens(Head(attrs)), here)
                    \cup RefPaths(Tail(attrs), prefix)

\* The non-object fields directly under path q, in declaration order.
RefLeaves(attrs, q) ==
    LET leaves == SelectSeq(attrs, LAMBDA p : Kind[RefReal(p)] # "object")
    IN  [j \in 1..Len(leaves) |-> Append(q, Name[leaves[j]])]

(***************************************************************************)
(* propertiesList returns every field the schema reaches exactly once, at  *)
(* the path of names that leads to its value, whatever order the worklist  *)
(* visits them in (node.ts 526-581).                                       *)
(***************************************************************************)
ListComplete ==
    fresh # <<>> =>
        /\ {fresh[j].path : j \in 1..Len(fresh)} = RefPaths(RootAttrs, <<>>)
        /\ \A i, j \in 1..Len(fresh) : i # j => fresh[i].path # fresh[j].path

(***************************************************************************)
(* The comment at node.ts 572-573: after groupBy the list can be walked in *)
(* order.  The top-level non-object fields stand together in declaration  *)
(* order, and every expanded object is followed at once by its direct      *)
(* non-object fields, in declaration order.                                *)
(***************************************************************************)
GroupsFollowObjects ==
    fresh # <<>> =>
        /\ LET top == RefLeaves(RootAttrs, <<>>)
           IN  \E s \in 0..Len(fresh) :
                 \A j \in 1..Len(top) : s + j <= Len(fresh) /\ fresh[s + j].path = top[j]
        /\ \A i \in 1..Len(fresh) :
             fresh[i].kind = "object" /\ ~fresh[i].repeated =>
               LET below == RefLeaves(Children[fresh[i].prop], fresh[i].path)
               IN  \A j \in 1..Len(below) :
                     i + j <= Len(fresh) /\ fresh[i + j].path = below[j]

(***************************************************************************)
(* propertiesListRepeated(field, idx) returns the fields of element idx:   *)
(* the path of each is the field's path, then idx, then the names inside   *)
(* the element (spec 4.2: the index is appended before the field name).    *)
(***************************************************************************)
RepeatedPathsExact ==
    call # None =>
        \A j \in 1..Len(out) :
            out[j].path = fresh[call[1]].path \o <<call[2]>> \o out[j].spath
=============================================================================
