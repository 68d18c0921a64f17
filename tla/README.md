# TLA+ models of the si-web-app node store, property resolver, node placement and package store

This directory holds TLA+ models of the stateful TypeScript code under `src/`. There are TLC configurations that model-check them on small instances, and TLAPS proofs, for every value of the constants, of their main invariants and of two refinements (the projection loop of `ProjectionSpec`, `NodeAddManager` of `NodePlacementSpec`).

## The system and its parts

Most of the logic is in `src/components/si-web-app/src/store/modules/node.ts`, the Vuex `node` module. It has these parts:

* **State** (172-178): `nodes`, `current` and `mouseTrackSelection`. A node carries:
  * `stack`: the snapshots of its entity;
  * `display`: a map from change-set id, plus the key `"saved"`, to one snapshot of the stack.
* **Change-set projector.**
  * The `add` mutation (585-616) and the `current` mutation (617-645) recompute `display` from `stack`. For each change set they keep the first snapshot with the highest `changeSetEntryCount`. For `"saved"` they keep the last snapshot that has no change set.
  * `add` then merges the payload into `state.nodes` with `_.unionBy(payload, state.nodes, "id")`.
  * `diffCurrent` (190-254) chooses the two snapshots to compare.
  * `list` (303-360) filters nodes by visibility.
  * `getFieldValue`, `setFieldValue` and `setFieldValueByNode` (370-385, 722-758) pick the active display entry.
* **Actions.**
  * `add` (844-898) handles entity updates relayed by the entity store:
    * if the entity already has a node, it merges the snapshot into that node's stack and commits `add`;
    * otherwise it **awaits** the backend's node-create mutation and then commits the new node.
  * `load` (953-960) awaits `graphqlQueryListAll` and commits the result with `add`.
  * `create` (760-775) awaits `entity/create`, then focuses `getNodeByEntityId`.
  * `current`, `setFieldValue`, `setFieldValueByNode`, `setNodePosition` and `unsetMouseTrackSelection` wrap their mutations.
* **Property resolver**: the getters `propertiesList` (481-582) and `propertiesListRepeated` (387-479).
  * They walk the registry schema of the focused entity breadth-first. The worklist grows while the loop iterates over it.
  * They reorder the resulting fields with `_.groupBy` and `_.flatten`.

`src/app/web/src/organisims/SchematicViewer/Viewer/interaction/nodeAdd.ts` holds `NodeAddManager`, which places a new node in the schematic:

1. `addNode` awaits the template of the chosen schema;
2. it puts a temporary node into the scene;
3. `drag` moves that node;
4. `afterAddNode` asks the backend to create a node of the recorded schema.

`src/app/web/src/store/package.store.ts` is a Pinia store, one per change set (`cs${id}/package`, 38-42). Activating it sends `LOAD_PACKAGES` (145-159). On success, the store fills `packagesById` with 5 to 24 mock packages, but only if `packagesById[0]` is absent (149). `setSelectedPackageId` and `setSelectedPackageBySlug` (58-76) select a package, and `selectedPackage` (49-51) returns it.

`src/components/si-registry/src/components/si-kubernetes/kubernetes.ts` declares seven Kubernetes base types. These are the schema data the property resolver walks.

How the parts interact:

* The entity store relays every new snapshot to `node/add`.
* Each mutation rewrites `display` from `stack`.
* The form reads the focused node through `current`, `getFieldValue` and `propertiesList`.
* Edits go back through `setFieldValue` into the active display entry.
* Everything runs on one JavaScript thread. Interleaving happens only at an `await`: the node-create mutation in `add`, the list query in `load`, `entity/create` in `create`, and the template request in `addNode`. Every other handler runs to completion. The models therefore use one action per handler, or one per part of a handler between awaits.

## Modules

| Module | Models | Notes |
|---|---|---|
| `Projection` | The pure helpers of node.ts. | The per-slot projection `Project` (what the loop at 588-612 computes), `Keeps`/`AddToDisplay` (one pass of that loop), `ActiveKey`, `Visible`, `DiffPair` (diffCurrent's choice of start and end), and lodash `unionBy` on `id` (`UnionById`, built from the ranks of the first occurrences). |
| `ProjectionSpec` | What the projection mutation promises. | `Commit` sets `display` to `Project(stack)` in one step. |
| `ProjectionLoop` | The for-loop of the `add`/`current` mutations. | A state machine over every stack of up to `MaxLen` snapshots. It implements `ProjectionSpec` (`Abs`, see below). |
| `NodeStore` | The node store together with the backend it talks to. | See below. |
| `MCNodeStore` | The TLC instance of `NodeStore`. | |
| `PropertyResolver`, `MCPropertyResolver` | The two resolver getters. | The cached `propertiesList` result is state, because `propertiesListRepeated` mutates it through aliasing. |
| `KubernetesSchema` | The registry declarations of kubernetes.ts. | One set of rows per `registry.base`. `MCPropertyResolver` reads the resolver's constants off them. |
| `NodeAdd` | `NodeAddManager`. | It implements `NodePlacementSpec` (`Placement`, see below). |
| `NodePlacementSpec` | What `NodeAddManager` promises. | Nodes are placed one after another. A mouse-up requests a node of the newest placement's schema, once. |
| `PackageStore`, `MCPackageStore` | The package store. | |
| `ProjectionProofs`, `ProjectionLoopProofs`, `NodeStoreProofs`, `NodeAddProofs`, `PackageStoreProofs` | TLAPS proofs. | |

### NodeStore

State and how it corresponds to the code:

* `nodes` is `state.nodes`.
* `current` is the id of the object `state.current` points at.
* `detached` is that object when it is no longer the object stored in `state.nodes`. `_.unionBy` keeps the *new* payload objects, so after an `add` commit `state.current` can point at an object that has dropped out of the store.
* `mouseTrack` is `state.mouseTrackSelection`.

The backend is reduced to what the store observes:

* `srvStack[e]`: the snapshots of entity `e`, in the order they were made;
* `srvNodes`: the nodes the backend has created;
* `csCount`: the last `changeSetEntryCount` per change set;
* `inbox`: updates that have been relayed but not yet handled;
* `creating`, `loads`, `pendingCreate`: actions suspended at an await.

One action per handler:

* `Add`: the `add` action up to its await;
* `AddCreated`: the rest of `add`, after the node-create mutation returns;
* `LoadRequest` and `LoadResponse`: `load`;
* `CreateRequest` and `CreateResponse`: `create`;
* `SelectNode`, `SetFieldValue`, `SetFieldValueByNode`, `SetNodePosition`, `UnsetMouseTrackSelection`: the actions of those names.

The environment's steps are `EntityUpdate` (a snapshot made elsewhere and relayed) and `SelectChangeSet`. Each action includes the commits it makes, and each commit includes its recomputation of `display`.

Data is abstracted to what the store branches on. A snapshot keeps its `id`, change set, entry count, deleted flag and one abstract field value.

### PropertyResolver

* **Schema:** constants. A property has a `Name`, a `Kind` (object, link or text), a `Repeated` flag, `Children` (for an object) and `LinkTo` (what `lookupMyself` returns).
* **The walk:** the recursive operator `Walk`. `Grouped` is the groupBy/flatten. Group keys are the path sequences themselves, which are the joined strings lodash uses when names contain no comma.
* **State:**
  * `fields`: the cached `propertiesList` result;
  * `out`: the last `propertiesListRepeated` result;
  * `fresh` and `call`: history.
* **Actions:**
  * `ComputeList`: the getter is re-evaluated;
  * `PropertiesListRepeated(k, idx)`: the UI asks for element `idx` of field `k`. It has two branches, `RepeatedObject` and `RepeatedScalar`.

### ProjectionSpec and the refinement

`ProjectionSpec` is what a reader of the node sees. A mutation runs to completion before any getter runs, so `display` changes in one step, from the empty object to `Project(stack)`.

`ProjectionLoop` defines `Abs == INSTANCE ProjectionSpec` with this refinement mapping:

* `display` maps to the loop's display once `i = Len(stack)`, and to the empty display before that;
* `done` maps to `i = Len(stack)`.

Under this mapping the loop's intermediate steps are stutters. Its last step is `Commit`. The refinement is proved (`LoopImplementsSpec`, below) rather than run: at the end of the loop it says no more than `LoopComputesProjection`, which the projection_loop run checks.

### PackageStore

* **State:**
  * `pkgs[s]`: `packagesById` of store `s`, either empty or one of `MockPackages`. A package keeps its id, slug and `installed` flag. Package `i` has id `"i"` and slug `test{i}`, and both are written `i`;
  * `sel[s]`: `selectedPackageId`;
  * `pending[s]`: `LOAD_PACKAGES` requests not answered yet;
  * `loads`: requests sent, bounded by `MaxLoads`.
* **Actions:**
  * `Activate` (`onActivated`);
  * `LoadSuccess` (`onSuccess`, with its `packagesById[0]` guard);
  * `LoadFailure` (the store is untouched);
  * `SetSelectedPackageId` and `SetSelectedPackageBySlug`, each with its falsy, found and not-found branch.
* **Inputs:** a selection argument is an id or slug in range, `null` or `""`.

### NodeAdd

* **State:**
  * `node` and `schemaSel`: `this.node` and `this.nodeAddSchemaId`;
  * `pending`: `addNode` calls waiting at their await;
  * `scene`: the temporary nodes, in insertion order, named by schema;
  * `created`: the `createNode` requests sent;
  * `lastPick`: history.
* **Actions:** `BeforeAddNode`, `AddNode` (up to the await), `TemplateError`, `TemplateArrives`, `Drag`, `AfterAddNode`.
* **Refinement:** `Placement == INSTANCE NodePlacementSpec` maps three things:
  * `placed` is the scene;
  * `owed` is `node # None`;
  * `requested` is the sequence of schemas of `created`.

  Under this mapping, `TemplateArrives` is `Place`, `AfterAddNode` is `Request`, and every other action is a stutter. `Place` may happen while a placement is still owed, which is what leaves a node without a request when two templates arrive before a mouse-up.
* **Assumption:** `getGeo(name)` returns the first scene node with that name. The scene manager is not under `src/`, so the hazard that `this.node` is an older node of the same schema (line 64) is listed in PROJECT.json without a run.

## Runs

Passing runs:

| Run | Checks | What it shows |
|---|---|---|
| `projection_loop` | `TypeOK`, `LoopComputesProjection` | For every stack of up to 3 snapshots over 2 change sets, with counts up to 2, the display after each pass of the loop is `Project` of the items consumed so far, so at the end it is `Project(node.stack)`. |
| `node_store` | `TypeOK`, `DisplayCoherent`, `NodeIdsUnique` | Under every interleaving of 2 entities, 2 node ids, 1 change set, 2 snapshots, 1 load, and creates, edits and selections, every held node object (stored or detached) has a display equal to the projection of its stack, up to values edited in place. Node ids stay unique. 663,462 states. |
| `resolver` | `TypeOK`, `ListComplete`, `GroupsFollowObjects` | The schema is the Kubernetes base types of kubernetes.ts, reached from one field `update` that links to the pod template, the selector and the load-balancer status and has a repeated text `finalizers`. `propertiesList` returns every reachable field exactly once at its path. Each object's direct fields follow it immediately, in declaration order. Both are stated on the getter's fresh result. The `propertiesListRepeated` calls of the same run only matter to `RepeatedPathsExact`, which the violation runs check. |
| `package_store` | `TypeOK`, `SelectionResolves` | The instance has two change-set stores and up to 3 `LOAD_PACKAGES` requests, answered in any order with success or failure, plus selections by id and by slug. A selected id always names one of its store's packages. |
| `node_add` | `TypeOK`, `CreatedMatchesPlaced`, `ImplementsPlacementSpec` | With 3 calls over schemas {0, 1, 2}, answered in any order, each create maps to its own temporary node of the same schema, and the manager implements `NodePlacementSpec`. |

Violation runs, each a finding in PROJECT.json:

| Run | Property | What the trace shows |
|---|---|---|
| `entity_race` | `OneNodePerEntity` | Two updates of a new entity both pass the existence check before the node-create await (868), so the entity gets two nodes. |
| `shared_ids` | `DisplayTracksBackend` | Snapshots that share an `id`, the entity's id the code compares them with (896), are collapsed by `unionBy` (853). The spec says history is append-only. |
| `focus_stale` | `FocusMatchesStore` | `load` (958) replaces the stored objects, but `state.current` keeps the old one, so edits land outside the store. |
| `diff_scope` | `DiffWithinChangeSet` | diffCurrent's scan (209-235) takes snapshots of other change sets. The spec (4.3) restricts the scan to the active change set. |
| `repeated_nested_index` | `RepeatedPathsExact` | The element index is pushed again before every nested name (406). |
| `repeated_alias` | `RepeatedPathsExact` | The scalar branch pushes the index onto the cached field's own path (466-467). A second call returns `[tags, 0, 0]`. |

Every property of a passing run has a mutant in PROJECT.json. A mutant is a plausible bug in the modelled code that TLC catches, for example:

* keeping a later snapshot of equal count;
* skipping the display recomputation on `add`;
* merging by concatenation instead of `unionBy`;
* focusing by entity id;
* not looking a link up before the kind test;
* grouping an object with its siblings;
* not clearing the manager's fields;
* recording the last pick instead of the template's schema;
* selecting an id without looking it up.

### Bounds

Why the bounds are large enough:

* **node_store.** Two entities are enough for one entity's update to race with another's create. Two node ids are enough to produce a duplicate. Two snapshots per run produce a stack of two entries, which is where ordering and id collisions show. One load is enough to interleave a stale response. `MaxCount` 3 exceeds the largest entry count reached.
* **projection_loop.** Stacks of up to 3 entries over 2 change sets cover ties, strict increases and saved/change-set mixtures.
* **resolver.** The schema has every kind of property at depth 2, and a repeated element that holds an object.
* **package_store.** Two stores show that one store's loads leave the other alone. Three requests give two answers to one store after a selection. The amounts {5, 6} are the two smallest of 5..24, and a selection of id 5 falls outside a 5-package set.
* **node_add.** Three calls allow two calls in flight plus a later one, and schema 0 is included.

## What is proved (TLAPS)

| Module | Theorem | Statement |
|---|---|---|
| `NodeStoreProofs` | `TypeCorrect` | `Spec => []TypeOK` for the node store, for all constants satisfying `ProjectionAssumption` and `NodeStoreAssumption`. |
| `NodeStoreProofs` | `FocusStored` | `Spec => []FocusOK`: while `state.current` is the stored object, a node with its id is in `state.nodes`. |
| `NodeStoreProofs` | `DisplayAlwaysCoherent` | `Spec => []DisplayCoherent`. |
| `NodeAddProofs` | `NodeAddTypeCorrect` | `Spec => []TypeOK` for NodeAddManager. |
| `NodeAddProofs` | `CreatesMatchPlacements` | `Spec => []CreatedMatchesPlaced`: the creates map one-to-one onto scene nodes of their schema. |
| `NodeAddProofs` | `NodeAddImplementsPlacement` | `Spec => ImplementsPlacementSpec`, the refinement of `NodePlacementSpec`. |
| `ProjectionLoopProofs` | `LoopCorrect` | `Spec => []LoopComputesProjection`, for stacks of any length. |
| `ProjectionLoopProofs` | `LoopImplementsSpec` | `Spec => Abs!SafeSpec`, the safety part of the refinement. |
| `NodeStoreProofs` | `NodeIdsAlwaysUnique` | `Spec => []NodeIdsUnique`: `state.nodes` never holds two nodes with one id. |
| `NodeStoreProofs` | `NodesNeverDropped` | `Spec => [][KeepsIds]_vars`: no step removes a node id from `state.nodes`. |
| `ProjectionLoopProofs` | `LoopTypeCorrect` | `Spec => []TypeOK` for the projection loop. |
| `PackageStoreProofs` | `PackageStoreTypeCorrect` | `Spec => []TypeOK` for the package store: selections are null or ids up to 23, a store holds no packages or one generated set, and at most `MaxLoads` requests are in flight. |
| `PackageStoreProofs` | `SelectionAlwaysResolves` | `Spec => []SelectionResolves`. |

The package-store theorems hold for any stores and any number of loads allowed by `PackageStoreAssumption`. That assumption takes the amounts from `5 + Math.floor(Math.random() * 20)` (`package.store.ts:93`): `Amounts` is a non-empty subset of `5..24`, so the largest id is `MaxId == 23`.

Why the invariants had to be strengthened:

* **TypeOK is not inductive.**
  * The entry counts handed out must stay within `0..MaxCount`. `Counts` bounds every stack and every `csCount` by the number of snapshots made, which is at most `MaxEvents <= MaxCount`.
  * `At(current)` must denote a stored node. `FocusOK` says so while nothing is detached.
  * `IInv == TypeOK /\ Counts /\ FocusOK` is inductive, and it is proved one lemma per action.
* **DisplayCoherent is not inductive either.**
  * A load response carries nodes whose displays were computed when the request was sent. Those displays must already be coherent.
  * `CInv` adds coherence of every stored node, of the detached object and of every in-flight load result.
  * Its proof rests on lemmas about the helpers, in `ProjectionProofs`:
    * `Project` has type `Display`;
    * `UnionById` returns a sequence of elements of its argument;
    * `UnionById` keeps the first element and every id.
  * `setFieldValue` changes only the `val` of an existing entry, which `SameEntry` ignores.
* **NodeAddTypeCorrect.**
  * `Inv` adds `Budget`, which counts a still-set `this.node` as a pending placement: `Len(created) + [node set] <= Len(scene)`.
  * It also needs `Picked`: when no pick was made, nothing is pending or set.

* **CreatesMatchPlacements and NodeAddImplementsPlacement.**
  * `CreatedMatchesPlaced` is an existential over the matching `f`, so the inductive invariant `Placements` keeps a witness.
  * `Owes(f, ...)` adds that, while `this.node` is set, no request maps to the newest scene node, and the recorded schema is that node's.
  * `Placements` also says that `this.node` and `this.nodeAddSchemaId` are set and cleared together.
  * `afterAddNode` extends the witness with the newest node.
  * The refinement step uses the same invariant (`OwedIsNewest`): the schema `afterAddNode` sends is `scene[Len(scene)]`, which is what `Request` appends.

* **LoopCorrect.**
  * The invariant says the display after `i` items is `Project` of the first `i` items.
  * It rests on the lemma `ProjectAppend` in `ProjectionProofs`: `Project(Append(s, item)) = AddToDisplay(Project(s), item)`. Its proof splits on the item's slot, on saved versus change-set items, and on whether the new count beats the current winner (`WinnerExists`, `WinsUnique`, `ProjectAt`).
  * `PrefixStep` turns the first `i+1` items into `Append` of the first `i`.
  * `ProjectionAssumption` requires `Saved` not to be a change-set id, because the two kinds of slot must not collide.
* **LoopImplementsSpec.** The same invariant, taken in both the current and the next state, shows that each loop step maps to a stutter or to `Commit`. The lemma `AbsSame` identifies the instantiated operators with the originals.

* **Package store.**
  * `TypeOK` is not inductive. When a request is sent, `pending[s] + 1` must stay within `0..MaxLoads`. `PendingBounded` (`pending[s] <= loads`) gives that bound.
  * `IInv == TypeOK /\ PendingBounded /\ SelectionResolves` is inductive.
  * `StoreShape` says each store is empty or a generated set keyed `0..n-1`, and that the key of each package is its id and its slug (`MockShape`).
  * A load that finds `packagesById[0]` missing finds the store empty, so nothing was selected.
* **NodeIdsAlwaysUnique.**
  * `NodeIdsUnique` is inductive together with `IInv`. `IInv` supplies the types, and `FocusOK` makes `At(current)` a stored node.
  * The `add` mutation is `UnionById`, and `UnionByIdUnique` in `ProjectionProofs` shows its result has unique ids for any argument. Its proof needs `RankOnto`: ranking the kept indices is an injection from `FirstById(s)` into `1..n` with `n` its cardinality, so it is onto (`FS_Injection`, `FS_Interval`). Every element of the result is therefore a kept first occurrence (`UnionByIdFrom`), and no two kept occurrences share an id.
  * Every other write replaces one stored node by a node of the same id (`ReplaceUnique`).
* **NodesNeverDropped.** The step lemma `KeepsIdsStep` uses the same case split: `UnionById` keeps an element of every id (`NodesAfterAddKeeps`), and an in-place rewrite keeps the set of ids (`ReplaceNode`).

What stays with TLC only:

* **Liveness:** no run checks one. The loop is synchronous and runs to the end by construction, and the relays and responses of the node store have no fairness the code guarantees. TLAPS does not handle fairness or ENABLED in any case.
* **Recursive definitions:** the resolver's recursive walk (`ListComplete`, `GroupsFollowObjects`). The provers cannot do induction over data, and a module that declares a RECURSIVE operator loses its SMT backend. For the same reason, `PropertyResolver` is kept out of every proof module.
* **The violation properties.** These are refuted, not proved.

## What is not modelled

* `sendAction` and `delete` (792-843) call the backend and reload.
* The edge creation after a node is created (900-950) belongs to the edge store, outside `src/`.
* The debounced wrappers (137-170) dispatch the same actions later. Each model action is the dispatched action itself.
* `diffEntity` and the registry lookup are outside `src/`.
* The typeName check of `propertiesList` (495-500) throws before any change.
* Pure or formatting code has no state to model: the feature-flag store, the display fields of the mock packages (names, colours, versions, schema variants), `toOptionValues`, `leftHandPath`, `awsSecurityGroupDefaultDescription` and the old-web `Node` type. The kubernetes declarations have no state of their own either. They are modelled as data for the resolver.

Two abstractions to be aware of:

* The `add` action's loop over `payload.items` is modelled one item at a time, so items of one payload may be handled in any order.
* `inbox` is a set, not a queue: relays are handled in any order, and two identical relays (same entity, same snapshot) collapse into one. A duplicate relay of one snapshot is therefore not modelled; reordering is.
* A `parseInt` of an absent entry count is NaN, and every comparison with NaN is false. The model never generates a change-set snapshot without a count.

## Plan for later sittings

* Add a liveness check that every relayed update is eventually reflected in a node's display, under fairness of the relay.
* Find out what `DisplayTracksBackend` needs beyond distinct snapshot ids. Distinct ids alone are probably not enough: `add` prepends the newest snapshot (853), and the saved slot keeps the last saved item of the stack (609), so the display would show the oldest saved snapshot. A run with distinct ids should be made before any proof is attempted.
* A refinement of the node store onto spec 4.4's map from ids to nodes only says something if the abstract upsert knows its payload. With the payload hidden behind an existential, it reduces to `NodeIdsUnique` and `NodesNeverDropped`, which are already proved.
