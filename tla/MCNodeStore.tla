----------------------------- MODULE MCNodeStore -----------------------------
(* Model-checking instance of NodeStore.                                    *)
EXTENDS NodeStore, TLC

CONSTANTS e1, e2, w1, w2, n1, n2

\* The id of an entity's k-th snapshot: the entity's own id (what node.ts
\* 896 compares with state.current.entityId), or either that or a version
\* id of its own.
MCSharedIds(e, k) == {e}
MCAnyIds(e, k) == {e, w1}
MCEntitySnapIds == {e1, e2, w1, w2}

MCSymmetry == Permutations({n1, n2}) \cup Permutations({e1, e2})
=============================================================================
