------------------------------ MODULE Triples ------------------------------
(***************************************************************************)
(* The data model of the store: a set of triples and the deltas that move  *)
(* it (shared/store.ts, shared/types.ts).  A triple is an opaque model     *)
(* value, except to the modules that read fields: they walk refs.          *)
(***************************************************************************)
EXTENDS Naturals

CONSTANT Triple

Delta == [added : SUBSET Triple, removed : SUBSET Triple]

NoDelta == [added |-> {}, removed |-> {}]

IsEmptyDelta(d) == d.added = {} /\ d.removed = {}

\* Store.apply: removes run before adds, so a triple in both halves ends present.
\* withDelta (the optimistic and post-state overlay) reads the same set.
Applied(S, d) == (S \ d.removed) \cup d.added

\* What Store.apply returns: the removes that hit and the adds that were new
\* once the removes had run.
Effective(S, d) ==
  [added   |-> d.added \ (S \ d.removed),
   removed |-> d.removed \cap S]

\* A delta filtered to what one actor may read.
Visible(d, readable) ==
  [added   |-> d.added \cap readable,
   removed |-> d.removed \cap readable]

\* The walks of n hops along a path of refs from s, as the triples they use.
Chains(S, s, path, n) ==
  {w \in [1..n -> S] :
     \A i \in 1..n :
       /\ w[i].predicate = path[i]
       /\ w[i].subject = IF i = 1 THEN s ELSE w[i - 1].object}

\* No triple in both halves: what compileOperations produces.
IsNet(d) == d.added \cap d.removed = {}
=============================================================================
