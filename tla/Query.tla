-------------------------------- MODULE Query --------------------------------
(***************************************************************************)
(* The query engine (shared/query.ts): the builder, the resolution of a    *)
(* query's roots, its window, the triples the server ships for it and the  *)
(* rows both sides build from triples.                                     *)
(*                                                                         *)
(* S is a raw store and R what one reader may read of it: every read of    *)
(* the engine is filtered by canRead, except the adapter's ranking, which  *)
(* sees S.  A selection tree is the set of its paths, closed under prefix. *)
(***************************************************************************)
EXTENDS Schema, FiniteSets

CONSTANTS
  Rank,       \* the place of each value and each id in the encoded order
  None, Blank,\* no value; the empty string, which ranks below every other
  Factor,     \* a set of more than Factor * limit candidates is ranked by SQL (4)
  Margin,     \* of the window's overfetch (16)
  LeastBatch  \* of the walk over ranked candidates (64)

ASSUME QueryAssumption ==
  /\ {Factor, Margin} \subseteq Nat /\ LeastBatch \in Nat \ {0}
  /\ \A v, w \in DOMAIN Rank : Rank[v] = Rank[w] => v = w
  /\ None \notin DOMAIN Rank /\ Blank \in DOMAIN Rank

----------------------------------------------------------------------------
\* The builder

\* Query.from: every instance, nothing selected, no window.
From(entity) ==
  [entity |-> entity, subject |-> None, all |-> {}, constraints |-> <<>>, select |-> {},
   order |-> None, desc |-> FALSE, after |-> {}, limit |-> 0, subs |-> {}]

With(q, c) == [q EXCEPT !.constraints = Append(@, c)]

Where(q, p, values)   == With(q, [kind |-> "in", predicate |-> p, values |-> values])
WhereRow(q, p)        == With(q, [kind |-> "parent", predicate |-> p])
WhereNot(q, p, values)== With(q, [kind |-> "not", predicate |-> p, values |-> values])
WhereAbsent(q, p)     == With(q, [kind |-> "absent", predicate |-> p])

\* low and high are the values a range starts and ends with, None if it has no
\* such end; strict says that the ends themselves are out.
WhereRange(q, p, low, high, strict) ==
  With(q, [kind |-> "range", predicate |-> p, low |-> low, high |-> high, strict |-> strict])

\* Each branch is a query that carries constraints only.
WhereEither(q, branches) ==
  With(q, [kind |-> "either", branches |-> {b.constraints : b \in branches}])

WhereId(q, id)          == [q EXCEPT !.subject = id]
OrderBy(q, p, desc)     == [q EXCEPT !.order = p, !.desc = desc]
Limit(q, n)             == [q EXCEPT !.limit = n]
After(q, value, id)     == [q EXCEPT !.after = {[value |-> value, id |-> id]}]
Select(q, paths)        == [q EXCEPT !.select = paths]
Beside(q, key, path, b) == [q EXCEPT !.subs = @ \cup {[key |-> key, path |-> path, query |-> b]}]

CanSeed(c) == c.kind \in {"in", "range"}

\* The fields that together find every instance: a required one if there is one.
InstancePredicates(entity) ==
  LET fields   == Fields[entity]
      required == SelectSeq(fields, LAMBDA f : f.required)
  IN  IF required # <<>> THEN {required[1].predicate} ELSE {f.predicate : f \in ToSet(fields)}

\* What travels: a query that no constraint seeds names every instance.
RECURSIVE ToPayload(_)
ToPayload(q) ==
  LET seeded == /\ q.constraints # <<>>
                /\ CanSeed(q.constraints[1]) \/ q.constraints[1].kind = "parent"
  IN  [q EXCEPT
         !.all  = IF q.subject # None \/ seeded THEN {} ELSE InstancePredicates(q.entity),
         !.subs = {[s EXCEPT !.query = ToPayload(@)] : s \in @}]

\* A subquery's correlations, bound to the row it is attached to.
RECURSIVE Bound(_, _)
Bound(c, parent) ==
  CASE c.kind = "parent" -> [kind |-> "in", predicate |-> c.predicate, values |-> {parent}]
    [] c.kind = "either" ->
         [c EXCEPT !.branches = {[i \in DOMAIN b |-> Bound(b[i], parent)] : b \in @}]
    [] OTHER -> c

BindParent(q, parent) ==
  [q EXCEPT !.constraints = [i \in DOMAIN @ |-> Bound(@[i], parent)]]

\* The predicates a constraint touches, and those it negates.
RECURSIVE Touched(_)
Touched(c) ==
  IF c.kind = "either"
  THEN UNION {UNION {Touched(b[i]) : i \in DOMAIN b} : b \in c.branches}
  ELSE {c.predicate}

RECURSIVE Negated(_)
Negated(c) ==
  CASE c.kind = "either" -> UNION {UNION {Negated(b[i]) : i \in DOMAIN b} : b \in c.branches}
    [] c.kind \in {"not", "absent"} -> {c.predicate}
    [] OTHER -> {}

\* Mutant: the constraints are not watched.
QueryPredicatesSelected(q) == q.all \cup UNION {ToSet(path) : path \in q.select}

\* What a live query watches: constraints, seed and selection, but not the order, nor
\* all that a pinned subject hangs on.
RECURSIVE QueryPredicates(_)
QueryPredicates(q) ==
  UNION {Touched(q.constraints[i]) : i \in DOMAIN q.constraints}
    \cup q.all
    \cup UNION {ToSet(path) : path \in q.select}
    \cup UNION {QueryPredicates(s.query) : s \in q.subs}

----------------------------------------------------------------------------
\* Roots

InRange(c, v) ==
  /\ c.low  # None => Rank[c.low] < Rank[v] \/ (~ c.strict /\ v = c.low)
  /\ c.high # None => Rank[v] < Rank[c.high] \/ (~ c.strict /\ v = c.high)

TripleMatches(c, t) ==
  t.predicate = c.predicate /\ IF c.kind = "range" THEN InRange(c, t.object) ELSE t.object \in c.values

\* One constraint against one subject.
RECURSIVE SubjectPasses(_, _, _)
SubjectPasses(R, s, c) ==
  CASE c.kind = "either" -> \E b \in c.branches : \A i \in DOMAIN b : SubjectPasses(R, s, b[i])
    [] c.kind = "absent" -> Of(R, s, c.predicate) = {}
    [] c.kind = "not"    -> \A t \in Of(R, s, c.predicate) : t.object \notin c.values
    [] OTHER             -> \E t \in Of(R, s, c.predicate) : TripleMatches(c, t)

SeedEveryInstance(R, all) == {t.subject : t \in {t \in R : t.predicate \in all}}

Branch(q, b) == [q EXCEPT !.constraints = b]

IsEither(q) == q.constraints # <<>> /\ q.constraints[1].kind = "either"

\* Whether the first constraint finds the roots itself; it is not asked again.
IsSeed(q) == q.subject = None /\ q.constraints # <<>> /\ (CanSeed(q.constraints[1]) \/ IsEither(q))

Survive(R, subjects, q, n) ==
  {s \in subjects : \A i \in 1..n : (i = 1 /\ IsSeed(q)) \/ SubjectPasses(R, s, q.constraints[i])}

\* The pinned subject if anything of it is readable, every instance, or what the
\* first constraint finds.
PlainSeeds(R, q) ==
  CASE q.subject # None                  -> {q.subject} \cap {t.subject : t \in R}
    [] q.subject = None /\ ~ IsSeed(q)   -> SeedEveryInstance(R, q.all)
    [] OTHER -> {t.subject : t \in {t \in R : TripleMatches(q.constraints[1], t)}}

\* Mutant: of a branch, only the constraint that seeds it is asked.
SeedByFirst(R, q) ==
  IF q.subject = None /\ IsEither(q)
  THEN UNION {PlainSeeds(R, Branch(q, b)) : b \in q.constraints[1].branches}
  ELSE PlainSeeds(R, q)

\* The subjects a query starts from; an either unites those of its branches.
RECURSIVE SeedRoots(_, _)
SeedRoots(R, q) ==
  IF q.subject = None /\ IsEither(q)
  THEN UNION {Survive(R, SeedRoots(R, Branch(q, b)), Branch(q, b), Len(b)) :
                b \in q.constraints[1].branches}
  ELSE PlainSeeds(R, q)

\* The subjects that pass the first n constraints.
Surviving(R, q, n) == Survive(R, SeedRoots(R, q), q, n)

ResolveRoots(R, q) == Surviving(R, q, Len(q.constraints))

\* Mutant: evidence only for the subjects that survive.
EvidenceOfRoots(R, q) ==
  {t \in R : t.subject \in ResolveRoots(R, q)
             /\ \E i \in DOMAIN q.constraints : t.predicate \in Negated(q.constraints[i])}

\* What is shipped for negations: the negated fields of every subject that reached
\* the negation, in the branches of an either-seed too.
RECURSIVE Evidence(_, _)
Evidence(R, q) ==
  UNION {{t \in R : /\ t.predicate \in Negated(q.constraints[i])
                    /\ t.subject \in Surviving(R, q, i - 1)} : i \in DOMAIN q.constraints}
    \cup IF q.subject = None /\ IsEither(q)
         THEN UNION {Evidence(R, Branch(q, b)) : b \in q.constraints[1].branches}
         ELSE {}

\* The required fields of the root that the query reads must all be there.
WholeOnly(V, q, roots) ==
  LET read == UNION {Touched(q.constraints[i]) : i \in DOMAIN q.constraints}
                \cup q.all \cup {path[1] : path \in q.select}
  IN  {s \in roots : \A p \in Required \cap read : Of(V, s, p) # {}}

\* Whether what R holds of every root is whole for the query.
RootsAreWhole(R, q) == WholeOnly(R, q, ResolveRoots(R, q)) = ResolveRoots(R, q)

----------------------------------------------------------------------------
\* The window

\* Missing values come last in either direction; ties break on the id.
Precedes(q, a, b) ==
  IF a.value = b.value
  THEN Rank[a.id] < Rank[b.id]
  ELSE IF None \in {a.value, b.value}
       THEN b.value = None
       ELSE (Rank[a.value] < Rank[b.value]) # q.desc

\* A root's place in the order: the value of its order field and its id.
Key(R, q, s) ==
  [value |-> IF Of(R, s, q.order) = {} THEN None ELSE (CHOOSE t \in Of(R, s, q.order) : TRUE).object,
   id    |-> s]

\* Each subject has its place: the number of those before it.
Sorted(R, q, subjects) ==
  LET key == [s \in subjects |-> IF q.order = None THEN [value |-> None, id |-> s] ELSE Key(R, q, s)]
  IN  [i \in 1..Cardinality(subjects) |->
         CHOOSE s \in subjects : Cardinality({x \in subjects : Precedes(q, key[x], key[s])}) = i - 1]

FirstOf(n, seq) == SubSeq(seq, 1, IF n < Len(seq) THEN n ELSE Len(seq))

\* Mutant: the row at the cursor is on both pages.
PastInclusive(R, q, s) == \A c \in q.after : ~ Precedes(q, Key(R, q, s), c)

Past(R, q, s) == \A c \in q.after : Precedes(q, c, Key(R, q, s))

\* applyWindow where no adapter ranks: filter by the cursor, order, cut.
LocalWindow(R, q, roots) ==
  LET rows == Sorted(R, q, {s \in roots : Past(R, q, s)})
  IN  IF q.limit = 0 THEN rows ELSE FirstOf(q.limit, rows)

\* topSubjects: the first of the rows that have a value, after the cursor.  The
\* cursor travels encoded, no value as the empty string.
TopSubjects(S, q, roots, cursor, take) ==
  FirstOf(take, Sorted(S, q,
    {s \in roots : /\ Key(S, q, s).value # None
                   /\ \A c \in cursor : Precedes(q, c, Key(S, q, s))}))

Encoded(after) == {[c EXCEPT !.value = IF @ = None THEN Blank ELSE @] : c \in after}

CanRead(R, q, s) == Key(R, q, s).value # None

\* applyWindow on the server: SQL ranks when the roots are many.
RankedWindow(S, R, q, roots) ==
  LET take    == 2 * q.limit + Margin
      top     == TopSubjects(S, q, roots, Encoded(q.after), take)
      visible == FirstOf(q.limit, SelectSeq(top, LAMBDA s : CanRead(R, q, s)))
  IN  IF /\ q.order # None /\ q.limit # 0 /\ Cardinality(roots) > Factor * q.limit
         /\ Len(visible) >= q.limit \/ Len(top) < take
      THEN visible
      ELSE LocalWindow(R, q, roots)

\* One constraint of one value, or none and one seed field.
Seeds(q, t) ==
  IF q.constraints = <<>> THEN t.predicate \in q.all ELSE TripleMatches(q.constraints[1], t)

RidesFastPath(q) ==
  /\ q.subject = None /\ q.order # None /\ q.limit # 0
  /\ \/ Len(q.constraints) = 1 /\ q.constraints[1].kind = "in"
        /\ Cardinality(q.constraints[1].values) = 1
     \/ q.constraints = <<>> /\ Cardinality(q.all) = 1

\* Mutant: only the order value need be readable.
WalkOneGate(S, R, q, candidates, cursor, found) ==
  FirstOf(q.limit, SelectSeq(TopSubjects(S, q, candidates, cursor, Cardinality(candidates)),
                             LAMBDA s : CanRead(R, q, s)))

\* Batch after batch of raw candidates, until enough of them may be read: the
\* order value and the seed triple.
RECURSIVE Walk(_, _, _, _, _, _)
Walk(S, R, q, candidates, cursor, found) ==
  LET take  == IF 2 * q.limit > LeastBatch THEN 2 * q.limit ELSE LeastBatch
      batch == TopSubjects(S, q, candidates, cursor, take)
      kept  == FirstOf(q.limit, found \o SelectSeq(batch, LAMBDA s :
                 CanRead(R, q, s) /\ \E t \in R : t.subject = s /\ Seeds(q, t)))
  IN  IF Len(kept) >= q.limit \/ Len(batch) < take
      THEN kept
      ELSE Walk(S, R, q, candidates, {Key(S, q, batch[Len(batch)])}, kept)

\* The roots of the window, where the adapter can rank.
WindowedRoots(S, R, q) ==
  LET candidates == {t.subject : t \in {t \in S : Seeds(q, t)}}
      walked     == Walk(S, R, q, candidates, Encoded(q.after), <<>>)
  IN  IF /\ RidesFastPath(q) /\ Cardinality(candidates) > Factor * q.limit
         /\ Len(walked) >= q.limit
      THEN walked
      ELSE RankedWindow(S, R, q, ResolveRoots(R, q))

----------------------------------------------------------------------------
\* What the server ships, and the rows

Walks(R, roots, path) == UNION {Chains(R, s, path, Len(path)) : s \in roots}

\* The subjects at the end of a path of refs.
Ends(R, roots, path) ==
  IF path = <<>> THEN roots ELSE {w[Len(path)].object : w \in Walks(R, roots, path)}

Selected(R, roots, select) ==
  UNION {UNION {{w[i] : i \in DOMAIN w} : w \in Walks(R, roots, path)} : path \in select}

RECURSIVE ConstraintTriples(_, _, _)
ConstraintTriples(R, roots, c) ==
  CASE c.kind = "either" ->
         UNION {UNION {ConstraintTriples(R, roots, b[i]) : i \in DOMAIN b} : b \in c.branches}
    [] c.kind \in {"in", "range"} -> {t \in R : t.subject \in roots /\ TripleMatches(c, t)}
    [] OTHER -> {}

\* One correlation and nothing else: every parent's rows in one walk.
Batchable(q) ==
  /\ Len(q.constraints) = 1 /\ q.constraints[1].kind = "parent"
  /\ q.subject = None /\ q.order = None /\ q.limit = 0 /\ q.subs = {}

Batched(R, q, parents) ==
  LET links == {t \in R : t.predicate = q.constraints[1].predicate /\ t.object \in parents}
  IN  links \cup Selected(R, {t.subject : t \in links}, q.select)

\* collectPayloadTriples; ranked says that the store can rank, which a client's
\* cannot.
RECURSIVE Collected(_, _, _, _)
Collected(S, R, q, ranked) ==
  LET roots == ToSet(IF ranked THEN WindowedRoots(S, R, q)
                               ELSE LocalWindow(R, q, ResolveRoots(R, q)))
  IN  Evidence(R, q)
        \cup {t \in R : t.subject \in roots /\ t.predicate \in {q.order} \cup q.all}
        \cup UNION {ConstraintTriples(R, roots, q.constraints[i]) : i \in DOMAIN q.constraints}
        \cup Selected(R, roots, q.select)
        \cup UNION {LET parents == Ends(R, roots, sub.path) IN
                    IF Batchable(sub.query)
                    THEN Batched(R, sub.query, parents)
                    ELSE UNION {Collected(S, R, BindParent(sub.query, x), ranked) : x \in parents} :
                    sub \in q.subs}

\* runPayload: the rows in order, each with what it shows along every selected
\* path and the rows of every subquery at every row it is attached to.
RECURSIVE Run(_, _)
Run(V, q) ==
  LET roots == LocalWindow(V, q, WholeOnly(V, q, ResolveRoots(V, q)))
      row(s) ==
        [id     |-> s,
         fields |-> [path \in q.select |-> Chains(V, s, path, Len(path))],
         subs   |-> UNION {{[key |-> sub.key, at |-> x, rows |-> Run(V, BindParent(sub.query, x))] :
                              x \in Ends(V, {s}, sub.path)} : sub \in q.subs}]
  IN  [i \in DOMAIN roots |-> row(roots[i])]

\* LiveQuery.cursor: where the next page goes on, read off the last row shown.
Cursor(V, q) ==
  LET rows == Run(V, q)
      last == rows[Len(rows)]
  IN  IF rows = <<>> THEN {}
      ELSE {[value |-> IF <<q.order>> \in q.select THEN Key(V, q, last.id).value ELSE None,
             id    |-> last.id]}
=============================================================================
