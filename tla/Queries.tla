------------------------------- MODULE Queries -------------------------------
(***************************************************************************)
(* The questions asked of the query engine, over every store the schema    *)
(* allows and every way to hide some of it: the store changes one fact at  *)
(* a time and stays whole, as the server keeps it (module Transact); what  *)
(* a reader may not read, a policy hides field by field of a subject.      *)
(***************************************************************************)
EXTENDS Query

CONSTANTS
  Plain,    \* queries without a window
  Windows,  \* queries with one, on their first page
  Veils     \* the sets of <<subject, predicate>> that may be hidden

VARIABLES store, hidden

vars == <<store, hidden>>

EntityOf(s) == CHOOSE e \in DOMAIN Fields : \E t \in Triple : t.subject = s /\ \E f \in ToSet(Fields[e]) : f.predicate = t.predicate

\* SPEC 4.5: whoever has a fact has its required ones, and one value of each.
Whole(S) ==
  \A t \in S :
    /\ \A f \in ToSet(Fields[EntityOf(t.subject)]) : f.required => Of(S, t.subject, f.predicate) # {}
    /\ \A u \in S : u.subject = t.subject /\ u.predicate = t.predicate => u = t

Readable == {t \in store : <<t.subject, t.predicate>> \notin hidden}

Put(t) == t \notin store /\ store' = store \cup {t} /\ UNCHANGED hidden

Take(t) == t \in store /\ store' = store \ {t} /\ UNCHANGED hidden

\* A field's value is replaced.
Replace(t, u) ==
  /\ t \in store /\ t.subject = u.subject /\ t.predicate = u.predicate /\ t # u
  /\ store' = (store \ {t}) \cup {u}
  /\ UNCHANGED hidden

Veil(v) == hidden # v /\ hidden' = v /\ UNCHANGED store

Init == store = {} /\ hidden = {}

Next ==
  /\ \/ \E t \in Triple : Put(t)
     \/ \E t \in Triple : Take(t)
     \/ \E t, u \in Triple : Replace(t, u)
     \/ \E v \in Veils : Veil(v)
  /\ Whole(store')

Spec == Init /\ [][Next]_vars

----------------------------------------------------------------------------
Payloads == {ToPayload(q) : q \in Plain \cup Windows}

Instances(R, q) == SeedEveryInstance(R, InstancePredicates(q.entity))

\* SPEC 6.2, 6.9, 6.10: whichever constraint comes first and seeds the search, the
\* roots are the instances that satisfy all of them.  Constraints may also find a
\* subject whose identifying field the reader may not see.
RootsSatisfyAll ==
  \A q \in Payloads :
    LET all == IF q.subject = None THEN Instances(Readable, q) ELSE {q.subject}
    IN  ResolveRoots(Readable, q) \cap Instances(Readable, q) =
          {s \in all \cap Instances(Readable, q) :
             \A i \in DOMAIN q.constraints : SubjectPasses(Readable, s, q.constraints[i])}

\* Whether every root has a readable value to be ranked by.
AllValued(q) ==
  \A s \in ResolveRoots(Readable, q) : Key(Readable, q, s).value # None

\* SPEC 6.6: "Invisible rows are skipped, never counted": ranking raw candidates and
\* checking only batches of them gives the window that filtering first would, on
\* every page.  Where some row has no readable order value the ranked path may cut
\* the window short.
WindowIsExact ==
  \A q \in {ToPayload(q) : q \in Windows} :
    AllValued(q) =>
      \A c \in {{}} \cup {{[value |-> Key(Readable, q, s).value, id |-> s]} : s \in ResolveRoots(Readable, q)} :
        LET page == [q EXCEPT !.after = c]
        IN  WindowedRoots(store, Readable, page) = LocalWindow(Readable, page, ResolveRoots(Readable, page))

\* Whether what the reader may see of every root is whole for the query.
AllWhole(q) == RootsAreWhole(Readable, q)

Shipped(q) == Collected(store, Readable, q, TRUE)

\* Whether V holds anything of the subject a query is pinned to.
Found(V, q) == q.subject # None => \E t \in V : t.subject = q.subject

\* SPEC 7.5, 7.6: the triples the server ships are all a client needs to build the
\* rows, the window and the subqueries the server would, also in a cache that holds
\* what other queries were sent, partial entities and all; negations are judged on
\* the evidence shipped.  Of a pinned subject that has none of the fields asked for,
\* nothing is shipped: the server would show it, by its id alone, and a client knows
\* of it only from another query (query.ts:1342 against SPEC 7.5).
LocalRunAgrees ==
  \A q, other \in Payloads :
    LET cache == Shipped(q) \cup Shipped(other)
    IN  (q.limit # 0 => AllValued(q) /\ AllWhole(q)) /\ (Found(Readable, q) => Found(cache, q))
          => Run(cache, q) = Run(Readable, q)

\* The pages after the page shown by V, at most n of them, as the ids in order.
RECURSIVE Pages(_, _)
Pages(q, n) ==
  LET rows == Run(Shipped(q), q)
  IN  IF rows = <<>> \/ n = 0
      THEN <<>>
      ELSE [i \in DOMAIN rows |-> rows[i].id] \o Pages([q EXCEPT !.after = Cursor(Shipped(q), q)], n - 1)

\* SPEC 6.6: "load more" with the cursor of each page's last row visits every row
\* once and in order.
PagesVisitEachRowOnce ==
  \A q \in {ToPayload(q) : q \in Windows} :
    AllValued(q) /\ AllWhole(q) /\ <<q.order>> \in q.select =>
      Pages(q, Cardinality(ResolveRoots(Readable, q)) + 1) =
        Sorted(Readable, q, ResolveRoots(Readable, q))

\* SPEC 6.4: a change that touches none of the fields a query watches changes none
\* of its rows, so nothing is missed by re-running only the queries a delta touches.
\* Two exceptions are what the code leaves unwatched: the order field, unless it is
\* also selected or constrained, and whatever makes a pinned subject appear or
\* disappear, since its one row hangs on any fact of it (query.ts:1342).
WatchedPredicatesSuffice ==
  [][\A q \in Payloads :
       LET changed == {t.predicate : t \in (Readable' \ Readable) \cup (Readable \ Readable')}
           watched == QueryPredicates(q)
       IN  changed \cap watched = {} /\ q.order \in watched \cup {None} /\ Found(Readable', q) = Found(Readable, q)
             => Run(Readable', q) = Run(Readable, q)]_vars
=============================================================================
