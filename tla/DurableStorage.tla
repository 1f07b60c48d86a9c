--------------------------- MODULE DurableStorage ---------------------------
(***************************************************************************)
(* The adapter of a Durable Object (server/durable.ts): SQLite's tables in *)
(* the object's own storage.  transactionSync runs its function whole or   *)
(* not at all and nothing else runs meanwhile, so an operation is one      *)
(* function on the tables.  What the host's output gate lets out of the    *)
(* object before a crash is external.                                      *)
(***************************************************************************)
EXTENDS Integers, FiniteSetsExt, Triples

EmptyTables == [triples |-> {}, log |-> {}, floor |-> 0]

\* max(version), or the floor when the log is empty
VersionOf(t) ==
  IF t.log = {} THEN t.floor ELSE Max({row.version : row \in t.log})

\* Mutant: the version is the number of rows.
AppliedCounting(t, d) ==
  LET effective == Effective(t.triples, d)
  IN  IF IsEmptyDelta(effective)
      THEN t
      ELSE [t EXCEPT !.triples = Applied(@, d),
                     !.log = @ \cup {[version |-> Cardinality(@) + 1, delta |-> effective]}]

\* apply: each remove that hits, then each add that is new, is one row changed.
AppliedTo(t, d) ==
  LET effective == Effective(t.triples, d)
  IN  IF IsEmptyDelta(effective)
      THEN t
      ELSE [t EXCEPT !.triples = Applied(@, d),
                     !.log = @ \cup {[version |-> VersionOf(t) + 1, delta |-> effective]}]

CompactedTo(t, upTo) ==
  LET floor == Min({upTo, VersionOf(t)})
  IN  IF floor <= t.floor
      THEN t
      ELSE [t EXCEPT !.log = {row \in @ : row.version > floor}, !.floor = floor]

\* entriesSince, as rows: ORDER BY version gives them their order.
RowsSince(t, since) == {row \in t.log : row.version > since}
=============================================================================
