--------------------------- MODULE SqliteStorage ---------------------------
(***************************************************************************)
(* The durable adapter (server/sqlite.ts): a triples table, a log table    *)
(* keyed by version and a floor in the meta table.  A write is one SQL     *)
(* transaction of several statements, and the process may die between any  *)
(* two of them; what was not committed is then gone.  The server's         *)
(* #compactIfDue is a second transaction after the first, so a crash may   *)
(* also fall between.                                                      *)
(***************************************************************************)
EXTENDS Integers, Sequences, FiniteSets, FiniteSetsExt, Triples

CONSTANTS
  MaxVersion,   \* bound on the versions a behaviour commits
  RetainLog     \* the server's retainLog, 0 when omitted

VARIABLES
  db,        \* the committed tables: [triples, log, floor]
  work,      \* the tables as the open transaction sees them
  step,      \* where the write is: "idle", "removes", "inserts", "append",
             \* "compact" (due, not begun), "setFloor"
  pending,   \* the delta of the write in progress
  effective, \* what its statements have changed so far
  history    \* history[v + 1]: the store at version v (history variable)

sqlVars == <<db, work, step, pending, effective, history>>

Row == [version : Nat, delta : Delta]

Tables == [triples : SUBSET Triple, log : SUBSET Row, floor : Nat]

EmptyTables == [triples |-> {}, log |-> {}, floor |-> 0]

\* SELECT MAX(version) FROM log, or the floor when the log is empty.
VersionOf(t) ==
  IF t.log = {} THEN t.floor ELSE Max({row.version : row \in t.log})

SqlInit ==
  /\ db = EmptyTables
  /\ work = EmptyTables
  /\ step = "idle"
  /\ pending = NoDelta
  /\ effective = NoDelta
  /\ history = <<{}>>

\* The call is over: nothing of its transaction is left but what it committed.
Finish ==
  /\ step' = "idle"
  /\ work' = db'
  /\ pending' = NoDelta
  /\ effective' = NoDelta

----------------------------------------------------------------------------
\* apply, statement by statement

BeginApply(d) ==
  /\ step = "idle"
  /\ VersionOf(db) < MaxVersion
  /\ step' = "removes"
  /\ pending' = d
  /\ UNCHANGED <<db, work, effective, history>>

\* DELETE FROM triples: the rows that changed are the removes that hit.
RunRemoves ==
  /\ step = "removes"
  /\ work' = [work EXCEPT !.triples = @ \ pending.removed]
  /\ effective' = [effective EXCEPT !.removed = pending.removed \cap work.triples]
  /\ step' = "inserts"
  /\ UNCHANGED <<db, pending, history>>

\* Mutant: the statement runs outside the transaction.
RunInsertsUnwrapped ==
  /\ step = "inserts"
  /\ db' = [db EXCEPT !.triples = (@ \ pending.removed) \cup pending.added]
  /\ work' = db'
  /\ effective' = [effective EXCEPT !.added = pending.added \ work.triples]
  /\ step' = "append"
  /\ UNCHANGED <<pending, history>>

\* INSERT OR IGNORE: the rows that changed are the adds that were new.
RunInserts ==
  /\ step = "inserts"
  /\ work' = [work EXCEPT !.triples = @ \cup pending.added]
  /\ effective' = [effective EXCEPT !.added = pending.added \ work.triples]
  /\ step' = "append"
  /\ UNCHANGED <<db, pending, history>>

\* Nothing changed: the transaction commits empty and apply returns null.
CommitNothing ==
  /\ step = "append"
  /\ IsEmptyDelta(effective)
  /\ UNCHANGED <<db, history>>
  /\ Finish

\* INSERT INTO log and COMMIT; then the server asks whether compaction is due.
AppendAndCommit ==
  /\ step = "append"
  /\ ~ IsEmptyDelta(effective)
  /\ LET version == VersionOf(work) + 1
     IN  /\ db' = [work EXCEPT !.log = @ \cup {[version |-> version, delta |-> effective]}]
         /\ history' = Append(history, work.triples)
         /\ IF RetainLog > 0 /\ version % RetainLog = 0
            THEN /\ step' = "compact"
                 /\ work' = db'
                 /\ UNCHANGED <<pending, effective>>
            ELSE Finish

----------------------------------------------------------------------------
\* compact, for the server's upTo = version - RetainLog

UpTo == VersionOf(db) - RetainLog

\* floor = min(upTo, version) does not pass the stored one: nothing to do.
SkipCompact ==
  /\ step = "compact"
  /\ UpTo <= db.floor
  /\ UNCHANGED <<db, history>>
  /\ Finish

\* DELETE FROM log WHERE version <= floor
ForgetRows ==
  /\ step = "compact"
  /\ UpTo > db.floor
  /\ work' = [work EXCEPT !.log = {row \in @ : row.version > UpTo}]
  /\ step' = "setFloor"
  /\ UNCHANGED <<db, pending, effective, history>>

\* INSERT OR REPLACE INTO meta and COMMIT
SetFloorAndCommit ==
  /\ step = "setFloor"
  /\ db' = [work EXCEPT !.floor = UpTo]
  /\ UNCHANGED history
  /\ Finish

----------------------------------------------------------------------------
\* A statement throws and the transaction is rolled back, or the process dies
\* and the next one opens the same file: what was committed is what is left.
Abandon ==
  /\ step # "idle"
  /\ UNCHANGED <<db, history>>
  /\ Finish

SqlNext ==
  \/ \E d \in Delta : BeginApply(d)
  \/ RunRemoves
  \/ RunInserts
  \/ CommitNothing
  \/ AppendAndCommit
  \/ SkipCompact
  \/ ForgetRows
  \/ SetFloorAndCommit
  \/ Abandon

SqlSpec == SqlInit /\ [][SqlNext]_sqlVars

----------------------------------------------------------------------------
\* The committed tables, the open transaction's view and the write in progress.
SqlTypeOK ==
  /\ db \in Tables
  /\ work \in Tables
  /\ step \in {"idle", "removes", "inserts", "append", "compact", "setFloor"}
  /\ pending \in Delta
  /\ effective \in Delta
  /\ history \in Seq(SUBSET Triple)

\* The committed log holds exactly one row for every version above the floor,
\* wherever a write or a compaction is interrupted (SPEC 3).
RowsAreDense ==
  /\ {row.version : row \in db.log} = (db.floor + 1)..VersionOf(db)
  /\ \A r1, r2 \in db.log : r1.version = r2.version => r1 = r2

\* The committed tables, read as the contract's version-indexed log: whole
\* writes only, no version lost, reused or half applied across an interruption.
Contract ==
  INSTANCE Storage WITH
    floor <- db.floor,
    log <- [v \in (db.floor + 1)..VersionOf(db) |->
              (CHOOSE row \in db.log : row.version = v).delta]

Implements == Contract!Spec
=============================================================================
