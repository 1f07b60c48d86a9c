------------------------------ MODULE Adapters ------------------------------
(***************************************************************************)
(* A server may be given any storage adapter: here the three are driven by *)
(* the same server, which commits and then compacts by its retainLog.      *)
(* SQLite runs one statement at a time and may be interrupted between any  *)
(* two; the in-memory adapter and the Durable Object's do at SQLite's      *)
(* COMMIT, in one step, what that transaction did.                         *)
(***************************************************************************)
EXTENDS MemoryStorage

VARIABLES
  db, work, step, pending, effective, sqlHistory,   \* SqliteStorage
  object                                            \* DurableStorage: its tables

adaptersVars == <<memVars, db, work, step, pending, effective, sqlHistory, object>>

Sql == INSTANCE SqliteStorage WITH history <- sqlHistory
Durable == INSTANCE DurableStorage

AdaptersInit == MemInit /\ Sql!SqlInit /\ object = Durable!EmptyTables

\* A statement of an open transaction, or the loss of all of them.
Statement ==
  \/ \E d \in Delta : Sql!BeginApply(d)
  \/ Sql!RunRemoves
  \/ Sql!RunInserts
  \/ Sql!ForgetRows
  \/ Sql!Abandon

ApplyOthers ==
  /\ Apply(pending)
  /\ object' = Durable!AppliedTo(object, pending)

CompactOthers ==
  /\ Compact(Sql!UpTo)
  /\ object' = Durable!CompactedTo(object, Sql!UpTo)

AdaptersNext ==
  \/ Statement /\ UNCHANGED <<memVars, object>>
  \/ Sql!CommitNothing /\ ApplyOthers
  \/ Sql!AppendAndCommit /\ ApplyOthers
  \/ Sql!SkipCompact /\ CompactOthers
  \/ Sql!SetFloorAndCommit /\ CompactOthers

AdaptersSpec == AdaptersInit /\ [][AdaptersNext]_adaptersVars

----------------------------------------------------------------------------
\* The committed tables implement the contract: whole writes only, no version
\* lost, reused or half applied across an interruption.
TablesImplement == Sql!Implements

\* SPEC 5: the server cannot tell which adapter it was given. After any commits,
\* interruptions and compactions they hold the same triples, give the same
\* version, refuse the same cursors and replay the same entries to the others.
AdaptersAgree ==
  /\ object = db
  /\ db.triples = mem.store
  /\ Durable!VersionOf(object) = VersionOf(mem)
  /\ db.floor = mem.floor
  /\ \A since \in mem.floor..VersionOf(mem) :
        Durable!RowsSince(object, since) = Range(EntriesSince(mem, since))
=============================================================================
