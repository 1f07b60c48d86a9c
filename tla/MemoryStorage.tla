--------------------------- MODULE MemoryStorage ---------------------------
(***************************************************************************)
(* The in-memory adapter (shared/storage.ts, class MemoryStorage): a store *)
(* and an array of log entries of which a prefix may have been compacted   *)
(* away.  The operations are functions on the adapter's state, so that a   *)
(* module in which one handler makes several of them can compose them.     *)
(***************************************************************************)
EXTENDS Integers, Sequences, SequencesExt, Triples

CONSTANTS
  MaxVersion,  \* bound on the versions a behaviour commits
  RetainLog    \* the server's retainLog, 0 when omitted

ASSUME StorageAssumption == MaxVersion \in Nat /\ RetainLog \in Nat

VARIABLES
  mem,        \* [store, log, floor]: the adapter's three fields
  history     \* history[v + 1]: the store at version v (history variable)

memVars == <<mem, history>>

Entry == [version : Nat, delta : Delta]

EmptyStorage == [store |-> {}, log |-> <<>>, floor |-> 0]

VersionOf(m) == m.floor + Len(m.log)

\* Mutant: the entry holds what was asked for, not what changed.
AppendedVerbatim(m, d) ==
  IF IsEmptyDelta(d)
  THEN m
  ELSE [m EXCEPT !.store = Applied(@, d),
                 !.log = Append(@, [version |-> VersionOf(m) + 1, delta |-> d])]

\* Mutant: the version is the length of the array.
AppendedAtLength(m, d) ==
  LET effective == Effective(m.store, d)
  IN  IF IsEmptyDelta(effective)
      THEN m
      ELSE [m EXCEPT !.store = Applied(@, d),
                     !.log = Append(@, [version |-> Len(@) + 1, delta |-> effective])]

\* apply: commit what the delta really changes, as one log entry.
Appended(m, d) ==
  LET effective == Effective(m.store, d)
  IN  IF IsEmptyDelta(effective)
      THEN m
      ELSE [m EXCEPT !.store = Applied(@, d),
                     !.log = Append(@, [version |-> VersionOf(m) + 1,
                                        delta   |-> effective])]

\* Mutant: the slice starts one entry late.
CompactedOneMore(m, upTo) ==
  LET floor == IF upTo < VersionOf(m) THEN upTo ELSE VersionOf(m)
  IN  IF floor <= m.floor
      THEN m
      ELSE [m EXCEPT !.log = SubSeq(@, floor - m.floor + 2, Len(@)),
                     !.floor = floor]

\* compact: drop the entries at or below upTo, never past the last version.
Compacted(m, upTo) ==
  LET floor == IF upTo < VersionOf(m) THEN upTo ELSE VersionOf(m)
  IN  IF floor <= m.floor
      THEN m
      ELSE [m EXCEPT !.log = SubSeq(@, floor - m.floor + 1, Len(@)),
                     !.floor = floor]

\* Mutant: the slice starts after the entry next to the cursor.
EntriesSinceSkipping(m, since) == SubSeq(m.log, since - m.floor + 2, Len(m.log))

\* entriesSince: the caller must first ask whether the cursor is retained.
Retains(m, since) == since >= m.floor
EntriesSince(m, since) == SubSeq(m.log, since - m.floor + 1, Len(m.log))

\* #compactIfDue (server.ts): every retain-th commit forgets all but the last
\* retain entries.  retain = 0 stands for an omitted retainLog.
CompactIfDue(m, retain) ==
  IF retain > 0 /\ VersionOf(m) % retain = 0
  THEN Compacted(m, VersionOf(m) - retain)
  ELSE m

MemInit ==
  /\ mem = EmptyStorage
  /\ history = <<{}>>

Record(m) ==
  IF VersionOf(m) >= Len(history) THEN Append(history, m.store) ELSE history

Apply(d) ==
  /\ VersionOf(mem) < MaxVersion
  /\ mem' = Appended(mem, d)
  /\ history' = Record(Appended(mem, d))

Compact(upTo) ==
  /\ mem' = Compacted(mem, upTo)
  /\ UNCHANGED history

\* Any upTo past the last version compacts as the last version does.
MemNext ==
  \/ \E d \in Delta : Apply(d)
  \/ \E upTo \in 0..(VersionOf(mem) + 1) : Compact(upTo)

MemSpec == MemInit /\ [][MemNext]_memVars

MemTypeOK ==
  /\ mem \in [store : SUBSET Triple, log : Seq(Entry), floor : Nat]
  /\ history \in Seq(SUBSET Triple)

\* SPEC 3: append-only, monotonic, no gaps above the retention floor: the array
\* index of an entry always gives its version, and the history is as long.
LogIsDense ==
  /\ \A i \in DOMAIN mem.log : mem.log[i].version = mem.floor + i
  /\ Len(history) = VersionOf(mem) + 1

\* state = fold(log): the store is the last state, and every retained entry
\* takes one state of the history to the next.
StateIsFold ==
  /\ mem.store = history[Len(history)]
  /\ \A i \in DOMAIN mem.log :
        history[mem.floor + i + 1] = Applied(history[mem.floor + i], mem.log[i].delta)

\* A cursor the log still retains is extended by exactly the versions after it,
\* each once and in order; a cursor below the floor is refused.
CatchUpIsExact ==
  \A since \in 0..VersionOf(mem) :
    Retains(mem, since) =>
      LET entries == EntriesSince(mem, since)
      IN  /\ Len(entries) = VersionOf(mem) - since
          /\ \A i \in DOMAIN entries : entries[i].version = since + i

\* The array and its floor, read as the contract's version-indexed log.
Contract ==
  INSTANCE Storage WITH
    floor <- mem.floor,
    log <- [v \in (mem.floor + 1)..VersionOf(mem) |-> mem.log[v - mem.floor].delta]

Implements == Contract!Spec
=============================================================================
