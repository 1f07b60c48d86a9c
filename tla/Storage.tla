------------------------------ MODULE Storage ------------------------------
(***************************************************************************)
(* What a StorageAdapter promises its server (shared/storage.ts): the      *)
(* store is the fold of the log, versions are dense and never reused, and  *)
(* the log above the retention floor is complete.  MemoryStorage and       *)
(* SqliteStorage are shown to implement this module.                       *)
(*                                                                         *)
(* history[v + 1] is the store as it was at version v.                     *)
(***************************************************************************)
EXTENDS Integers, Sequences, Triples

VARIABLES history, log, floor

vars == <<history, log, floor>>

Version == Len(history) - 1
Store   == history[Len(history)]
At(v)   == history[v + 1]

Init ==
  /\ history = <<{}>>
  /\ log = [v \in {} |-> NoDelta]
  /\ floor = 0

\* A commit that changes something takes the next version and one log entry,
\* store and log together; one that changes nothing leaves no trace.
Apply(d) ==
  /\ ~ IsEmptyDelta(Effective(Store, d))
  /\ history' = Append(history, Applied(Store, d))
  /\ log' = [v \in (floor + 1)..(Version + 1) |->
               IF v = Version + 1 THEN Effective(Store, d) ELSE log[v]]
  /\ UNCHANGED floor

\* Forgetting entries at or below a version costs replayability only.
Compact(upTo) ==
  /\ floor < upTo
  /\ upTo <= Version
  /\ floor' = upTo
  /\ log' = [v \in (upTo + 1)..Version |-> log[v]]
  /\ UNCHANGED history

Next ==
  \/ \E d \in Delta : Apply(d)
  \/ \E upTo \in 1..Version : Compact(upTo)

Spec == Init /\ [][Next]_vars

\* Every retained entry takes the state before it to the state after it.
StateIsFold ==
  /\ DOMAIN log = (floor + 1)..Version
  /\ \A v \in (floor + 1)..Version : At(v) = Applied(At(v - 1), log[v])
=============================================================================
