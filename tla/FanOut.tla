------------------------------- MODULE FanOut -------------------------------
(***************************************************************************)
(* Who is told what about a commit (server/server.ts #prepareFanOut,       *)
(* #affectedSubjects and the catch-up in subscribe; server/policy.ts       *)
(* createFilterFactory, canSeeSubject and the dependency map).  Permission *)
(* is data: a rule reads declared fields of the subject along refs, so a   *)
(* commit can change what an actor may read without touching it.  Live,    *)
(* the server diffs what each actor could read before against after; a     *)
(* client that was away gets the log filtered by present rights and then   *)
(* one repair message.                                                     *)
(*                                                                         *)
(* Every actor has one client.  Each has loaded all it may read at version *)
(* 1, the seed; the log is not compacted here (module Sync does that).     *)
(***************************************************************************)
EXTENDS Naturals, Sequences, Triples

CONSTANTS
  Actor,
  Seed,        \* the store at version 1
  Writes,      \* the deltas anyone may commit
  Entity,      \* the entity of each subject
  Fields,      \* of each entity, the paths of its rules' declared selection
  Overridden,  \* the predicates with a read rule of their own
  Grants(_, _, _, _, _), \* rule, actor, actor record, subject, loaded fields
  MaxVersion,  \* bound on the versions committed
  MaxDrops     \* bound on the connections that break

Subject == {t.subject : t \in Triple}

ASSUME FanOutAssumption ==
  /\ Seed \subseteq Triple
  /\ Writes \subseteq Delta
  /\ \A s \in Subject : Fields[Entity[s]] \subseteq Seq({t.predicate : t \in Triple})
  /\ MaxVersion \in Nat /\ MaxDrops \in Nat

VARIABLES
  store,
  log,      \* log[v - 1]: the delta of version v
  online,   \* the actors with an open stream
  stream,   \* of each actor, the messages sent and not yet read
  mirror,   \* of each actor, its client's confirmed store
  cursor,   \* of each actor, the version its client has reached
  away,     \* history variable: the actors that ever came back
  shifted,  \* history variable: the actors whose own record has changed
  cut,      \* history variable: the actors that lost an unread repair
  drops

vars == <<store, log, online, stream, mirror, cursor, away, shifted, cut, drops>>

Version == Len(log) + 1

DeltaMessage  == [kind : {"delta"}, version : Nat, delta : Delta]
RepairMessage == [kind : {"repair"}, evict : SUBSET Subject, refresh : SUBSET Triple]

----------------------------------------------------------------------------
\* Evaluation of a policy

\* What a rule gets to see of its subject (materializeEntity over the selection).
Loaded(S, s) == [path \in Fields[Entity[s]] |-> Chains(S, s, path, Len(path))]

\* Who is asking: the actor's own record.
Record(S, a) == {t \in S : t.subject = a}

\* canSeeSubject: the entity's read rule.
CanSee(S, a, s) == Grants(Entity[s], a, Record(S, a), s, Loaded(S, s))

\* The filter: the rule of the field wins, the entity's otherwise.
CanRead(S, a, t) ==
  IF t.predicate \in Overridden
  THEN Grants(t.predicate, a, Record(S, a), t.subject, Loaded(S, t.subject))
  ELSE CanSee(S, a, t.subject)

Readable(S, a) == {t \in S : CanRead(S, a, t)}

\* The dependency map, read backwards from a triple of hop i: its subject is
\* where the first i - 1 hops from s end.
Leads(S, s, path, i, mid) ==
  IF i = 1
  THEN s = mid
  ELSE \E w \in Chains(S, s, path, i - 1) : w[i - 1].object = mid

Selected == UNION {Fields[Entity[s]] : s \in Subject}

\* Mutant: only the subjects a delta touches.
AffectedTouched(d, S) == {t.subject : t \in d.added \cup d.removed}

\* The subjects whose visibility a delta may change; S holds the triples of both
\* the state before and the state after.
Affected(d, S) ==
  {s \in Subject :
     \E t \in d.added \cup d.removed : \E path \in Selected : \E i \in DOMAIN path :
       path[i] = t.predicate /\ Leads(S, s, path, i, t.subject)}

----------------------------------------------------------------------------
\* What each client is sent

\* What the actor gains and loses of these subjects.
Before(S, a, subjects) == {t \in Readable(S, a) : t.subject \in subjects}

\* visible: adds by the state after, removes by the state before, and the
\* difference for every subject affected.
VisibleDelta(S, a, d) ==
  LET post     == Applied(S, d)
      affected == Affected(d, S \cup post)
      before   == Before(S, a, affected)
      after    == Before(post, a, affected)
  IN  [added   |-> {t \in d.added : CanRead(post, a, t)} \cup (after \ before),
       removed |-> {t \in d.removed : CanRead(S, a, t)} \cup (before \ after)]

\* The entries after the cursor, filtered by what the actor may read now.
Backlog(a) ==
  [i \in 1..(Version - cursor[a]) |->
     [kind |-> "delta", version |-> cursor[a] + i,
      delta |-> [added   |-> {t \in log[cursor[a] + i - 1].added : CanRead(store, a, t)},
                 removed |-> {t \in log[cursor[a] + i - 1].removed : CanRead(store, a, t)}]]]

Missed(a) ==
  [added   |-> UNION {log[v - 1].added : v \in (cursor[a] + 1)..Version},
   removed |-> UNION {log[v - 1].removed : v \in (cursor[a] + 1)..Version}]

\* The subjects to repair, and the message: now-invisible ones by name, visible
\* ones with what may be read of them.
Repaired(a) == Affected(Missed(a), store)

RepairOf(a) ==
  [kind    |-> "repair",
   evict   |-> {s \in Repaired(a) : ~ CanSee(store, a, s)},
   refresh |-> {t \in Readable(store, a) :
                  t.subject \in Repaired(a) /\ CanSee(store, a, t.subject)}]

\* Mutant: a repair only takes away.
RepairEvictsOnly(a) ==
  IF \A s \in Repaired(a) : CanSee(store, a, s)
  THEN <<>>
  ELSE <<[RepairOf(a) EXCEPT !.refresh = {}]>>

\* Sent only if there was a backlog and there is something in it.
Repair(a) ==
  IF cursor[a] = Version \/ (RepairOf(a).evict = {} /\ RepairOf(a).refresh = {})
  THEN <<>>
  ELSE <<RepairOf(a)>>

----------------------------------------------------------------------------
Commit(d) ==
  /\ Version < MaxVersion
  /\ ~ IsEmptyDelta(Effective(store, d))
  /\ store' = Applied(store, d)
  /\ log' = Append(log, Effective(store, d))
  /\ stream' = [a \in Actor |->
       IF a \in online
       THEN Append(stream[a], [kind |-> "delta", version |-> Version + 1,
                               delta |-> VisibleDelta(store, a, d)])
       ELSE stream[a]]
  /\ shifted' = shifted \cup {a \in Actor : Record(store', a) # Record(store, a)}
  /\ UNCHANGED <<online, mirror, cursor, away, cut, drops>>

\* The client reads one message: a delta, or a repair.
AfterMessage(S, m) ==
  IF m.kind = "delta"
  THEN Applied(S, m.delta)
  ELSE {t \in S : t.subject \notin m.evict} \cup m.refresh

\* Only a delta has a version.
Receive(a) ==
  /\ stream[a] # <<>>
  /\ stream' = [stream EXCEPT ![a] = Tail(@)]
  /\ LET m == Head(stream[a])
     IN  /\ mirror' = [mirror EXCEPT ![a] = AfterMessage(@, m)]
         /\ cursor' = [cursor EXCEPT ![a] = IF m.kind = "delta" THEN m.version ELSE @]
  /\ UNCHANGED <<store, log, online, away, shifted, cut, drops>>

\* The connection breaks; what was not read is lost.
Drop(a) ==
  /\ a \in online
  /\ drops < MaxDrops
  /\ drops' = drops + 1
  /\ online' = online \ {a}
  /\ stream' = [stream EXCEPT ![a] = <<>>]
  /\ cut' = IF \E i \in DOMAIN stream[a] : stream[a][i].kind = "repair"
            THEN cut \cup {a} ELSE cut
  /\ UNCHANGED <<store, log, mirror, cursor, away, shifted>>

\* subscribe with a cursor: the backlog, then the repair.
Reconnect(a) ==
  /\ a \notin online
  /\ online' = online \cup {a}
  /\ stream' = [stream EXCEPT ![a] = Backlog(a) \o Repair(a)]
  /\ away' = away \cup {a}
  /\ UNCHANGED <<store, log, mirror, cursor, shifted, cut, drops>>

Init ==
  /\ store = Seed
  /\ log = <<>>
  /\ online = Actor
  /\ stream = [a \in Actor |-> <<>>]
  /\ mirror = [a \in Actor |-> Readable(Seed, a)]
  /\ cursor = [a \in Actor |-> 1]
  /\ away = {} /\ shifted = {} /\ cut = {}
  /\ drops = 0

Next ==
  \/ \E d \in Writes : Commit(d)
  \/ \E a \in Actor : Receive(a)
  \/ \E a \in Actor : Drop(a)
  \/ \E a \in Actor : Reconnect(a)

Spec == Init /\ [][Next]_vars

----------------------------------------------------------------------------
FanOutTypeOK ==
  /\ store \subseteq Triple
  /\ log \in Seq(Delta)
  /\ {online, away, shifted, cut} \subseteq SUBSET Actor
  /\ stream \in [Actor -> Seq(DeltaMessage \cup RepairMessage)]
  /\ mirror \in [Actor -> SUBSET Triple]
  /\ cursor \in [Actor -> 1..Version]

CaughtUp(a) == a \in online /\ stream[a] = <<>>

\* SPEC 10.6: as long as its stream holds, a client that has read it all holds
\* exactly what its actor may read: every grant and revocation reached it, through
\* whatever refs, in the commit that caused it.  A rule may read the actor's own
\* record; a change of that record moves nobody's cache.
LiveMirrorIsExact ==
  \A a \in Actor \ (away \cup shifted) : CaughtUp(a) => mirror[a] = Readable(store, a)

Plain(S) == {t \in S : t.predicate \notin Overridden}

\* SPEC 10.6, catch-up: backlog and repair together bring a client that was away to
\* what its actor may read now, whatever was granted, revoked, deleted or
\* recreated meanwhile.  Fields with a rule of their own are not repaired, and a
\* repair lost with its connection is not sent again.
CaughtUpMirrorIsExact ==
  \A a \in away \ (shifted \cup cut) :
    CaughtUp(a) => Plain(mirror[a]) = Plain(Readable(store, a))

=============================================================================
