---------------------------- MODULE FanOut_proof ----------------------------
(***************************************************************************)
(* For every policy, every store and any number of actors and commits: the *)
(* dependency map finds all the subjects a commit can move, the live       *)
(* fan-out keeps every connected mirror exact, and backlog and repair make *)
(* exact the mirror of one that was away.                                  *)
(***************************************************************************)
EXTENDS FanOut, SequenceTheorems, WellFoundedInduction, TLAPS

----------------------------------------------------------------------------
\* The dependency map is sound

\* No hop of a walk from a subject that is not affected is in the delta: the hops
\* before it lead back to the subject (#affectedSubjects).
LEMMA WalksAvoidDelta ==
  ASSUME NEW d \in Delta, NEW B, NEW S, S \subseteq B,
         NEW s \in Subject, s \notin Affected(d, B),
         NEW path \in Selected, NEW n \in 0..Len(path),
         NEW w \in Chains(S, s, path, n), NEW i \in 1..n
  PROVE  w[i] \notin d.added \cup d.removed
<1> SUFFICES ASSUME w[i] \in d.added \cup d.removed
             PROVE  s \in Affected(d, B)
  OBVIOUS
<1>1. path \in Seq({t.predicate : t \in Triple})
  BY FanOutAssumption DEF Selected
<1>2. i \in DOMAIN path /\ i \in Nat /\ n \in Nat /\ i <= n
  BY <1>1
<1>3. path[i] = w[i].predicate
  BY DEF Chains
<1>4. Leads(B, s, path, i, w[i].subject)
  <2>1. CASE i = 1
    BY <2>1 DEF Leads, Chains
  <2>2. CASE i # 1
    <3> DEFINE v == [j \in 1..(i - 1) |-> w[j]]
    <3>1. i - 1 \in 1..n /\ \A j \in 1..(i - 1) : j \in 1..n
      BY <2>2, <1>1, <1>2
    <3>2. v \in Chains(B, s, path, i - 1)
      <4>1. v \in [1..(i - 1) -> B]
        BY <3>1 DEF Chains
      <4>2. ASSUME NEW j \in 1..(i - 1)
            PROVE  /\ v[j].predicate = path[j]
                   /\ v[j].subject = IF j = 1 THEN s ELSE v[j - 1].object
        BY <3>1, <2>2 DEF Chains
      <4> QED BY <4>1, <4>2 DEF Chains
    <3>3. v[i - 1].object = w[i].subject
      BY <2>2, <3>1 DEF Chains
    <3> QED BY <2>2, <3>2, <3>3 DEF Leads
  <2> QED BY <2>1, <2>2
<1> QED BY <1>1, <1>2, <1>3, <1>4 DEF Affected

\* What a rule gets to see of a subject that is not affected is the same before
\* and after.
LEMMA UnaffectedLoadsTheSame ==
  ASSUME NEW d \in Delta, NEW S \in SUBSET Triple,
         NEW s \in Subject, s \notin Affected(d, S \cup Applied(S, d))
  PROVE  Loaded(S, s) = Loaded(Applied(S, d), s)
<1> DEFINE P == Applied(S, d)
           B == S \cup P
<1> SUFFICES ASSUME NEW path \in Fields[Entity[s]]
             PROVE  Chains(S, s, path, Len(path)) = Chains(P, s, path, Len(path))
  BY DEF Loaded
<1>1. /\ S \subseteq B /\ P \subseteq B /\ s \notin Affected(d, B)
      /\ path \in Selected /\ Len(path) \in 0..Len(path)
  <2>1. path \in Seq({t.predicate : t \in Triple})
    BY FanOutAssumption
  <2>2. Len(path) \in Nat
    BY <2>1
  <2> QED BY <2>2 DEF Selected
<1> HIDE DEF B
<1>2. \A w \in Chains(S, s, path, Len(path)) : w \in Chains(P, s, path, Len(path))
  <2> SUFFICES ASSUME NEW w \in Chains(S, s, path, Len(path))
               PROVE  w \in Chains(P, s, path, Len(path))
    OBVIOUS
  <2>1. \A i \in 1..Len(path) : w[i] \notin d.added \cup d.removed
    BY <1>1, WalksAvoidDelta
  <2>2. \A i \in 1..Len(path) : w[i] \in S
    BY DEF Chains
  <2>3. \A i \in 1..Len(path) : w[i] \in P
    BY <2>1, <2>2 DEF Applied
  <2> QED BY <2>3 DEF Chains
<1>3. \A w \in Chains(P, s, path, Len(path)) : w \in Chains(S, s, path, Len(path))
  <2> SUFFICES ASSUME NEW w \in Chains(P, s, path, Len(path))
               PROVE  w \in Chains(S, s, path, Len(path))
    OBVIOUS
  <2> HIDE DEF P
  <2>1. \A i \in 1..Len(path) : w[i] \notin d.added \cup d.removed
    BY <1>1, WalksAvoidDelta
  <2>2. \A i \in 1..Len(path) : w[i] \in P
    BY DEF Chains
  <2>3. \A i \in 1..Len(path) : w[i] \in S
    BY <2>1, <2>2 DEF P, Applied
  <2> QED BY <2>3 DEF Chains
<1> QED BY <1>2, <1>3

\* ... and so is the verdict of every rule on it.
LEMMA UnaffectedReadsTheSame ==
  ASSUME NEW d \in Delta, NEW S \in SUBSET Triple, NEW a,
         Record(Applied(S, d), a) = Record(S, a),
         NEW t \in Triple, t.subject \notin Affected(d, S \cup Applied(S, d))
  PROVE  CanRead(S, a, t) <=> CanRead(Applied(S, d), a, t)
<1>1. t.subject \in Subject
  BY DEF Subject
<1>2. Loaded(S, t.subject) = Loaded(Applied(S, d), t.subject)
  BY <1>1, UnaffectedLoadsTheSame
<1> QED BY <1>2 DEF CanRead, CanSee

----------------------------------------------------------------------------
\* One commit

\* What a client that holds what its actor may read is sent of a commit takes it to
\* what its actor may read afterwards (#prepareFanOut).
LEMMA VisibleDeltaIsExact ==
  ASSUME NEW d \in Delta, NEW S \in SUBSET Triple, NEW a,
         Record(Applied(S, d), a) = Record(S, a)
  PROVE  Applied(Readable(S, a), VisibleDelta(S, a, d)) = Readable(Applied(S, d), a)
<1> DEFINE P == Applied(S, d)
           A == Affected(d, S \cup P)
           before == Before(S, a, A)
           after == Before(P, a, A)
           V == VisibleDelta(S, a, d)
<1>1. V.added = {t \in d.added : CanRead(P, a, t)} \cup (after \ before)
  BY DEF VisibleDelta
<1>2. V.removed = {t \in d.removed : CanRead(S, a, t)} \cup (before \ after)
  BY DEF VisibleDelta
<1>3. P \subseteq Triple /\ d.added \subseteq P
  BY DEF Applied, Delta
<1>4. before = {t \in Readable(S, a) : t.subject \in A}
  BY DEF Before
<1>5. after = {t \in Readable(P, a) : t.subject \in A}
  BY DEF Before
<1>6. \A t \in Triple : t.subject \notin A => (CanRead(S, a, t) <=> CanRead(P, a, t))
  BY UnaffectedReadsTheSame
<1>7. Readable(S, a) = {t \in S : CanRead(S, a, t)} /\ Readable(P, a) = {t \in P : CanRead(P, a, t)}
  BY DEF Readable
<1>8. \A t : t \in P <=> (t \in S /\ t \notin d.removed) \/ t \in d.added
  BY DEF Applied
<1> HIDE DEF P, A, before, after, V
<1>9. ASSUME NEW t \in Readable(S, a), t \notin V.removed
      PROVE  t \in Readable(P, a)
  <2>1. CASE t.subject \in A
    BY <1>9, <2>1, <1>2, <1>4, <1>5
  <2>2. CASE t.subject \notin A
    BY <1>9, <2>2, <1>2, <1>6, <1>7, <1>8
  <2> QED BY <2>1, <2>2
<1>10. V.added \subseteq Readable(P, a)
  BY <1>1, <1>3, <1>5, <1>7
<1>11. ASSUME NEW t \in Readable(P, a), t \notin V.added
       PROVE  t \in Readable(S, a) /\ t \notin V.removed
  <2>1. t \in P /\ CanRead(P, a, t) /\ t \notin d.added
    BY <1>11, <1>1, <1>7
  <2>2. t \in S /\ t \notin d.removed
    BY <2>1, <1>8
  <2>3. CASE t.subject \in A
    BY <1>11, <2>2, <2>3, <1>1, <1>2, <1>4, <1>5
  <2>4. CASE t.subject \notin A
    BY <2>1, <2>2, <2>4, <1>2, <1>4, <1>6, <1>7
  <2> QED BY <2>3, <2>4
<1>12. Applied(Readable(S, a), V) = (Readable(S, a) \ V.removed) \cup V.added
  BY DEF Applied
<1>13. Applied(Readable(S, a), V) = Readable(P, a)
  BY <1>9, <1>10, <1>11, <1>12
<1> QED BY <1>13 DEF P, V

----------------------------------------------------------------------------
\* Type correctness.  A stream delta never has a version not yet committed.

VersionsAreCommitted ==
  \A a \in Actor : \A i \in DOMAIN stream[a] :
    stream[a][i].kind = "delta" => stream[a][i].version \in 1..Version

TypeInv == FanOutTypeOK /\ VersionsAreCommitted

LEMMA VisibleDeltaType ==
  ASSUME NEW d \in Delta, NEW S \in SUBSET Triple, NEW a
  PROVE  VisibleDelta(S, a, d) \in Delta
<1>1. Applied(S, d) \subseteq Triple
  BY DEF Applied, Delta
<1>2. ASSUME NEW R, R \subseteq Triple, NEW subjects
      PROVE  Before(R, a, subjects) \subseteq Triple
  BY <1>2 DEF Before, Readable
<1> QED BY <1>1, <1>2 DEF VisibleDelta, Delta

\* What a subscriber with a cursor is sent: deltas of committed versions, and at
\* most one repair.
LEMMA BacklogType ==
  ASSUME FanOutTypeOK, NEW a \in Actor
  PROVE  /\ Backlog(a) \in Seq(DeltaMessage)
         /\ \A i \in DOMAIN Backlog(a) : Backlog(a)[i].version \in 1..Version
<1>1. cursor[a] \in 1..Version /\ Len(log) \in Nat /\ Version \in Nat
  BY DEF FanOutTypeOK, Version
<1>2. Version - cursor[a] \in Nat
  BY <1>1
<1>3. ASSUME NEW i \in 1..(Version - cursor[a])
      PROVE  /\ cursor[a] + i \in 1..Version
             /\ log[cursor[a] + i - 1] \in Delta
  <2>1. cursor[a] + i \in 1..Version /\ cursor[a] + i - 1 \in 1..Len(log)
    BY <1>1 DEF Version
  <2> QED BY <2>1 DEF FanOutTypeOK
<1>4. ASSUME NEW i \in 1..(Version - cursor[a])
      PROVE  [kind |-> "delta", version |-> cursor[a] + i,
              delta |-> [added   |-> {t \in log[cursor[a] + i - 1].added : CanRead(store, a, t)},
                         removed |-> {t \in log[cursor[a] + i - 1].removed : CanRead(store, a, t)}]]
               \in DeltaMessage
  BY <1>3, <1>1 DEF DeltaMessage, Delta
<1>5. Backlog(a) \in [1..(Version - cursor[a]) -> DeltaMessage]
  BY <1>4 DEF Backlog
<1>6. Backlog(a) \in Seq(DeltaMessage)
  BY <1>2, <1>5
<1>7. \A i \in DOMAIN Backlog(a) : Backlog(a)[i].version \in 1..Version
  BY <1>3 DEF Backlog
<1> QED BY <1>6, <1>7

LEMMA RepairType ==
  ASSUME FanOutTypeOK, NEW a \in Actor
  PROVE  Repair(a) \in Seq(RepairMessage)
<1>1. RepairOf(a).evict \subseteq Subject
  BY DEF RepairOf, Repaired, Affected
<1>2. RepairOf(a).refresh \subseteq Triple
  BY DEF RepairOf, Readable, FanOutTypeOK
<1>3. RepairOf(a) \in RepairMessage
  BY <1>1, <1>2 DEF RepairOf, RepairMessage
<1> QED BY <1>3 DEF Repair

LEMMA TypeInit == Init => TypeInv
<1> SUFFICES ASSUME Init PROVE TypeInv
  OBVIOUS
<1>1. Version = 1
  BY DEF Init, Version
<1>2. \A a \in Actor : Readable(Seed, a) \in SUBSET Triple
  BY FanOutAssumption DEF Readable
<1>3. stream \in [Actor -> Seq(DeltaMessage \cup RepairMessage)] /\ VersionsAreCommitted
  BY DEF Init, VersionsAreCommitted
<1>4. mirror \in [Actor -> SUBSET Triple] /\ cursor \in [Actor -> 1..Version]
  BY <1>1, <1>2 DEF Init
<1>5. store \subseteq Triple
  BY FanOutAssumption DEF Init
<1>7. log \in Seq(Delta)
  BY DEF Init
<1>6. {online, away, shifted, cut} \subseteq SUBSET Actor
  BY DEF Init
<1> QED BY <1>3, <1>4, <1>5, <1>6, <1>7 DEF TypeInv, FanOutTypeOK

LEMMA TypeStep == TypeInv /\ [Next]_vars => TypeInv'
<1> SUFFICES ASSUME TypeInv, [Next]_vars PROVE TypeInv'
  OBVIOUS
<1> USE DEF TypeInv
<1>1. ASSUME NEW d \in Writes, Commit(d) PROVE TypeInv'
  <2>1. d \in Delta
    BY FanOutAssumption
  <2>2. store' \subseteq Triple
    BY <1>1, <2>1 DEF Commit, Applied, Delta, FanOutTypeOK
  <2>3. Effective(store, d) \in Delta
    BY <2>1 DEF Effective, Delta, FanOutTypeOK
  <2>4. log' \in Seq(Delta) /\ Len(log') = Len(log) + 1 /\ Len(log) \in Nat
    BY <1>1, <2>3 DEF Commit, FanOutTypeOK
  <2>5. Version' = Version + 1 /\ Version \in Nat
    BY <2>4 DEF Version
  <2> DEFINE m(a) == [kind |-> "delta", version |-> Version + 1,
                      delta |-> VisibleDelta(store, a, d)]
  <2>6. ASSUME NEW a \in Actor PROVE m(a) \in DeltaMessage
    BY <2>1, <2>5, VisibleDeltaType DEF DeltaMessage, FanOutTypeOK
  <2>7. ASSUME NEW a \in Actor
        PROVE  stream'[a] = IF a \in online THEN Append(stream[a], m(a)) ELSE stream[a]
    BY <1>1 DEF Commit
  <2> HIDE DEF m
  <2>8. stream' \in [Actor -> Seq(DeltaMessage \cup RepairMessage)]
    <3>1. ASSUME NEW a \in Actor PROVE stream'[a] \in Seq(DeltaMessage \cup RepairMessage)
      <4>1. stream[a] \in Seq(DeltaMessage \cup RepairMessage)
        BY DEF FanOutTypeOK
      <4>2. m(a) \in DeltaMessage \cup RepairMessage
        BY <2>6
      <4>3. Append(stream[a], m(a)) \in Seq(DeltaMessage \cup RepairMessage)
        BY <4>1, <4>2
      <4> QED BY <2>7, <4>1, <4>3
    <3>2. stream' = [a \in Actor |-> stream'[a]]
      BY <1>1 DEF Commit
    <3> QED BY <3>1, <3>2
  <2>9. shifted' \subseteq Actor /\ UNCHANGED <<online, mirror, cursor, away, cut>>
    BY <1>1 DEF Commit, FanOutTypeOK
  <2>10. FanOutTypeOK'
    BY <2>2, <2>4, <2>5, <2>8, <2>9 DEF FanOutTypeOK
  <2>11. VersionsAreCommitted'
    <3> SUFFICES ASSUME NEW a \in Actor, NEW i \in DOMAIN stream'[a],
                        stream'[a][i].kind = "delta"
                 PROVE  stream'[a][i].version \in 1..Version'
      BY DEF VersionsAreCommitted
    <3>1. stream[a] \in Seq(DeltaMessage \cup RepairMessage)
      BY DEF FanOutTypeOK
    <3> DEFINE n == m(a)
    <3>4. stream'[a] = IF a \in online THEN Append(stream[a], n) ELSE stream[a]
      BY <2>7
    <3> HIDE DEF n
    <3>5. i \in DOMAIN stream[a] \/ (a \in online /\ i = Len(stream[a]) + 1)
      BY <3>1, <3>4
    <3>2. CASE i \in DOMAIN stream[a]
      <4>1. stream'[a][i] = stream[a][i]
        BY <3>1, <3>2, <3>4
      <4> QED BY <3>2, <4>1, <2>5 DEF VersionsAreCommitted
    <3>3. CASE a \in online /\ i = Len(stream[a]) + 1
      <4>1. stream'[a][i] = n
        BY <3>1, <3>3, <3>4
      <4> QED BY <4>1, <2>5 DEF m, n
    <3> QED BY <3>2, <3>3, <3>5
  <2> QED BY <2>10, <2>11
<1>2. ASSUME NEW b \in Actor, Receive(b) PROVE TypeInv'
  <2>1. stream[b] \in Seq(DeltaMessage \cup RepairMessage) /\ stream[b] # <<>>
    BY <1>2 DEF Receive, FanOutTypeOK
  <2> DEFINE m == Head(stream[b])
  <2>2. m \in DeltaMessage \cup RepairMessage /\ m = stream[b][1] /\ 1 \in DOMAIN stream[b]
    BY <2>1
  <2>3. AfterMessage(mirror[b], m) \subseteq Triple
    <3>1. mirror[b] \subseteq Triple
      BY DEF FanOutTypeOK
    <3>2. CASE m.kind = "delta"
      <4>1. m.delta \in Delta
        BY <2>2, <3>2 DEF DeltaMessage, RepairMessage
      <4> QED BY <3>1, <3>2, <4>1 DEF AfterMessage, Applied, Delta
    <3>3. CASE m.kind # "delta"
      <4>1. m.refresh \subseteq Triple
        BY <2>2, <3>3 DEF DeltaMessage, RepairMessage
      <4> QED BY <3>1, <3>3, <4>1 DEF AfterMessage
    <3> QED BY <3>2, <3>3
  <2>4. (IF m.kind = "delta" THEN m.version ELSE cursor[b]) \in 1..Version
    BY <2>2 DEF VersionsAreCommitted, FanOutTypeOK
  <2>5. /\ stream' = [stream EXCEPT ![b] = Tail(stream[b])]
        /\ mirror' = [mirror EXCEPT ![b] = AfterMessage(mirror[b], m)]
        /\ cursor' = [cursor EXCEPT ![b] = IF m.kind = "delta" THEN m.version ELSE cursor[b]]
        /\ UNCHANGED <<store, log, online, away, shifted, cut>>
    BY <1>2 DEF Receive
  <2> HIDE DEF m
  <2>6. Tail(stream[b]) \in Seq(DeltaMessage \cup RepairMessage)
    BY <2>1
  <2>7. Version' = Version
    BY <2>5 DEF Version
  <2>8. FanOutTypeOK'
    BY <2>3, <2>4, <2>5, <2>6, <2>7 DEF FanOutTypeOK
  <2>9. VersionsAreCommitted'
    <3> SUFFICES ASSUME NEW a \in Actor, NEW i \in DOMAIN stream'[a],
                        stream'[a][i].kind = "delta"
                 PROVE  stream'[a][i].version \in 1..Version
      BY <2>7 DEF VersionsAreCommitted
    <3>1. CASE a = b
      <4>1. stream'[a] = Tail(stream[b])
        BY <3>1, <2>5 DEF FanOutTypeOK
      <4>2. i + 1 \in DOMAIN stream[b] /\ stream'[a][i] = stream[b][i + 1]
        BY <4>1, <2>1
      <4> QED BY <4>2 DEF VersionsAreCommitted
    <3>2. CASE a # b
      <4>1. stream'[a] = stream[a]
        BY <3>2, <2>5 DEF FanOutTypeOK
      <4> QED BY <4>1 DEF VersionsAreCommitted
    <3> QED BY <3>1, <3>2
  <2> QED BY <2>8, <2>9
<1>3. ASSUME NEW b \in Actor, Drop(b) PROVE TypeInv'
  <2>1. /\ stream' = [stream EXCEPT ![b] = <<>>]
        /\ online' \subseteq Actor /\ cut' \subseteq Actor
        /\ UNCHANGED <<store, log, mirror, cursor, away, shifted>>
    BY <1>3 DEF Drop, FanOutTypeOK
  <2>2. Version' = Version
    BY <2>1 DEF Version
  <2>3. FanOutTypeOK'
    BY <2>1, <2>2 DEF FanOutTypeOK
  <2>4. VersionsAreCommitted'
    BY <2>1, <2>2 DEF VersionsAreCommitted, FanOutTypeOK
  <2> QED BY <2>3, <2>4
<1>4. ASSUME NEW b \in Actor, Reconnect(b) PROVE TypeInv'
  <2>1. /\ stream' = [stream EXCEPT ![b] = Backlog(b) \o Repair(b)]
        /\ online' \subseteq Actor /\ away' \subseteq Actor
        /\ UNCHANGED <<store, log, mirror, cursor, shifted, cut>>
    BY <1>4 DEF Reconnect, FanOutTypeOK
  <2>2. Version' = Version
    BY <2>1 DEF Version
  <2>3. /\ Backlog(b) \in Seq(DeltaMessage)
        /\ \A i \in DOMAIN Backlog(b) : Backlog(b)[i].version \in 1..Version
    BY BacklogType
  <2>4. Repair(b) \in Seq(RepairMessage)
    BY RepairType
  <2> DEFINE sent == Backlog(b) \o Repair(b)
  <2>5. sent \in Seq(DeltaMessage \cup RepairMessage)
    BY <2>3, <2>4
  <2>6. ASSUME NEW i \in DOMAIN sent, sent[i].kind = "delta"
        PROVE  sent[i].version \in 1..Version
    <3>1. CASE i \in DOMAIN Backlog(b)
      <4>1. sent[i] = Backlog(b)[i]
        BY <3>1, <2>3, <2>4
      <4> QED BY <4>1, <3>1, <2>3
    <3>2. CASE i \notin DOMAIN Backlog(b)
      <4>1. sent[i] \in RepairMessage
        BY <3>2, <2>3, <2>4
      <4> QED BY <4>1, <2>6 DEF RepairMessage
    <3> QED BY <3>1, <3>2
  <2>7. FanOutTypeOK'
    BY <2>1, <2>2, <2>5 DEF FanOutTypeOK
  <2> HIDE DEF sent
  <2>8. VersionsAreCommitted'
    BY <2>1, <2>2, <2>6 DEF VersionsAreCommitted, FanOutTypeOK, sent
  <2> QED BY <2>7, <2>8
<1>5. CASE UNCHANGED vars
  BY <1>5 DEF vars, FanOutTypeOK, VersionsAreCommitted, Version
<1> QED BY <1>1, <1>2, <1>3, <1>4, <1>5 DEF Next

\* Every reachable state is well typed (type invariant of FanOut).
THEOREM TypeCorrect == Spec => []FanOutTypeOK
<1>1. TypeInv => FanOutTypeOK
  BY DEF TypeInv
<1> QED BY <1>1, TypeInit, TypeStep, PTL DEF Spec

----------------------------------------------------------------------------
\* Live, the mirror is exact once the stream is read

\* The actors the live path answers for.
Live == online \ (away \cup shifted)

\* e is what the mirror becomes as its stream is read, message by message.
Reads(e, a) ==
  /\ e \in [1..(Len(stream[a]) + 1) -> SUBSET Triple]
  /\ e[1] = mirror[a]
  /\ \A i \in 1..Len(stream[a]) : e[i + 1] = AfterMessage(e[i], stream[a][i])

\* What is under way to a client ends in what its actor may read now.
StreamLeadsToReadable ==
  \A a \in Live : \E e : Reads(e, a) /\ e[Len(stream[a]) + 1] = Readable(store, a)

LiveInv == TypeInv /\ StreamLeadsToReadable

LEMMA LiveInit == Init => StreamLeadsToReadable
<1> SUFFICES ASSUME Init, NEW a \in Live
             PROVE  \E e : Reads(e, a) /\ e[Len(stream[a]) + 1] = Readable(store, a)
  BY DEF StreamLeadsToReadable
<1> DEFINE e == [i \in 1..1 |-> Readable(Seed, a)]
<1>1. stream[a] = <<>> /\ mirror[a] = Readable(Seed, a) /\ store = Seed
  BY DEF Init, Live
<1>2. Readable(Seed, a) \in SUBSET Triple
  BY FanOutAssumption DEF Readable
<1>3. Reads(e, a)
  BY <1>1, <1>2 DEF Reads
<1>4. e[Len(stream[a]) + 1] = Readable(store, a)
  BY <1>1
<1> QED BY <1>3, <1>4

\* A commit puts the delta that makes the mirror exact at the end of the stream.
LEMMA CommitKeepsLive ==
  ASSUME LiveInv, NEW d \in Writes, Commit(d)
  PROVE  StreamLeadsToReadable'
<1> SUFFICES ASSUME NEW a \in Live'
             PROVE  \E e : Reads(e, a)' /\ e[Len(stream'[a]) + 1] = Readable(store', a)
  BY DEF StreamLeadsToReadable
<1> DEFINE n == Len(stream[a])
           m == [kind |-> "delta", version |-> Version + 1,
                 delta |-> VisibleDelta(store, a, d)]
<1>1. d \in Delta /\ store \in SUBSET Triple /\ store' = Applied(store, d)
  BY FanOutAssumption DEF Commit, LiveInv, TypeInv, FanOutTypeOK
<1>2. a \in Actor /\ a \in online /\ a \in Live /\ Record(store', a) = Record(store, a)
  BY DEF Live, Commit, LiveInv, TypeInv, FanOutTypeOK
<1>3. stream[a] \in Seq(DeltaMessage \cup RepairMessage) /\ n \in Nat
  BY <1>2 DEF LiveInv, TypeInv, FanOutTypeOK
<1>4. stream'[a] = Append(stream[a], m) /\ mirror'[a] = mirror[a]
  BY <1>2 DEF Commit
<1>5. AfterMessage(Readable(store, a), m) = Readable(store', a)
  BY <1>1, <1>2, VisibleDeltaIsExact DEF AfterMessage
<1>6. Readable(store', a) \in SUBSET Triple
  BY <1>1 DEF Readable, Applied, Delta
<1>7. PICK e : Reads(e, a) /\ e[n + 1] = Readable(store, a)
  BY <1>2 DEF LiveInv, StreamLeadsToReadable
<1> DEFINE f == [i \in 1..(n + 2) |-> IF i = n + 2 THEN Readable(store', a) ELSE e[i]]
<1> HIDE DEF m
<1>8. Len(stream'[a]) = n + 1 /\ stream'[a][n + 1] = m
  BY <1>3, <1>4
<1>9. \A i \in 1..n : stream'[a][i] = stream[a][i]
  BY <1>3, <1>4
<1>10. f \in [1..(n + 2) -> SUBSET Triple]
  <2>1. ASSUME NEW i \in 1..(n + 2) PROVE i = n + 2 \/ i \in 1..(n + 1)
    BY <1>3
  <2>2. ASSUME NEW i \in 1..(n + 2) PROVE f[i] \in SUBSET Triple
    BY <2>1, <1>6, <1>7 DEF Reads
  <2> QED BY <2>2
<1>11. f[1] = mirror'[a] /\ f[n + 2] = Readable(store', a)
  BY <1>3, <1>4, <1>7 DEF Reads
<1>12. ASSUME NEW i \in 1..(n + 1) PROVE f[i + 1] = AfterMessage(f[i], stream'[a][i])
  <2>1. CASE i = n + 1
    <3>1. f[i] = Readable(store, a) /\ f[i + 1] = Readable(store', a)
      BY <2>1, <1>3, <1>7
    <3> QED BY <3>1, <2>1, <1>5, <1>8
  <2>2. CASE i # n + 1
    <3>1. i \in 1..n /\ f[i] = e[i] /\ f[i + 1] = e[i + 1]
      BY <2>2, <1>3
    <3> QED BY <3>1, <1>7, <1>9 DEF Reads
  <2> QED BY <2>1, <2>2
<1>13. PICK g : g = f
  OBVIOUS
<1>14. Len(stream'[a]) + 1 = n + 2
  BY <1>3, <1>8
<1> HIDE DEF f
<1>15. Reads(g, a)'
  BY <1>8, <1>10, <1>11, <1>12, <1>13, <1>14 DEF Reads
<1>16. g[Len(stream'[a]) + 1] = Readable(store', a)
  BY <1>11, <1>13, <1>14
<1> QED BY <1>15, <1>16

\* A client that reads one message is one state further on the same way.
LEMMA ReceiveKeepsLive ==
  ASSUME LiveInv, NEW b \in Actor, Receive(b)
  PROVE  StreamLeadsToReadable'
<1> SUFFICES ASSUME NEW a \in Live'
             PROVE  \E e : Reads(e, a)' /\ e[Len(stream'[a]) + 1] = Readable(store', a)
  BY DEF StreamLeadsToReadable
<1>1. a \in Live /\ a \in Actor /\ store' = store
  BY DEF Live, Receive, LiveInv, TypeInv, FanOutTypeOK
<1> DEFINE n == Len(stream[a])
<1>2. stream[a] \in Seq(DeltaMessage \cup RepairMessage) /\ n \in Nat
  BY <1>1 DEF LiveInv, TypeInv, FanOutTypeOK
<1>3. PICK e : Reads(e, a) /\ e[n + 1] = Readable(store, a)
  BY <1>1 DEF LiveInv, StreamLeadsToReadable
<1>4. CASE a # b
  <2>1. stream'[a] = stream[a] /\ mirror'[a] = mirror[a]
    BY <1>1, <1>4 DEF Receive, LiveInv, TypeInv, FanOutTypeOK
  <2>2. Reads(e, a)'
    BY <1>3, <2>1 DEF Reads
  <2> QED BY <1>1, <1>3, <2>1, <2>2 DEF Readable
<1>5. CASE a = b
  <2> DEFINE f == [i \in 1..n |-> e[i + 1]]
  <2>1. stream[a] # <<>> /\ stream'[a] = Tail(stream[a])
    BY <1>1, <1>5 DEF Receive, LiveInv, TypeInv, FanOutTypeOK
  <2>2. mirror'[a] = AfterMessage(mirror[a], Head(stream[a]))
    BY <1>1, <1>5 DEF Receive, LiveInv, TypeInv, FanOutTypeOK
  <2>3. n >= 1 /\ Len(stream'[a]) = n - 1 /\ Head(stream[a]) = stream[a][1]
    BY <1>2, <2>1
  <2>4. \A i \in 1..(n - 1) : stream'[a][i] = stream[a][i + 1]
    BY <1>2, <2>1
  <2>5. f \in [1..n -> SUBSET Triple]
    BY <1>2, <1>3 DEF Reads
  <2>6. f[1] = mirror'[a]
    BY <1>2, <1>3, <2>2, <2>3 DEF Reads
  <2>7. f[n] = Readable(store', a)
    BY <1>1, <1>2, <1>3, <2>3
  <2>8. ASSUME NEW i \in 1..(n - 1) PROVE f[i + 1] = AfterMessage(f[i], stream'[a][i])
    <3>1. i \in 1..n /\ i + 1 \in 1..n /\ f[i] = e[i + 1] /\ f[i + 1] = e[i + 1 + 1]
      BY <1>2
    <3> QED BY <3>1, <1>3, <2>4 DEF Reads
  <2>9. PICK g : g = f
    OBVIOUS
  <2>10. Len(stream'[a]) + 1 = n
    BY <1>2, <2>3
  <2> HIDE DEF f
  <2>11. Reads(g, a)'
    BY <2>3, <2>5, <2>6, <2>8, <2>9, <2>10 DEF Reads
  <2>12. g[Len(stream'[a]) + 1] = Readable(store', a)
    BY <2>7, <2>9, <2>10
  <2> QED BY <2>11, <2>12
<1> QED BY <1>4, <1>5

\* An actor whose connection breaks or comes back is no longer answered for.
LEMMA LinkKeepsLive ==
  ASSUME LiveInv, NEW b \in Actor, Drop(b) \/ Reconnect(b)
  PROVE  StreamLeadsToReadable'
<1> SUFFICES ASSUME NEW a \in Live'
             PROVE  \E e : Reads(e, a)' /\ e[Len(stream'[a]) + 1] = Readable(store', a)
  BY DEF StreamLeadsToReadable
<1>1. a # b /\ a \in Live /\ a \in Actor
  BY DEF Live, Drop, Reconnect, LiveInv, TypeInv, FanOutTypeOK
<1>2. stream'[a] = stream[a] /\ mirror'[a] = mirror[a] /\ store' = store
  BY <1>1 DEF Drop, Reconnect, LiveInv, TypeInv, FanOutTypeOK
<1>3. PICK e : Reads(e, a) /\ e[Len(stream[a]) + 1] = Readable(store, a)
  BY <1>1 DEF LiveInv, StreamLeadsToReadable
<1>4. Reads(e, a)'
  BY <1>2, <1>3 DEF Reads
<1> QED BY <1>2, <1>3, <1>4

LEMMA LiveStep == LiveInv /\ [Next]_vars => LiveInv'
<1> SUFFICES ASSUME LiveInv, [Next]_vars PROVE LiveInv'
  OBVIOUS
<1>1. TypeInv'
  BY TypeStep DEF LiveInv
<1>2. ASSUME NEW d \in Writes, Commit(d) PROVE StreamLeadsToReadable'
  BY <1>2, CommitKeepsLive
<1>3. ASSUME NEW b \in Actor, Receive(b) PROVE StreamLeadsToReadable'
  BY <1>3, ReceiveKeepsLive
<1>4. ASSUME NEW b \in Actor, Drop(b) PROVE StreamLeadsToReadable'
  BY <1>4, LinkKeepsLive
<1>5. ASSUME NEW b \in Actor, Reconnect(b) PROVE StreamLeadsToReadable'
  BY <1>5, LinkKeepsLive
<1>6. ASSUME UNCHANGED vars PROVE StreamLeadsToReadable'
  <2>1. UNCHANGED <<store, online, stream, mirror, away, shifted>>
    BY <1>6 DEF vars
  <2> SUFFICES ASSUME NEW a \in Live'
               PROVE  \E e : Reads(e, a)' /\ e[Len(stream'[a]) + 1] = Readable(store', a)
    BY DEF StreamLeadsToReadable
  <2>2. a \in Live
    BY <2>1 DEF Live
  <2>3. PICK e : Reads(e, a) /\ e[Len(stream[a]) + 1] = Readable(store, a)
    BY <2>2 DEF LiveInv, StreamLeadsToReadable
  <2>4. Reads(e, a)'
    BY <2>1, <2>3 DEF Reads
  <2> QED BY <2>1, <2>3, <2>4
<1>7. ASSUME Next PROVE StreamLeadsToReadable'
  BY <1>2, <1>3, <1>4, <1>5, <1>7 DEF Next
<1>8. StreamLeadsToReadable'
  BY <1>6, <1>7
<1> QED BY <1>1, <1>8 DEF LiveInv

\* A client whose connection held holds, once it has read its stream, exactly what
\* its actor may read, under any policy that reads declared fields (SPEC 10.6).
THEOREM LiveMirrorAlwaysExact == Spec => []LiveMirrorIsExact
<1>1. Init => LiveInv
  BY TypeInit, LiveInit DEF LiveInv
<1>2. LiveInv => LiveMirrorIsExact
  <2> SUFFICES ASSUME LiveInv, NEW a \in Actor \ (away \cup shifted), CaughtUp(a)
               PROVE  mirror[a] = Readable(store, a)
    BY DEF LiveMirrorIsExact
  <2>1. a \in Live /\ stream[a] = <<>>
    BY DEF Live, CaughtUp
  <2>2. PICK e : Reads(e, a) /\ e[Len(stream[a]) + 1] = Readable(store, a)
    BY <2>1 DEF LiveInv, StreamLeadsToReadable
  <2>3. e[1] = mirror[a] /\ Len(stream[a]) + 1 = 1
    BY <2>1, <2>2 DEF Reads
  <2> QED BY <2>2, <2>3
<1> QED BY <1>1, <1>2, LiveStep, PTL DEF Spec

----------------------------------------------------------------------------
\* Coming back: what the catch-up must repair

Differ(S, P, D) == \A t : (t \in S /\ t \notin P) \/ (t \in P /\ t \notin S) => t \in D.added \cup D.removed

LEMMA LeastNumber ==
  ASSUME NEW T \in SUBSET Nat, T # {}
  PROVE  \E k \in T : \A j \in T : k <= j
<1> DEFINE R == {ss \in Nat \X Nat : ss[1] < ss[2]}
<1>1. IsWellFoundedOn(R, Nat)
  BY NatLessThanWellFounded, Zenon DEF OpToRel
<1>2. \A x, y \in Nat : y < x => <<y, x>> \in R
  OBVIOUS
<1> HIDE DEF R
<1>3. PICK k \in T : \A y \in T : <<y, k>> \notin R
  BY <1>1, WFMin
<1>4. \A j \in T : k \in Nat /\ j \in Nat /\ ~ (j < k)
  BY <1>2, <1>3
<1>5. \A j \in T : k <= j
  BY <1>4
<1> QED BY <1>5

\* A walk before a delta, from a subject that is not affected in the state after it, is
\* a walk after it: the first hop that is gone would have made the subject affected.
LEMMA WalksSurvive ==
  ASSUME NEW D \in Delta, NEW S, NEW P, Differ(S, P, D),
         NEW s \in Subject, s \notin Affected(D, P),
         NEW path \in Selected, NEW n \in 0..Len(path), NEW w \in Chains(S, s, path, n)
  PROVE  w \in Chains(P, s, path, n)
<1>0. path \in Seq({t.predicate : t \in Triple})
  BY FanOutAssumption DEF Selected
<1>1. path \in Seq({t.predicate : t \in Triple}) /\ n \in Nat /\ Len(path) \in Nat /\ n <= Len(path)
  BY <1>0
<1> DEFINE T == {i \in 1..n : w[i] \notin P}
<1>2. T = {}
  <2> SUFFICES ASSUME T # {} PROVE FALSE
    OBVIOUS
  <2>1. T \in SUBSET Nat
    OBVIOUS
  <2>2. PICK k \in T : \A j \in T : k <= j
    BY <2>1, LeastNumber
  <2>3. k \in 1..n /\ w[k] \notin P /\ \A j \in 1..(k - 1) : j \in 1..n /\ w[j] \in P
    BY <1>1, <2>2
  <2> HIDE DEF T
  <2>4. w[k] \in D.added \cup D.removed
    BY <2>3 DEF Chains, Differ
  <2> DEFINE v == [j \in 1..(k - 1) |-> w[j]]
  <2>5. v \in Chains(P, s, path, k - 1)
    <3>1. v \in [1..(k - 1) -> P]
      BY <2>3
    <3>2. ASSUME NEW j \in 1..(k - 1)
          PROVE  v[j].predicate = path[j] /\ v[j].subject = IF j = 1 THEN s ELSE v[j - 1].object
      <4>1. /\ w[j].predicate = path[j]
            /\ w[j].subject = IF j = 1 THEN s ELSE w[j - 1].object
        BY <2>3 DEF Chains
      <4>2. j # 1 => j - 1 \in 1..(k - 1)
        BY <2>3, <1>1
      <4> QED BY <4>1, <4>2
    <3> QED BY <3>1, <3>2 DEF Chains
  <2>6. Leads(P, s, path, k, w[k].subject)
    <3>1. CASE k = 1
      BY <2>3, <3>1 DEF Leads, Chains
    <3>2. CASE k # 1
      <4>1. k - 1 \in 1..(k - 1)
        BY <1>1, <2>3, <3>2
      <4>2. v[k - 1].object = w[k].subject
        BY <2>3, <3>2, <4>1 DEF Chains
      <4> HIDE DEF v
      <4> QED BY <2>5, <3>2, <4>2 DEF Leads
    <3> QED BY <3>1, <3>2
  <2>7. k \in DOMAIN path /\ path[k] = w[k].predicate
    BY <1>1, <2>3 DEF Chains
  <2> QED BY <2>4, <2>6, <2>7 DEF Affected
<1>3. \A i \in 1..n : w[i] \in P
  BY <1>2
<1> QED BY <1>3 DEF Chains

\* What is not affected in the state after all the changes, looking only at walks of
\* that state (#repairMessage), shows its rules the same before, and was not affected by
\* any part of the changes before.
LEMMA UnaffectedAfterwards ==
  ASSUME NEW D \in Delta, NEW S \in SUBSET Triple, NEW P \in SUBSET Triple, Differ(S, P, D),
         NEW s \in Subject, s \notin Affected(D, P)
  PROVE  /\ Loaded(S, s) = Loaded(P, s)
         /\ \A e \in Delta : e.added \cup e.removed \subseteq D.added \cup D.removed
              => s \notin Affected(e, S)
<1>1. ASSUME NEW path \in Selected, NEW n \in 0..Len(path)
      PROVE  Chains(S, s, path, n) = Chains(P, s, path, n)
  <2>1. \A w \in Chains(S, s, path, n) : w \in Chains(P, s, path, n)
    BY WalksSurvive
  <2>2. ASSUME NEW w \in Chains(P, s, path, n)  PROVE w \in Chains(S, s, path, n)
    <3>1. \A i \in 1..n : w[i] \notin D.added \cup D.removed
      BY WalksAvoidDelta
    <3>2. \A i \in 1..n : w[i] \in P
      BY DEF Chains
    <3>3. \A i \in 1..n : w[i] \in S
      BY <3>1, <3>2 DEF Differ
    <3> QED BY <3>3 DEF Chains
  <2> QED BY <2>1, <2>2
<1>2. \A path \in Selected : Len(path) \in Nat
  <2> TAKE path \in Selected
  <2>1. path \in Seq({t.predicate : t \in Triple})
    BY FanOutAssumption DEF Selected
  <2> QED BY <2>1
<1>3. Loaded(S, s) = Loaded(P, s)
  <2>1. \A path \in Fields[Entity[s]] : Chains(S, s, path, Len(path)) = Chains(P, s, path, Len(path))
    <3> TAKE path \in Fields[Entity[s]]
    <3>1. path \in Selected
      BY DEF Selected
    <3>2. Len(path) \in 0..Len(path)
      BY <1>2, <3>1
    <3> QED BY <1>1, <3>1, <3>2
  <2> QED BY <2>1 DEF Loaded
<1>4. ASSUME NEW e \in Delta, e.added \cup e.removed \subseteq D.added \cup D.removed,
             s \in Affected(e, S)
      PROVE  FALSE
  <2>0. PICK t \in e.added \cup e.removed, path \in Selected :
          \E i \in DOMAIN path : path[i] = t.predicate /\ Leads(S, s, path, i, t.subject)
    BY <1>4 DEF Affected
  <2>1. PICK i \in DOMAIN path : path[i] = t.predicate /\ Leads(S, s, path, i, t.subject)
    BY <2>0
  <2>2. path \in Seq({x.predicate : x \in Triple})
    BY FanOutAssumption DEF Selected
  <2>3. i \in 1..Len(path) /\ i - 1 \in 0..Len(path)
    BY <2>2
  <2>4. Leads(P, s, path, i, t.subject)
    BY <1>1, <2>1, <2>3 DEF Leads
  <2>5. t \in D.added \cup D.removed
    BY <1>4
  <2> QED BY <2>1, <2>4, <2>5 DEF Affected
<1> QED BY <1>3, <1>4

\* Whether one of the versions after u, up to v, touches t; the log is L.
Touched(L, t, u, v) == \E k \in u..(v - 1) : t \in L[k].added \cup L[k].removed

\* All that a client at version c has missed.
Since(L, c) ==
  [added   |-> UNION {L[v - 1].added : v \in (c + 1)..(Len(L) + 1)},
   removed |-> UNION {L[v - 1].removed : v \in (c + 1)..(Len(L) + 1)}]

LEMMA MissedIsSince == \A a : Missed(a) = Since(log, cursor[a])
BY DEF Missed, Since, Version

LEMMA SinceTyped ==
  ASSUME NEW L \in Seq(Delta), NEW c \in 1..(Len(L) + 1)
  PROVE  /\ Since(L, c) \in Delta
         /\ \A t : t \in Since(L, c).added \cup Since(L, c).removed
                     <=> Touched(L, t, c, Len(L) + 1)
<1>1. Len(L) \in Nat /\ c \in Nat
  OBVIOUS
<1>2. \A v \in (c + 1)..(Len(L) + 1) : v - 1 \in c..Len(L) /\ v - 1 \in 1..Len(L)
  BY <1>1
<1>3. \A k \in c..(Len(L) + 1 - 1) : k + 1 \in (c + 1)..(Len(L) + 1) /\ (k + 1) - 1 = k
  BY <1>1
<1>4. \A k \in 1..Len(L) : L[k].added \subseteq Triple /\ L[k].removed \subseteq Triple
  <2>1. \A k \in 1..Len(L) : L[k] \in Delta
    OBVIOUS
  <2> QED BY <2>1 DEF Delta
<1>5. Since(L, c).added \subseteq Triple /\ Since(L, c).removed \subseteq Triple
  BY <1>2, <1>4 DEF Since
<1>6. Since(L, c) \in Delta
  BY <1>5 DEF Since, Delta
<1>7. ASSUME NEW t, t \in Since(L, c).added \cup Since(L, c).removed
      PROVE  Touched(L, t, c, Len(L) + 1)
  <2>1. PICK v \in (c + 1)..(Len(L) + 1) : t \in L[v - 1].added \cup L[v - 1].removed
    BY <1>7 DEF Since
  <2>2. v - 1 \in c..(Len(L) + 1 - 1)
    BY <1>1, <2>1
  <2> QED BY <2>1, <2>2 DEF Touched
<1>8. ASSUME NEW t, Touched(L, t, c, Len(L) + 1)
      PROVE  t \in Since(L, c).added \cup Since(L, c).removed
  <2>1. PICK k \in c..(Len(L) + 1 - 1) : t \in L[k].added \cup L[k].removed
    BY <1>8 DEF Touched
  <2>2. k + 1 \in (c + 1)..(Len(L) + 1) /\ (k + 1) - 1 = k
    BY <1>3
  <2>3. \E v \in (c + 1)..(Len(L) + 1) : t \in L[v - 1].added \cup L[v - 1].removed
    BY <2>1, <2>2
  <2> QED BY <2>3 DEF Since
<1> QED BY <1>6, <1>7, <1>8

LEMMA TouchedLater ==
  ASSUME NEW L \in Seq(Delta), NEW e \in Delta, NEW t
  PROVE  /\ \A u \in 1..(Len(L) + 1), v \in 1..(Len(L) + 1) :
              Touched(Append(L, e), t, u, v) <=> Touched(L, t, u, v)
         /\ \A u \in 1..(Len(L) + 1) :
              Touched(Append(L, e), t, u, Len(L) + 2)
                <=> Touched(L, t, u, Len(L) + 1) \/ t \in e.added \cup e.removed
<1> DEFINE K == Append(L, e)
<1>1. Len(L) \in Nat /\ K[Len(L) + 1] = e /\ \A k \in 1..Len(L) : K[k] = L[k]
  BY AppendProperties
<1> HIDE DEF K
<1>2. \A u \in 1..(Len(L) + 1), v \in 1..(Len(L) + 1) : \A k \in u..(v - 1) : K[k] = L[k]
  <2> TAKE u \in 1..(Len(L) + 1), v \in 1..(Len(L) + 1)
  <2> TAKE k \in u..(v - 1)
  <2>1. k \in 1..Len(L)
    BY <1>1
  <2> QED BY <1>1, <2>1
<1>3. \A u \in 1..(Len(L) + 1), v \in 1..(Len(L) + 1) : Touched(K, t, u, v) <=> Touched(L, t, u, v)
  BY <1>2 DEF Touched
<1>4. ASSUME NEW u \in 1..(Len(L) + 1)
      PROVE  Touched(K, t, u, Len(L) + 2) <=> Touched(L, t, u, Len(L) + 1) \/ t \in e.added \cup e.removed
  <2>1. u..(Len(L) + 2 - 1) = u..(Len(L) + 1 - 1) \cup {Len(L) + 1}
    BY <1>1
  <2>2. \A k \in u..(Len(L) + 1 - 1) : K[k] = L[k]
    BY <1>1
  <2> QED BY <1>1, <2>1, <2>2 DEF Touched
<1> QED BY <1>3, <1>4 DEF K

\* What a mirror M at version c may have wrong for the catch-up to repair it, the store
\* being S now: it holds nothing untouched that is gone; of a subject that is visible and
\* not affected it misses nothing untouched, and of one that is neither it holds nothing.
Recoverable(M, a, c, L, S) ==
  \A t \in Plain(Triple) :
    /\ t \in M /\ ~ Touched(L, t, c, Len(L) + 1) => t \in S
    /\ t.subject \notin Affected(Since(L, c), S) =>
         /\ CanSee(S, a, t.subject) /\ t \in S /\ ~ Touched(L, t, c, Len(L) + 1) => t \in M
         /\ ~ CanSee(S, a, t.subject) => t \notin M

\* A field without a rule of its own is read with its entity.
LEMMA PlainReads ==
  ASSUME NEW t \in Plain(Triple), NEW S, NEW a
  PROVE  /\ CanRead(S, a, t) <=> CanSee(S, a, t.subject)
         /\ t \in Readable(S, a) <=> t \in S /\ CanSee(S, a, t.subject)
         /\ t \in Triple /\ t.subject \in Subject
BY DEF Plain, CanRead, Readable, Subject

Exact(M, a, S) == Plain(M) = Plain(Readable(S, a))

LEMMA ExactByTriple ==
  ASSUME NEW M \in SUBSET Triple, NEW S \in SUBSET Triple, NEW a
  PROVE  Exact(M, a, S) <=>
           \A t \in Plain(Triple) : t \in M <=> t \in S /\ CanSee(S, a, t.subject)
<1>1. \A t \in Plain(Triple) : t \in Readable(S, a) <=> t \in S /\ CanSee(S, a, t.subject)
  BY PlainReads
<1>2. Readable(S, a) \subseteq Triple
  BY DEF Readable
<1>3. \A X \in SUBSET Triple : Plain(X) = X \cap Plain(Triple)
  BY DEF Plain
<1>4. Plain(M) = M \cap Plain(Triple) /\ Plain(Readable(S, a)) = Readable(S, a) \cap Plain(Triple)
  BY <1>2, <1>3
<1> QED BY <1>1, <1>4 DEF Exact

LEMMA ExactIsRecoverable ==
  ASSUME NEW L \in Seq(Delta), NEW S \in SUBSET Triple, NEW M \in SUBSET Triple, NEW a,
         Exact(M, a, S)
  PROVE  Recoverable(M, a, Len(L) + 1, L, S)
<1>1. \A t \in Plain(Triple) : t \in M <=> t \in S /\ CanSee(S, a, t.subject)
  BY ExactByTriple
<1> QED BY <1>1 DEF Recoverable

\* A commit changes nothing about what a client that is away may have wrong.
LEMMA CommitKeepsRecoverable ==
  ASSUME NEW L \in Seq(Delta), NEW S \in SUBSET Triple, NEW d \in Delta, NEW M, NEW a,
         NEW c \in 1..(Len(L) + 1), Record(Applied(S, d), a) = Record(S, a),
         Recoverable(M, a, c, L, S)
  PROVE  Recoverable(M, a, c, Append(L, Effective(S, d)), Applied(S, d))
<1> DEFINE e == Effective(S, d)
           P == Applied(S, d)
           K == Append(L, e)
<1>1. e \in Delta /\ P \in SUBSET Triple
  BY DEF Effective, Applied, Delta
<1>2. \A t : (t \in S /\ t \notin P) \/ (t \in P /\ t \notin S) => t \in e.added \cup e.removed
  BY DEF Effective, Applied
<1> HIDE DEF e, P
<1>3. K \in Seq(Delta) /\ Len(K) = Len(L) + 1 /\ Len(L) \in Nat
  BY <1>1, AppendProperties
<1> HIDE DEF K
<1>4. c \in 1..(Len(K) + 1) /\ Len(K) + 1 = Len(L) + 2
  BY <1>3
<1>5. \A t : Touched(K, t, c, Len(K) + 1)
               <=> Touched(L, t, c, Len(L) + 1) \/ t \in e.added \cup e.removed
  BY <1>1, <1>4, TouchedLater DEF K
<1>6. /\ Since(K, c) \in Delta /\ Since(L, c) \in Delta
      /\ \A t : t \in Since(K, c).added \cup Since(K, c).removed <=> Touched(K, t, c, Len(K) + 1)
      /\ \A t : t \in Since(L, c).added \cup Since(L, c).removed <=> Touched(L, t, c, Len(L) + 1)
  BY <1>3, <1>4, SinceTyped
<1>7. Differ(S, P, Since(K, c))
  BY <1>2, <1>5, <1>6 DEF Differ
<1>8. Since(L, c).added \cup Since(L, c).removed \subseteq Since(K, c).added \cup Since(K, c).removed
  BY <1>5, <1>6
<1>9. ASSUME NEW s \in Subject, s \notin Affected(Since(K, c), P)
      PROVE  s \notin Affected(Since(L, c), S) /\ (CanSee(S, a, s) <=> CanSee(P, a, s))
  <2>1. Loaded(S, s) = Loaded(P, s) /\ s \notin Affected(Since(L, c), S)
    BY <1>1, <1>6, <1>7, <1>8, <1>9, UnaffectedAfterwards
  <2>2. Record(P, a) = Record(S, a)
    BY DEF P
  <2> QED BY <2>1, <2>2 DEF CanSee
<1>10. Recoverable(M, a, c, K, P)
  <2> SUFFICES ASSUME NEW t \in Plain(Triple)
               PROVE  /\ t \in M /\ ~ Touched(K, t, c, Len(K) + 1) => t \in P
                      /\ t.subject \notin Affected(Since(K, c), P) =>
                           /\ CanSee(P, a, t.subject) /\ t \in P
                                /\ ~ Touched(K, t, c, Len(K) + 1) => t \in M
                           /\ ~ CanSee(P, a, t.subject) => t \notin M
    BY DEF Recoverable
  <2>1. t.subject \in Subject
    BY PlainReads
  <2>2. /\ t \in M /\ ~ Touched(L, t, c, Len(L) + 1) => t \in S
        /\ t.subject \notin Affected(Since(L, c), S) =>
             /\ CanSee(S, a, t.subject) /\ t \in S /\ ~ Touched(L, t, c, Len(L) + 1) => t \in M
             /\ ~ CanSee(S, a, t.subject) => t \notin M
    BY DEF Recoverable
  <2> QED BY <1>2, <1>5, <1>9, <2>1, <2>2
<1> QED BY <1>10 DEF K, e, P

LEMMA RecoverableIsExact ==
  ASSUME NEW L \in Seq(Delta), NEW S \in SUBSET Triple, NEW M \in SUBSET Triple, NEW a,
         Recoverable(M, a, Len(L) + 1, L, S)
  PROVE  Exact(M, a, S)
<1>1. Len(L) \in Nat
  OBVIOUS
<1>2. \A t : ~ Touched(L, t, Len(L) + 1, Len(L) + 1)
  BY <1>1 DEF Touched
<1>3. \A t : t \notin Since(L, Len(L) + 1).added \cup Since(L, Len(L) + 1).removed
  BY <1>1, <1>2, SinceTyped
<1>4. Affected(Since(L, Len(L) + 1), S) = {}
  BY <1>3 DEF Affected
<1>5. \A t \in Plain(Triple) : t \in M <=> t \in S /\ CanSee(S, a, t.subject)
  BY <1>2, <1>4 DEF Recoverable
<1> QED BY <1>5, ExactByTriple

----------------------------------------------------------------------------
\* The versions of the store, from the seed to now

Past(h, L, S) ==
  /\ h \in [1..(Len(L) + 1) -> SUBSET Triple]
  /\ h[Len(L) + 1] = S
  /\ \A k \in 1..Len(L) : h[k + 1] = Applied(h[k], L[k])
  /\ \A u, v \in 1..(Len(L) + 1) : \A t \in Triple :
       u <= v /\ ~ Touched(L, t, u, v) => (t \in h[u] <=> t \in h[v])

LEMMA PastGrows ==
  ASSUME NEW L \in Seq(Delta), NEW S \in SUBSET Triple, NEW d \in Delta, NEW h, Past(h, L, S)
  PROVE  \E g : Past(g, Append(L, Effective(S, d)), Applied(S, d))
<1> DEFINE e == Effective(S, d)
           P == Applied(S, d)
           K == Append(L, e)
           n == Len(L) + 1
           g == [k \in 1..(n + 1) |-> IF k = n + 1 THEN P ELSE h[k]]
<1>1. e \in Delta /\ P \in SUBSET Triple /\ P = Applied(S, e)
  BY DEF Effective, Applied, Delta
<1>2. \A t : t \notin e.added \cup e.removed => (t \in S <=> t \in P)
  BY <1>1 DEF Applied
<1> HIDE DEF e, P
<1>3. /\ K \in Seq(Delta) /\ Len(K) = n /\ Len(L) \in Nat /\ n \in Nat
      /\ K[n] = e /\ \A k \in 1..Len(L) : K[k] = L[k]
  BY <1>1, AppendProperties
<1>4. /\ \A t : \A u \in 1..n, v \in 1..n : Touched(K, t, u, v) <=> Touched(L, t, u, v)
      /\ \A t : \A u \in 1..n : Touched(K, t, u, n + 1) <=> Touched(L, t, u, n) \/ t \in e.added \cup e.removed
  <2>1. Len(L) + 2 = n + 1
    BY <1>3
  <2> QED BY <1>1, <2>1, TouchedLater
<1> HIDE DEF K
<1>5. /\ h \in [1..n -> SUBSET Triple] /\ h[n] = S
      /\ \A k \in 1..Len(L) : h[k + 1] = Applied(h[k], L[k])
      /\ \A u, v \in 1..n : \A t \in Triple :
           u <= v /\ ~ Touched(L, t, u, v) => (t \in h[u] <=> t \in h[v])
  BY DEF Past
<1>6. n = Len(L) + 1
  OBVIOUS
<1> HIDE DEF n
<1>7. \A k \in 1..n : k \in 1..(n + 1) /\ k # n + 1
  BY <1>3
<1>8. g \in [1..(n + 1) -> SUBSET Triple] /\ g[n + 1] = P /\ \A k \in 1..n : g[k] = h[k]
  <2>1. \A k \in 1..(n + 1) : k = n + 1 \/ k \in 1..n
    BY <1>3
  <2>2. \A k \in 1..(n + 1) : g[k] \in SUBSET Triple
    BY <1>1, <1>5, <2>1
  <2>3. n + 1 \in 1..(n + 1)
    BY <1>3
  <2> QED BY <1>7, <2>2, <2>3
<1> HIDE DEF g
<1>9. \A k \in 1..n : g[k + 1] = Applied(g[k], K[k])
  <2> TAKE k \in 1..n
  <2>1. CASE k = n
    BY <1>1, <1>3, <1>5, <1>8, <2>1
  <2>2. CASE k # n
    <3>1. k \in 1..Len(L) /\ k + 1 \in 1..n
      BY <1>3, <1>6, <2>2
    <3> QED BY <1>3, <1>5, <1>8, <3>1
  <2> QED BY <2>1, <2>2
<1>10. ASSUME NEW u \in 1..(n + 1), NEW v \in 1..(n + 1), NEW t \in Triple,
              u <= v, ~ Touched(K, t, u, v)
       PROVE  t \in g[u] <=> t \in g[v]
  <2>1. CASE v \in 1..n
    <3>1. u \in 1..n
      BY <1>3, <1>10, <2>1
    <3> QED BY <1>4, <1>5, <1>8, <1>10, <2>1, <3>1
  <2>2. CASE v = n + 1 /\ u \in 1..n
    <3>1. ~ Touched(L, t, u, n) /\ t \notin e.added \cup e.removed
      BY <1>4, <1>10, <2>2
    <3>2. n \in 1..n /\ u <= n
      BY <1>3, <2>2
    <3>3. t \in h[u] <=> t \in S
      BY <1>5, <2>2, <3>1, <3>2
    <3> QED BY <1>2, <1>8, <2>2, <3>1, <3>3
  <2>3. CASE v = n + 1 /\ u = n + 1
    BY <2>3
  <2>4. \A k \in 1..(n + 1) : k \in 1..n \/ k = n + 1
    BY <1>3
  <2> QED BY <2>1, <2>2, <2>3, <2>4
<1>11. Past(g, K, P)
  BY <1>3, <1>8, <1>9, <1>10 DEF Past
<1> QED BY <1>11 DEF K, e, P

----------------------------------------------------------------------------
\* The catch-up, message by message

\* The mirror when the backlog is read up to version k.
Halfway(M, a, c, L, S, h, k) ==
  {t \in Triple : IF CanRead(S, a, t) /\ Touched(L, t, c, k) THEN t \in h[k] ELSE t \in M}

\* What the backlog has of the delta after version k.
Filtered(L, S, a, k) ==
  [added   |-> {t \in L[k].added : CanRead(S, a, t)},
   removed |-> {t \in L[k].removed : CanRead(S, a, t)}]

LEMMA HalfwayStarts ==
  ASSUME NEW L \in Seq(Delta), NEW c \in 1..(Len(L) + 1), NEW M \in SUBSET Triple,
         NEW a, NEW S, NEW h
  PROVE  Halfway(M, a, c, L, S, h, c) = M
<1>1. \A t : ~ Touched(L, t, c, c)
  <2>1. c \in Nat
    OBVIOUS
  <2> QED BY <2>1 DEF Touched
<1> QED BY <1>1 DEF Halfway

LEMMA HalfwayGoesOn ==
  ASSUME NEW L \in Seq(Delta), NEW c \in 1..(Len(L) + 1), NEW M \in SUBSET Triple,
         NEW S, NEW a, NEW h, Past(h, L, S), NEW k \in c..Len(L)
  PROVE  Applied(Halfway(M, a, c, L, S, h, k), Filtered(L, S, a, k))
           = Halfway(M, a, c, L, S, h, k + 1)
<1>1. Len(L) \in Nat /\ c \in Nat /\ k \in 1..Len(L) /\ k + 1 \in 1..(Len(L) + 1)
  OBVIOUS
<1>2. h[k + 1] = Applied(h[k], L[k])
  BY <1>1 DEF Past
<1>3. L[k] \in Delta
  BY <1>1
<1>4. \A t : Touched(L, t, c, k + 1) <=> Touched(L, t, c, k) \/ t \in L[k].added \cup L[k].removed
  <2>1. c..(k + 1 - 1) = c..(k - 1) \cup {k}
    BY <1>1
  <2> QED BY <2>1 DEF Touched
<1>5. \A t : t \in h[k + 1] <=> (t \in h[k] /\ t \notin L[k].removed) \/ t \in L[k].added
  BY <1>2 DEF Applied
<1>6. L[k].added \subseteq Triple
  BY <1>3 DEF Delta
<1> QED BY <1>4, <1>5, <1>6 DEF Applied, Halfway, Filtered

\* Nothing to repair: every affected subject is visible and has no fields.
NoRepair(a, c, L, S) ==
  \A s \in Affected(Since(L, c), S) :
    /\ CanSee(S, a, s)
    /\ \A t \in Readable(S, a) : t.subject # s

\* A backlog that needs no repair leaves the mirror recoverable wherever it is cut.
LEMMA HalfwayIsRecoverable ==
  ASSUME NEW L \in Seq(Delta), NEW c \in 1..(Len(L) + 1), NEW M \in SUBSET Triple,
         NEW S \in SUBSET Triple, NEW a, NEW h, Past(h, L, S), NEW k \in c..(Len(L) + 1),
         Recoverable(M, a, c, L, S), NoRepair(a, c, L, S)
  PROVE  Recoverable(Halfway(M, a, c, L, S, h, k), a, k, L, S)
<1> DEFINE X == Halfway(M, a, c, L, S, h, k)
           v == Len(L) + 1
<1>1. Len(L) \in Nat /\ c \in Nat /\ k \in 1..v /\ v \in 1..v /\ c <= k /\ k <= v
  OBVIOUS
<1>2. ASSUME NEW t \in Plain(Triple), ~ Touched(L, t, k, v)
      PROVE  t \in h[k] <=> t \in S
  <2>1. t \in Triple
    BY PlainReads
  <2> QED BY <1>1, <1>2, <2>1 DEF Past
<1>3. \A t : Touched(L, t, c, v) <=> Touched(L, t, c, k) \/ Touched(L, t, k, v)
  <2>1. c..(v - 1) = c..(k - 1) \cup k..(v - 1)
    BY <1>1
  <2> QED BY <2>1 DEF Touched
<1> HIDE DEF v
<1>4. ASSUME NEW t \in Plain(Triple)
      PROVE  /\ t \in X <=> IF CanSee(S, a, t.subject) /\ Touched(L, t, c, k) THEN t \in h[k] ELSE t \in M
             /\ ~ CanSee(S, a, t.subject) => t \notin M
             /\ CanSee(S, a, t.subject) /\ t \in S /\ ~ Touched(L, t, c, v) => t \in M
             /\ t \in M /\ ~ Touched(L, t, c, v) => t \in S
  <2>1. t \in X <=> IF CanSee(S, a, t.subject) /\ Touched(L, t, c, k) THEN t \in h[k] ELSE t \in M
    BY PlainReads DEF Halfway
  <2>2. t \in M /\ ~ Touched(L, t, c, v) => t \in S
    BY DEF Recoverable, v
  <2>3. t.subject \in Affected(Since(L, c), S) => CanSee(S, a, t.subject) /\ t \notin S
    BY PlainReads DEF NoRepair
  <2>4. t.subject \notin Affected(Since(L, c), S) =>
             /\ CanSee(S, a, t.subject) /\ t \in S /\ ~ Touched(L, t, c, v) => t \in M
             /\ ~ CanSee(S, a, t.subject) => t \notin M
    BY DEF Recoverable, v
  <2> HIDE DEF X
  <2> QED BY <2>1, <2>2, <2>3, <2>4
<1> HIDE DEF X
<1>5. ASSUME NEW t \in Plain(Triple)
      PROVE  /\ t \in X /\ ~ Touched(L, t, k, v) => t \in S
             /\ CanSee(S, a, t.subject) /\ t \in S /\ ~ Touched(L, t, k, v) => t \in X
             /\ ~ CanSee(S, a, t.subject) => t \notin X
  BY <1>2, <1>3, <1>4
<1>6. Recoverable(X, a, k, L, S)
  BY <1>5 DEF Recoverable, v
<1> QED BY <1>6 DEF X

\* The repair message for what a client at version c has missed.
RepairSince(a, c, L, S) ==
  [kind    |-> "repair",
   evict   |-> {s \in Affected(Since(L, c), S) : ~ CanSee(S, a, s)},
   refresh |-> {t \in Readable(S, a) :
                  t.subject \in Affected(Since(L, c), S) /\ CanSee(S, a, t.subject)}]

\* Backlog and repair together make the mirror exact.
LEMMA RepairIsExact ==
  ASSUME NEW L \in Seq(Delta), NEW c \in 1..(Len(L) + 1), NEW M \in SUBSET Triple,
         NEW S \in SUBSET Triple, NEW a, NEW h, Past(h, L, S), Recoverable(M, a, c, L, S)
  PROVE  Exact(AfterMessage(Halfway(M, a, c, L, S, h, Len(L) + 1), RepairSince(a, c, L, S)), a, S)
<1> DEFINE v == Len(L) + 1
           X == Halfway(M, a, c, L, S, h, v)
           m == RepairSince(a, c, L, S)
           Y == AfterMessage(X, m)
<1>1. Y = {t \in X : t.subject \notin m.evict} \cup m.refresh
  BY DEF AfterMessage, RepairSince
<1>2. X \subseteq Triple /\ m.refresh \subseteq Triple
  BY DEF Halfway, RepairSince, Readable
<1>3. h[v] = S
  BY DEF Past
<1> HIDE DEF v
<1>4. ASSUME NEW t \in Plain(Triple)
      PROVE  t \in Y <=> t \in S /\ CanSee(S, a, t.subject)
  <2>1. t \in X <=> IF CanSee(S, a, t.subject) /\ Touched(L, t, c, v) THEN t \in S ELSE t \in M
    BY <1>3, PlainReads DEF Halfway
  <2>2. /\ t.subject \in m.evict
             <=> t.subject \in Affected(Since(L, c), S) /\ ~ CanSee(S, a, t.subject)
        /\ t \in m.refresh
             <=> t \in S /\ CanSee(S, a, t.subject) /\ t.subject \in Affected(Since(L, c), S)
    BY PlainReads DEF RepairSince
  <2>3. /\ t \in M /\ ~ Touched(L, t, c, v) => t \in S
        /\ t.subject \notin Affected(Since(L, c), S) =>
             /\ CanSee(S, a, t.subject) /\ t \in S /\ ~ Touched(L, t, c, v) => t \in M
             /\ ~ CanSee(S, a, t.subject) => t \notin M
    BY DEF Recoverable, v
  <2> HIDE DEF X, m, Y
  <2> QED BY <1>1, <2>1, <2>2, <2>3
<1> HIDE DEF X, m
<1>5. Y \in SUBSET Triple
  BY <1>1, <1>2
<1> HIDE DEF Y
<1>6. Exact(Y, a, S)
  BY <1>4, <1>5, ExactByTriple
<1> QED BY <1>6 DEF Y, X, m, v

----------------------------------------------------------------------------
\* What is under way to a client

Message == DeltaMessage \cup RepairMessage

\* e[i] and ks[i] are the mirror and the cursor before the i-th message is read; the last
\* mirror is exact, and wherever only deltas are left to read the next catch-up can
\* repair the mirror.
Settling(e, ks, q, M, c, a, L, S) ==
  /\ e \in [1..(Len(q) + 1) -> SUBSET Triple] /\ e[1] = M
  /\ ks \in [1..(Len(q) + 1) -> 1..(Len(L) + 1)] /\ ks[1] = c
  /\ \A i \in 1..Len(q) :
       /\ e[i + 1] = AfterMessage(e[i], q[i])
       /\ ks[i + 1] = IF q[i].kind = "delta" THEN q[i].version ELSE ks[i]
  /\ Exact(e[Len(q) + 1], a, S)
  /\ \A i \in 1..(Len(q) + 1) :
       (\A j \in i..Len(q) : q[j].kind = "delta") => Recoverable(e[i], a, ks[i], L, S)

LEMMA VisibleKeepsExact ==
  ASSUME NEW d \in Delta, NEW S \in SUBSET Triple, NEW a, NEW X \in SUBSET Triple,
         Record(Applied(S, d), a) = Record(S, a), Exact(X, a, S)
  PROVE  Exact(Applied(X, VisibleDelta(S, a, d)), a, Applied(S, d))
<1> DEFINE V == VisibleDelta(S, a, d)
           R == Readable(S, a)
           Q == Readable(Applied(S, d), a)
<1>1. Applied(R, V) = Q
  BY VisibleDeltaIsExact
<1>2. \A t : t \in Plain(X) <=> t \in Plain(R)
  BY DEF Exact
<1> HIDE DEF V, R, Q
<1>3. \A Y, t : t \in Plain(Y) <=> t \in Y /\ t.predicate \notin Overridden
  BY DEF Plain
<1>4. \A Y, t : t \in Applied(Y, V) <=> (t \in Y /\ t \notin V.removed) \/ t \in V.added
  BY DEF Applied
<1>5. \A t : t \in Plain(Applied(X, V)) <=> t \in Plain(Applied(R, V))
  BY <1>2, <1>3, <1>4
<1>6. Plain(Applied(X, V)) = Plain(Applied(R, V))
  BY <1>5, Zenon DEF Plain
<1> QED BY <1>1, <1>6 DEF Exact, V, R, Q

\* A commit while the client is connected: one more delta at the end of the stream.
LEMMA SettlingGrows ==
  ASSUME NEW L \in Seq(Delta), NEW S \in SUBSET Triple, NEW d \in Delta, NEW a,
         NEW q \in Seq(Message), NEW M, NEW c, NEW e, NEW ks,
         Record(Applied(S, d), a) = Record(S, a), Settling(e, ks, q, M, c, a, L, S),
         NEW m \in Message, m.kind = "delta", m.version = Len(L) + 2,
         m.delta = VisibleDelta(S, a, d)
  PROVE  \E f, ls : Settling(f, ls, Append(q, m), M, c, a, Append(L, Effective(S, d)), Applied(S, d))
<1> DEFINE n == Len(q)
           P == Applied(S, d)
           K == Append(L, Effective(S, d))
           r == Append(q, m)
           Y == Applied(e[n + 1], VisibleDelta(S, a, d))
           f == [i \in 1..(n + 2) |-> IF i = n + 2 THEN Y ELSE e[i]]
           ls == [i \in 1..(n + 2) |-> IF i = n + 2 THEN Len(L) + 2 ELSE ks[i]]
<1>1. n \in Nat /\ Len(L) \in Nat
  OBVIOUS
<1>2. Len(r) = n + 1 /\ r[n + 1] = m /\ \A i \in 1..n : r[i] = q[i]
  BY AppendProperties
<1>3. /\ e \in [1..(n + 1) -> SUBSET Triple] /\ e[1] = M
      /\ ks \in [1..(n + 1) -> 1..(Len(L) + 1)] /\ ks[1] = c
      /\ \A i \in 1..n :
           /\ e[i + 1] = AfterMessage(e[i], q[i])
           /\ ks[i + 1] = IF q[i].kind = "delta" THEN q[i].version ELSE ks[i]
      /\ Exact(e[n + 1], a, S)
      /\ \A i \in 1..(n + 1) :
           (\A j \in i..n : q[j].kind = "delta") => Recoverable(e[i], a, ks[i], L, S)
  BY DEF Settling
<1>4. P \in SUBSET Triple /\ Effective(S, d) \in Delta
  BY DEF Applied, Effective, Delta
<1>5. K \in Seq(Delta) /\ Len(K) = Len(L) + 1
  BY <1>4, AppendProperties
<1>6. e[n + 1] \in SUBSET Triple
  <2>1. n + 1 \in 1..(n + 1)
    BY <1>1
  <2> QED BY <1>3, <2>1
<1>7. Y = AfterMessage(e[n + 1], m)
  BY DEF AfterMessage
<1>8. Exact(Y, a, P)
  BY <1>6, <1>3, VisibleKeepsExact
<1>9. Y \in SUBSET Triple
  <2>1. VisibleDelta(S, a, d) \in Delta
    BY VisibleDeltaType
  <2> QED BY <1>6, <2>1 DEF Applied, Delta
<1>10. Recoverable(Y, a, Len(K) + 1, K, P)
  BY <1>4, <1>5, <1>8, <1>9, ExactIsRecoverable
<1>11. \A i \in 1..(n + 1) : ks[i] \in 1..(Len(L) + 1)
  BY <1>3
<1>12. ASSUME NEW i \in 1..(n + 1), Recoverable(e[i], a, ks[i], L, S)
       PROVE  Recoverable(e[i], a, ks[i], K, P)
  BY <1>11, <1>12, CommitKeepsRecoverable
<1> HIDE DEF Y, K, P, r
<1>13. \A i \in 1..(n + 2) : i = n + 2 \/ i \in 1..(n + 1)
  BY <1>1
<1>14. \A i \in 1..(n + 1) : f[i] = e[i] /\ ls[i] = ks[i]
  BY <1>1
<1>15. f[n + 2] = Y /\ ls[n + 2] = Len(L) + 2 /\ n + 2 \in 1..(n + 2)
  BY <1>1
<1>16. f \in [1..(n + 2) -> SUBSET Triple]
  <2>1. \A i \in 1..(n + 2) : f[i] \in SUBSET Triple
    BY <1>3, <1>9, <1>13, <1>14, <1>15
  <2> QED BY <2>1
<1>17. ls \in [1..(n + 2) -> 1..(Len(K) + 1)]
  <2>1. \A i \in 1..(n + 2) : ls[i] \in 1..(Len(K) + 1)
    BY <1>1, <1>5, <1>11, <1>13, <1>14, <1>15
  <2> QED BY <2>1
<1> HIDE DEF f, ls
<1>18. f[1] = M /\ ls[1] = c
  <2>1. 1 \in 1..(n + 1)
    BY <1>1
  <2> QED BY <1>3, <1>14, <2>1
<1>19. ASSUME NEW i \in 1..(n + 1)
       PROVE  /\ f[i + 1] = AfterMessage(f[i], r[i])
              /\ ls[i + 1] = IF r[i].kind = "delta" THEN r[i].version ELSE ls[i]
  <2>1. CASE i = n + 1
    <3>1. i + 1 = n + 2
      BY <1>1, <2>1
    <3> QED BY <1>2, <1>7, <1>14, <1>15, <2>1, <3>1, Zenon
  <2>2. CASE i # n + 1
    <3>1. i \in 1..n /\ i + 1 \in 1..(n + 1)
      BY <1>1, <2>2
    <3> QED BY <1>2, <1>3, <1>14, <3>1, Zenon
  <2> QED BY <2>1, <2>2
<1>20. ASSUME NEW i \in 1..(n + 2), \A j \in i..(n + 1) : r[j].kind = "delta"
       PROVE  Recoverable(f[i], a, ls[i], K, P)
  <2>1. CASE i = n + 2
    <3>1. Len(K) + 1 = Len(L) + 2
      BY <1>1, <1>5
    <3> QED BY <1>10, <1>15, <2>1, <3>1
  <2>2. CASE i \in 1..(n + 1)
    <3>1. \A j \in i..n : j \in 1..n /\ j \in i..(n + 1)
      BY <1>1
    <3>2. \A j \in i..n : q[j].kind = "delta"
      BY <1>2, <1>20, <3>1
    <3> QED BY <1>3, <1>12, <1>14, <2>2, <3>2
  <2> QED BY <1>13, <2>1, <2>2
<1>21. Len(r) + 1 = n + 2
  BY <1>1, <1>2
<1>22. Settling(f, ls, r, M, c, a, K, P)
  BY <1>2, <1>8, <1>15, <1>16, <1>17, <1>18, <1>19, <1>20, <1>21 DEF Settling
<1>23. \E x, y : Settling(x, y, r, M, c, a, K, P)
  BY <1>22
<1> QED BY <1>23 DEF r, K, P

\* Reading one message is a step along the same way.
LEMMA SettlingReads ==
  ASSUME NEW L \in Seq(Delta), NEW S, NEW a, NEW q \in Seq(Message), q # <<>>, NEW M, NEW c,
         NEW e, NEW ks, Settling(e, ks, q, M, c, a, L, S)
  PROVE  \E f, ls :
           Settling(f, ls, Tail(q), AfterMessage(M, Head(q)),
                    IF Head(q).kind = "delta" THEN Head(q).version ELSE c, a, L, S)
<1> DEFINE n == Len(q)
           r == Tail(q)
           f == [i \in 1..n |-> e[i + 1]]
           ls == [i \in 1..n |-> ks[i + 1]]
           next == IF Head(q).kind = "delta" THEN Head(q).version ELSE c
<1>1. n \in Nat /\ n >= 1 /\ Len(r) = n - 1 /\ Head(q) = q[1] /\ \A i \in 1..(n - 1) : r[i] = q[i + 1]
  OBVIOUS
<1>2. /\ e \in [1..(n + 1) -> SUBSET Triple] /\ e[1] = M
      /\ ks \in [1..(n + 1) -> 1..(Len(L) + 1)] /\ ks[1] = c
      /\ \A i \in 1..n :
           /\ e[i + 1] = AfterMessage(e[i], q[i])
           /\ ks[i + 1] = IF q[i].kind = "delta" THEN q[i].version ELSE ks[i]
      /\ Exact(e[n + 1], a, S)
      /\ \A i \in 1..(n + 1) :
           (\A j \in i..n : q[j].kind = "delta") => Recoverable(e[i], a, ks[i], L, S)
  BY DEF Settling
<1>3. \A i \in 1..n : i + 1 \in 1..(n + 1)
  BY <1>1
<1> HIDE DEF r
<1>4. f \in [1..n -> SUBSET Triple] /\ ls \in [1..n -> 1..(Len(L) + 1)]
  BY <1>2, <1>3
<1>5. \A i \in 1..n : f[i] = e[i + 1] /\ ls[i] = ks[i + 1]
  OBVIOUS
<1> HIDE DEF f, ls
<1>6. 1 \in 1..n /\ n \in 1..n /\ 1 + 1 \in 1..(n + 1)
  BY <1>1
<1>7. f[1] = AfterMessage(M, Head(q)) /\ ls[1] = next
  <2>1. e[1 + 1] = AfterMessage(M, Head(q))
    BY <1>1, <1>2, <1>6
  <2>2. ks[1 + 1] = next
    BY <1>1, <1>2, <1>6, Zenon
  <2> QED BY <1>5, <1>6, <2>1, <2>2
<1>8. ASSUME NEW i \in 1..(n - 1)
      PROVE  /\ f[i + 1] = AfterMessage(f[i], r[i])
             /\ ls[i + 1] = IF r[i].kind = "delta" THEN r[i].version ELSE ls[i]
  <2>1. i \in 1..n /\ i + 1 \in 1..n
    BY <1>1
  <2> QED BY <1>1, <1>2, <1>5, <2>1, Zenon
<1>9. Exact(f[n], a, S)
  BY <1>2, <1>5, <1>6
<1>10. ASSUME NEW i \in 1..n, \A j \in i..(n - 1) : r[j].kind = "delta"
       PROVE  Recoverable(f[i], a, ls[i], L, S)
  <2>1. \A j \in (i + 1)..n : j - 1 \in i..(n - 1) /\ j - 1 \in 1..(n - 1) /\ (j - 1) + 1 = j
    BY <1>1
  <2>2. \A j \in (i + 1)..n : q[j].kind = "delta"
    <3> TAKE j \in (i + 1)..n
    <3>1. r[j - 1].kind = "delta"
      BY <1>10, <2>1
    <3>2. r[j - 1] = q[j]
      BY <1>1, <2>1
    <3> QED BY <3>1, <3>2
  <2> QED BY <1>2, <1>3, <1>5, <2>2
<1> HIDE DEF next
<1>11. Len(r) + 1 = n
  BY <1>1
<1>12. Settling(f, ls, r, AfterMessage(M, Head(q)), next, a, L, S)
  BY <1>1, <1>4, <1>7, <1>8, <1>9, <1>10, <1>11 DEF Settling
<1>13. \E x, y : Settling(x, y, r, AfterMessage(M, Head(q)), next, a, L, S)
  BY <1>12
<1> QED BY <1>13 DEF r, next

LEMMA JoinedUp ==
  ASSUME NEW B \in Seq(DeltaMessage), NEW R \in Seq(RepairMessage), Len(R) = 0 \/ Len(R) = 1
  PROVE  /\ \/ Len(R) = 0 /\ Len(B \o R) = Len(B)
            \/ Len(R) = 1 /\ Len(B \o R) = Len(B) + 1
         /\ \A i \in 1..Len(B) : (B \o R)[i] = B[i]
         /\ Len(R) = 1 => (B \o R)[Len(B) + 1] = R[1]
<1> DEFINE W == DeltaMessage \cup RepairMessage
<1>1. B \in Seq(W) /\ R \in Seq(W)
  OBVIOUS
<1> HIDE DEF W
<1>2. /\ Len(B \o R) = Len(B) + Len(R) /\ Len(B) \in Nat
      /\ \A i \in 1..Len(B) : (B \o R)[i] = B[i]
      /\ \A i \in 1..Len(R) : (B \o R)[Len(B) + i] = R[i]
  BY <1>1, ConcatProperties
<1> QED BY <1>2

\* Coming back: the backlog, and a repair wherever one is needed.
LEMMA SettlingStarts ==
  ASSUME NEW L \in Seq(Delta), NEW c \in 1..(Len(L) + 1), NEW M \in SUBSET Triple,
         NEW S \in SUBSET Triple, NEW a, NEW h, Past(h, L, S), Recoverable(M, a, c, L, S),
         NEW B \in Seq(DeltaMessage), Len(B) = Len(L) + 1 - c,
         \A i \in 1..Len(B) : /\ B[i].kind = "delta" /\ B[i].version = c + i
                              /\ B[i].delta = Filtered(L, S, a, c + i - 1),
         NEW R \in Seq(RepairMessage),
         (R = <<>> /\ NoRepair(a, c, L, S)) \/ R = <<RepairSince(a, c, L, S)>>
  PROVE  \E e, ks : Settling(e, ks, B \o R, M, c, a, L, S)
<1> DEFINE n == Len(B)
           v == Len(L) + 1
           q == B \o R
           X(k) == Halfway(M, a, c, L, S, h, k)
           Y == AfterMessage(X(v), RepairSince(a, c, L, S))
           e == [i \in 1..(Len(q) + 1) |-> IF i = n + 2 THEN Y ELSE X(c + i - 1)]
           ks == [i \in 1..(Len(q) + 1) |-> IF i = n + 2 THEN v ELSE c + i - 1]
<1>1. /\ n \in Nat /\ Len(L) \in Nat /\ c \in Nat /\ 1 <= c /\ c <= v /\ n = v - c
      /\ v = Len(L) + 1
  OBVIOUS
<1>2. /\ Len(R) = 0 \/ Len(R) = 1
      /\ Len(R) = 1 => R[1] = RepairSince(a, c, L, S)
      /\ Len(R) = 0 => NoRepair(a, c, L, S)
  <2> HIDE DEF n, v
  <2>1. CASE R = <<>> /\ NoRepair(a, c, L, S)
    BY <2>1
  <2>2. CASE R = <<RepairSince(a, c, L, S)>>
    BY <2>2
  <2> QED BY <2>1, <2>2
<1>23. /\ \/ Len(R) = 0 /\ Len(q) = n
          \/ Len(R) = 1 /\ Len(q) = n + 1
       /\ \A i \in 1..n : q[i] = B[i]
       /\ Len(R) = 1 => q[n + 1] = RepairSince(a, c, L, S)
  BY <1>1, <1>2, JoinedUp
<1>24. \A i \in 1..n : /\ q[i].kind = "delta" /\ q[i].version = c + i
                       /\ q[i].delta = Filtered(L, S, a, c + i - 1)
  BY <1>23
<1> HIDE DEF n
<1> HIDE DEF q
<1>3. \A i \in 1..(n + 1) : i # n + 2 /\ c + i - 1 \in c..v /\ c + i - 1 \in 1..v /\ i \in 1..(Len(q) + 1)
  BY <1>1, <1>2, <1>23
<1>4. \A k : X(k) \in SUBSET Triple
  BY DEF Halfway
<1>5. Exact(Y, a, S)
  BY RepairIsExact
<1>6. Y \in SUBSET Triple
  <2>1. RepairSince(a, c, L, S).refresh \subseteq Triple
    BY DEF RepairSince, Readable
  <2> QED BY <1>4, <2>1 DEF AfterMessage, RepairSince
<1>7. Recoverable(Y, a, v, L, S)
  BY <1>5, <1>6, ExactIsRecoverable
<1>8. X(c) = M
  BY HalfwayStarts
<1>9. \A k \in c..Len(L) : Applied(X(k), Filtered(L, S, a, k)) = X(k + 1)
  BY HalfwayGoesOn
<1>10. NoRepair(a, c, L, S) => \A k \in c..v : Recoverable(X(k), a, k, L, S)
  BY HalfwayIsRecoverable
<1>11. NoRepair(a, c, L, S) => Exact(X(v), a, S)
  <2>1. v \in c..v
    BY <1>1
  <2> QED BY <1>4, <1>10, <2>1, RecoverableIsExact
<1> HIDE DEF X, Y, v
<1>12. \A i \in 1..(n + 1) : e[i] = X(c + i - 1) /\ ks[i] = c + i - 1
  BY <1>3
<1>13. Len(R) = 1 => e[n + 2] = Y /\ ks[n + 2] = v
  <2>1. Len(R) = 1 => n + 2 \in 1..(Len(q) + 1)
    BY <1>1, <1>2, <1>23
  <2> QED BY <2>1
<1>14. \A i \in 1..(Len(q) + 1) : i \in 1..(n + 1) \/ (i = n + 2 /\ Len(R) = 1)
  BY <1>1, <1>2, <1>23
<1>15. e \in [1..(Len(q) + 1) -> SUBSET Triple]
  <2>1. \A i \in 1..(Len(q) + 1) : e[i] \in SUBSET Triple
    BY <1>4, <1>6
  <2> QED BY <2>1
<1>16. ks \in [1..(Len(q) + 1) -> 1..v]
  <2>1. v \in 1..v
    BY <1>1
  <2>2. \A i \in 1..(Len(q) + 1) : ks[i] \in 1..v
    BY <1>3, <1>12, <1>13, <1>14, <2>1
  <2> QED BY <2>2
<1> HIDE DEF e, ks
<1>17. e[1] = M /\ ks[1] = c
  <2>1. 1 \in 1..(n + 1) /\ c + 1 - 1 = c
    BY <1>1
  <2> QED BY <1>8, <1>12, <2>1
<1>18. ASSUME NEW i \in 1..Len(q)
       PROVE  /\ e[i + 1] = AfterMessage(e[i], q[i])
              /\ ks[i + 1] = IF q[i].kind = "delta" THEN q[i].version ELSE ks[i]
  <2>1. CASE i \in 1..n
    <3>1. /\ i \in 1..(n + 1) /\ i + 1 \in 1..(n + 1) /\ c + i - 1 \in c..Len(L)
          /\ c + (i + 1) - 1 = (c + i - 1) + 1 /\ c + (i + 1) - 1 = c + i
      BY <1>1, <2>1
    <3>2. q[i].kind = "delta" /\ q[i].version = c + i /\ q[i].delta = Filtered(L, S, a, c + i - 1)
      BY <1>24, <2>1
    <3>3. e[i] = X(c + i - 1) /\ e[i + 1] = X((c + i - 1) + 1) /\ ks[i + 1] = c + i
      BY <1>12, <3>1
    <3>4. AfterMessage(e[i], q[i]) = Applied(X(c + i - 1), Filtered(L, S, a, c + i - 1))
      BY <3>2, <3>3 DEF AfterMessage
    <3> QED BY <1>9, <3>1, <3>2, <3>3, <3>4
  <2>2. CASE i \notin 1..n
    <3>0. Len(R) = 1 /\ Len(q) = n + 1
      BY <1>23, <2>2
    <3>1. i = n + 1 /\ Len(R) = 1 /\ i + 1 = n + 2 /\ n + 1 \in 1..(n + 1) /\ c + (n + 1) - 1 = v
      BY <1>1, <2>2, <3>0
    <3>2. q[i] = RepairSince(a, c, L, S) /\ q[i].kind # "delta"
      BY <1>2, <1>23, <3>1 DEF RepairSince
    <3>3. e[i] = X(v) /\ e[i + 1] = Y /\ ks[i] = v /\ ks[i + 1] = v
      BY <1>12, <1>13, <3>1
    <3>4. e[i + 1] = AfterMessage(e[i], q[i])
      BY <3>2, <3>3 DEF Y
    <3> QED BY <3>2, <3>3, <3>4
  <2> QED BY <2>1, <2>2
<1>19. Exact(e[Len(q) + 1], a, S)
  <2>1. CASE Len(R) = 1
    <3>1. Len(q) + 1 = n + 2
      BY <1>1, <1>2, <1>23, <2>1
    <3> QED BY <1>5, <1>13, <2>1, <3>1
  <2>2. CASE Len(R) = 0
    <3>1. Len(q) + 1 = n + 1 /\ n + 1 \in 1..(n + 1) /\ c + (n + 1) - 1 = v
      BY <1>1, <1>2, <1>23, <2>2
    <3> QED BY <1>2, <1>23, <1>11, <1>12, <2>2, <3>1
  <2> QED BY <1>2, <1>23, <2>1, <2>2
<1>20. ASSUME NEW i \in 1..(Len(q) + 1), \A j \in i..Len(q) : q[j].kind = "delta"
       PROVE  Recoverable(e[i], a, ks[i], L, S)
  <2>1. CASE i \in 1..(n + 1)
    <3>1. Len(R) # 1
      <4> SUFFICES ASSUME Len(R) = 1 PROVE FALSE
        OBVIOUS
      <4>1. n + 1 \in i..Len(q)
        BY <1>1, <1>2, <1>23, <2>1
      <4> QED BY <1>2, <1>23, <1>20, <4>1 DEF RepairSince
    <3> QED BY <1>2, <1>23, <1>3, <1>10, <1>12, <2>1, <3>1
  <2>2. CASE i = n + 2 /\ Len(R) = 1
    BY <1>7, <1>13, <2>2
  <2> QED BY <1>14, <2>1, <2>2
<1>21. Settling(e, ks, q, M, c, a, L, S)
  BY <1>15, <1>16, <1>17, <1>18, <1>19, <1>20 DEF Settling, v
<1>22. \E x, y : Settling(x, y, q, M, c, a, L, S)
  BY <1>21
<1> QED BY <1>22 DEF q

----------------------------------------------------------------------------
\* Every mirror, connected or not, is on its way to what its actor may read

Settles(a) == \E e, ks : Settling(e, ks, stream[a], mirror[a], cursor[a], a, log, store)

CatchesUp(a) == stream[a] = <<>> /\ Recoverable(mirror[a], a, cursor[a], log, store)

PastIsKnown == \E h : Past(h, log, store)

MirrorsOnTheirWay ==
  \A a \in Actor \ (shifted \cup cut) : IF a \in online THEN Settles(a) ELSE CatchesUp(a)

CatchUpInv == TypeInv /\ PastIsKnown /\ MirrorsOnTheirWay

LEMMA SettledAlready ==
  ASSUME NEW S \in SUBSET Triple, NEW M \in SUBSET Triple, NEW a, Exact(M, a, S),
         NEW L \in Seq(Delta), Len(L) = 0, NEW q, Len(q) = 0
  PROVE  \E e, ks : Settling(e, ks, q, M, 1, a, L, S)
<1> DEFINE e == [i \in 1..1 |-> M]
           ks == [i \in 1..1 |-> 1]
<1>1. Len(L) + 1 = 1 /\ Len(q) + 1 = 1
  OBVIOUS
<1>2. Recoverable(M, a, 1, L, S)
  BY <1>1, ExactIsRecoverable
<1>3. e \in [1..1 -> SUBSET Triple] /\ ks \in [1..1 -> 1..1] /\ e[1] = M /\ ks[1] = 1
  OBVIOUS
<1> HIDE DEF e, ks
<1>4. Settling(e, ks, q, M, 1, a, L, S)
  BY <1>1, <1>2, <1>3 DEF Settling
<1> QED BY <1>4

LEMMA CatchUpInit == Init => CatchUpInv
<1> SUFFICES ASSUME Init PROVE CatchUpInv
  OBVIOUS
<1>1. TypeInv
  BY TypeInit
<1>2. store \in SUBSET Triple /\ log = <<>> /\ Len(log) = 0 /\ log \in Seq(Delta)
  <2>1. store \in SUBSET Triple /\ log = <<>>
    BY FanOutAssumption DEF Init
  <2> QED BY <2>1
<1>3. PastIsKnown
  <2> DEFINE h == [k \in 1..1 |-> store]
  <2>1. h \in [1..1 -> SUBSET Triple] /\ h[1] = store /\ \A u \in 1..1, v \in 1..1 : h[u] = h[v]
    BY <1>2
  <2>2. PICK g : g = h
    OBVIOUS
  <2> HIDE DEF h
  <2>3. Past(g, log, store)
    BY <1>2, <2>1, <2>2 DEF Past
  <2> QED BY <2>3 DEF PastIsKnown
<1>4. ASSUME NEW a \in Actor PROVE Settles(a)
  <2>1. stream[a] = <<>> /\ Len(stream[a]) = 0 /\ cursor[a] = 1 /\ mirror[a] = Readable(store, a)
    BY DEF Init
  <2>2. mirror[a] \in SUBSET Triple
    BY <1>2, <2>1 DEF Readable
  <2>3. Exact(mirror[a], a, store)
    BY <2>1 DEF Exact
  <2>4. \E e, ks : Settling(e, ks, stream[a], mirror[a], 1, a, log, store)
    BY <1>2, <2>1, <2>2, <2>3, SettledAlready
  <2> QED BY <2>1, <2>4 DEF Settles
<1>5. online = Actor
  BY DEF Init
<1> QED BY <1>1, <1>3, <1>4, <1>5 DEF CatchUpInv, MirrorsOnTheirWay

\* What a commit does to a client it does not move by the actor's own record.
LEMMA CommitKeepsTheWay ==
  ASSUME CatchUpInv, NEW d \in Writes, Commit(d)
  PROVE  PastIsKnown' /\ MirrorsOnTheirWay'
<1>1. /\ d \in Delta /\ store \in SUBSET Triple /\ log \in Seq(Delta)
      /\ store' = Applied(store, d) /\ log' = Append(log, Effective(store, d))
      /\ UNCHANGED <<online, mirror, cursor, cut>>
  BY FanOutAssumption DEF Commit, CatchUpInv, TypeInv, FanOutTypeOK
<1>2. PastIsKnown'
  <2>1. PICK h : Past(h, log, store)
    BY DEF CatchUpInv, PastIsKnown
  <2>2. \E g : Past(g, Append(log, Effective(store, d)), Applied(store, d))
    BY <1>1, <2>1, PastGrows
  <2> QED BY <1>1, <2>2 DEF PastIsKnown
<1>3. ASSUME NEW a \in Actor \ (shifted' \cup cut')
      PROVE  IF a \in online' THEN Settles(a)' ELSE CatchesUp(a)'
  <2>1. /\ a \in Actor \ (shifted \cup cut)
        /\ Record(Applied(store, d), a) = Record(store, a)
        /\ stream[a] \in Seq(Message)
        /\ cursor[a] \in 1..(Len(log) + 1)
    BY <1>1, <1>3 DEF Commit, Message, CatchUpInv, TypeInv, FanOutTypeOK, Version
  <2>2. CASE a \in online
    <3>1. PICK e, ks : Settling(e, ks, stream[a], mirror[a], cursor[a], a, log, store)
      BY <2>1, <2>2 DEF CatchUpInv, MirrorsOnTheirWay, Settles
    <3> DEFINE m == [kind |-> "delta", version |-> Version + 1, delta |-> VisibleDelta(store, a, d)]
    <3>2. m.kind = "delta" /\ m.version = Len(log) + 2 /\ m.delta = VisibleDelta(store, a, d)
      BY <1>1 DEF Version
    <3>3. VisibleDelta(store, a, d) \in Delta /\ Version + 1 \in Nat
      BY <1>1, VisibleDeltaType DEF Version
    <3>4. m \in Message
      BY <3>3 DEF Message, DeltaMessage
    <3>5. stream'[a] = Append(stream[a], m)
      BY <2>1, <2>2 DEF Commit
    <3> HIDE DEF m
    <3>6. \E f, ls : Settling(f, ls, Append(stream[a], m), mirror[a], cursor[a], a,
                              Append(log, Effective(store, d)), Applied(store, d))
      BY <1>1, <2>1, <3>1, <3>2, <3>4, SettlingGrows
    <3>7. Settles(a)'
      BY <1>1, <3>5, <3>6 DEF Settles
    <3> QED BY <1>1, <2>2, <3>7
  <2>3. CASE a \notin online
    <3>1. /\ Recoverable(mirror[a], a, cursor[a], log, store)
          /\ stream[a] = <<>> /\ stream'[a] = stream[a]
      BY <2>1, <2>3 DEF CatchUpInv, MirrorsOnTheirWay, CatchesUp, Commit
    <3>2. Recoverable(mirror[a], a, cursor[a], Append(log, Effective(store, d)), Applied(store, d))
      BY <1>1, <2>1, <3>1, CommitKeepsRecoverable
    <3>3. CatchesUp(a)'
      BY <1>1, <3>1, <3>2 DEF CatchesUp
    <3> QED BY <1>1, <2>3, <3>3
  <2> QED BY <2>2, <2>3
<1> QED BY <1>2, <1>3 DEF MirrorsOnTheirWay

LEMMA ReceiveKeepsTheWay ==
  ASSUME CatchUpInv, NEW b \in Actor, Receive(b)
  PROVE  PastIsKnown' /\ MirrorsOnTheirWay'
<1>1. UNCHANGED <<store, log, online, shifted, cut>> /\ log \in Seq(Delta)
  BY DEF Receive, CatchUpInv, TypeInv, FanOutTypeOK
<1>2. PastIsKnown'
  BY <1>1 DEF CatchUpInv, PastIsKnown
<1>3. ASSUME NEW a \in Actor \ (shifted' \cup cut')
      PROVE  IF a \in online' THEN Settles(a)' ELSE CatchesUp(a)'
  <2>1. a \in Actor \ (shifted \cup cut) /\ stream[a] \in Seq(Message)
    BY <1>1, <1>3 DEF Message, CatchUpInv, TypeInv, FanOutTypeOK
  <2>2. CASE a # b
    <3>1. stream'[a] = stream[a] /\ mirror'[a] = mirror[a] /\ cursor'[a] = cursor[a]
      BY <2>1, <2>2 DEF Receive, CatchUpInv, TypeInv, FanOutTypeOK
    <3>2. IF a \in online THEN Settles(a) ELSE CatchesUp(a)
      BY <2>1 DEF CatchUpInv, MirrorsOnTheirWay
    <3> QED BY <1>1, <3>1, <3>2 DEF Settles, CatchesUp
  <2>3. CASE a = b
    <3>1. /\ stream[a] # <<>> /\ stream'[a] = Tail(stream[a])
          /\ mirror'[a] = AfterMessage(mirror[a], Head(stream[a]))
          /\ cursor'[a] = IF Head(stream[a]).kind = "delta" THEN Head(stream[a]).version ELSE cursor[a]
      BY <2>1, <2>3 DEF Receive, CatchUpInv, TypeInv, FanOutTypeOK
    <3>2. a \in online
      BY <2>1, <3>1 DEF CatchUpInv, MirrorsOnTheirWay, CatchesUp
    <3>3. PICK e, ks : Settling(e, ks, stream[a], mirror[a], cursor[a], a, log, store)
      BY <2>1, <3>2 DEF CatchUpInv, MirrorsOnTheirWay, Settles
    <3>4. \E f, ls : Settling(f, ls, Tail(stream[a]), AfterMessage(mirror[a], Head(stream[a])),
                              IF Head(stream[a]).kind = "delta" THEN Head(stream[a]).version
                              ELSE cursor[a], a, log, store)
      BY <1>1, <2>1, <3>1, <3>3, SettlingReads
    <3>5. Settles(a)'
      BY <1>1, <3>1, <3>4 DEF Settles
    <3> QED BY <1>1, <3>2, <3>5
  <2> QED BY <2>2, <2>3
<1> QED BY <1>2, <1>3 DEF MirrorsOnTheirWay

\* A connection that breaks before the repair is read is not answered for; before that
\* only deltas are lost, and the next catch-up covers them.
LEMMA DropKeepsTheWay ==
  ASSUME CatchUpInv, NEW b \in Actor, Drop(b)
  PROVE  PastIsKnown' /\ MirrorsOnTheirWay'
<1>1. UNCHANGED <<store, log, shifted, mirror, cursor>> /\ online' = online \ {b} /\ cut \subseteq cut'
  BY DEF Drop
<1>2. PastIsKnown'
  BY <1>1 DEF CatchUpInv, PastIsKnown
<1>3. ASSUME NEW a \in Actor \ (shifted' \cup cut')
      PROVE  IF a \in online' THEN Settles(a)' ELSE CatchesUp(a)'
  <2>1. a \in Actor \ (shifted \cup cut) /\ stream[a] \in Seq(Message)
    BY <1>1, <1>3 DEF Message, CatchUpInv, TypeInv, FanOutTypeOK
  <2>2. CASE a # b
    <3>1. stream'[a] = stream[a]
      BY <2>1, <2>2 DEF Drop, CatchUpInv, TypeInv, FanOutTypeOK
    <3>2. IF a \in online THEN Settles(a) ELSE CatchesUp(a)
      BY <2>1 DEF CatchUpInv, MirrorsOnTheirWay
    <3>3. a \in online <=> a \in online'
      BY <1>1, <2>2
    <3> QED BY <1>1, <3>1, <3>2, <3>3 DEF Settles, CatchesUp
  <2>3. CASE a = b
    <3>1. stream'[a] = <<>> /\ a \in online /\ a \notin online'
      BY <1>1, <2>1, <2>3 DEF Drop, CatchUpInv, TypeInv, FanOutTypeOK
    <3>2. \A i \in DOMAIN stream[a] : stream[a][i].kind # "repair"
      BY <1>3, <2>3 DEF Drop
    <3>3. \A j \in 1..Len(stream[a]) : stream[a][j].kind = "delta"
      <4> TAKE j \in 1..Len(stream[a])
      <4>1. stream[a][j] \in Message /\ stream[a][j].kind # "repair"
        BY <2>1, <3>2
      <4> QED BY <4>1 DEF Message, DeltaMessage, RepairMessage
    <3>4. PICK e, ks : Settling(e, ks, stream[a], mirror[a], cursor[a], a, log, store)
      BY <2>1, <3>1 DEF CatchUpInv, MirrorsOnTheirWay, Settles
    <3>5. e[1] = mirror[a] /\ ks[1] = cursor[a] /\ 1 \in 1..(Len(stream[a]) + 1)
      BY <2>1, <3>4 DEF Settling
    <3>6. Recoverable(e[1], a, ks[1], log, store)
      BY <3>3, <3>4, <3>5 DEF Settling
    <3> QED BY <1>1, <3>1, <3>5, <3>6 DEF CatchesUp
  <2> QED BY <2>2, <2>3
<1> QED BY <1>2, <1>3 DEF MirrorsOnTheirWay

LEMMA ReconnectKeepsTheWay ==
  ASSUME CatchUpInv, NEW b \in Actor, Reconnect(b)
  PROVE  PastIsKnown' /\ MirrorsOnTheirWay'
<1>1. /\ UNCHANGED <<store, log, shifted, cut, mirror, cursor>>
      /\ online' = online \cup {b} /\ b \notin online
  BY DEF Reconnect
<1>2. PastIsKnown'
  BY <1>1 DEF CatchUpInv, PastIsKnown
<1>3. ASSUME NEW a \in Actor \ (shifted' \cup cut')
      PROVE  IF a \in online' THEN Settles(a)' ELSE CatchesUp(a)'
  <2>1. a \in Actor \ (shifted \cup cut)
    BY <1>1, <1>3
  <2>2. CASE a # b
    <3>1. stream'[a] = stream[a]
      BY <2>1, <2>2 DEF Reconnect, CatchUpInv, TypeInv, FanOutTypeOK
    <3>2. IF a \in online THEN Settles(a) ELSE CatchesUp(a)
      BY <2>1 DEF CatchUpInv, MirrorsOnTheirWay
    <3>3. a \in online <=> a \in online'
      BY <1>1, <2>2
    <3> QED BY <1>1, <3>1, <3>2, <3>3 DEF Settles, CatchesUp
  <2>3. CASE a = b
    <3> DEFINE c == cursor[a]
    <3>1. /\ log \in Seq(Delta) /\ c \in 1..(Len(log) + 1) /\ mirror[a] \in SUBSET Triple
          /\ store \in SUBSET Triple /\ FanOutTypeOK /\ Version = Len(log) + 1
      BY <2>1 DEF CatchUpInv, TypeInv, FanOutTypeOK, Version
    <3>2. Recoverable(mirror[a], a, c, log, store)
      BY <1>1, <2>1, <2>3 DEF CatchUpInv, MirrorsOnTheirWay, CatchesUp
    <3>3. PICK h : Past(h, log, store)
      BY DEF CatchUpInv, PastIsKnown
    <3>4. Backlog(a) \in Seq(DeltaMessage) /\ Repair(a) \in Seq(RepairMessage)
      BY <2>1, <3>1, BacklogType, RepairType
    <3>5. /\ Len(Backlog(a)) = Len(log) + 1 - c
          /\ \A i \in 1..Len(Backlog(a)) :
               /\ Backlog(a)[i].kind = "delta" /\ Backlog(a)[i].version = c + i
               /\ Backlog(a)[i].delta = Filtered(log, store, a, c + i - 1)
      <4>1. Len(log) \in Nat /\ c \in Nat /\ Len(log) + 1 - c \in Nat
        BY <3>1
      <4>2. DOMAIN Backlog(a) = 1..(Len(log) + 1 - c)
        BY <3>1 DEF Backlog
      <4>3. Len(Backlog(a)) = Len(log) + 1 - c
        BY <3>4, <4>1, <4>2
      <4>4. \A i \in 1..(Len(log) + 1 - c) :
               /\ Backlog(a)[i].kind = "delta" /\ Backlog(a)[i].version = c + i
               /\ Backlog(a)[i].delta = Filtered(log, store, a, c + i - 1)
        BY <3>1 DEF Backlog, Filtered
      <4> QED BY <4>3, <4>4
    <3>6. RepairOf(a) = RepairSince(a, c, log, store)
      BY MissedIsSince DEF RepairOf, Repaired, RepairSince
    <3>7. (Repair(a) = <<>> /\ NoRepair(a, c, log, store)) \/ Repair(a) = <<RepairSince(a, c, log, store)>>
      <4>1. CASE c = Version
        <5>1. \A t : ~ Touched(log, t, c, Len(log) + 1)
          BY <3>1, <4>1 DEF Touched
        <5>2. \A t : t \notin Since(log, c).added \cup Since(log, c).removed
          BY <3>1, <5>1, SinceTyped
        <5>3. NoRepair(a, c, log, store)
          BY <5>2 DEF NoRepair, Affected
        <5> QED BY <4>1, <5>3 DEF Repair
      <4>2. CASE RepairOf(a).evict = {} /\ RepairOf(a).refresh = {}
        <5>1. RepairSince(a, c, log, store).evict = {} /\ RepairSince(a, c, log, store).refresh = {}
          BY <3>6, <4>2
        <5>2. \A s \in Affected(Since(log, c), store) : CanSee(store, a, s)
          BY <5>1 DEF RepairSince
        <5>3. NoRepair(a, c, log, store)
          BY <5>1, <5>2 DEF RepairSince, NoRepair
        <5> QED BY <4>2, <5>3 DEF Repair
      <4> QED BY <3>6, <4>1, <4>2 DEF Repair
    <3> HIDE DEF c
    <3>8. \E e, ks : Settling(e, ks, Backlog(a) \o Repair(a), mirror[a], c, a, log, store)
      BY <3>1, <3>2, <3>3, <3>4, <3>5, <3>7, SettlingStarts
    <3>9. stream'[a] = Backlog(a) \o Repair(a) /\ a \in online'
      BY <2>1, <2>3 DEF Reconnect, CatchUpInv, TypeInv, FanOutTypeOK
    <3>10. Settles(a)'
      BY <1>1, <3>8, <3>9 DEF Settles, c
    <3> QED BY <3>9, <3>10
  <2> QED BY <2>2, <2>3
<1> QED BY <1>2, <1>3 DEF MirrorsOnTheirWay

LEMMA CatchUpStep == CatchUpInv /\ [Next]_vars => CatchUpInv'
<1> SUFFICES ASSUME CatchUpInv, [Next]_vars PROVE CatchUpInv'
  OBVIOUS
<1>1. TypeInv'
  BY TypeStep DEF CatchUpInv
<1>2. ASSUME UNCHANGED vars PROVE PastIsKnown' /\ MirrorsOnTheirWay'
  BY <1>2 DEF CatchUpInv, vars, PastIsKnown, MirrorsOnTheirWay, Settles, CatchesUp
<1>3. ASSUME Next PROVE PastIsKnown' /\ MirrorsOnTheirWay'
  BY <1>3, CommitKeepsTheWay, ReceiveKeepsTheWay, DropKeepsTheWay, ReconnectKeepsTheWay DEF Next
<1> QED BY <1>1, <1>2, <1>3 DEF CatchUpInv

\* A client that came back holds, once it has read backlog and repair, what its actor may
\* read of the fields without a rule of their own, whatever was granted, revoked, deleted
\* or recreated while it was away (the catch-up of subscribe, SPEC 10.6).
THEOREM CaughtUpMirrorAlwaysExact == Spec => []CaughtUpMirrorIsExact
<1>1. CatchUpInv => CaughtUpMirrorIsExact
  <2> SUFFICES ASSUME CatchUpInv, NEW a \in away \ (shifted \cup cut), CaughtUp(a)
               PROVE  Exact(mirror[a], a, store)
    BY DEF CaughtUpMirrorIsExact, Exact
  <2>1. a \in Actor \ (shifted \cup cut) /\ a \in online /\ stream[a] = <<>>
    BY DEF CaughtUp, CatchUpInv, TypeInv, FanOutTypeOK
  <2>2. PICK e, ks : Settling(e, ks, stream[a], mirror[a], cursor[a], a, log, store)
    BY <2>1 DEF CatchUpInv, MirrorsOnTheirWay, Settles
  <2>3. Len(stream[a]) + 1 = 1
    BY <2>1
  <2> QED BY <2>2, <2>3 DEF Settling
<1> QED BY <1>1, CatchUpInit, CatchUpStep, PTL DEF Spec
=============================================================================
