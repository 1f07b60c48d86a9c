----------------------------- MODULE Sync_proof -----------------------------
(***************************************************************************)
(* For every set of triples, queries and writes, and any number of         *)
(* commits, faults and restarts: the stream skips no version, and a cache  *)
(* that did not race is as new as its cursor says and, once it has read    *)
(* its stream, agrees with the server.                                     *)
(***************************************************************************)
EXTENDS Sync, Storage_proof

Message == HelloMessage \cup ResyncMessage \cup DeltaMessage

SavedCache == [confirmed : SUBSET Readable, cursor : Nat, known : Nat,
               held : SUBSET Query, basis : Nat, pure : BOOLEAN, raced : BOOLEAN,
               epoch : Nat]

Typing == SyncTypeOK /\ saved \in SavedCache

\* Nothing carries the epoch of a history that has not begun, or a triple the
\* actor may not read.
InFlightInv ==
  /\ \A i \in DOMAIN stream : stream[i].kind = "delta" =>
       stream[i].epoch <= epoch /\ stream[i].delta.added \subseteq Readable
  /\ \A a \in answers : a.epoch <= epoch /\ a.triples \subseteq Readable
  /\ \A a \in acks : a.epoch <= epoch /\ a.delta.added \subseteq Readable
  /\ saved.epoch <= epoch

\* While a request is out nothing can be read, so the cursor it carries stands.
AskedInv ==
  link = "asked" => stream = <<>> /\ (since > 0 => cursor = since)

\* A stream: n messages of handshake, then the deltas after version base.
Shape(s, n, base) ==
  /\ n \in 0..Len(s) /\ base \in Nat
  /\ \A i \in 1..n : s[i].kind # "delta"
  /\ \A i \in (n + 1)..Len(s) : s[i].kind = "delta" /\ s[i].version = base + (i - n)

StreamInv ==
  \E n, base \in Nat :
    /\ Shape(stream, n, base)
    /\ base = from \/ base <= cursor
    /\ from <= base
    /\ n > 0 => base = from
    /\ link = "up" => base + (Len(stream) - n) = Version

\* d is what the actor sees of the step of the history h into version v.
TrueDelta(h, last, v, d) ==
  /\ v \in 1..last
  /\ \E full \in Delta : d = Visible(full, Readable) /\ h[v + 1] = Applied(h[v], full)

TrueAnswer(h, last, a) ==
  a.version <= last /\ a.triples = a.query \cap Readable \cap h[a.version + 1]

\* Everything in flight from the present epoch tells the truth about it.
Truth ==
  /\ \A i \in DOMAIN stream :
       stream[i].kind = "delta" /\ stream[i].epoch = epoch =>
         TrueDelta(history, Version, stream[i].version, stream[i].delta)
  /\ \A a \in acks : a.epoch = epoch /\ ~ IsEmptyDelta(a.delta) =>
       TrueDelta(history, Version, a.version, a.delta)
  /\ \A a \in answers : a.epoch = epoch => TrueAnswer(history, Version, a)

\* No triple and no absence in a cache of triples c and queries q is older than b.
Dates(h, last, c, qs, b) ==
  /\ \A t \in c : \E w \in b..last : t \in h[w + 1]
  /\ \A q \in qs : \A t \in (q \cap Readable) \ c : \E w \in b..last : t \notin h[w + 1]

\* basis is what its comment says it is.
BasisInv ==
  pure => /\ Dates(history, Version, confirmed, held, basis)
          /\ ~ Fresh => basis <= Version

Settled == pure /\ ~ raced /\ ~ Fresh

\* A cache that has not raced has nothing older than its cursor, nor than the
\* version its stream starts from.
CursorInv == Settled => cursor <= basis

FromInv ==
  /\ Settled
  /\ \A i \in DOMAIN stream : stream[i].kind # "resync"
  /\ link = "up" \/ stream # <<>>
  => from <= basis

\* The same of the saved cache, as long as its epoch lasts.
SavedInv ==
  (saved.pure /\ saved.epoch = epoch) =>
    /\ Dates(history, Version, saved.confirmed, saved.held, saved.basis)
    /\ ~ (saved.confirmed = {} /\ saved.held = {}) =>
         /\ saved.basis <= Version
         /\ ~ saved.raced => saved.cursor <= saved.basis

CacheInv == BasisInv /\ CursorInv /\ FromInv /\ SavedInv

SyncInv == Inv /\ Typing /\ InFlightInv /\ AskedInv /\ StreamInv /\ Truth /\ CacheInv

----------------------------------------------------------------------------
\* What a delta or an answer does to the age of a cache.

LEMMA DatesOfNothing ==
  ASSUME NEW h, NEW last, NEW b PROVE Dates(h, last, {}, {}, b)
  BY DEF Dates

\* Commits only add versions.
LEMMA DatesLast ==
  ASSUME NEW h, NEW last \in Nat, NEW h2, NEW last2 \in Nat, NEW c, NEW qs, NEW b \in Nat,
         last <= last2, \A v \in 1..(last + 1) : h2[v] = h[v],
         Dates(h, last, c, qs, b)
  PROVE  Dates(h2, last2, c, qs, b)
<1>1. \A w \in b..last : w \in b..last2 /\ h2[w + 1] = h[w + 1]
  OBVIOUS
<1> QED BY <1>1 DEF Dates

\* A later bound says more.
LEMMA DatesEarlier ==
  ASSUME NEW h, NEW last \in Nat, NEW c, NEW qs, NEW b \in Nat, NEW b2 \in Nat,
         b2 <= b, Dates(h, last, c, qs, b)
  PROVE  Dates(h, last, c, qs, b2)
<1>1. \A w \in b..last : w \in b2..last
  OBVIOUS
<1> QED BY <1>1 DEF Dates

\* A true delta leaves a cache that was complete through the version before it
\* complete through its own, and any other no older than it was.
LEMMA DatesPatched ==
  ASSUME NEW h, NEW last \in Nat, NEW c \in SUBSET Readable, NEW qs,
         NEW b \in Nat, NEW b2 \in Nat, NEW v \in Nat, NEW d,
         TrueDelta(h, last, v, d), Dates(h, last, c, qs, b),
         b2 <= v, b2 <= b \/ v - 1 <= b
  PROVE  Dates(h, last, Applied(c, d), qs, b2)
<1>1. PICK full \in Delta : d = Visible(full, Readable) /\ h[v + 1] = Applied(h[v], full)
  BY DEF TrueDelta
<1>2. v \in b2..last
  BY DEF TrueDelta
<1>3. \A w \in b..last : w \in b2..last \/ w = v - 1
  OBVIOUS
<1>4. h[(v - 1) + 1] = h[v]
  OBVIOUS
<1>5. ASSUME NEW t \in Applied(c, d) PROVE \E w \in b2..last : t \in h[w + 1]
  <2>1. CASE t \in d.added
    BY <1>1, <1>2, <2>1 DEF Applied, Visible
  <2>2. CASE t \notin d.added
    <3>1. t \in c /\ t \notin d.removed /\ t \notin full.removed
      BY <1>1, <1>5, <2>2 DEF Applied, Visible
    <3>2. PICK w \in b..last : t \in h[w + 1]
      BY <3>1 DEF Dates
    <3>3. CASE w \in b2..last
      BY <3>2, <3>3
    <3>4. CASE w = v - 1
      <4>1. t \in h[v + 1]
        BY <1>1, <1>4, <3>1, <3>2, <3>4 DEF Applied
      <4> QED BY <1>2, <4>1
    <3> QED BY <1>3, <3>3, <3>4
  <2> QED BY <2>1, <2>2
<1>6. ASSUME NEW q \in qs, NEW t \in (q \cap Readable) \ Applied(c, d)
      PROVE  \E w \in b2..last : t \notin h[w + 1]
  <2>1. t \notin full.added
    BY <1>1 DEF Applied, Visible
  <2>2. CASE t \in full.removed
    BY <1>1, <1>2, <2>1, <2>2 DEF Applied
  <2>3. CASE t \notin full.removed
    <3>1. t \notin c
      BY <1>1, <2>3 DEF Applied, Visible
    <3>2. PICK w \in b..last : t \notin h[w + 1]
      BY <3>1 DEF Dates
    <3>3. CASE w \in b2..last
      BY <3>2, <3>3
    <3>4. CASE w = v - 1
      <4>1. t \notin h[v + 1]
        BY <1>1, <1>4, <2>1, <3>2, <3>4 DEF Applied
      <4> QED BY <1>2, <4>1
    <3> QED BY <1>3, <3>3, <3>4
  <2> QED BY <2>2, <2>3
<1> QED BY <1>5, <1>6 DEF Dates

\* A true answer is as old as its version.
LEMMA DatesMerged ==
  ASSUME NEW h, NEW last \in Nat, NEW c, NEW qs, NEW b \in Nat, NEW b2 \in Nat, NEW a,
         a.version \in Nat, TrueAnswer(h, last, a), Dates(h, last, c, qs, b),
         b2 <= b, b2 <= a.version
  PROVE  Dates(h, last, c \cup a.triples, qs \cup {a.query}, b2)
<1>1. Dates(h, last, c, qs, b2)
  BY DatesEarlier
<1>2. a.version \in b2..last
  BY DEF TrueAnswer
<1>3. \A t \in a.triples : t \in h[a.version + 1]
  BY DEF TrueAnswer
<1>4. \A t \in (a.query \cap Readable) \ (c \cup a.triples) : t \notin h[a.version + 1]
  BY DEF TrueAnswer
<1> QED BY <1>1, <1>2, <1>3, <1>4 DEF Dates

\* Closing a query drops only what no other needs.
LEMMA DatesClosed ==
  ASSUME NEW h, NEW last, NEW c, NEW qs, NEW b, NEW l, Dates(h, last, c, qs, b)
  PROVE  Dates(h, last, c \cap UNION l, qs \cap l, b)
  BY DEF Dates

----------------------------------------------------------------------------
\* The server's step: the log, its compaction and the fan-out in one handler.

LEMMA ServerSame ==
  ASSUME Inv, UNCHANGED <<mem, history>>
  PROVE  Inv' /\ Version' = Version
  BY DEF Inv, MemTypeOK, LogIsDense, StateIsFold, Version, VersionOf

LEMMA ServerFacts ==
  ASSUME Inv
  PROVE  /\ Version \in Nat /\ Len(history) = Version + 1
         /\ history \in Seq(SUBSET Triple) /\ At(Version) = mem.store
<1>1. /\ mem.floor \in Nat /\ mem.log \in Seq(Entry) /\ history \in Seq(SUBSET Triple)
      /\ Len(history) = VersionOf(mem) + 1 /\ mem.store = history[Len(history)]
  BY DEF Inv, MemTypeOK, LogIsDense, StateIsFold
<1>2. VersionOf(mem) \in Nat
  BY <1>1 DEF VersionOf
<1> QED BY <1>1, <1>2 DEF Version, At

\* #compactIfDue changes neither the store nor the version.
LEMMA CompactedIfDue ==
  ASSUME NEW m, NEW h, Good(m, h), NEW retain \in Nat
  PROVE  /\ Good(CompactIfDue(m, retain), h)
         /\ VersionOf(CompactIfDue(m, retain)) = VersionOf(m)
<1> DEFINE upTo == VersionOf(m) - retain
           to == IF upTo < VersionOf(m) THEN upTo ELSE VersionOf(m)
<1>1. m.floor \in Nat /\ m.log \in Seq(Entry) /\ VersionOf(m) \in Nat
  BY DEF Good, Typed, VersionOf
<1>2. to \in Int /\ to <= VersionOf(m)
  BY <1>1
<1>3. CASE retain > 0 /\ VersionOf(m) % retain = 0 /\ ~ (to <= m.floor)
  <2>1. CompactIfDue(m, retain) = Suffix(m, to)
    BY <1>3 DEF CompactIfDue, Compacted, Suffix
  <2> HIDE DEF to
  <2>2. to \in Nat /\ m.floor < to
    BY <1>1, <1>2, <1>3
  <2>3. VersionOf(Suffix(m, to)) = VersionOf(m)
    BY <1>2, <2>2, GoodSuffix
  <2>4. Good(Suffix(m, to), h)
    BY <1>2, <2>2, SuffixKeepsGood
  <2> QED BY <2>1, <2>3, <2>4
<1>4. CASE ~ (retain > 0 /\ VersionOf(m) % retain = 0 /\ ~ (to <= m.floor))
  <2>1. CompactIfDue(m, retain) = m
    BY <1>4 DEF CompactIfDue, Compacted
  <2> QED BY <2>1
<1> QED BY <1>3, <1>4

\* A commit that changes nothing leaves the server as it is; any other is the next
\* version, and the state it leads to is the store with the delta applied.
LEMMA CommitEffect ==
  ASSUME Inv, NEW d \in Delta, CommitDelta(d), RetainLog \in Nat
  PROVE  /\ Inv'
         /\ Appended(mem, d) = mem =>
              /\ UNCHANGED <<mem, history>> /\ Version' = Version
              /\ stream' = stream
         /\ Appended(mem, d) # mem =>
              /\ history' = Append(history, Applied(mem.store, d))
              /\ Version' = Version + 1
              /\ stream' = IF link = "up"
                           THEN Append(stream, DeltaOf(Version + 1, Visible(d, Readable)))
                           ELSE stream
<1> DEFINE next == Appended(mem, d)
<1>1. Good(mem, history)
  BY InvIsGood
<1>2. CASE IsEmptyDelta(Effective(mem.store, d))
  <2>1. next = mem
    BY <1>2 DEF Appended
  <2>2. UNCHANGED <<mem, history>>
    BY <2>1, ServerFacts DEF CommitDelta, Stored, Record, Version
  <2>3. stream' = stream
    BY <2>1 DEF CommitDelta, FanOut
  <2> QED BY <2>1, <2>2, <2>3, ServerSame
<1>3. CASE ~ IsEmptyDelta(Effective(mem.store, d))
  <2> DEFINE h2 == Append(history, Applied(mem.store, d))
  <2>1. /\ next.store = Applied(mem.store, d) /\ VersionOf(next) = VersionOf(mem) + 1
        /\ Good(next, h2)
    BY <1>1, <1>3, GoodAppended, AppendKeepsGood
  <2>2. next # mem
    <3>1. VersionOf(mem) \in Nat
      BY ServerFacts DEF Version
    <3> QED BY <2>1, <3>1
  <2>3. mem' = CompactIfDue(next, RetainLog)
    BY <2>2 DEF CommitDelta, Stored
  <2>4. history' = h2
    BY <2>1, ServerFacts DEF CommitDelta, Record, Version
  <2>5. Good(mem', history') /\ VersionOf(mem') = VersionOf(mem) + 1
    <3> HIDE DEF next, h2
    <3> QED BY <2>1, <2>3, <2>4, CompactedIfDue
  <2>6. Inv' /\ Version' = Version + 1
    BY <2>5, InvIsGood DEF Version, VersionOf
  <2>7. stream' = IF link = "up"
                  THEN Append(stream, DeltaOf(Version + 1, Visible(d, Readable)))
                  ELSE stream
    BY <2>2 DEF CommitDelta, FanOut
  <2> QED BY <2>2, <2>4, <2>6, <2>7
<1> QED BY <1>2, <1>3

----------------------------------------------------------------------------
\* What sending and reading do to a stream.

LEMMA ShapeSent ==
  ASSUME NEW s \in Seq(Message), NEW n, NEW base, Shape(s, n, base), NEW m \in Message,
         m.kind = "delta", m.version = base + (Len(s) - n) + 1
  PROVE  Shape(Append(s, m), n, base)
<1> DEFINE t == Append(s, m)
<1>1. /\ Len(s) \in Nat /\ Len(t) = Len(s) + 1 /\ t[Len(s) + 1] = m
      /\ \A i \in 1..Len(s) : t[i] = s[i]
  OBVIOUS
<1>2. /\ n \in 0..Len(s) /\ base \in Nat
      /\ \A i \in 1..n : s[i].kind # "delta"
      /\ \A i \in (n + 1)..Len(s) : s[i].kind = "delta" /\ s[i].version = base + (i - n)
  BY DEF Shape
<1> HIDE DEF t
<1>3. \A i \in 1..n : t[i].kind # "delta"
  BY <1>1, <1>2
<1>4. ASSUME NEW i \in (n + 1)..Len(t)
      PROVE  t[i].kind = "delta" /\ t[i].version = base + (i - n)
  <2>1. CASE i \in 1..Len(s)
    BY <1>1, <1>2, <1>4, <2>1
  <2>2. CASE i = Len(s) + 1
    <3>1. base + (Len(s) - n) + 1 = base + (i - n)
      BY <1>1, <1>2, <2>2
    <3> QED BY <1>1, <2>2, <3>1
  <2> QED BY <1>1, <1>2, <2>1, <2>2
<1>5. Shape(t, n, base)
  BY <1>1, <1>2, <1>3, <1>4 DEF Shape
<1> QED BY <1>5 DEF t

LEMMA TailFacts ==
  ASSUME NEW s \in Seq(Message), s # <<>>
  PROVE  /\ Len(s) \in Nat \ {0} /\ Head(s) = s[1] /\ Head(s) \in Message
         /\ Tail(s) \in Seq(Message) /\ Len(Tail(s)) = Len(s) - 1
         /\ \A i \in 1..(Len(s) - 1) : Tail(s)[i] = s[i + 1]
         /\ \A i \in DOMAIN Tail(s) : i + 1 \in DOMAIN s /\ Tail(s)[i] = s[i + 1]
  OBVIOUS

\* Reading a message of the handshake leaves one less of it.
LEMMA ShapeGreeted ==
  ASSUME NEW s \in Seq(Message), s # <<>>, NEW n, NEW base, Shape(s, n, base),
         Head(s).kind # "delta"
  PROVE  n - 1 \in Nat /\ n > 0 /\ Shape(Tail(s), n - 1, base)
<1>1. n \in 0..Len(s) /\ base \in Nat /\ Len(s) \in Nat \ {0}
  BY TailFacts DEF Shape
<1>2. n > 0
  <2>1. SUFFICES ASSUME n = 0 PROVE FALSE
    BY <1>1
  <2>2. 1 \in (n + 1)..Len(s)
    BY <1>1, <2>1
  <2> QED BY <2>2, TailFacts DEF Shape
<1>3. \A i \in 1..(n - 1) : i + 1 \in 1..n /\ i \in 1..(Len(s) - 1)
  BY <1>1, <1>2
<1>4. \A i \in n..(Len(s) - 1) :
         /\ i + 1 \in (n + 1)..Len(s) /\ i \in 1..(Len(s) - 1)
         /\ (i + 1) - n = i - (n - 1)
  BY <1>1, <1>2
<1>5. \A i \in n..(Len(s) - 1) :
         Tail(s)[i].kind = "delta" /\ Tail(s)[i].version = base + (i - (n - 1))
  BY <1>4, TailFacts DEF Shape
<1>6. \A i \in 1..(n - 1) : Tail(s)[i].kind # "delta"
  BY <1>3, TailFacts DEF Shape
<1>7. n - 1 \in 0..Len(Tail(s)) /\ (n - 1) + 1 = n /\ Len(Tail(s)) = Len(s) - 1
  BY <1>1, <1>2, TailFacts
<1> QED BY <1>1, <1>2, <1>5, <1>6, <1>7 DEF Shape

\* Reading a delta moves the base: it is the next version.
LEMMA ShapeRead ==
  ASSUME NEW s \in Seq(Message), s # <<>>, NEW n, NEW base, Shape(s, n, base),
         Head(s).kind = "delta"
  PROVE  /\ n = 0 /\ Head(s).version = base + 1 /\ Shape(Tail(s), 0, base + 1)
         /\ \A i \in DOMAIN s : s[i].kind = "delta"
<1>1. n \in 0..Len(s) /\ base \in Nat /\ Len(s) \in Nat \ {0}
  BY TailFacts DEF Shape
<1>2. n = 0
  <2>1. SUFFICES ASSUME n > 0 PROVE FALSE
    BY <1>1
  <2>2. 1 \in 1..n
    BY <1>1, <2>1
  <2> QED BY <2>2, TailFacts DEF Shape
<1>3. \A i \in 1..Len(s) : s[i].kind = "delta" /\ s[i].version = base + i
  BY <1>1, <1>2 DEF Shape
<1>4. Head(s).version = base + 1
  BY <1>1, <1>3, TailFacts
<1>5. \A i \in 1..(Len(s) - 1) :
         Tail(s)[i].kind = "delta" /\ Tail(s)[i].version = (base + 1) + (i - 0)
  BY <1>1, <1>3, TailFacts
<1>6. Shape(Tail(s), 0, base + 1)
  BY <1>1, <1>5, TailFacts DEF Shape
<1>7. \A i \in DOMAIN s : s[i].kind = "delta"
  BY <1>3
<1> QED BY <1>2, <1>4, <1>6, <1>7

\* What was true of a history stays true when commits are added to it.
LEMMA TruthLasts ==
  ASSUME NEW h, NEW last \in Nat, NEW h2, NEW last2 \in Nat, last <= last2,
         \A v \in 1..(last + 1) : h2[v] = h[v]
  PROVE  /\ \A v, d : TrueDelta(h, last, v, d) => TrueDelta(h2, last2, v, d)
         /\ \A a : a.version \in Nat /\ TrueAnswer(h, last, a) => TrueAnswer(h2, last2, a)
<1>1. ASSUME NEW v, NEW d, TrueDelta(h, last, v, d) PROVE TrueDelta(h2, last2, v, d)
  <2>1. v \in 1..last2 /\ v \in 1..(last + 1) /\ v + 1 \in 1..(last + 1)
    BY <1>1 DEF TrueDelta
  <2> QED BY <1>1, <2>1 DEF TrueDelta
<1>2. ASSUME NEW a, a.version \in Nat, TrueAnswer(h, last, a) PROVE TrueAnswer(h2, last2, a)
  <2>1. a.version <= last2 /\ a.version + 1 \in 1..(last + 1)
    BY <1>2 DEF TrueAnswer
  <2> QED BY <1>2, <2>1 DEF TrueAnswer
<1> QED BY <1>1, <1>2

----------------------------------------------------------------------------
\* The invariant is inductive: the server's writes.

LEMMA Types ==
  ASSUME SyncInv
  PROVE  /\ epoch \in Nat /\ known \in Nat /\ since \in Nat /\ from \in Nat
         /\ link \in {"down", "asked", "up"} /\ stream \in Seq(Message)
         /\ confirmed \in SUBSET Readable /\ confirmed \subseteq Readable
         /\ cursor \in Nat /\ basis \in Nat /\ pure \in BOOLEAN /\ raced \in BOOLEAN
         /\ live \in SUBSET Query /\ held \in SUBSET Query /\ failed \subseteq live
         /\ asked \subseteq Load /\ \A a \in answers : a \in Answer
         /\ \A a \in acks : a \in Ack
         /\ saved \in SavedCache
         /\ Version \in Nat /\ RetainLog \in Nat /\ Query \subseteq SUBSET Triple
         /\ Readable \subseteq Triple /\ MaxAttempts \in Nat \ {0}
<1>1. Version \in Nat
  BY ServerFacts DEF SyncInv
<1> QED BY <1>1, SyncAssumption, StorageAssumption DEF SyncInv, Typing, SyncTypeOK, Message

LEMMA VisibleTyped ==
  ASSUME NEW d \in Delta PROVE Visible(d, Readable) \in Delta
  BY DEF Delta, Visible

LEMMA InitSync == Init => SyncInv
<1> SUFFICES ASSUME Init PROVE SyncInv
  OBVIOUS
<1>1. Inv
  BY InvInit DEF Init
<1>2. Typing
  <2>1. SyncTypeOK
    <3>1. MemTypeOK
      BY <1>1 DEF Inv
    <3>2. stream \in Seq(HelloMessage \cup ResyncMessage \cup DeltaMessage)
      BY DEF Init
    <3>3. pure \in BOOLEAN /\ raced \in BOOLEAN
      BY Zenon DEF Init
    <3> QED BY <3>1, <3>2, <3>3 DEF Init, SyncTypeOK
  <2>2. saved \in SavedCache
    BY DEF Init, SavedCache
  <2> QED BY <2>1, <2>2 DEF Typing
<1>3. InFlightInv /\ AskedInv
  BY DEF Init, InFlightInv, AskedInv
<1>4. StreamInv
  <2>1. Shape(stream, 0, 0)
    BY DEF Init, Shape
  <2> QED BY <2>1 DEF Init, StreamInv
<1>5. Truth
  BY DEF Init, Truth
<1>6. CacheInv
  BY DatesOfNothing DEF Init, CacheInv, BasisInv, CursorInv, FromInv, SavedInv, Settled, Fresh
<1> QED BY <1>1, <1>2, <1>3, <1>4, <1>5, <1>6 DEF SyncInv

\* A commit, whoever made it: the log grows by the version that is sent.
LEMMA CommitKeeps ==
  ASSUME SyncInv, NEW d \in Writes, CommitDelta(d),
         UNCHANGED <<linkVars, cacheVars, known, live, loadVars, saved>>,
         \/ acks' = acks
         \/ acks' = acks \cup
              {IF Appended(mem, d) # mem THEN AckOf(Version + 1, Visible(d, Readable))
                                         ELSE AckOf(Version, NoDelta)}
  PROVE  SyncInv'
<1>1. d \in Delta /\ Visible(d, Readable) \in Delta /\ NoDelta \in Delta
  BY SyncAssumption, VisibleTyped DEF Delta, NoDelta
<1>2. /\ Inv'
      /\ Appended(mem, d) = mem =>
           /\ UNCHANGED <<mem, history>> /\ Version' = Version
           /\ stream' = stream
      /\ Appended(mem, d) # mem =>
           /\ history' = Append(history, Applied(mem.store, d))
           /\ Version' = Version + 1
           /\ stream' = IF link = "up"
                        THEN Append(stream, DeltaOf(Version + 1, Visible(d, Readable)))
                        ELSE stream
  BY <1>1, CommitEffect, StorageAssumption DEF SyncInv
<1>3. /\ Version \in Nat /\ Len(history) = Version + 1
      /\ history \in Seq(SUBSET Triple) /\ history[Version + 1] = mem.store
  BY ServerFacts DEF SyncInv, At
<1>4. /\ Version' \in Nat /\ Version <= Version'
      /\ \A v \in 1..(Version + 1) : history'[v] = history[v]
  BY <1>2, <1>3
<1>5. Appended(mem, d) # mem =>
        TrueDelta(history', Version', Version + 1, Visible(d, Readable))
  <2> SUFFICES ASSUME Appended(mem, d) # mem
               PROVE  TrueDelta(history', Version', Version + 1, Visible(d, Readable))
    OBVIOUS
  <2>1. history'[Version + 1] = mem.store
    BY <1>3, <1>4
  <2>2. history'[Version + 1 + 1] = Applied(mem.store, d)
    BY <1>2, <1>3
  <2>3. Version + 1 \in 1..Version'
    BY <1>2, <1>3
  <2> QED BY <1>1, <2>1, <2>2, <2>3 DEF TrueDelta
<1>6. epoch' = epoch /\ epoch \in Nat
  BY Types DEF CommitDelta
<1> DEFINE sent == DeltaOf(Version + 1, Visible(d, Readable))
<1>7. /\ sent \in Message /\ sent.kind = "delta" /\ sent.version = Version + 1
      /\ sent.delta = Visible(d, Readable) /\ sent.epoch = epoch
  BY <1>1, <1>3, <1>6 DEF DeltaOf, Message, DeltaMessage
<1>8. stream' = stream \/ (/\ stream' = Append(stream, sent) /\ link = "up"
                           /\ Appended(mem, d) # mem)
  BY <1>2
<1>9. link # "up" => stream' = stream
  BY <1>2
<1> DEFINE ack == IF Appended(mem, d) # mem THEN AckOf(Version + 1, Visible(d, Readable))
                  ELSE AckOf(Version, NoDelta)
<1>10. /\ ack \in Ack /\ ack.epoch = epoch
       /\ IsEmptyDelta(ack.delta) \/ TrueDelta(history', Version', ack.version, ack.delta)
  BY <1>1, <1>3, <1>5, <1>6 DEF AckOf, Ack, NoDelta, IsEmptyDelta
<1>11. acks' \subseteq acks \cup {ack}
  OBVIOUS
<1>12. stream \in Seq(Message)
  BY Types
<1>13. \A i \in DOMAIN stream' :
          \/ i \in DOMAIN stream /\ stream'[i] = stream[i]
          \/ stream'[i] = sent /\ Appended(mem, d) # mem
  <2> HIDE DEF sent
  <2> QED BY <1>7, <1>8, <1>12
<1> HIDE DEF sent, ack
<1>14. Typing'
  <2>1. MemTypeOK'
    BY <1>2 DEF Inv
  <2>2. stream' \in Seq(Message)
    BY <1>7, <1>8, <1>12
  <2>3. \A a \in acks' : a \in Ack
    BY <1>10, <1>11, Types
  <2> QED BY <1>6, <2>1, <2>2, <2>3
      DEF SyncInv, Typing, SyncTypeOK, Message, linkVars, cacheVars, loadVars
<1>15. InFlightInv'
  <2>1. Visible(d, Readable).added \subseteq Readable /\ NoDelta.added \subseteq Readable
    BY DEF Visible, NoDelta
  <2>2. ack.delta.added \subseteq Readable
    BY <2>1 DEF ack, AckOf
  <2> QED BY <1>6, <1>7, <1>10, <1>11, <1>13, <2>1, <2>2 DEF SyncInv, InFlightInv, loadVars
<1>16. AskedInv'
  BY <1>9 DEF SyncInv, AskedInv, linkVars, cacheVars
<1>17. StreamInv'
  <2>1. PICK n \in Nat, base \in Nat :
          /\ Shape(stream, n, base)
          /\ base = from \/ base <= cursor
          /\ from <= base
          /\ n > 0 => base = from
          /\ link = "up" => base + (Len(stream) - n) = Version
    BY DEF SyncInv, StreamInv
  <2>2. CASE stream' = stream
    <3>1. link' = "up" => Version' = Version
      <4>1. stream # Append(stream, sent)
        <5>1. Len(Append(stream, sent)) = Len(stream) + 1 /\ Len(stream) \in Nat
          BY <1>7, <1>12
        <5> QED BY <5>1
      <4> QED BY <1>2, <2>2, <4>1 DEF linkVars, sent
    <3> QED BY <2>1, <2>2, <3>1 DEF StreamInv, linkVars, cacheVars
  <2>3. CASE /\ stream' = Append(stream, sent) /\ link = "up" /\ Appended(mem, d) # mem
    <3>1. Shape(stream', n, base)
      BY <1>7, <1>12, <2>1, <2>3, ShapeSent
    <3>2. base + (Len(stream') - n) = Version'
      <4>1. Len(stream') = Len(stream) + 1 /\ Len(stream) \in Nat
        BY <1>7, <1>12, <2>3
      <4>2. Version' = Version + 1 /\ base + (Len(stream) - n) = Version
        BY <1>2, <2>1, <2>3
      <4>3. base + ((Len(stream) + 1) - n) = (base + (Len(stream) - n)) + 1
        BY <4>1
      <4> QED BY <4>1, <4>2, <4>3, Zenon
    <3> QED BY <2>1, <3>1, <3>2 DEF StreamInv, linkVars, cacheVars
  <2> QED BY <1>8, <2>2, <2>3
<1>18. Truth'
  <2>1. /\ \A v, x : TrueDelta(history, Version, v, x) => TrueDelta(history', Version', v, x)
        /\ \A a : a.version \in Nat /\ TrueAnswer(history, Version, a)
                    => TrueAnswer(history', Version', a)
    BY <1>3, <1>4, TruthLasts
  <2>2. \A i \in DOMAIN stream' : stream'[i].kind = "delta" /\ stream'[i].epoch = epoch' =>
          TrueDelta(history', Version', stream'[i].version, stream'[i].delta)
    BY <1>5, <1>6, <1>7, <1>13, <2>1 DEF SyncInv, Truth
  <2>3. \A a \in acks' : a.epoch = epoch' /\ ~ IsEmptyDelta(a.delta) =>
          TrueDelta(history', Version', a.version, a.delta)
    BY <1>6, <1>10, <1>11, <2>1 DEF SyncInv, Truth
  <2>4. \A a \in answers' : a.epoch = epoch' => TrueAnswer(history', Version', a)
    BY <1>6, <2>1, Types DEF SyncInv, Truth, loadVars, Answer
  <2> QED BY <2>2, <2>3, <2>4 DEF Truth
<1>19. CacheInv'
  <2>1. BasisInv'
    <3> SUFFICES ASSUME pure'
                 PROVE  /\ Dates(history', Version', confirmed', held', basis')
                        /\ ~ Fresh' => basis' <= Version'
      BY DEF BasisInv
    <3>1. /\ Dates(history, Version, confirmed, held, basis)
          /\ ~ Fresh => basis <= Version
          /\ basis \in Nat
      BY Types DEF SyncInv, CacheInv, BasisInv, cacheVars
    <3>2. Dates(history', Version', confirmed, held, basis)
      BY <1>3, <1>4, <3>1, DatesLast
    <3> QED BY <1>3, <1>4, <3>1, <3>2 DEF cacheVars, Fresh
  <2>2. CursorInv'
    BY DEF SyncInv, CacheInv, CursorInv, Settled, Fresh, cacheVars
  <2>3. FromInv'
    <3> SUFFICES ASSUME Settled', link' = "up" \/ stream' # <<>>,
                        \A i \in DOMAIN stream' : stream'[i].kind # "resync"
                 PROVE  from' <= basis'
      BY DEF FromInv
    <3>1. \A i \in DOMAIN stream : stream[i].kind # "resync"
      <4>1. \A i \in DOMAIN stream : i \in DOMAIN stream' /\ stream'[i] = stream[i]
        BY <1>7, <1>8, <1>12
      <4> QED BY <4>1
    <3>2. link = "up" \/ stream # <<>>
      BY <1>9 DEF linkVars
    <3> QED BY <3>1, <3>2 DEF SyncInv, CacheInv, FromInv, Settled, Fresh, linkVars, cacheVars
  <2>4. SavedInv'
    <3> SUFFICES ASSUME saved.pure, saved.epoch = epoch
                 PROVE  /\ Dates(history', Version', saved.confirmed, saved.held, saved.basis)
                        /\ ~ (saved.confirmed = {} /\ saved.held = {}) =>
                             /\ saved.basis <= Version'
                             /\ ~ saved.raced => saved.cursor <= saved.basis
      BY <1>6 DEF SavedInv
    <3>1. /\ Dates(history, Version, saved.confirmed, saved.held, saved.basis)
          /\ ~ (saved.confirmed = {} /\ saved.held = {}) =>
               /\ saved.basis <= Version
               /\ ~ saved.raced => saved.cursor <= saved.basis
          /\ saved.basis \in Nat
      BY Types DEF SyncInv, CacheInv, SavedInv, SavedCache
    <3>2. Dates(history', Version', saved.confirmed, saved.held, saved.basis)
      BY <1>3, <1>4, <3>1, DatesLast
    <3> QED BY <1>3, <1>4, <3>1, <3>2
  <2> QED BY <2>1, <2>2, <2>3, <2>4 DEF CacheInv
<1> QED BY <1>2, <1>14, <1>15, <1>16, <1>17, <1>18, <1>19 DEF SyncInv

----------------------------------------------------------------------------
\* The invariant is inductive: the connection.

\* A step that leaves the server alone leaves its invariant.
LEMMA ServerKept ==
  ASSUME SyncInv, UNCHANGED serverVars
  PROVE  /\ Inv' /\ Version' = Version /\ history' = history /\ epoch' = epoch /\ MemTypeOK'
BY ServerSame DEF SyncInv, serverVars, Inv

\* A step that leaves the server and the cache alone, and whose stream holds no
\* word of a resync less, keeps what is said of the cache.
LEMMA CacheKept ==
  ASSUME SyncInv, UNCHANGED <<serverVars, cacheVars, from, saved>>,
         (link' = "up" \/ stream' # <<>>) => (link = "up" \/ stream # <<>>),
         (\A i \in DOMAIN stream' : stream'[i].kind # "resync")
            /\ (link' = "up" \/ stream' # <<>>)
            => \A i \in DOMAIN stream : stream[i].kind # "resync"
  PROVE  CacheInv'
<1>1. Version' = Version /\ history' = history /\ epoch' = epoch
  BY ServerKept
<1>2. BasisInv' /\ CursorInv' /\ SavedInv'
  BY <1>1 DEF SyncInv, CacheInv, BasisInv, CursorInv, SavedInv, Settled, Fresh, cacheVars
<1>3. FromInv'
  BY DEF SyncInv, CacheInv, FromInv, Settled, Fresh, cacheVars
<1> QED BY <1>2, <1>3 DEF CacheInv

LEMMA ConnectKeeps ==
  ASSUME SyncInv, Connect PROVE SyncInv'
<1> USE DEF Connect
<1>1. /\ Inv' /\ Version' = Version /\ history' = history /\ epoch' = epoch /\ MemTypeOK'
  BY ServerKept
<1>2. Typing'
  BY <1>1, Types DEF SyncInv, Typing, SyncTypeOK, cacheVars, loadVars
<1>3. InFlightInv'
  BY <1>1 DEF SyncInv, InFlightInv, loadVars
<1>4. AskedInv'
  BY DEF AskedInv, cacheVars
<1>5. StreamInv'
  <2>1. Shape(stream', 0, from) /\ from \in Nat
    BY Types DEF Shape
  <2> QED BY <2>1 DEF StreamInv
<1>6. Truth'
  BY <1>1 DEF SyncInv, Truth, loadVars
<1>7. CacheInv'
  BY CacheKept
<1> QED BY <1>1, <1>2, <1>3, <1>4, <1>5, <1>6, <1>7 DEF SyncInv

LEMMA DropKeeps ==
  ASSUME SyncInv, Drop PROVE SyncInv'
<1> USE DEF Drop
<1>1. /\ Inv' /\ Version' = Version /\ history' = history /\ epoch' = epoch /\ MemTypeOK'
  BY ServerKept
<1>2. Typing'
  BY <1>1 DEF SyncInv, Typing, SyncTypeOK, cacheVars, loadVars
<1>3. InFlightInv' /\ AskedInv'
  BY <1>1 DEF SyncInv, InFlightInv, AskedInv, loadVars
<1>4. StreamInv'
  BY DEF SyncInv, StreamInv, cacheVars
<1>5. Truth'
  BY <1>1 DEF SyncInv, Truth, loadVars
<1>6. CacheInv'
  BY CacheKept
<1> QED BY <1>1, <1>2, <1>3, <1>4, <1>5, <1>6 DEF SyncInv

\* A step that leaves server, link and stream alone: the loads, mostly.
LEMMA ConnectionKept ==
  ASSUME SyncInv, UNCHANGED <<serverVars, linkVars, stream>>,
         cursor' = cursor \/ (cursor = 0 /\ cursor' \in Nat /\ link # "asked")
           \/ (cursor = 0 /\ cursor' \in Nat /\ since = 0)
  PROVE  Inv' /\ MemTypeOK' /\ Version' = Version /\ history' = history /\ epoch' = epoch
         /\ AskedInv' /\ StreamInv'
<1>1. /\ Inv' /\ Version' = Version /\ history' = history /\ epoch' = epoch /\ MemTypeOK'
  BY ServerKept
<1>2. AskedInv'
  BY DEF SyncInv, AskedInv, linkVars
<1>3. StreamInv'
  <2>1. PICK n \in Nat, base \in Nat :
          /\ Shape(stream, n, base)
          /\ base = from \/ base <= cursor
          /\ from <= base
          /\ n > 0 => base = from
          /\ link = "up" => base + (Len(stream) - n) = Version
    BY DEF SyncInv, StreamInv
  <2>2. base <= cursor => base <= cursor'
    BY Types, <2>1
  <2> QED BY <1>1, <2>1, <2>2 DEF StreamInv, linkVars
<1> QED BY <1>1, <1>2, <1>3

\* The slice of the log after a retained cursor takes the history from there to
\* the present; past the end of the log it is empty.
LEMMA SliceIsTrue ==
  ASSUME Inv, NEW s \in Nat, Retains(mem, s)
  PROVE  LET entries == EntriesSince(mem, s)
         IN  /\ entries \in Seq(Entry)
             /\ Len(entries) = IF s <= Version THEN Version - s ELSE 0
             /\ \A i \in 1..Len(entries) :
                  /\ entries[i] \in Entry
                  /\ entries[i].version = s + i
                  /\ history[s + i + 1] = Applied(history[s + i], entries[i].delta)
<1> DEFINE n == Len(mem.log)
           k == s - mem.floor
           l == SubSeq(mem.log, k + 1, n)
<1>1. mem.log \in Seq(Entry) /\ mem.floor \in Nat
  BY DEF Inv, MemTypeOK
<1>2. n \in Nat /\ DOMAIN mem.log = 1..n /\ Version = mem.floor + n
  BY <1>1 DEF Version, VersionOf
<1>3. k \in Nat
  BY <1>1 DEF Retains
<1>4. EntriesSince(mem, s) = l
  BY DEF EntriesSince
<1>5. CASE s <= Version
  <2> HIDE DEF n
  <2>1. k <= n /\ n - k = Version - s
    BY <1>1, <1>2, <1>5
  <2> HIDE DEF k
  <2>2. \A i \in (k + 1)..n : mem.log[i] \in Entry
    BY <1>1, <1>2, <1>3 DEF n
  <2>3. l \in Seq(Entry) /\ Len(l) = n - k
    BY <1>2, <1>3, <2>1, <2>2, SubSeqProperties
  <2>4. \A i \in 1..(n - k) : l[i] = mem.log[(k + 1) + i - 1]
    BY <1>2, <1>3, <2>1, <2>2, SubSeqProperties
  <2>5. ASSUME NEW i \in 1..(n - k)
        PROVE  /\ l[i] \in Entry /\ l[i].version = s + i
               /\ history[s + i + 1] = Applied(history[s + i], l[i].delta)
    <3>1. (k + 1) + i - 1 = i + k /\ i + k \in 1..n /\ mem.floor + (i + k) = s + i
      <4>1. mem.floor + k = s
        BY <1>1 DEF k
      <4>2. i \in Int /\ mem.floor \in Int /\ k \in Int
        BY <1>1, <1>3
      <4>3. \A x, y, z \in Int : x + (y + z) = (x + z) + y
        OBVIOUS
      <4>4. mem.floor + (i + k) = (mem.floor + k) + i
        BY <4>2, <4>3
      <4>5. k + 1 + i - 1 = i + k /\ i + k \in 1..n
        BY <1>2, <1>3, <2>1
      <4> QED BY <4>1, <4>4, <4>5, Zenon
    <3>2. l[i] = mem.log[i + k]
      BY <2>4, <3>1
    <3>3. /\ mem.log[i + k].version = mem.floor + (i + k)
          /\ history[mem.floor + (i + k) + 1]
               = Applied(history[mem.floor + (i + k)], mem.log[i + k].delta)
      BY <1>2, <3>1 DEF Inv, LogIsDense, StateIsFold
    <3>4. mem.log[i + k] \in Entry
      BY <1>1, <1>2, <3>1
    <3> HIDE DEF l
    <3> QED BY <3>1, <3>2, <3>3, <3>4
  <2> HIDE DEF l
  <2> QED BY <1>4, <1>5, <2>1, <2>3, <2>5
<1>6. CASE ~ (s <= Version)
  <2> HIDE DEF n
  <2>1. n < k + 1 /\ k + 1 \in Int
    BY <1>1, <1>2, <1>3, <1>6
  <2>2. l = <<>>
    BY <1>2, <2>1, SubSeqEmpty
  <2> HIDE DEF l
  <2> QED BY <1>4, <1>6, <2>2
<1> QED BY <1>5, <1>6

\* The backlog of a retained cursor: every version after it, as the actor sees it.
LEMMA BacklogIsTrue ==
  ASSUME SyncInv, Retains(mem, since)
  PROVE  /\ Backlog \in Seq(DeltaMessage)
         /\ Len(Backlog) = IF since <= Version THEN Version - since ELSE 0
         /\ \A i \in 1..Len(Backlog) :
              /\ Backlog[i].kind = "delta" /\ Backlog[i].version = since + i
              /\ Backlog[i].epoch = epoch
              /\ TrueDelta(history, Version, Backlog[i].version, Backlog[i].delta)
<1> DEFINE entries == EntriesSince(mem, since)
           b == [i \in DOMAIN entries |->
                   DeltaOf(entries[i].version, Visible(entries[i].delta, Readable))]
<1>1. Inv /\ since \in Nat /\ epoch \in Nat /\ Version \in Nat
  BY Types DEF SyncInv
<1>2. /\ entries \in Seq(Entry)
      /\ Len(entries) = IF since <= Version THEN Version - since ELSE 0
      /\ \A i \in 1..Len(entries) :
           /\ entries[i] \in Entry
           /\ entries[i].version = since + i
           /\ history[since + i + 1] = Applied(history[since + i], entries[i].delta)
  BY <1>1, SliceIsTrue
<1>3. Backlog = b
  BY DEF Backlog
<1> HIDE DEF entries
<1>4. DOMAIN b = 1..Len(entries) /\ Len(entries) \in Nat
  BY <1>2
<1>5. ASSUME NEW i \in 1..Len(entries)
      PROVE  /\ b[i] \in DeltaMessage
             /\ b[i].kind = "delta" /\ b[i].version = since + i /\ b[i].epoch = epoch
             /\ TrueDelta(history, Version, b[i].version, b[i].delta)
  <2>1. entries[i].version = since + i /\ entries[i].delta \in Delta /\ since + i \in Nat
    BY <1>1, <1>2, <1>4 DEF Entry
  <2>2. b[i] = DeltaOf(since + i, Visible(entries[i].delta, Readable))
    BY <1>2, <2>1
  <2>3. Visible(entries[i].delta, Readable) \in Delta
    BY <2>1, VisibleTyped
  <2>4. /\ b[i] \in DeltaMessage
        /\ b[i].kind = "delta" /\ b[i].version = since + i /\ b[i].epoch = epoch
        /\ b[i].delta = Visible(entries[i].delta, Readable)
    <3> HIDE DEF b
    <3> QED BY <1>1, <2>1, <2>2, <2>3 DEF DeltaOf, DeltaMessage
  <2>5. since + i \in 1..Version
    BY <1>1, <1>2, <1>4
  <2>6. TrueDelta(history, Version, since + i, Visible(entries[i].delta, Readable))
    <3>1. history[since + i + 1] = Applied(history[since + i], entries[i].delta)
      BY <1>2
    <3> QED BY <2>1, <2>5, <3>1 DEF TrueDelta
  <2> HIDE DEF b
  <2> QED BY <2>4, <2>6
<1>6. b \in Seq(DeltaMessage) /\ Len(b) = Len(entries)
  <2>1. \A i \in 1..Len(entries) : b[i] \in DeltaMessage
    BY <1>5
  <2> QED BY <1>4, <2>1
<1> HIDE DEF b
<1> QED BY <1>2, <1>3, <1>5, <1>6

\* subscribe: what the stream opens with, from where it carries every version.
LEMMA GreetingIsTrue ==
  ASSUME SyncInv, ServeSubscribe
  PROVE  /\ stream' \in Seq(Message) /\ from' \in Nat
         /\ \E n \in Nat : /\ Shape(stream', n, from')
                           /\ from' + (Len(stream') - n) = Version
         /\ \A i \in DOMAIN stream' : stream'[i].kind = "delta" =>
              /\ stream'[i].epoch = epoch
              /\ TrueDelta(history, Version, stream'[i].version, stream'[i].delta)
         /\ (\A i \in DOMAIN stream' : stream'[i].kind # "resync") =>
              \/ since = 0 /\ from' = Version
              \/ since > 0 /\ from' <= since
<1> DEFINE hello == [kind |-> "hello", epoch |-> epoch]
           again == [kind |-> "resync"]
<1>1. /\ epoch \in Nat /\ Version \in Nat /\ since \in Nat
      /\ hello \in Message /\ hello.kind = "hello"
      /\ again \in Message /\ again.kind = "resync"
  BY Types DEF Message, HelloMessage, ResyncMessage
<1>2. stream' = <<hello>> \o (IF since > 0 THEN Backlog ELSE <<>>)
  BY DEF ServeSubscribe
<1> HIDE DEF hello, again
<1>3. CASE since = 0
  <2>1. from' = Version
    BY <1>3 DEF ServeSubscribe
  <2>2. stream' = <<hello>> /\ Len(stream') = 1 /\ stream'[1] = hello
    BY <1>1, <1>2, <1>3
  <2>3. Shape(stream', 1, from')
    BY <1>1, <2>1, <2>2 DEF Shape
  <2>4. DOMAIN stream' = 1..1 /\ stream' \in Seq(Message)
    BY <1>1, <2>2
  <2> QED BY <1>1, <1>3, <2>1, <2>2, <2>3, <2>4
<1>4. CASE since > 0 /\ ~ Retains(mem, since)
  <2>1. from' = Version
    BY <1>4 DEF ServeSubscribe
  <2>2. Backlog = <<again>>
    BY <1>4 DEF Backlog, again
  <2>3. stream' = <<hello>> \o Backlog
    BY <1>2, <1>4
  <2>4. /\ Len(stream') = 2 /\ DOMAIN stream' = 1..2 /\ stream'[1] = hello
        /\ stream'[2] = again /\ stream' \in Seq(Message)
    <3> DEFINE b == Backlog
    <3>1. b \in Seq(Message) /\ Len(b) \in Nat /\ <<hello>> \in Seq(Message)
      BY <1>1, <2>2
    <3>2. Len(b) = 1 /\ b[1] = again
      BY <2>2
    <3> HIDE DEF b
    <3>3. stream' = <<hello>> \o b
      BY <2>3 DEF b
    <3>4. /\ stream' \in Seq(Message) /\ Len(stream') = Len(b) + 1
          /\ stream'[1] = hello
          /\ \A i \in 2..(Len(b) + 1) : stream'[i] = b[i - 1]
      BY <3>1, <3>3
    <3>5. Len(stream') = 2 /\ stream'[2] = b[1]
      BY <3>2, <3>4
    <3> QED BY <3>2, <3>4, <3>5
  <2>5. Shape(stream', 2, from')
    BY <1>1, <2>1, <2>4 DEF Shape
  <2> QED BY <1>1, <2>1, <2>4, <2>5
<1>5. CASE since > 0 /\ Retains(mem, since)
  <2> DEFINE b == Backlog
  <2>1. /\ b \in Seq(DeltaMessage)
        /\ Len(b) = IF since <= Version THEN Version - since ELSE 0
        /\ \A i \in 1..Len(b) :
             /\ b[i].kind = "delta" /\ b[i].version = since + i
             /\ b[i].epoch = epoch
             /\ TrueDelta(history, Version, b[i].version, b[i].delta)
    BY <1>5, BacklogIsTrue
  <2>2. from' = IF since <= Version THEN since ELSE Version
    BY <1>5 DEF ServeSubscribe
  <2>3. stream' = <<hello>> \o b
    BY <1>2, <1>5
  <2> HIDE DEF b
  <2>4. b \in Seq(Message) /\ Len(b) \in Nat /\ <<hello>> \in Seq(Message)
    BY <1>1, <2>1 DEF Message
  <2>5. /\ stream' \in Seq(Message) /\ Len(stream') = Len(b) + 1
        /\ stream'[1] = hello
        /\ \A i \in 2..(Len(b) + 1) : stream'[i] = b[i - 1] /\ i - 1 \in 1..Len(b)
    BY <2>3, <2>4
  <2>6. Len(b) = Version - from' /\ (Len(b) > 0 => from' = since) /\ from' \in Nat
        /\ from' <= since /\ from' + Len(b) = Version
    BY <1>1, <2>1, <2>2
  <2>7. \A i \in 2..(Len(b) + 1) :
          stream'[i].kind = "delta" /\ stream'[i].version = from' + (i - 1)
    <3> SUFFICES ASSUME NEW i \in 2..(Len(b) + 1)
                 PROVE  stream'[i].kind = "delta" /\ stream'[i].version = from' + (i - 1)
      OBVIOUS
    <3>1. stream'[i] = b[i - 1] /\ i - 1 \in 1..Len(b)
      BY <2>5
    <3>2. b[i - 1].kind = "delta" /\ b[i - 1].version = since + (i - 1)
      BY <2>1, <3>1
    <3>3. from' = since
      BY <2>4, <2>6, <3>1
    <3> QED BY <3>1, <3>2, <3>3, Zenon
  <2>8. Shape(stream', 1, from')
    <3>1. 1 \in 0..Len(stream') /\ Len(stream') = Len(b) + 1
      BY <2>4, <2>5
    <3>2. \A i \in 1..1 : stream'[i].kind # "delta"
      BY <1>1, <2>5
    <3>3. \A i \in (1 + 1)..Len(stream') :
             stream'[i].kind = "delta" /\ stream'[i].version = from' + (i - 1)
      BY <2>7, <3>1
    <3>4. from' \in Nat
      BY <2>6
    <3> QED BY <3>1, <3>2, <3>3, <3>4, Zenon DEF Shape
  <2>9. from' + (Len(stream') - 1) = Version
    <3>1. Len(stream') - 1 = Len(b)
      BY <2>4, <2>5
    <3> QED BY <2>6, <3>1, Zenon
  <2>10. \A i \in DOMAIN stream' : stream'[i].kind = "delta" => i \in 2..(Len(b) + 1)
    BY <1>1, <2>4, <2>5
  <2> QED BY <1>5, <2>1, <2>5, <2>6, <2>8, <2>9, <2>10
<1> QED BY <1>1, <1>3, <1>4, <1>5

LEMMA ServeSubscribeKeeps ==
  ASSUME SyncInv, ServeSubscribe PROVE SyncInv'
<1>1. /\ Inv' /\ Version' = Version /\ history' = history /\ epoch' = epoch /\ MemTypeOK'
  BY ServerKept DEF ServeSubscribe
<1>2. /\ stream' \in Seq(Message) /\ from' \in Nat
      /\ \E n \in Nat : /\ Shape(stream', n, from')
                        /\ from' + (Len(stream') - n) = Version
      /\ \A i \in DOMAIN stream' : stream'[i].kind = "delta" =>
           /\ stream'[i].epoch = epoch
           /\ TrueDelta(history, Version, stream'[i].version, stream'[i].delta)
      /\ (\A i \in DOMAIN stream' : stream'[i].kind # "resync") =>
           \/ since = 0 /\ from' = Version
           \/ since > 0 /\ from' <= since
  BY GreetingIsTrue
<1>3. /\ link = "asked" /\ link' = "up"
      /\ raced' = (raced \/ (since = 0 /\ ~ Fresh /\ basis < Version))
      /\ UNCHANGED <<serverVars, since, confirmed, cursor, held, basis, pure, known, live,
                     loadVars, acks, saved, boundVars>>
  BY DEF ServeSubscribe
<1>4. Typing'
  <2>1. raced' \in BOOLEAN
    BY <1>3, Types, Zenon
  <2> QED BY <1>1, <1>2, <1>3, <2>1 DEF SyncInv, Typing, SyncTypeOK, Message, loadVars
<1>5. InFlightInv'
  <2>1. \A v, x : TrueDelta(history, Version, v, x) => x.added \subseteq Readable
    BY DEF TrueDelta, Visible
  <2> QED BY <1>1, <1>2, <1>3, <2>1, Types DEF SyncInv, InFlightInv, loadVars
<1>6. AskedInv'
  BY <1>3 DEF AskedInv
<1>7. StreamInv'
  BY <1>1, <1>2 DEF StreamInv
<1>8. Truth'
  BY <1>1, <1>2, <1>3 DEF SyncInv, Truth, loadVars
<1>9. CacheInv'
  <2>1. raced => raced'
    BY <1>3
  <2>2. BasisInv' /\ CursorInv' /\ SavedInv'
    BY <1>1, <1>3, <2>1
       DEF SyncInv, CacheInv, BasisInv, CursorInv, SavedInv, Settled, Fresh
  <2>3. FromInv'
    <3> SUFFICES ASSUME Settled', \A i \in DOMAIN stream' : stream'[i].kind # "resync"
                 PROVE  from' <= basis'
      BY DEF FromInv
    <3>1. Settled /\ basis' = basis /\ ~ (since = 0 /\ basis < Version)
      BY <1>3 DEF Settled, Fresh
    <3>2. CASE since = 0 /\ from' = Version
      BY <3>1, <3>2, Types
    <3>3. CASE since > 0 /\ from' <= since
      <4>1. cursor = since /\ cursor <= basis
        BY <1>3, <3>1, <3>3 DEF SyncInv, AskedInv, CacheInv, CursorInv
      <4> QED BY <1>2, <3>1, <3>3, <4>1, Types
    <3> QED BY <1>2, <3>2, <3>3
  <2> QED BY <2>2, <2>3 DEF CacheInv
<1> QED BY <1>1, <1>4, <1>5, <1>6, <1>7, <1>8, <1>9 DEF SyncInv

----------------------------------------------------------------------------
\* The invariant is inductive: reading the stream.

\* What a read leaves of the stream was in it before.
LEMMA ReadFacts ==
  ASSUME SyncInv, NEW kind, Read(kind)
  PROVE  /\ stream # <<>> /\ Head(stream) \in Message /\ Head(stream).kind = kind
         /\ Head(stream) = stream[1] /\ 1 \in DOMAIN stream
         /\ stream' = Tail(stream) /\ stream' \in Seq(Message)
         /\ Len(stream') = Len(stream) - 1 /\ Len(stream) \in Nat
         /\ \A i \in DOMAIN stream' : i + 1 \in DOMAIN stream /\ stream'[i] = stream[i + 1]
         /\ link # "asked"
<1>1. stream \in Seq(Message) /\ stream # <<>> /\ stream' = Tail(stream)
      /\ Head(stream).kind = kind
  BY Types DEF Read
<1>2. link # "asked"
  BY <1>1 DEF SyncInv, AskedInv
<1>3. 1 \in DOMAIN stream
  BY <1>1
<1> QED BY <1>1, <1>2, <1>3, TailFacts

\* A read keeps what is said of the messages and of the link.
LEMMA ReadKept ==
  ASSUME SyncInv, NEW kind, Read(kind),
         UNCHANGED <<serverVars, linkVars, answers, acks, saved>>
  PROVE  /\ Inv' /\ Version' = Version /\ history' = history /\ epoch' = epoch /\ MemTypeOK'
         /\ InFlightInv' /\ AskedInv' /\ Truth'
<1>1. /\ Inv' /\ Version' = Version /\ history' = history /\ epoch' = epoch /\ MemTypeOK'
  BY ServerKept
<1>2. InFlightInv' /\ Truth'
  BY <1>1, ReadFacts DEF SyncInv, InFlightInv, Truth
<1>3. AskedInv'
  BY ReadFacts DEF AskedInv, linkVars
<1> QED BY <1>1, <1>2, <1>3

\* Reading the handshake leaves the stream where it starts; the cursor may fall.
LEMMA GreetingRead ==
  ASSUME SyncInv, NEW kind, kind # "delta", Read(kind),
         UNCHANGED <<serverVars, linkVars>>
  PROVE  StreamInv'
<1>1. PICK n \in Nat, base \in Nat :
        /\ Shape(stream, n, base)
        /\ from <= base
        /\ n > 0 => base = from
        /\ link = "up" => base + (Len(stream) - n) = Version
  BY DEF SyncInv, StreamInv
<1>2. n - 1 \in Nat /\ n > 0 /\ Shape(stream', n - 1, base)
  <2>1. stream \in Seq(Message) /\ stream # <<>> /\ stream' = Tail(stream)
        /\ Head(stream).kind # "delta"
    BY Types, ReadFacts
  <2> QED BY <1>1, <2>1, ShapeGreeted
<1>3. base = from /\ from' = from /\ link' = link /\ Version' = Version
  BY <1>1, <1>2, ServerKept DEF linkVars
<1>4. Len(stream') - (n - 1) = Len(stream) - n
  BY <1>1, ReadFacts
<1>5. link = "up" => base + (Len(stream') - (n - 1)) = Version
  BY <1>1, <1>4, Zenon
<1> HIDE DEF StreamInv
<1> QED BY <1>1, <1>2, <1>3, <1>5 DEF StreamInv

\* Reading a delta that leaves the cursor at or behind it moves the base along.
LEMMA DeltaRead ==
  ASSUME SyncInv, Read("delta"), UNCHANGED <<serverVars, linkVars>>,
         Head(stream).version <= cursor'
  PROVE  /\ StreamInv'
         /\ \E base \in Nat : /\ Head(stream).version = base + 1
                              /\ from <= base
                              /\ base = from \/ base <= cursor
         /\ \A i \in DOMAIN stream : stream[i].kind = "delta"
<1>1. PICK n \in Nat, base \in Nat :
        /\ Shape(stream, n, base)
        /\ base = from \/ base <= cursor
        /\ from <= base
        /\ link = "up" => base + (Len(stream) - n) = Version
  BY DEF SyncInv, StreamInv
<1>2. /\ n = 0 /\ Head(stream).version = base + 1 /\ Shape(stream', 0, base + 1)
      /\ \A i \in DOMAIN stream : stream[i].kind = "delta"
  <2>1. stream \in Seq(Message) /\ stream # <<>> /\ stream' = Tail(stream)
        /\ Head(stream).kind = "delta"
    BY Types, ReadFacts
  <2> QED BY <1>1, <2>1, ShapeRead
<1>3. from' = from /\ link' = link /\ Version' = Version /\ from \in Nat
  BY ServerKept, Types DEF linkVars
<1>4. (base + 1) + (Len(stream') - 0) = base + (Len(stream) - 0)
  <2>1. Len(stream') = Len(stream) - 1 /\ Len(stream) \in Nat
    BY ReadFacts
  <2> QED BY <2>1
<1>5. link = "up" => (base + 1) + (Len(stream') - 0) = Version
  BY <1>1, <1>2, <1>4, Zenon
<1>6. base + 1 \in Nat /\ base + 1 <= cursor' /\ from <= base + 1
  BY <1>1, <1>2, <1>3
<1>7. StreamInv'
  BY <1>2, <1>3, <1>5, <1>6 DEF StreamInv
<1> QED BY <1>1, <1>2, <1>7

\* An empty cache has nothing old in it.
LEMMA EmptyKept ==
  ASSUME SyncInv, EmptyCache, UNCHANGED serverVars, saved' = saved
  PROVE  CacheInv'
<1>1. Version' = Version /\ history' = history /\ epoch' = epoch
  BY ServerKept
<1>2. Fresh' /\ Dates(history', Version', confirmed', held', basis')
  BY DatesOfNothing DEF EmptyCache, Fresh
<1>3. SavedInv'
  BY <1>1 DEF SyncInv, CacheInv, SavedInv
<1> QED BY <1>2, <1>3 DEF CacheInv, BasisInv, CursorInv, FromInv, Settled

LEMMA ReceiveHelloKeeps ==
  ASSUME SyncInv, ReceiveHello PROVE SyncInv'
<1>1. /\ Read("hello") /\ UNCHANGED <<serverVars, linkVars, live, answers, failed, acks, saved>>
      /\ known' = Head(stream).epoch
      /\ Resync \/ UNCHANGED <<cacheVars, asked>>
  BY DEF ReceiveHello
<1>2. /\ Inv' /\ Version' = Version /\ history' = history /\ epoch' = epoch /\ MemTypeOK'
      /\ InFlightInv' /\ AskedInv' /\ Truth'
  BY <1>1, ReadKept
<1>3. StreamInv'
  BY <1>1, GreetingRead
<1>4. Typing'
  <2>1. stream' \in Seq(Message) /\ known' \in Nat
    BY <1>1, ReadFacts DEF Message, HelloMessage, ResyncMessage, DeltaMessage
  <2>2. /\ confirmed' \subseteq Readable /\ cursor' \in Nat /\ basis' \in Nat
        /\ held' \in SUBSET Query /\ pure' \in BOOLEAN /\ raced' \in BOOLEAN
        /\ asked' \subseteq Load
    <3>1. CASE UNCHANGED <<cacheVars, asked>>
      BY <3>1, Types DEF cacheVars
    <3>2. CASE Resync
      <4>1. asked' \subseteq Load
        BY <3>2, Types DEF Resync, Load
      <4>2. pure' \in BOOLEAN /\ raced' \in BOOLEAN
        BY <3>2, Zenon DEF Resync, EmptyCache
      <4> QED BY <3>2, <4>1, <4>2 DEF Resync, EmptyCache
    <3> QED BY <1>1, <3>1, <3>2
  <2> QED BY <1>1, <1>2, <2>1, <2>2
      DEF SyncInv, Typing, SyncTypeOK, Message, linkVars, serverVars
<1>5. CacheInv'
  <2>1. CASE UNCHANGED <<cacheVars, asked>>
    <3>1. (\A i \in DOMAIN stream' : stream'[i].kind # "resync") =>
            \A i \in DOMAIN stream : stream[i].kind # "resync"
      <4> SUFFICES ASSUME \A i \in DOMAIN stream' : stream'[i].kind # "resync",
                          NEW i \in DOMAIN stream
                   PROVE  stream[i].kind # "resync"
        OBVIOUS
      <4>1. CASE i = 1
        BY <1>1, <4>1, ReadFacts
      <4>2. CASE i # 1
        <5>1. i - 1 \in DOMAIN stream' /\ i = (i - 1) + 1
          BY <1>1, <4>2, ReadFacts, Types
        <5> QED BY <1>1, <5>1, ReadFacts
      <4> QED BY <4>1, <4>2
    <3>2. stream # <<>>
      BY <1>1, ReadFacts
    <3> QED BY <1>1, <2>1, <3>1, <3>2, CacheKept DEF linkVars
  <2>2. CASE Resync
    BY <1>1, <2>2, EmptyKept DEF Resync
  <2> QED BY <1>1, <2>1, <2>2
<1> QED BY <1>2, <1>3, <1>4, <1>5 DEF SyncInv

LEMMA ReceiveResyncKeeps ==
  ASSUME SyncInv, ReceiveResync PROVE SyncInv'
<1>1. /\ Read("resync") /\ Resync /\ EmptyCache
      /\ UNCHANGED <<serverVars, linkVars, known, live, answers, failed, acks, saved>>
  BY DEF ReceiveResync, Resync
<1>2. /\ Inv' /\ Version' = Version /\ history' = history /\ epoch' = epoch /\ MemTypeOK'
      /\ InFlightInv' /\ AskedInv' /\ Truth'
  BY <1>1, ReadKept
<1>3. StreamInv'
  BY <1>1, GreetingRead
<1>4. Typing'
  <2>1. stream' \in Seq(Message) /\ asked' \subseteq Load
    BY <1>1, ReadFacts, Types DEF Resync, Load
  <2> QED BY <1>1, <1>2, <2>1
      DEF SyncInv, Typing, SyncTypeOK, Message, linkVars, serverVars, EmptyCache
<1>5. CacheInv'
  BY <1>1, EmptyKept
<1> QED BY <1>2, <1>3, <1>4, <1>5 DEF SyncInv

LEMMA SkipDeltaKeeps ==
  ASSUME SyncInv, SkipDelta PROVE SyncInv'
<1>1. /\ Read("delta") /\ Head(stream).version <= cursor'
      /\ UNCHANGED <<serverVars, linkVars, cacheVars, known, live, loadVars, acks, saved>>
      /\ answers' = answers
  BY DEF SkipDelta, cacheVars, loadVars
<1>2. /\ Inv' /\ Version' = Version /\ history' = history /\ epoch' = epoch /\ MemTypeOK'
      /\ InFlightInv' /\ AskedInv' /\ Truth'
  BY <1>1, ReadKept
<1>3. StreamInv' /\ \A i \in DOMAIN stream : stream[i].kind = "delta"
  BY <1>1, DeltaRead
<1>4. Typing'
  BY <1>1, <1>2, ReadFacts
     DEF SyncInv, Typing, SyncTypeOK, Message, linkVars, serverVars, cacheVars, loadVars
<1>5. CacheInv'
  <2>1. stream # <<>> /\ \A i \in DOMAIN stream : stream[i].kind # "resync"
    BY <1>1, <1>3, ReadFacts
  <2> QED BY <1>1, <2>1, CacheKept DEF linkVars
<1> QED BY <1>2, <1>3, <1>4, <1>5 DEF SyncInv

\* #applyRemote: the cursor moves to the delta, and content that was complete
\* through the version before is complete through this one.  A cache that has not
\* raced always is: the stream starts no later than it, and skips nothing.
LEMMA ApplyDeltaKeeps ==
  ASSUME SyncInv, ApplyDelta PROVE SyncInv'
<1> DEFINE m == Head(stream)
           advances == Fresh \/ basis >= m.version - 1
<1>1. /\ Read("delta") /\ cursor' = m.version /\ m.version > cursor
      /\ confirmed' = Applied(confirmed, m.delta)
      /\ basis' = IF advances THEN m.version ELSE basis
      /\ raced' = (~ Fresh /\ raced)
      /\ pure' = ((Fresh \/ pure) /\ m.epoch = epoch)
      /\ UNCHANGED <<serverVars, linkVars, held, known, live, loadVars, acks, saved>>
      /\ answers' = answers
  BY DEF ApplyDelta, Merged, loadVars
<1>2. /\ m \in DeltaMessage /\ m.version \in Nat /\ m.delta \in Delta /\ m.epoch \in Nat
  BY <1>1, ReadFacts DEF Message, HelloMessage, ResyncMessage, DeltaMessage
<1>3. /\ Inv' /\ Version' = Version /\ history' = history /\ epoch' = epoch /\ MemTypeOK'
      /\ InFlightInv' /\ AskedInv' /\ Truth'
  BY <1>1, ReadKept
<1>4. /\ StreamInv'
      /\ \E base \in Nat : /\ m.version = base + 1
                           /\ from <= base
                           /\ base = from \/ base <= cursor
      /\ \A i \in DOMAIN stream : stream[i].kind = "delta"
  <2>1. Head(stream).version <= cursor'
    BY <1>1, <1>2
  <2> QED BY <1>1, <2>1, DeltaRead
<1>5. /\ stream # <<>> /\ m.delta.added \subseteq Readable
      /\ m.epoch = epoch => TrueDelta(history, Version, m.version, m.delta)
  BY <1>1, ReadFacts DEF SyncInv, InFlightInv, Truth
<1>6. confirmed' \in SUBSET Readable /\ confirmed \in SUBSET Readable
  BY <1>1, <1>5, Types DEF Applied
<1>7. basis' \in Nat /\ basis \in Nat
  BY <1>1, <1>2, Types
<1>8. Typing'
  <2>1. pure' \in BOOLEAN /\ raced' \in BOOLEAN
    BY <1>1, Zenon
  <2>2. stream' \in Seq(Message)
    BY <1>1, ReadFacts
  <2> QED BY <1>1, <1>2, <1>3, <1>6, <1>7, <2>1, <2>2
      DEF SyncInv, Typing, SyncTypeOK, Message, linkVars, serverVars, loadVars
<1>9. ASSUME pure' PROVE /\ TrueDelta(history, Version, m.version, m.delta)
                         /\ ~ Fresh => pure
  BY <1>1, <1>5, <1>9
<1>10. BasisInv'
  <2> SUFFICES ASSUME pure'
               PROVE  /\ Dates(history, Version, confirmed', held, basis')
                      /\ basis' <= Version
    BY <1>1, <1>3 DEF BasisInv
  <2>1. TrueDelta(history, Version, m.version, m.delta) /\ m.version <= Version
    BY <1>9 DEF TrueDelta
  <2>2. Version \in Nat
    BY Types
  <2>3. CASE Fresh
    <3>1. Dates(history, Version, confirmed, held, m.version)
      BY <2>3, DatesOfNothing DEF Fresh
    <3>2. basis' = m.version
      BY <1>1, <2>3
    <3> HIDE DEF m
    <3> QED BY <1>1, <1>2, <1>6, <2>1, <2>2, <3>1, <3>2, DatesPatched
  <2>4. CASE ~ Fresh
    <3>1. Dates(history, Version, confirmed, held, basis) /\ basis <= Version
      BY <1>9, <2>4 DEF SyncInv, CacheInv, BasisInv
    <3>2. basis' <= m.version /\ (basis' <= basis \/ m.version - 1 <= basis)
          /\ basis' <= Version
      BY <1>1, <1>2, <1>7, <2>1, <2>4, <3>1
    <3> HIDE DEF m
    <3> QED BY <1>1, <1>2, <1>6, <1>7, <2>1, <2>2, <3>1, <3>2, DatesPatched
  <2> QED BY <2>3, <2>4
<1>11. ASSUME pure', ~ raced', ~ Fresh
       PROVE  /\ cursor <= basis /\ from <= basis /\ m.version - 1 <= basis
  <2>1. Settled
    BY <1>1, <1>9, <1>11 DEF Settled
  <2>2. cursor <= basis /\ from <= basis
    BY <1>4, <1>5, <2>1 DEF SyncInv, CacheInv, CursorInv, FromInv
  <2>3. PICK base \in Nat : m.version = base + 1 /\ (base = from \/ base <= cursor)
    BY <1>4
  <2>4. m.version - 1 = base
    BY <2>3
  <2> HIDE DEF m
  <2> QED BY <1>7, <2>2, <2>3, <2>4, Types
<1>12. ASSUME pure', ~ raced' PROVE basis' = m.version
  <2>1. advances
    BY <1>2, <1>7, <1>11, <1>12
  <2> QED BY <1>1, <2>1
<1>13. CursorInv'
  BY <1>1, <1>2, <1>12 DEF CursorInv, Settled
<1>14. FromInv'
  <2>1. from \in Nat /\ from' = from
    BY <1>1, Types DEF linkVars
  <2>2. from <= m.version
    BY <1>4, <2>1
  <2> QED BY <1>12, <2>1, <2>2 DEF FromInv, Settled
<1>15. SavedInv'
  BY <1>1, <1>3 DEF SyncInv, CacheInv, SavedInv
<1> QED BY <1>3, <1>4, <1>8, <1>10, <1>13, <1>14, <1>15 DEF SyncInv, CacheInv

----------------------------------------------------------------------------
\* The invariant is inductive: queries.

\* A step that only moves requests and answers.
LEMMA QuietKept ==
  ASSUME SyncInv, UNCHANGED <<serverVars, linkVars, stream, cacheVars, acks, saved>>,
         \A a \in answers' : \/ a \in answers
                             \/ /\ a.epoch = epoch /\ a.triples \subseteq Readable
                                /\ TrueAnswer(history, Version, a)
  PROVE  /\ Inv' /\ MemTypeOK' /\ InFlightInv' /\ AskedInv' /\ StreamInv' /\ Truth' /\ CacheInv'
         /\ epoch' = epoch
<1>1. /\ Inv' /\ MemTypeOK' /\ Version' = Version /\ history' = history /\ epoch' = epoch
      /\ AskedInv' /\ StreamInv'
  BY ConnectionKept DEF cacheVars
<1>2. InFlightInv'
  BY <1>1, Types DEF SyncInv, InFlightInv
<1>3. Truth'
  BY <1>1 DEF SyncInv, Truth
<1>4. CacheInv'
  BY CacheKept DEF linkVars
<1> QED BY <1>1, <1>2, <1>3, <1>4

LEMMA WatchKeeps ==
  ASSUME SyncInv, NEW q \in Query, Watch(q) PROVE SyncInv'
<1>1. /\ UNCHANGED <<serverVars, linkVars, stream, cacheVars, acks, saved>>
      /\ answers' = answers /\ failed' = failed /\ known' = known
      /\ live' = live \cup {q} /\ asked' = asked \cup {[query |-> q, attempt |-> 0]}
  BY DEF Watch
<1>2. /\ Inv' /\ MemTypeOK' /\ InFlightInv' /\ AskedInv' /\ StreamInv' /\ Truth' /\ CacheInv'
      /\ epoch' = epoch
  BY <1>1, QuietKept
<1>3. Typing'
  <2>1. asked' \subseteq Load
    BY <1>1, Types DEF Load
  <2> QED BY <1>1, <1>2, <2>1 DEF SyncInv, Typing, SyncTypeOK, linkVars, cacheVars
<1> QED BY <1>2, <1>3 DEF SyncInv

LEMMA ServeLoadKeeps ==
  ASSUME SyncInv, NEW l \in asked, ServeLoad(l) PROVE SyncInv'
<1> DEFINE a == [query |-> l.query, attempt |-> l.attempt, version |-> Version,
                 triples |-> l.query \cap Readable \cap mem.store, epoch |-> epoch]
<1>1. /\ UNCHANGED <<serverVars, linkVars, stream, cacheVars, acks, saved>>
      /\ answers' = answers \cup {a} /\ failed' = failed /\ known' = known
      /\ live' = live /\ asked' \subseteq asked
  BY DEF ServeLoad
<1>2. /\ l \in Load /\ Version \in Nat /\ mem.store = history[Version + 1] /\ epoch \in Nat
      /\ Readable \subseteq Triple
  BY Types, ServerFacts DEF SyncInv, At
<1>3. /\ a \in Answer /\ a.epoch = epoch /\ a.triples \subseteq Readable
      /\ a.version = Version
      /\ a.triples = a.query \cap Readable \cap mem.store
  BY <1>2 DEF Answer, Load
<1> HIDE DEF a
<1>4. TrueAnswer(history, Version, a)
  BY <1>2, <1>3 DEF TrueAnswer
<1>5. /\ Inv' /\ MemTypeOK' /\ InFlightInv' /\ AskedInv' /\ StreamInv' /\ Truth' /\ CacheInv'
      /\ epoch' = epoch
  BY <1>1, <1>3, <1>4, QuietKept
<1>6. Typing'
  BY <1>1, <1>3, <1>5 DEF SyncInv, Typing, SyncTypeOK, linkVars, cacheVars
<1> QED BY <1>5, <1>6 DEF SyncInv

LEMMA LoseLoadKeeps ==
  ASSUME SyncInv, NEW l \in asked, LoseLoad(l) PROVE SyncInv'
<1>1. /\ UNCHANGED <<serverVars, linkVars, stream, cacheVars, acks, saved>>
      /\ answers' = answers /\ known' = known /\ live' = live
      /\ failed' \subseteq failed \cup live /\ asked' \subseteq asked
  BY DEF LoseLoad
<1>2. /\ Inv' /\ MemTypeOK' /\ InFlightInv' /\ AskedInv' /\ StreamInv' /\ Truth' /\ CacheInv'
      /\ epoch' = epoch
  BY <1>1, QuietKept
<1>3. Typing'
  BY <1>1, <1>2 DEF SyncInv, Typing, SyncTypeOK, linkVars, cacheVars
<1> QED BY <1>2, <1>3 DEF SyncInv

\* A stale answer, asked again or given up.
LEMMA StaleAnswerKeeps ==
  ASSUME SyncInv, NEW a \in answers, RetryAnswer(a) \/ GiveUp(a) PROVE SyncInv'
<1>1. /\ UNCHANGED <<serverVars, linkVars, stream, cacheVars, acks, saved>>
      /\ answers' \subseteq answers /\ known' = known /\ live' = live
      /\ failed' \subseteq failed \cup live
  BY DEF RetryAnswer, GiveUp
<1>2. asked' \subseteq Load
  <2>1. a.query \in Query /\ a.attempt \in 0..MaxAttempts
    BY Types DEF Answer
  <2>2. a.attempt + 1 < MaxAttempts => a.attempt + 1 \in 0..MaxAttempts
    BY <2>1, Types
  <2> QED BY <2>1, <2>2, Types DEF RetryAnswer, GiveUp, Load
<1>3. /\ Inv' /\ MemTypeOK' /\ InFlightInv' /\ AskedInv' /\ StreamInv' /\ Truth' /\ CacheInv'
      /\ epoch' = epoch
  BY <1>1, QuietKept
<1>4. Typing'
  BY <1>1, <1>2, <1>3 DEF SyncInv, Typing, SyncTypeOK, linkVars, cacheVars
<1> QED BY <1>3, <1>4 DEF SyncInv

LEMMA CloseKeeps ==
  ASSUME SyncInv, NEW q \in Query, Close(q) PROVE SyncInv'
<1>1. /\ UNCHANGED <<serverVars, linkVars, stream, cursor, basis, pure, raced, known, asked,
                     answers, acks, saved>>
      /\ live' = live \ {q} /\ failed' = failed \ {q}
      /\ confirmed' = confirmed \cap UNION live' /\ held' = held \cap live'
  BY DEF Close
<1>2. /\ Inv' /\ MemTypeOK' /\ Version' = Version /\ history' = history /\ epoch' = epoch
      /\ AskedInv' /\ StreamInv'
  BY <1>1, ConnectionKept
<1>3. InFlightInv' /\ Truth'
  BY <1>1, <1>2 DEF SyncInv, InFlightInv, Truth
<1>4. Typing'
  BY <1>1, <1>2 DEF SyncInv, Typing, SyncTypeOK, linkVars
<1>5. CacheInv'
  <2>1. Fresh => Fresh'
    BY <1>1 DEF Fresh
  <2>2. BasisInv'
    BY <1>1, <1>2, <2>1, DatesClosed DEF SyncInv, CacheInv, BasisInv
  <2>3. CursorInv' /\ FromInv' /\ SavedInv'
    BY <1>1, <1>2, <2>1 DEF SyncInv, CacheInv, CursorInv, FromInv, SavedInv, Settled, linkVars
  <2> QED BY <2>2, <2>3 DEF CacheInv
<1> QED BY <1>2, <1>3, <1>4, <1>5 DEF SyncInv

\* A snapshot at or beyond the cursor joins a cache that is as old as the older of
\* the two.
LEMMA AcceptAnswerKeeps ==
  ASSUME SyncInv, NEW a \in answers, AcceptAnswer(a) PROVE SyncInv'
<1>1. /\ a.version >= cursor /\ answers' \subseteq answers
      /\ confirmed' = confirmed \cup a.triples
      /\ cursor' = IF cursor = 0 THEN a.version ELSE cursor
      /\ held' = held \cup {a.query} /\ failed' \subseteq failed
      /\ basis' = IF Fresh \/ a.version < basis THEN a.version ELSE basis
      /\ raced' = (\/ ~ Fresh /\ (raced \/ (cursor = 0 /\ basis < a.version))
                   \/ a.version < from)
      /\ pure' = ((Fresh \/ pure) /\ a.epoch = epoch)
      /\ UNCHANGED <<serverVars, linkVars, stream, known, live, asked, acks, saved>>
  BY DEF AcceptAnswer, InTime, Seed, Dated
<1>2. a \in Answer /\ a.version \in Nat /\ a.query \in Query /\ a.triples \subseteq Readable
  BY Types DEF Answer, SyncInv, InFlightInv
<1>3. /\ cursor \in Nat /\ basis \in Nat /\ from \in Nat /\ since \in Nat /\ Version \in Nat
      /\ confirmed \subseteq Readable /\ held \in SUBSET Query
  BY Types
<1>4. cursor' \in Nat /\ basis' \in Nat
  BY <1>1, <1>2, <1>3
<1>5. /\ Inv' /\ MemTypeOK' /\ Version' = Version /\ history' = history /\ epoch' = epoch
      /\ AskedInv' /\ StreamInv'
  <2>1. cursor = 0 => link # "asked" \/ since = 0
    BY <1>3 DEF SyncInv, AskedInv
  <2> QED BY <1>1, <1>4, <2>1, ConnectionKept
<1>6. InFlightInv' /\ Truth'
  BY <1>1, <1>5 DEF SyncInv, InFlightInv, Truth
<1>7. Typing'
  <2>1. pure' \in BOOLEAN /\ raced' \in BOOLEAN
    BY <1>1, Zenon
  <2> QED BY <1>1, <1>2, <1>3, <1>4, <1>5, <2>1
      DEF SyncInv, Typing, SyncTypeOK, linkVars, serverVars
<1>8. ASSUME pure' PROVE (~ Fresh => pure) /\ TrueAnswer(history, Version, a)
  BY <1>1, <1>8 DEF SyncInv, Truth
<1>9. basis' <= a.version /\ (~ Fresh => basis' <= basis)
  BY <1>1, <1>2, <1>3
<1>10. BasisInv'
  <2> SUFFICES ASSUME pure'
               PROVE  /\ Dates(history, Version, confirmed', held', basis')
                      /\ basis' <= Version
    BY <1>5 DEF BasisInv
  <2>1. TrueAnswer(history, Version, a) /\ a.version <= Version
    BY <1>8 DEF TrueAnswer
  <2>2. \E b \in Nat : Dates(history, Version, confirmed, held, b) /\ basis' <= b
    <3>1. CASE Fresh
      BY <1>2, <1>9, <3>1, DatesOfNothing DEF Fresh
    <3>2. CASE ~ Fresh
      BY <1>3, <1>8, <1>9, <3>2 DEF SyncInv, CacheInv, BasisInv
    <3> QED BY <3>1, <3>2
  <2>3. Dates(history, Version, confirmed \cup a.triples, held \cup {a.query}, basis')
    BY <1>2, <1>3, <1>4, <1>9, <2>1, <2>2, DatesMerged
  <2>4. basis' <= Version
    BY <1>2, <1>3, <1>4, <1>9, <2>1
  <2> QED BY <1>1, <2>3, <2>4
<1>11. CursorInv'
  <2> SUFFICES ASSUME pure', ~ raced' PROVE cursor' <= basis'
    BY DEF CursorInv, Settled
  <2>1. CASE Fresh
    BY <1>1, <1>2, <1>3, <2>1
  <2>2. CASE ~ Fresh
    <3>1. cursor <= basis
      BY <1>1, <1>8, <2>2 DEF SyncInv, CacheInv, CursorInv, Settled
    <3>2. ~ (cursor = 0 /\ basis < a.version)
      BY <1>1, <2>2
    <3> QED BY <1>1, <1>2, <1>3, <2>2, <3>1, <3>2
  <2> QED BY <2>1, <2>2
<1>12. FromInv'
  <2> SUFFICES ASSUME pure', ~ raced', link = "up" \/ stream # <<>>,
                      \A i \in DOMAIN stream : stream[i].kind # "resync"
               PROVE  from <= basis'
    BY <1>1 DEF FromInv, Settled, linkVars
  <2>1. from <= a.version
    BY <1>1, <1>2, <1>3
  <2>2. ~ Fresh => from <= basis
    BY <1>1, <1>8 DEF SyncInv, CacheInv, FromInv, Settled
  <2> QED BY <1>1, <1>2, <1>3, <2>1, <2>2
<1>13. SavedInv'
  BY <1>1, <1>5 DEF SyncInv, CacheInv, SavedInv
<1> QED BY <1>5, <1>6, <1>7, <1>10, <1>11, <1>12, <1>13 DEF SyncInv, CacheInv

----------------------------------------------------------------------------
\* The invariant is inductive: acks, saves, reloads and restarts.

\* The server's delta is applied whatever the cursor: the cache is as old as the
\* older of the two.
LEMMA ReceiveAckKeeps ==
  ASSUME SyncInv, NEW a \in acks, ReceiveAck(a) PROVE SyncInv'
<1>1. /\ acks' \subseteq acks /\ confirmed' = Applied(confirmed, a.delta)
      /\ IsEmptyDelta(a.delta) => UNCHANGED <<basis, raced, pure>>
      /\ ~ IsEmptyDelta(a.delta) =>
           /\ basis' = IF Fresh \/ a.version < basis THEN a.version ELSE basis
           /\ raced' = ((~ Fresh /\ raced) \/ a.version < cursor \/ a.version < from)
           /\ pure' = ((Fresh \/ pure) /\ a.epoch = epoch)
      /\ UNCHANGED <<serverVars, linkVars, stream, cursor, held, known, live, loadVars, saved>>
      /\ answers' = answers
  BY DEF ReceiveAck, Merged, Dated, loadVars
<1>2. a \in Ack /\ a.version \in Nat /\ a.delta \in Delta /\ a.delta.added \subseteq Readable
  BY Types DEF Ack, SyncInv, InFlightInv
<1>3. /\ cursor \in Nat /\ basis \in Nat /\ from \in Nat /\ Version \in Nat
      /\ confirmed \in SUBSET Readable /\ confirmed \subseteq Readable
  BY Types
<1>4. basis' \in Nat /\ confirmed' \subseteq Readable
  BY <1>1, <1>2, <1>3 DEF Applied
<1>5. /\ Inv' /\ MemTypeOK' /\ Version' = Version /\ history' = history /\ epoch' = epoch
      /\ AskedInv' /\ StreamInv'
  BY <1>1, ConnectionKept
<1>6. InFlightInv' /\ Truth'
  BY <1>1, <1>5 DEF SyncInv, InFlightInv, Truth
<1>7. Typing'
  <2>1. pure' \in BOOLEAN /\ raced' \in BOOLEAN
    <3>1. CASE IsEmptyDelta(a.delta)
      BY <1>1, <3>1, Types
    <3>2. CASE ~ IsEmptyDelta(a.delta)
      BY <1>1, <3>2, Zenon
    <3> QED BY <3>1, <3>2
  <2> QED BY <1>1, <1>4, <1>5, <2>1
      DEF SyncInv, Typing, SyncTypeOK, linkVars, serverVars, loadVars
<1>8. SavedInv'
  BY <1>1, <1>5 DEF SyncInv, CacheInv, SavedInv
<1>9. CASE IsEmptyDelta(a.delta)
  <2>1. confirmed' = confirmed /\ UNCHANGED cacheVars
    BY <1>1, <1>9 DEF IsEmptyDelta, Applied, cacheVars
  <2>2. CacheInv'
    BY <1>1, <2>1, CacheKept DEF linkVars
  <2> QED BY <1>5, <1>6, <1>7, <2>2 DEF SyncInv
<1>10. CASE ~ IsEmptyDelta(a.delta)
  <2>1. basis' <= a.version /\ (~ Fresh => basis' <= basis)
    BY <1>1, <1>2, <1>3, <1>10
  <2>2. ASSUME pure' PROVE (~ Fresh => pure) /\ TrueDelta(history, Version, a.version, a.delta)
    BY <1>1, <1>10, <2>2 DEF SyncInv, Truth
  <2>3. BasisInv'
    <3> SUFFICES ASSUME pure'
                 PROVE  /\ Dates(history, Version, confirmed', held', basis')
                        /\ basis' <= Version
      BY <1>5 DEF BasisInv
    <3>1. TrueDelta(history, Version, a.version, a.delta) /\ a.version <= Version
      BY <2>2 DEF TrueDelta
    <3>2. \E b \in Nat : Dates(history, Version, confirmed, held, b) /\ basis' <= b
      <4>1. CASE Fresh
        BY <1>2, <2>1, <4>1, DatesOfNothing DEF Fresh
      <4>2. CASE ~ Fresh
        BY <1>3, <2>1, <2>2, <4>2 DEF SyncInv, CacheInv, BasisInv
      <4> QED BY <4>1, <4>2
    <3>3. Dates(history, Version, Applied(confirmed, a.delta), held, basis')
      BY <1>2, <1>3, <1>4, <2>1, <3>1, <3>2, DatesPatched
    <3>4. basis' <= Version
      BY <1>2, <1>3, <1>4, <2>1, <3>1
    <3> QED BY <1>1, <3>3, <3>4
  <2>4. ASSUME pure', ~ raced'
        PROVE  /\ cursor <= a.version /\ from <= a.version /\ (~ Fresh => Settled)
    <3>1. ~ (a.version < cursor) /\ ~ (a.version < from) /\ (~ Fresh => ~ raced)
      BY <1>1, <1>10, <2>4, Zenon
    <3>2. ~ Fresh => Settled
      BY <2>2, <2>4, <3>1, Zenon DEF Settled
    <3>3. cursor <= a.version /\ from <= a.version
      BY <1>2, <1>3, <3>1
    <3> QED BY <3>2, <3>3
  <2>5. CursorInv'
    <3> SUFFICES ASSUME pure', ~ raced' PROVE cursor <= basis'
      BY <1>1 DEF CursorInv, Settled
    <3>1. cursor <= a.version /\ (~ Fresh => cursor <= basis)
      BY <2>4 DEF SyncInv, CacheInv, CursorInv
    <3> QED BY <1>1, <1>2, <1>3, <1>10, <3>1
  <2>6. FromInv'
    <3> SUFFICES ASSUME pure', ~ raced', link = "up" \/ stream # <<>>,
                        \A i \in DOMAIN stream : stream[i].kind # "resync"
                 PROVE  from <= basis'
      BY <1>1 DEF FromInv, Settled, linkVars
    <3>1. from <= a.version /\ (~ Fresh => from <= basis)
      BY <2>4 DEF SyncInv, CacheInv, FromInv
    <3> QED BY <1>1, <1>2, <1>3, <1>10, <3>1
  <2> QED BY <1>5, <1>6, <1>7, <1>8, <2>3, <2>5, <2>6 DEF SyncInv, CacheInv
<1> QED BY <1>9, <1>10

LEMMA SaveKeeps ==
  ASSUME SyncInv, Save PROVE SyncInv'
<1>1. /\ saved' = Snapshot
      /\ UNCHANGED <<serverVars, linkVars, stream, cacheVars, known, live, loadVars, acks>>
      /\ answers' = answers /\ cursor' = cursor
  BY DEF Save, loadVars, cacheVars
<1>2. /\ Inv' /\ MemTypeOK' /\ Version' = Version /\ history' = history /\ epoch' = epoch
      /\ AskedInv' /\ StreamInv'
  BY <1>1, ConnectionKept
<1>3. /\ saved' \in SavedCache /\ saved'.epoch = epoch
      /\ saved'.confirmed = confirmed /\ saved'.held = held /\ saved'.basis = basis
      /\ saved'.pure = pure /\ saved'.raced = raced /\ saved'.cursor = cursor
  <2>1. Snapshot \in SavedCache
    BY Types DEF Snapshot, SavedCache
  <2> QED BY <1>1, <2>1 DEF Snapshot
<1>4. InFlightInv' /\ Truth'
  BY <1>1, <1>2, <1>3, Types DEF SyncInv, InFlightInv, Truth
<1>5. Typing'
  BY <1>1, <1>2, <1>3
     DEF SyncInv, Typing, SyncTypeOK, linkVars, serverVars, loadVars, cacheVars
<1>6. CacheInv'
  <2>1. BasisInv' /\ CursorInv' /\ FromInv'
    BY <1>1, <1>2
       DEF SyncInv, CacheInv, BasisInv, CursorInv, FromInv, Settled, Fresh, cacheVars, linkVars
  <2>2. SavedInv'
    BY <1>2, <1>3 DEF SyncInv, CacheInv, BasisInv, CursorInv, SavedInv, Settled, Fresh
  <2> QED BY <2>1, <2>2 DEF CacheInv
<1> QED BY <1>2, <1>4, <1>5, <1>6 DEF SyncInv

LEMMA ReloadKeeps ==
  ASSUME SyncInv, Reload PROVE SyncInv'
<1>1. /\ link' = "down" /\ stream' = <<>> /\ live' = {} /\ failed' = {} /\ asked' = {}
      /\ answers' = {} /\ acks' = {}
      /\ confirmed' = saved.confirmed /\ cursor' = saved.cursor /\ known' = saved.known
      /\ held' = saved.held /\ basis' = saved.basis /\ raced' = saved.raced
      /\ pure' = (saved.pure /\ saved.epoch = epoch)
      /\ UNCHANGED <<serverVars, since, from, saved>>
  BY DEF Reload
<1>2. /\ Inv' /\ Version' = Version /\ history' = history /\ epoch' = epoch /\ MemTypeOK'
  BY <1>1, ServerKept
<1>3. Typing'
  <2>1. saved \in SavedCache /\ pure' \in BOOLEAN /\ from \in Nat /\ since \in Nat
    BY <1>1, Types, Zenon
  <2>2. /\ saved.confirmed \subseteq Readable /\ saved.cursor \in Nat /\ saved.known \in Nat
        /\ saved.held \in SUBSET Query /\ saved.basis \in Nat /\ saved.raced \in BOOLEAN
    BY <2>1 DEF SavedCache
  <2> QED BY <1>1, <1>2, <2>1, <2>2 DEF SyncInv, Typing, SyncTypeOK, serverVars
<1>4. InFlightInv' /\ AskedInv' /\ Truth'
  BY <1>1, <1>2 DEF SyncInv, InFlightInv, AskedInv, Truth
<1>5. StreamInv'
  <2>1. Shape(stream', 0, from) /\ from \in Nat
    BY <1>1, Types DEF Shape
  <2> QED BY <1>1, <2>1 DEF StreamInv
<1>6. CacheInv'
  BY <1>1, <1>2 DEF SyncInv, CacheInv, BasisInv, CursorInv, FromInv, SavedInv, Settled, Fresh
<1> QED BY <1>2, <1>3, <1>4, <1>5, <1>6 DEF SyncInv

\* Nothing in flight or saved is of the history that begins.
LEMMA ServerRestartKeeps ==
  ASSUME SyncInv, ServerRestart PROVE SyncInv'
<1>1. /\ epoch' = epoch + 1 /\ mem' = EmptyStorage /\ history' = <<{}>>
      /\ link' = IF link = "up" THEN "down" ELSE link
      /\ pure' = Fresh /\ basis' = 0
      /\ UNCHANGED <<since, from, stream, confirmed, cursor, held, raced, known, live,
                     loadVars, acks, saved>>
      /\ answers' = answers
  BY DEF ServerRestart, loadVars
<1>2. Inv' /\ MemTypeOK'
  <2>1. Typed(mem', history') /\ Dense(mem', history') /\ Folds(mem', history')
    BY <1>1 DEF EmptyStorage, Typed, Dense, Folds, VersionOf
  <2> QED BY <2>1, InvIsGood DEF Good, Inv
<1>3. epoch \in Nat /\ epoch' \in Nat /\ ~ (epoch' <= epoch)
  BY <1>1, Types
<1>4. Typing'
  <2>1. pure' \in BOOLEAN /\ link' \in {"down", "asked", "up"}
    <3>1. pure' \in BOOLEAN
      BY <1>1, Zenon DEF Fresh
    <3> QED BY <1>1, <3>1, Types
  <2> QED BY <1>1, <1>2, <1>3, <2>1 DEF SyncInv, Typing, SyncTypeOK, loadVars
<1>5. InFlightInv'
  <2>1. \A e \in Nat : e <= epoch => e <= epoch'
    BY <1>1, <1>3
  <2>2. \A i \in DOMAIN stream : stream[i].kind = "delta" => stream[i].epoch \in Nat
    BY Types DEF Message, HelloMessage, ResyncMessage, DeltaMessage
  <2>3. /\ \A a \in answers : a.epoch \in Nat
        /\ \A a \in acks : a.epoch \in Nat
        /\ saved.epoch \in Nat
    BY Types DEF Answer, Ack, SavedCache
  <2> QED BY <1>1, <2>1, <2>2, <2>3 DEF SyncInv, InFlightInv
<1>6. AskedInv'
  BY <1>1 DEF SyncInv, AskedInv
<1>7. StreamInv'
  BY <1>1 DEF SyncInv, StreamInv
<1>8. Truth'
  BY <1>1, <1>3 DEF SyncInv, Truth, InFlightInv
<1>9. CacheInv'
  <2>1. Fresh' = Fresh
    BY <1>1 DEF Fresh
  <2>2. BasisInv'
    BY <1>1, <2>1, DatesOfNothing DEF BasisInv, Fresh
  <2>3. CursorInv' /\ FromInv'
    BY <1>1, <2>1 DEF CursorInv, FromInv, Settled
  <2>4. SavedInv'
    BY <1>1, <1>3 DEF SyncInv, InFlightInv, SavedInv
  <2> QED BY <2>2, <2>3, <2>4 DEF CacheInv
<1> QED BY <1>2, <1>4, <1>5, <1>6, <1>7, <1>8, <1>9 DEF SyncInv

----------------------------------------------------------------------------
LEMMA StutterKeeps ==
  ASSUME SyncInv, UNCHANGED vars PROVE SyncInv'
<1>1. /\ UNCHANGED <<serverVars, linkVars, stream, cacheVars, acks, saved, known, live>>
      /\ answers' = answers /\ asked' = asked /\ failed' = failed
  BY DEF vars, loadVars
<1>2. /\ Inv' /\ MemTypeOK' /\ InFlightInv' /\ AskedInv' /\ StreamInv' /\ Truth' /\ CacheInv'
      /\ epoch' = epoch
  BY <1>1, QuietKept
<1>3. Typing'
  BY <1>1, <1>2 DEF SyncInv, Typing, SyncTypeOK, linkVars, cacheVars
<1> QED BY <1>2, <1>3 DEF SyncInv

LEMMA SyncInvStep == SyncInv /\ [Next]_vars => SyncInv'
<1> SUFFICES ASSUME SyncInv, [Next]_vars PROVE SyncInv'
  OBVIOUS
<1>1. CASE UNCHANGED vars
  BY <1>1, StutterKeeps
<1>2. ASSUME NEW d \in Writes, Commit(d) \/ OwnCommit(d) PROVE SyncInv'
  BY <1>2, CommitKeeps DEF Commit, OwnCommit
<1>3. CASE Connect \/ ServeSubscribe \/ Drop
  BY <1>3, ConnectKeeps, ServeSubscribeKeeps, DropKeeps
<1>4. CASE ReceiveHello \/ ReceiveResync \/ SkipDelta \/ ApplyDelta
  BY <1>4, ReceiveHelloKeeps, ReceiveResyncKeeps, SkipDeltaKeeps, ApplyDeltaKeeps
<1>5. ASSUME NEW q \in Query, Watch(q) \/ Close(q) PROVE SyncInv'
  BY <1>5, WatchKeeps, CloseKeeps
<1>6. ASSUME NEW l \in asked, ServeLoad(l) \/ LoseLoad(l) PROVE SyncInv'
  BY <1>6, ServeLoadKeeps, LoseLoadKeeps
<1>7. ASSUME NEW a \in answers, AcceptAnswer(a) \/ RetryAnswer(a) \/ GiveUp(a) PROVE SyncInv'
  BY <1>7, AcceptAnswerKeeps, StaleAnswerKeeps
<1>8. ASSUME NEW a \in acks, ReceiveAck(a) PROVE SyncInv'
  BY <1>8, ReceiveAckKeeps
<1>9. CASE Save \/ Reload \/ ServerRestart
  BY <1>9, SaveKeeps, ReloadKeeps, ServerRestartKeeps
<1> QED BY <1>1, <1>2, <1>3, <1>4, <1>5, <1>6, <1>7, <1>8, <1>9 DEF Next

LEMMA SyncInvAlways == Spec => []SyncInv
<1>1. SyncInv /\ [Next]_vars => SyncInv'
  BY SyncInvStep
<1> QED BY <1>1, InitSync, PTL DEF Spec

----------------------------------------------------------------------------
\* Whatever is in flight and whatever breaks, the client, the stream and the
\* server keep their types, and the cache holds nothing its actor may not read.
THEOREM SyncTypeCorrect == Spec => []SyncTypeOK
<1>1. SyncInv => SyncTypeOK
  BY DEF SyncInv, Typing
<1> QED BY <1>1, SyncInvAlways, PTL

\* client.ts on load: nothing in a cache that did not race is older than its
\* cursor, whatever order answers, acks and deltas arrived in.
THEOREM NothingEverOlderThanCursor == Spec => []NothingOlderThanCursor
<1>1. SyncInv => NothingOlderThanCursor
  <2> SUFFICES ASSUME SyncInv, pure, ~ raced PROVE NoOlderThan(cursor)
    BY DEF NothingOlderThanCursor
  <2>1. Dates(history, Version, confirmed, held, cursor)
    <3>1. CASE Fresh
      BY <3>1, DatesOfNothing DEF Fresh
    <3>2. CASE ~ Fresh
      BY <3>2, DatesEarlier, Types DEF SyncInv, CacheInv, BasisInv, CursorInv, Settled
    <3> QED BY <3>1, <3>2
  <2> QED BY <2>1 DEF Dates, NoOlderThan, At
<1> QED BY <1>1, SyncInvAlways, PTL

\* The open stream carries every version up to the present one, in order, over any
\* number of commits, compactions and reconnects; the cursor never jumps one.
THEOREM NoVersionEverSkipped == Spec => []NoVersionIsSkipped
<1>1. SyncInv => NoVersionIsSkipped
  <2> SUFFICES ASSUME SyncInv, link = "up" PROVE NoVersionIsSkipped
    BY DEF NoVersionIsSkipped
  <2>1. PICK n \in Nat, base \in Nat :
          /\ Shape(stream, n, base)
          /\ base = from \/ base <= cursor
          /\ from <= base
          /\ base + (Len(stream) - n) = Version
    BY DEF SyncInv, StreamInv
  <2>2. Len(stream) \in Nat /\ DOMAIN stream = 1..Len(stream) /\ n \in 0..Len(stream)
    BY <2>1, Types DEF Shape
  <2>3. Version - (Len(stream) - n) = base
    BY <2>1, <2>2
  <2>4. ASSUME NEW i \in DOMAIN stream PROVE stream[i].kind = "delta" <=> i > n
    <3>1. CASE i \in 1..n
      BY <2>1, <2>2, <3>1 DEF Shape
    <3>2. CASE i \in (n + 1)..Len(stream)
      BY <2>1, <2>2, <3>2 DEF Shape
    <3> QED BY <2>2, <3>1, <3>2
  <2>5. \A i \in (n + 1)..Len(stream) : stream[i].version = base + (i - n)
    BY <2>1 DEF Shape
  <2>6. from <= cursor => base <= cursor
    BY <2>1
  <2> QED BY <2>1, <2>2, <2>3, <2>4, <2>5, <2>6, Zenon DEF NoVersionIsSkipped
<1> QED BY <1>1, SyncInvAlways, PTL

\* A client that has read its stream to the end agrees with the server on every
\* query it was given, for every order of everything that was in flight.
THEOREM CaughtUpAlwaysAgrees == Spec => []AgreesWhenCaughtUp
<1>1. SyncInv => AgreesWhenCaughtUp
  <2> SUFFICES ASSUME SyncInv, link = "up", stream = <<>>, pure, ~ raced
               PROVE  /\ confirmed \subseteq mem.store
                      /\ \A q \in held : q \cap Readable \cap mem.store \subseteq confirmed
    BY DEF AgreesWhenCaughtUp
  <2>1. CASE Fresh
    BY <2>1 DEF Fresh
  <2>2. CASE ~ Fresh
    <3>1. PICK n \in Nat, base \in Nat :
            /\ Shape(stream, n, base)
            /\ base = from \/ base <= cursor
            /\ base + (Len(stream) - n) = Version
      BY DEF SyncInv, StreamInv
    <3>2. base = Version
      BY <3>1 DEF Shape
    <3>3. cursor <= basis /\ from <= basis
      BY <2>2 DEF SyncInv, CacheInv, CursorInv, FromInv, Settled
    <3>4. /\ Dates(history, Version, confirmed, held, basis) /\ basis <= Version
      BY <2>2 DEF SyncInv, CacheInv, BasisInv
    <3>5. basis = Version
      BY <3>1, <3>2, <3>3, <3>4, Types
    <3>6. history[Version + 1] = mem.store
      BY ServerFacts DEF SyncInv, At
    <3>7. \A w \in basis..Version : w = Version
      BY <3>5, Types
    <3> QED BY <3>4, <3>5, <3>6, <3>7, Types DEF Dates
  <2> QED BY <2>1, <2>2
<1> QED BY <1>1, SyncInvAlways, PTL
=============================================================================
