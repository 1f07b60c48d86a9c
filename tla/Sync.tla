-------------------------------- MODULE Sync --------------------------------
(***************************************************************************)
(* One client's cache against the server it syncs with (client/client.ts,  *)
(* client/transport.ts, server/server.ts over MemoryStorage).  State       *)
(* reaches the cache on three channels that do not wait for each other:    *)
(* query answers and acks over HTTP, and the delta stream.  The cursor is  *)
(* what ties them together, the epoch what ties them to one history.       *)
(*                                                                         *)
(* Other clients are the commits they cause.  What the actor may read is   *)
(* fixed (visibility that moves with the data is fan-out's concern), and a *)
(* query's scope is a fixed set of triples.                                *)
(***************************************************************************)
EXTENDS MemoryStorage

CONSTANTS
  Readable,     \* the triples this actor may read
  Query,        \* the queries it may watch: sets of triples
  Writes,       \* the deltas anyone may commit
  MaxAttempts,  \* tries of one load before it gives up (5 in load)
  MaxEpoch,     \* bound on the server's histories
  MaxFaults,    \* bound on drops, lost answers and reloads
  MaxWatches    \* bound on watch() calls

ASSUME SyncAssumption ==
  /\ Readable \subseteq Triple
  /\ Query \subseteq SUBSET Triple
  /\ Writes \subseteq Delta
  /\ MaxAttempts \in Nat \ {0}

VARIABLES
  epoch,      \* the server's history identity
  link,       \* the delta stream: "down", "asked" (request sent), "up"
  since,      \* the cursor the last subscribe request carried, 0 for none
  stream,     \* messages sent on it and not yet read
  from,       \* the stream carries every version after this one
  confirmed,  \* #confirmed
  cursor,     \* #version
  known,      \* #epoch, 0 before the first hello
  live,       \* the queries being watched
  failed,     \* of those, the ones whose status is "error"
  asked,      \* loads on their way to the server
  answers,    \* query results on their way back
  acks,       \* acks of this client's own writes on their way back
  saved,      \* what ClientPersistence holds
  held,       \* history variable: queries answered into the cache since it was empty
  basis,      \* history variable: no content of the cache is older than this version
  pure,       \* history variable: all of it is from the server's present epoch
  raced,      \* history variable: some of it came in behind the cursor or the stream
  faults,
  watches

serverVars == <<mem, history, epoch>>
linkVars   == <<link, since, from>>
cacheVars  == <<confirmed, cursor, held, basis, pure, raced>>
loadVars   == <<asked, answers, failed>>
boundVars  == <<faults, watches>>

vars == <<serverVars, linkVars, stream, cacheVars, known, live, loadVars, acks,
          saved, boundVars>>

Version == VersionOf(mem)
At(v)   == history[v + 1]

Load   == [query : Query, attempt : 0..MaxAttempts]
Answer == [query : Query, attempt : 0..MaxAttempts, version : Nat,
           triples : SUBSET Triple, epoch : Nat]
Ack    == [version : Nat, delta : Delta, epoch : Nat]

HelloMessage == [kind : {"hello"}, epoch : Nat]
ResyncMessage == [kind : {"resync"}]
DeltaMessage == [kind : {"delta"}, version : Nat, delta : Delta, epoch : Nat]

\* An ack and a delta message carry no epoch in the code: it is here so that the
\* properties can tell histories apart.
AckOf(v, d)   == [version |-> v, delta |-> d, epoch |-> epoch]
DeltaOf(v, d) == [kind |-> "delta", version |-> v, delta |-> d, epoch |-> epoch]

----------------------------------------------------------------------------
\* The cache

\* Nothing in it that could be out of date.
Fresh == confirmed = {} /\ held = {}

\* The oldest content once content of version v joins.
Dated(v) == IF Fresh \/ v < basis THEN v ELSE basis

\* Mutant: only the bookkeeping is reset.
EmptyCacheKeeping ==
  /\ UNCHANGED confirmed
  /\ cursor' = 0
  /\ held' = {}
  /\ basis' = 0
  /\ pure' = TRUE
  /\ raced' = FALSE

EmptyCache ==
  /\ confirmed' = {}
  /\ cursor' = 0
  /\ held' = {}
  /\ basis' = 0
  /\ pure' = TRUE
  /\ raced' = FALSE

\* #confirmed.apply
Merged(d) == Applied(confirmed, d)

\* Mutant: the watched queries are not asked again.
ResyncForgetful ==
  /\ EmptyCache
  /\ UNCHANGED asked

\* #resync: drop the cache and re-run every watched query.
Resync ==
  /\ EmptyCache
  /\ asked' = asked \cup {[query |-> q, attempt |-> 0] : q \in live}

----------------------------------------------------------------------------
\* The server's writes

Stored(d) ==
  LET next == Appended(mem, d)
  IN  IF next = mem THEN mem ELSE CompactIfDue(next, RetainLog)

\* Mutant: a commit the actor can see nothing of is not sent to it.
FanOutVisible(d) ==
  IF link = "up" /\ Appended(mem, d) # mem /\ ~ IsEmptyDelta(Visible(d, Readable))
  THEN Append(stream, DeltaOf(Version + 1, Visible(d, Readable)))
  ELSE stream

\* #send: an invisible commit still moves the subscriber's cursor.
FanOut(d) ==
  IF link = "up" /\ Appended(mem, d) # mem
  THEN Append(stream, DeltaOf(Version + 1, Visible(d, Readable)))
  ELSE stream

\* Apply, compact if due, fan out: one handler that nothing interleaves.
CommitDelta(d) ==
  /\ Version < MaxVersion
  /\ mem' = Stored(d)
  /\ history' = Record(Appended(mem, d))
  /\ stream' = FanOut(d)
  /\ UNCHANGED epoch

\* Another client's transact, or the server's own commit.
Commit(d) ==
  /\ CommitDelta(d)
  /\ UNCHANGED <<linkVars, cacheVars, known, live, loadVars, acks, saved, boundVars>>

\* This client's transact as the server answers it; one that changes nothing is
\* acked too, at the present version.  Sends are serialized: the next one leaves
\* when the answer to the last one is in.
OwnCommit(d) ==
  /\ acks = {}
  /\ CommitDelta(d)
  /\ acks' = acks \cup
       {IF Appended(mem, d) # mem THEN AckOf(Version + 1, Visible(d, Readable))
                                  ELSE AckOf(Version, NoDelta)}
  /\ UNCHANGED <<linkVars, cacheVars, known, live, loadVars, saved, boundVars>>

----------------------------------------------------------------------------
\* The delta stream

\* The transport's loop: what the last connection still held is gone.
Connect ==
  /\ link = "down"
  /\ link' = "asked"
  /\ since' = cursor
  /\ stream' = <<>>
  /\ UNCHANGED <<serverVars, from, cacheVars, known, live, loadVars, acks, saved,
                 boundVars>>

\* Mutant: the log is asked only whether it has anything after the cursor.
BacklogUnchecked ==
  LET entries == EntriesSince(mem, IF Retains(mem, since) THEN since ELSE mem.floor)
  IN  [i \in DOMAIN entries |->
         DeltaOf(entries[i].version, Visible(entries[i].delta, Readable))]

\* The replay of the log after the cursor, or the word that there is none.
Backlog ==
  IF ~ Retains(mem, since)
  THEN <<[kind |-> "resync"]>>
  ELSE LET entries == EntriesSince(mem, since)
       IN  [i \in DOMAIN entries |->
              DeltaOf(entries[i].version, Visible(entries[i].delta, Readable))]

\* subscribe: hello first, then the backlog if a cursor was given.  A client that
\* has content and no cursor is sent nothing of what it missed.
ServeSubscribe ==
  /\ link = "asked"
  /\ link' = "up"
  /\ stream' = <<[kind |-> "hello", epoch |-> epoch]>>
                 \o (IF since > 0 THEN Backlog ELSE <<>>)
  /\ from' = IF since > 0 /\ Retains(mem, since) /\ since <= Version
             THEN since ELSE Version
  /\ raced' = (raced \/ (since = 0 /\ ~ Fresh /\ basis < Version))
  /\ UNCHANGED <<serverVars, since, confirmed, cursor, held, basis, pure, known, live,
                 loadVars, acks, saved, boundVars>>

\* The connection breaks: nothing more is sent on it, and what was sent may
\* still be read.
Drop ==
  /\ link # "down"
  /\ faults < MaxFaults
  /\ link' = "down"
  /\ faults' = faults + 1
  /\ UNCHANGED <<serverVars, since, from, stream, cacheVars, known, live, loadVars,
                 acks, saved, watches>>

Read(kind) ==
  /\ stream # <<>>
  /\ Head(stream).kind = kind
  /\ stream' = Tail(stream)

\* #onStream hello: another epoch than the one known means another history.
ReceiveHello ==
  /\ Read("hello")
  /\ known' = Head(stream).epoch
  /\ IF known # 0 /\ known # Head(stream).epoch
     THEN Resync
     ELSE UNCHANGED <<cacheVars, asked>>
  /\ UNCHANGED <<serverVars, linkVars, live, answers, failed, acks, saved, boundVars>>

ReceiveResync ==
  /\ Read("resync")
  /\ Resync
  /\ UNCHANGED <<serverVars, linkVars, known, live, answers, failed, acks, saved,
                 boundVars>>

\* #applyRemote: at or below the cursor is an echo or a repeat.
SkipDelta ==
  /\ Read("delta")
  /\ Head(stream).version <= cursor
  /\ UNCHANGED <<serverVars, linkVars, cacheVars, known, live, loadVars, acks, saved,
                 boundVars>>

\* The cursor follows the stream.  Content that was complete through the version
\* before is now complete through this one; over a gap it stays as old as it was.
ApplyDelta ==
  /\ Read("delta")
  /\ LET m    == Head(stream)
         step == Fresh \/ basis >= m.version - 1
     IN  /\ m.version > cursor
         /\ confirmed' = Merged(m.delta)
         /\ cursor' = m.version
         /\ basis' = IF step THEN m.version ELSE basis
         /\ raced' = (~ Fresh /\ raced)
         /\ pure' = ((Fresh \/ pure) /\ m.epoch = epoch)
  /\ UNCHANGED <<serverVars, linkVars, held, known, live, loadVars, acks, saved,
                 boundVars>>

----------------------------------------------------------------------------
\* Queries

\* watch: the query runs against the cache at once and is loaded behind it.
Watch(q) ==
  /\ q \notin live
  /\ watches < MaxWatches
  /\ watches' = watches + 1
  /\ live' = live \cup {q}
  /\ asked' = asked \cup {[query |-> q, attempt |-> 0]}
  /\ UNCHANGED <<serverVars, linkVars, stream, cacheVars, known, answers, failed, acks,
                 saved, faults>>

\* close and #evict: what no remaining query needs is dropped.  A load in flight
\* for the closed query is not cancelled.
Close(q) ==
  /\ q \in live
  /\ live' = live \ {q}
  /\ failed' = failed \ {q}
  /\ confirmed' = confirmed \cap UNION live'
  /\ held' = held \cap live'
  /\ UNCHANGED <<serverVars, linkVars, stream, cursor, basis, pure, raced, known, asked,
                 answers, acks, saved, boundVars>>

\* Server.query: the readable part of the scope, stamped with the version.
ServeLoad(l) ==
  /\ asked' = asked \ {l}
  /\ answers' = answers \cup
       {[query |-> l.query, attempt |-> l.attempt, version |-> Version,
         triples |-> l.query \cap Readable \cap mem.store, epoch |-> epoch]}
  /\ UNCHANGED <<serverVars, linkVars, stream, cacheVars, known, live, failed, acks,
                 saved, boundVars>>

\* Mutant: a load moves the cursor to its version.
SeedAlways(a) == a.version

\* Only a cursor at 0 takes the snapshot's version.
Seed(a) == IF cursor = 0 THEN a.version ELSE cursor

\* Mutant: a snapshot older than the cursor is applied.
StampIgnored(a) == TRUE

InTime(a) == a.version >= cursor

\* A snapshot at or beyond the cursor is merged; it can only add.
AcceptAnswer(a) ==
  /\ InTime(a)
  /\ answers' = answers \ {a}
  /\ confirmed' = confirmed \cup a.triples
  /\ cursor' = Seed(a)
  /\ held' = held \cup {a.query}
  /\ failed' = failed \ {a.query}
  /\ basis' = Dated(a.version)
  /\ raced' = (\/ ~ Fresh /\ (raced \/ (cursor = 0 /\ basis < a.version))
               \/ a.version < from)
  /\ pure' = ((Fresh \/ pure) /\ a.epoch = epoch)
  /\ UNCHANGED <<serverVars, linkVars, stream, known, live, asked, acks, saved, boundVars>>

\* "Stale: ask again".
RetryAnswer(a) ==
  /\ ~ InTime(a)
  /\ a.attempt + 1 < MaxAttempts
  /\ answers' = answers \ {a}
  /\ asked' = asked \cup {[query |-> a.query, attempt |-> a.attempt + 1]}
  /\ UNCHANGED <<serverVars, linkVars, stream, cacheVars, known, live, failed, acks, saved,
                 boundVars>>

\* The last try was stale too: the query's status becomes "error".
GiveUp(a) ==
  /\ ~ InTime(a)
  /\ a.attempt + 1 >= MaxAttempts
  /\ answers' = answers \ {a}
  /\ failed' = failed \cup ({a.query} \cap live)
  /\ UNCHANGED <<serverVars, linkVars, stream, cacheVars, known, live, asked, acks, saved,
                 boundVars>>

\* The request fails on the network: load throws and the status is "error".
LoseLoad(l) ==
  /\ faults < MaxFaults
  /\ faults' = faults + 1
  /\ asked' = asked \ {l}
  /\ failed' = failed \cup ({l.query} \cap live)
  /\ UNCHANGED <<serverVars, linkVars, stream, cacheVars, known, live, answers, acks, saved,
                 watches>>

----------------------------------------------------------------------------
\* Acks, persistence, restarts

\* transact, after the await: the server's delta is applied whatever the cursor
\* has become meanwhile, and the cursor is left to the stream.
ReceiveAck(a) ==
  /\ acks' = acks \ {a}
  /\ confirmed' = Merged(a.delta)
  /\ IF IsEmptyDelta(a.delta)
     THEN UNCHANGED <<basis, raced, pure>>
     ELSE /\ basis' = Dated(a.version)
          /\ raced' = ((~ Fresh /\ raced) \/ a.version < cursor \/ a.version < from)
          /\ pure' = ((Fresh \/ pure) /\ a.epoch = epoch)
  /\ UNCHANGED <<serverVars, linkVars, stream, cursor, held, known, live, loadVars, saved,
                 boundVars>>

Snapshot ==
  [confirmed |-> confirmed, cursor |-> cursor, known |-> known, held |-> held,
   basis |-> basis, pure |-> pure, raced |-> raced, epoch |-> epoch]

\* The save timer fires.  A save matters only if a reload may follow.
Save ==
  /\ faults < MaxFaults
  /\ saved' = Snapshot
  /\ UNCHANGED <<serverVars, linkVars, stream, cacheVars, known, live, loadVars, acks,
                 boundVars>>

\* The page goes away with everything in flight, and the next one hydrates.
Reload ==
  /\ faults < MaxFaults
  /\ faults' = faults + 1
  /\ link' = "down"
  /\ stream' = <<>>
  /\ confirmed' = saved.confirmed
  /\ cursor' = saved.cursor
  /\ known' = saved.known
  /\ held' = saved.held
  /\ basis' = saved.basis
  /\ pure' = (saved.pure /\ saved.epoch = epoch)
  /\ raced' = saved.raced
  /\ live' = {}
  /\ failed' = {}
  /\ asked' = {}
  /\ answers' = {}
  /\ acks' = {}
  /\ UNCHANGED <<serverVars, since, from, saved, watches>>

\* The server process restarts over in-memory storage: an empty history under an
\* epoch of its own.  (Durable storage keeps history and epoch: that is a Drop.)
ServerRestart ==
  /\ epoch < MaxEpoch
  /\ epoch' = epoch + 1
  /\ mem' = EmptyStorage
  /\ history' = <<{}>>
  /\ link' = IF link = "up" THEN "down" ELSE link
  /\ pure' = Fresh
  /\ basis' = 0
  /\ UNCHANGED <<since, from, stream, confirmed, cursor, held, raced, known, live,
                 loadVars, acks, saved, boundVars>>

----------------------------------------------------------------------------
Init ==
  /\ MemInit
  /\ epoch = 1
  /\ link = "down"
  /\ since = 0
  /\ from = 0
  /\ stream = <<>>
  /\ confirmed = {}
  /\ cursor = 0
  /\ known = 0
  /\ live = {}
  /\ failed = {}
  /\ asked = {}
  /\ answers = {}
  /\ acks = {}
  /\ held = {}
  /\ basis = 0
  /\ pure = TRUE
  /\ raced = FALSE
  /\ saved = [confirmed |-> {}, cursor |-> 0, known |-> 0, held |-> {},
              basis |-> 0, pure |-> TRUE, raced |-> FALSE, epoch |-> 1]
  /\ faults = 0
  /\ watches = 0

Next ==
  \/ \E d \in Writes : Commit(d)
  \/ \E d \in Writes : OwnCommit(d)
  \/ Connect
  \/ ServeSubscribe
  \/ Drop
  \/ ReceiveHello
  \/ ReceiveResync
  \/ SkipDelta
  \/ ApplyDelta
  \/ \E q \in Query : Watch(q)
  \/ \E q \in Query : Close(q)
  \/ \E l \in asked : ServeLoad(l)
  \/ \E l \in asked : LoseLoad(l)
  \/ \E a \in answers : AcceptAnswer(a)
  \/ \E a \in answers : RetryAnswer(a)
  \/ \E a \in answers : GiveUp(a)
  \/ \E a \in acks : ReceiveAck(a)
  \/ Save
  \/ Reload
  \/ ServerRestart

Spec == Init /\ [][Next]_vars

Receive == ReceiveHello \/ ReceiveResync \/ SkipDelta \/ ApplyDelta

\* The transport reconnects for ever, the server answers what reaches it and the
\* client reads what arrives; nobody has to write, watch or break anything.
Fairness ==
  /\ WF_vars(Connect)
  /\ WF_vars(ServeSubscribe)
  /\ WF_vars(Receive)
  /\ WF_vars(\E l \in asked : ServeLoad(l))
  /\ WF_vars(\E a \in answers : AcceptAnswer(a) \/ RetryAnswer(a) \/ GiveUp(a))
  /\ WF_vars(\E a \in acks : ReceiveAck(a))

FairSpec == Spec /\ Fairness

----------------------------------------------------------------------------
SyncTypeOK ==
  /\ MemTypeOK
  /\ epoch \in Nat /\ known \in Nat
  /\ link \in {"down", "asked", "up"}
  /\ since \in Nat /\ from \in Nat
  /\ stream \in Seq(HelloMessage \cup ResyncMessage \cup DeltaMessage)
  /\ confirmed \subseteq Readable
  /\ cursor \in Nat /\ basis \in Nat
  /\ live \in SUBSET Query /\ held \in SUBSET Query
  /\ failed \subseteq live
  /\ asked \subseteq Load
  /\ \A a \in answers : a \in Answer
  /\ \A a \in acks : a \in Ack
  /\ pure \in BOOLEAN /\ raced \in BOOLEAN

\* The cache is no older than version v: what it holds was in the store, and what
\* it should hold and does not was absent, at some version from v on.
NoOlderThan(v) ==
  /\ \A t \in confirmed : \E w \in v..Version : t \in At(w)
  /\ \A q \in held : \A t \in (q \cap Readable) \ confirmed :
       \E w \in v..Version : t \notin At(w)

\* client.ts on load: the cursor is the version through which every visible effect
\* has been applied, so no cached triple and no cached absence is older than it.
\* It holds until an ack or a seed brings in something older (raced).
NothingOlderThanCursor ==
  (pure /\ ~ raced) => NoOlderThan(cursor)

\* The open stream is its n messages of handshake and then every version after
\* the last one read, in order, up to the present one; and a cursor that has
\* reached where the stream starts is never carried over a version.
NoVersionIsSkipped ==
  link = "up" =>
    \E n \in 0..Len(stream) :
      LET read == Version - (Len(stream) - n)
      IN  /\ \A i \in DOMAIN stream : stream[i].kind = "delta" <=> i > n
          /\ \A i \in (n + 1)..Len(stream) : stream[i].version = read + (i - n)
          /\ from <= read
          /\ from <= cursor => read <= cursor

\* A cache that has read its stream to the end agrees with the server on every
\* query it was given, unless it raced.
AgreesWhenCaughtUp ==
  (link = "up" /\ stream = <<>> /\ pure /\ ~ raced) =>
    /\ confirmed \subseteq mem.store
    /\ \A q \in held : q \cap Readable \cap mem.store \subseteq confirmed

\* Everything in flight lands, and every watched query ends with its scope cached
\* or its status "error": no query waits for ever, none is stale unawares after a
\* resync.
Converges ==
  <>[](/\ link = "up" /\ stream = <<>>
       /\ asked = {} /\ answers = {}
       /\ live \subseteq held \cup failed)
=============================================================================
