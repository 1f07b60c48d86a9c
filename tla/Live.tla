-------------------------------- MODULE Live --------------------------------
(***************************************************************************)
(* Live queries (client/client.ts: LiveQuery, watch, load, transact,       *)
(* #notify, #evict; client/react.ts: useQuery).  A client holds a partial  *)
(* cache and pending writes over it; its queries show what the two give,   *)
(* re-run when a delta touches them, refill when a window runs short, and  *)
(* say what may be evicted.                                                *)
(*                                                                         *)
(* The query engine is a parameter, module Query in the runs: the          *)
(* assumptions below say what the client relies on.  The stream stays open *)
(* and the client may read everything: modules Sync and FanOut break the   *)
(* one and restrict the other.  A failed write goes to module Outbox.      *)
(***************************************************************************)
EXTENDS Schema

CONSTANTS
  Payload,     \* the queries the components on screen use, by name
  Watches(_),  \* the predicates a query touches (queryPredicates)
  RunPayload(_, _),               \* the rows of a query over a set of triples
  CollectPayloadTriples(_, _, _), \* what a set has of a query's triples; TRUE if its adapter ranks
  AllWhole(_, _),                 \* whether a set has every required field of a query's roots
  Writes,      \* what anyone may write: [clears, puts]
  Seed,        \* the store to begin with
  Budget       \* bound on the versions, the mounts, the losses and the pending writes together

\* Two values of a single field are in a view at once when a pending write meets a
\* value not loaded before or written by someone else.  Both show until the ack
\* brings the removal.
OneValueEach(V) == \A t, u \in V : t.subject = u.subject /\ t.predicate = u.predicate => t = u

Unlimited(q) == [Payload[q] EXCEPT !.limit = 0, !.after = {}]

ASSUME LiveAssumption ==
  /\ Seed \subseteq Triple /\ Budget \in Nat
  /\ \A w \in Writes : w.puts \subseteq Triple
  /\ \A q \in DOMAIN Payload, V \in SUBSET Triple, ranked \in BOOLEAN :
       CollectPayloadTriples(V, Payload[q], ranked) \subseteq V

\* The rows depend on the fields watched.  The order field is one of them only if it
\* is also selected or constrained; and a query pinned to a subject has to ask for a
\* required field of it, or any other could make the row appear (module Queries).
ASSUME WatchesAssumption ==
  \A q \in DOMAIN Payload, V, W \in SUBSET Triple :
    {t.predicate : t \in (V \ W) \cup (W \ V)} \cap Watches(Payload[q]) = {}
      => RunPayload(V, Payload[q]) = RunPayload(W, Payload[q])

\* What is collected gives the rows again, alone or with more of the set it is of.
\* Not so if a field has two values, or a window meets a root of which the set has a
\* part: rows leave such roots out before the window is cut, the collector does not.
ASSUME CollectAssumption ==
  \A q \in DOMAIN Payload, V \in SUBSET Triple :
    OneValueEach(V) /\ (Payload[q].limit # 0 => AllWhole(V, Payload[q])) =>
      \A W \in SUBSET V :
        CollectPayloadTriples(V, Payload[q], FALSE) \subseteq W
          => RunPayload(W, Payload[q]) = RunPayload(V, Payload[q])

\* Whether C has all that a query reads of a subject in S.
Held(S, C, q, s) ==
  \A t \in S :
    t.subject = s /\ t.predicate \in Watches(Payload[q]) \cup {Payload[q].order} => t \in C

\* A row reads its own subject: no refs are walked and no rows are nested.
ASSUME RowAssumption ==
  \A q \in DOMAIN Payload, S \in SUBSET Triple : \A C \in SUBSET S :
    \A i \in DOMAIN RunPayload(C, Payload[q]) :
      LET row == RunPayload(C, Payload[q])[i]
      IN  Held(S, C, q, row.id) => row \in ToSet(RunPayload(S, Unlimited(q)))

VARIABLES
  store, version,
  stream,     \* the deltas sent and not yet read
  confirmed,  \* the client's cache
  cursor,     \* the version it has reached
  pending,    \* its writes, the first of them on the wire: [delta, write, answer]
  live,       \* of each query, its LiveQuery and what is on screen
  loads,      \* the requests under way: [query, id, answer]
  mounts, faults,
  masked,     \* history variable: an answer came while a pending write hid a row
  swept,      \* history variable: an eviction took what a pending write hid
  blurred,    \* history variable: an eviction met a doubled value, or part of a row in a window
  stale       \* history variable: an ack came after its echo or before the first answer

server  == <<store, version>>
history == <<masked, swept, blurred, stale>>
vars    == <<store, version, stream, confirmed, cursor, pending, live, loads, mounts, faults, history>>

Spent == version + mounts + faults + Len(pending)

Unmounted == [status |-> "unmounted", rows |-> <<>>, screen |-> <<>>, full |-> FALSE, refilling |-> FALSE, id |-> 0]

Open(l) == {q \in DOMAIN l : l[q].status \in {"loading", "ready", "error"}}

\* What a write does to the triples S it meets: some fields of a subject are
\* cleared, then values are put.
DeltaOf(S, w) ==
  [added   |-> w.puts \ S,
   removed |-> {t \in S : <<t.subject, t.predicate>> \in w.clears} \ w.puts]

Predicates(d) == {t.predicate : t \in d.added \cup d.removed}

\* SPEC 4.5: a subject has all its required fields or none.
Whole(S) ==
  \A t \in S : \A p \in Required :
    (\E e \in DOMAIN Fields : {t.predicate, p} \subseteq {f.predicate : f \in ToSet(Fields[e])})
      => Of(S, t.subject, p) # {}

----------------------------------------------------------------------------
\* What the client shows

\* Confirmed, with every pending delta over it in order: a triple shows if it is
\* confirmed or added, and whatever removes it is followed by what adds it again.
View(c, p) ==
  {t \in c \cup UNION {p[i].delta.added : i \in DOMAIN p} :
     \A i \in DOMAIN p :
       t \in p[i].delta.removed \ p[i].delta.added => \E j \in (i + 1)..Len(p) : t \in p[j].delta.added}

IsShort(q, rows) == Payload[q].limit # 0 /\ Len(rows) < Payload[q].limit

\* Mutant: a window that is short once is left so.
RematerializedOnly(l, q, V, force) ==
  LET rows == RunPayload(V, Payload[q])
  IN  [l[q] EXCEPT !.rows = rows, !.screen = IF force \/ rows # l[q].rows THEN rows ELSE @,
                   !.full = IF force THEN Payload[q].limit # 0 /\ ~ IsShort(q, rows) ELSE @]

\* rematerialize: run again, tell the component if that changed anything, and ask
\* for more if the window was full and has run short.
Rematerialized(l, q, V, force) ==
  LET rows == RunPayload(V, Payload[q])
  IN  [l[q] EXCEPT
         !.rows      = rows,
         !.screen    = IF force \/ rows # l[q].rows THEN rows ELSE @,
         !.full      = IF force THEN Payload[q].limit # 0 /\ ~ IsShort(q, rows) ELSE @,
         !.refilling = @ \/ (~ force /\ IsShort(q, rows) /\ l[q].full /\ l[q].status = "ready")]

\* #notify: the queries a delta touches run again.
Notified(l, V, predicates) ==
  [q \in DOMAIN l |->
     IF q \in Open(l) /\ Watches(Payload[q]) \cap predicates # {}
     THEN Rematerialized(l, q, V, FALSE)
     ELSE l[q]]

Asked(q, id) == [query |-> q, id |-> id, answer |-> {}]

\* The loads of the refills that began between l and m.
Refills(l, m) ==
  {Asked(q, m[q].id) : q \in {q \in DOMAIN l : m[q].refilling /\ ~ l[q].refilling}}

\* The client's layers change; whoever watches what changed is told.
Touch(c, p, predicates) ==
  /\ confirmed' = c
  /\ pending' = p
  /\ live' = Notified(live, View(c, p), predicates)
  /\ loads' = loads \cup Refills(live, live')

----------------------------------------------------------------------------
\* Components

\* The first render reads the cache; the effect that watches comes later.
Render(q) ==
  /\ live[q].status = "unmounted" /\ Spent < Budget
  /\ mounts' = mounts + 1
  /\ live' = [live EXCEPT ![q] = [Unmounted EXCEPT
       !.status = "rendered", !.screen = RunPayload(View(confirmed, pending), Payload[q])]]
  /\ UNCHANGED <<server, stream, confirmed, cursor, pending, loads, faults, history>>

\* attach: a new LiveQuery runs once, before anyone listens, and asks the server.
Attach(q) ==
  LET rows == RunPayload(View(confirmed, pending), Payload[q]) IN
  /\ live[q].status = "rendered"
  /\ live' = [live EXCEPT ![q] =
       [status |-> "loading", rows |-> rows, screen |-> @.screen, id |-> mounts,
        full |-> Payload[q].limit # 0 /\ ~ IsShort(q, rows), refilling |-> FALSE]]
  /\ loads' = loads \cup {Asked(q, mounts)}
  /\ UNCHANGED <<server, stream, confirmed, cursor, pending, mounts, faults, history>>

\* Mutant: what pending writes show is forgotten.
NeededOfConfirmed(l, c, p) == UNION {CollectPayloadTriples(c, Payload[q], FALSE) : q \in Open(l)}

Needed(l, c, p) ==
  UNION {CollectPayloadTriples(View(c, p), Payload[q], FALSE) : q \in Open(l)}

\* Whether what the queries need of V gives all of them their rows again.
Collectable(l, V) ==
  OneValueEach(V) /\ \A q \in Open(l) : Payload[q].limit # 0 => AllWhole(V, Payload[q])

\* close and #evict: what no other query needs is dropped, and nobody is told.
Unmount(q) ==
  LET others == [live EXCEPT ![q] = Unmounted]
      kept   == confirmed \cap Needed(others, confirmed, pending)
  IN  /\ q \in Open(live)
      /\ live' = others
      /\ confirmed' = kept
      /\ swept' = (swept \/ (confirmed \ kept) \ View(confirmed, pending) # {})
      /\ blurred' = (blurred \/ (kept # confirmed /\ ~ Collectable(others, View(confirmed, pending))))
      /\ UNCHANGED <<server, stream, cursor, pending, loads, mounts, faults, masked, stale>>

----------------------------------------------------------------------------
\* Loads

\* The server answers with what the query needs, stamped with its version.
ServeLoad(r) ==
  /\ r \in loads /\ r.answer = {}
  /\ loads' = (loads \ {r}) \cup
       {[r EXCEPT !.answer = {[version |-> version,
                               triples |-> CollectPayloadTriples(store, Payload[r.query], TRUE)]}]}
  /\ UNCHANGED <<server, stream, confirmed, cursor, pending, live, mounts, faults, history>>

\* refresh is done: the query is ready and shown as it now is.
Settled(l, r, V) ==
  IF l[r.query].id # r.id
  THEN l
  ELSE LET done == [l EXCEPT ![r.query].status = "ready"]
       IN  [done EXCEPT ![r.query] = [Rematerialized(done, r.query, V, TRUE) EXCEPT !.refilling = FALSE]]

\* Mutant: an answer is applied whatever the client has read meanwhile.
InTimeAlways(a) == TRUE

InTime(a) == a.version >= cursor

\* load: the answer is added, the queries it touches are told, then its own settles.
ReceiveAnswer(r) ==
  \E a \in r.answer :
    /\ r \in loads /\ InTime(a)
    /\ confirmed' = confirmed \cup a.triples
    /\ cursor' = IF cursor = 0 THEN a.version ELSE cursor
    /\ LET V == View(confirmed', pending)
           l == Notified(live, V, {t.predicate : t \in a.triples})
       IN  /\ live' = Settled(l, r, V)
           /\ loads' = (loads \ {r}) \cup Refills(live, [live' EXCEPT ![r.query].refilling = FALSE])
           /\ masked' = (masked \/ a.triples \ V # {})
    /\ UNCHANGED <<server, stream, pending, mounts, faults, swept, blurred, stale>>

\* An answer older than the stream's position is asked for again, up to five times:
\* more than Budget lets it be stale.
RetryAnswer(r) ==
  \E a \in r.answer :
    /\ r \in loads /\ ~ InTime(a)
    /\ loads' = (loads \ {r}) \cup {Asked(r.query, r.id)}
    /\ UNCHANGED <<server, stream, confirmed, cursor, pending, live, mounts, faults, history>>

\* The request or its answer is lost: the query is in error until it is made anew.
LoseLoad(r) ==
  /\ r \in loads /\ Spent < Budget
  /\ faults' = faults + 1
  /\ loads' = loads \ {r}
  /\ live' = IF live[r.query].id # r.id THEN live
             ELSE [live EXCEPT ![r.query].status = "error", ![r.query].refilling = FALSE,
                               ![r.query].screen = live[r.query].rows]
  /\ UNCHANGED <<server, stream, confirmed, cursor, pending, mounts, history>>

----------------------------------------------------------------------------
\* Writes and the stream

Committed(w) ==
  /\ Whole(Applied(store, DeltaOf(store, w)))
  /\ ~ IsEmptyDelta(DeltaOf(store, w))
  /\ store' = Applied(store, DeltaOf(store, w))
  /\ version' = version + 1
  /\ stream' = Append(stream, [version |-> version + 1, delta |-> DeltaOf(store, w)])

\* Someone else writes.
OtherCommit(w) ==
  /\ Spent < Budget
  /\ Committed(w)
  /\ UNCHANGED <<confirmed, cursor, pending, live, loads, mounts, faults, history>>

\* A component writes: shown at once, sent behind the writes before it.
Transact(w) ==
  LET d == DeltaOf(View(confirmed, pending), w) IN
  /\ Spent < Budget
  /\ ~ IsEmptyDelta(d)
  /\ Touch(confirmed, Append(pending, [delta |-> d, write |-> w, answer |-> {}]), Predicates(d))
  /\ UNCHANGED <<server, stream, cursor, mounts, faults, history>>

Answered(a) == pending' = [pending EXCEPT ![1].answer = {a}]

\* The server takes the write in hand ...
ServeCommit ==
  /\ pending # <<>> /\ pending[1].answer = {}
  /\ Committed(pending[1].write)
  /\ Answered([ok |-> TRUE, version |-> version + 1, delta |-> DeltaOf(store, pending[1].write)])
  /\ UNCHANGED <<confirmed, cursor, live, loads, mounts, faults, history>>

\* ... finds nothing to change ...
ServeNothing ==
  /\ pending # <<>> /\ pending[1].answer = {}
  /\ IsEmptyDelta(DeltaOf(store, pending[1].write))
  /\ Answered([ok |-> TRUE, version |-> version, delta |-> NoDelta])
  /\ UNCHANGED <<server, stream, confirmed, cursor, live, loads, mounts, faults, history>>

\* ... or refuses it, by its rules or for a missing field.
ServeReject ==
  /\ pending # <<>> /\ pending[1].answer = {}
  /\ Answered([ok |-> FALSE, version |-> version, delta |-> NoDelta])
  /\ UNCHANGED <<server, stream, confirmed, cursor, live, loads, mounts, faults, history>>

\* The server's delta is applied and told, then the pending write is dropped and what
\* it touched told.
ReceiveAck ==
  /\ pending # <<>>
  /\ \E a \in pending[1].answer :
       LET c    == Applied(confirmed, a.delta)
           told == Notified(live, View(c, pending), Predicates(a.delta))
       IN  /\ confirmed' = c
           /\ pending' = Tail(pending)
           /\ live' = Notified(told, View(c, Tail(pending)), Predicates(pending[1].delta))
           /\ loads' = loads \cup Refills(live, live')
           /\ stale' = (stale \/ (a.ok /\ (a.version < cursor \/ cursor = 0)))
  /\ UNCHANGED <<server, stream, cursor, mounts, faults, masked, swept, blurred>>

\* #applyRemote: what the cursor has not passed is applied, and told.
ReceiveDelta ==
  /\ stream # <<>>
  /\ stream' = Tail(stream)
  /\ LET m == Head(stream)
         d == Effective(confirmed, m.delta)
     IN  IF m.version > cursor
         THEN cursor' = m.version /\ Touch(Applied(confirmed, m.delta), pending, Predicates(d))
         ELSE UNCHANGED <<cursor, confirmed, pending, live, loads>>
  /\ UNCHANGED <<server, mounts, faults, history>>

Init ==
  /\ store = Seed /\ version = 1
  /\ stream = <<>>
  /\ confirmed = {} /\ cursor = 0
  /\ pending = <<>>
  /\ live = [q \in DOMAIN Payload |-> Unmounted]
  /\ loads = {}
  /\ mounts = 0 /\ faults = 0
  /\ masked = FALSE /\ swept = FALSE /\ blurred = FALSE /\ stale = FALSE

Next ==
  \/ \E q \in DOMAIN Payload : Render(q) \/ Attach(q) \/ Unmount(q)
  \/ \E r \in loads : ServeLoad(r) \/ ReceiveAnswer(r) \/ RetryAnswer(r) \/ LoseLoad(r)
  \/ \E w \in Writes : OtherCommit(w) \/ Transact(w)
  \/ ServeCommit \/ ServeNothing \/ ServeReject
  \/ ReceiveAck \/ ReceiveDelta

Spec == Init /\ [][Next]_vars

----------------------------------------------------------------------------
\* Nothing is on its way and no write waits.
Quiet == stream = <<>> /\ pending = <<>> /\ loads = {}

Ready == {q \in Open(live) : live[q].status = "ready"}

\* SPEC 6.4, 7.5: a component that has its answer shows what cache and pending writes
\* give now: every delta, answer, ack, reject and eviction that changes a query's
\* rows reaches it, although queries are told by field and evictions tell nobody.
\* Not so once an eviction met a view that is no store: with two values of a field, or
\* with a part of some row where a window has to choose.
ShownIsCurrent ==
  ~ blurred => \A q \in Ready : live[q].screen = RunPayload(View(confirmed, pending), Payload[q])

\* SPEC 7.6, 8.2: once nothing is on its way, a row on screen is the server's, field by
\* field: nothing optimistic, refused, removed or evicted stays behind.  A row known
\* only through another query may lack an optional field that query did not read; an
\* ack out of order with the stream leaves what it should not, and an eviction as above
\* what no delta removes.
ShownRowsAreTrue ==
  Quiet /\ ~ (stale \/ blurred) =>
    \A q \in Ready : \A i \in DOMAIN live[q].screen :
      Held(store, confirmed, q, live[q].screen[i].id)
        => live[q].screen[i] \in ToSet(RunPayload(store, Unlimited(q)))

WindowLength(q) == Len(RunPayload(store, Payload[q]))

\* SPEC 6.6, 7.6: once nothing is on its way, no window is shorter than the server
\* could fill it: evictions keep what is needed and a short window asks for more.
\* Not so if a refill was answered while a pending write hid a row of the answer, or
\* an eviction met a pending write that was then refused.
NothingStaysMissing ==
  Quiet /\ ~ (stale \/ swept \/ blurred \/ masked) =>
    \A q \in Ready : Len(live[q].screen) = WindowLength(q)

\* SPEC 6.6 on what a live window shows: "when rows fall out (a delete, a re-sorting
\* edit) the cache cannot know what comes next, so if the server's last answer filled
\* the window the query refetches".
WindowRefetches ==
  Quiet /\ ~ (stale \/ swept \/ blurred \/ masked) =>
    \A q \in Ready :
      [i \in DOMAIN live[q].screen |-> live[q].screen[i].id] =
        LET rows == RunPayload(store, Payload[q]) IN [i \in DOMAIN rows |-> rows[i].id]
=============================================================================
