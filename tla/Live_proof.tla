----------------------------- MODULE Live_proof -----------------------------
(***************************************************************************)
(* For every query engine that obeys the assumptions of Live, every set of *)
(* queries and writes and any number of mounts, faults and pending writes: *)
(* what is on screen is what the cache and the pending writes give, and    *)
(* once nothing is on its way its rows are the server's.                   *)
(***************************************************************************)
EXTENDS Live, SequenceTheorems, TLAPS

Touched(d) == d.added \cup d.removed

Message    == [version : Nat \ {0}, delta : Delta]
Ack        == [ok : BOOLEAN, version : Nat \ {0}, delta : Delta]
Optimistic == [delta : Delta, write : Writes, answer : SUBSET Ack]
Answer     == [version : Nat \ {0}, triples : SUBSET Triple]
Load       == [query : DOMAIN Payload, id : Nat \ {0}, answer : SUBSET Answer]

Typing ==
  /\ store \in SUBSET Triple /\ version \in Nat \ {0}
  /\ stream \in Seq(Message)
  /\ confirmed \in SUBSET Triple /\ cursor \in Nat
  /\ pending \in Seq(Optimistic)
  /\ loads \in SUBSET Load
  /\ mounts \in Nat

\* The queries on screen: each a record with these fields; one that is open, and no
\* other, has an identity; what has settled shows its rows.
Slots == {"status", "rows", "screen", "full", "refilling", "id"}

Mounted(l, n) ==
  /\ DOMAIN l = DOMAIN Payload
  /\ \A q \in DOMAIN Payload :
       /\ DOMAIN l[q] = Slots
       /\ l[q].id \in Nat
       /\ q \in Open(l) <=> l[q].id # 0
       /\ l[q].status = "rendered" => n > 0

Painted(l) == \A q \in DOMAIN Payload : l[q].status \in {"ready", "error"} => l[q].screen = l[q].rows

\* Every open query has the rows that V gives.
FreshAt(l, V) == \A q \in Open(l) : l[q].rows = RunPayload(V, Payload[q])

Fresh == ~ blurred => FreshAt(live, View(confirmed, pending))

ShowInv == Typing /\ Mounted(live, mounts) /\ Painted(live) /\ Fresh

----------------------------------------------------------------------------
\* The view

\* The view is made of triples.
LEMMA ViewTyped ==
  ASSUME NEW c \in SUBSET Triple, NEW p \in Seq(Optimistic)
  PROVE  View(c, p) \in SUBSET Triple
<1>1. ASSUME NEW i \in DOMAIN p PROVE p[i].delta.added \subseteq Triple
  <2>1. p[i] \in Optimistic
    OBVIOUS
  <2>2. p[i].delta \in Delta
    BY <2>1 DEF Optimistic
  <2> QED BY <2>2 DEF Delta
<1> QED BY <1>1 DEF View

\* Without pending writes it is the cache.
LEMMA ViewOfNone ==
  ASSUME NEW c
  PROVE  View(c, <<>>) = c
  BY DEF View

\* One more pending write is one more delta applied.
LEMMA ViewAppended ==
  ASSUME NEW c, NEW p \in Seq(Optimistic), NEW m \in Optimistic
  PROVE  View(c, Append(p, m)) = Applied(View(c, p), m.delta)
<1> DEFINE n == Len(p) + 1
           pm == Append(p, m)
           d == m.delta
<1>1. /\ Len(p) \in Nat /\ DOMAIN p = 1..Len(p)
      /\ pm \in Seq(Optimistic) /\ Len(pm) = n /\ DOMAIN pm = 1..n
      /\ pm[n] = m /\ \A i \in 1..Len(p) : pm[i] = p[i]
  OBVIOUS
<1> HIDE DEF pm
<1>2. ASSUME NEW t \in View(c, pm) PROVE t \in Applied(View(c, p), d)
  <2>1. CASE t \in d.added
    BY <2>1 DEF Applied
  <2>2. CASE t \notin d.added
    <3>1. t \notin d.removed
      BY <1>1, <1>2, <2>2 DEF View
    <3>2. t \in c \cup UNION {p[i].delta.added : i \in DOMAIN p}
      BY <1>1, <1>2, <2>2 DEF View
    <3>3. ASSUME NEW i \in DOMAIN p, t \in p[i].delta.removed \ p[i].delta.added
          PROVE  \E j \in (i + 1)..Len(p) : t \in p[j].delta.added
      <4>1. i \in DOMAIN pm /\ pm[i] = p[i]
        BY <1>1
      <4>2. PICK j \in (i + 1)..Len(pm) : t \in pm[j].delta.added
        BY <1>2, <3>3, <4>1 DEF View
      <4>3. j # n
        BY <1>1, <2>2, <4>2
      <4>4. j \in (i + 1)..Len(p) /\ pm[j] = p[j]
        BY <1>1, <4>2, <4>3
      <4> QED BY <4>2, <4>4
    <3>4. t \in View(c, p)
      BY <3>2, <3>3 DEF View
    <3> QED BY <3>1, <3>4 DEF Applied
  <2> QED BY <2>1, <2>2
<1>3. ASSUME NEW t \in Applied(View(c, p), d) PROVE t \in View(c, pm)
  <2>1. CASE t \in d.added
    <3>1. n \in DOMAIN pm /\ t \in pm[n].delta.added
      BY <1>1, <2>1
    <3>2. ASSUME NEW i \in DOMAIN pm, t \in pm[i].delta.removed \ pm[i].delta.added
          PROVE  \E j \in (i + 1)..Len(pm) : t \in pm[j].delta.added
      <4>1. i # n
        BY <3>1, <3>2
      <4>2. n \in (i + 1)..Len(pm)
        BY <1>1, <4>1
      <4> QED BY <3>1, <4>2
    <3> QED BY <3>1, <3>2 DEF View
  <2>2. CASE t \notin d.added
    <3>1. t \in View(c, p) /\ t \notin d.removed
      BY <1>3, <2>2 DEF Applied
    <3>2. t \in c \cup UNION {pm[i].delta.added : i \in DOMAIN pm}
      BY <1>1, <3>1 DEF View
    <3>3. ASSUME NEW i \in DOMAIN pm, t \in pm[i].delta.removed \ pm[i].delta.added
          PROVE  \E j \in (i + 1)..Len(pm) : t \in pm[j].delta.added
      <4>1. i \in DOMAIN p /\ pm[i] = p[i]
        BY <1>1, <3>1, <3>3
      <4>2. PICK j \in (i + 1)..Len(p) : t \in p[j].delta.added
        BY <3>1, <3>3, <4>1 DEF View
      <4>3. j \in (i + 1)..Len(pm) /\ pm[j] = p[j]
        BY <1>1, <4>1, <4>2
      <4> QED BY <4>2, <4>3
    <3> QED BY <3>2, <3>3 DEF View
  <2> QED BY <2>1, <2>2
<1> QED BY <1>2, <1>3 DEF pm

\* Dropping the first one changes what it touched at most.
LEMMA ViewOfTail ==
  ASSUME NEW c, NEW p \in Seq(Optimistic), p # <<>>,
         NEW t, t \notin Touched(p[1].delta)
  PROVE  t \in View(c, Tail(p)) <=> t \in View(c, p)
<1> DEFINE r == Tail(p)
<1>1. /\ Len(p) \in Nat \ {0} /\ DOMAIN p = 1..Len(p)
      /\ Len(r) = Len(p) - 1 /\ DOMAIN r = 1..(Len(p) - 1)
      /\ \A i \in 1..(Len(p) - 1) : r[i] = p[i + 1]
  OBVIOUS
<1>2. t \notin p[1].delta.added /\ t \notin p[1].delta.removed
  BY DEF Touched
<1> HIDE DEF r
<1>3. ASSUME t \in View(c, r) PROVE t \in View(c, p)
  <2>1. t \in c \cup UNION {p[i].delta.added : i \in DOMAIN p}
    <3>1. CASE t \in c
      BY <3>1
    <3>2. CASE t \notin c
      <4>1. PICK i \in DOMAIN r : t \in r[i].delta.added
        BY <1>3, <3>2 DEF View
      <4>2. i + 1 \in DOMAIN p /\ t \in p[i + 1].delta.added
        BY <1>1, <4>1
      <4> QED BY <4>2
    <3> QED BY <3>1, <3>2
  <2>2. ASSUME NEW i \in DOMAIN p, t \in p[i].delta.removed \ p[i].delta.added
        PROVE  \E j \in (i + 1)..Len(p) : t \in p[j].delta.added
    <3>1. i - 1 \in DOMAIN r /\ r[i - 1] = p[i]
      BY <1>1, <1>2, <2>2
    <3>2. PICK j \in ((i - 1) + 1)..Len(r) : t \in r[j].delta.added
      BY <1>3, <2>2, <3>1 DEF View
    <3>3. j + 1 \in (i + 1)..Len(p) /\ p[j + 1] = r[j]
      BY <1>1, <2>2, <3>2
    <3> QED BY <3>2, <3>3
  <2> QED BY <2>1, <2>2 DEF View
<1>4. ASSUME t \in View(c, p) PROVE t \in View(c, r)
  <2>1. t \in c \cup UNION {r[i].delta.added : i \in DOMAIN r}
    <3>1. CASE t \in c
      BY <3>1
    <3>2. CASE t \notin c
      <4>1. PICK i \in DOMAIN p : t \in p[i].delta.added
        BY <1>4, <3>2 DEF View
      <4>2. i - 1 \in DOMAIN r /\ t \in r[i - 1].delta.added
        BY <1>1, <1>2, <4>1
      <4> QED BY <4>2
    <3> QED BY <3>1, <3>2
  <2>2. ASSUME NEW i \in DOMAIN r, t \in r[i].delta.removed \ r[i].delta.added
        PROVE  \E j \in (i + 1)..Len(r) : t \in r[j].delta.added
    <3>1. i + 1 \in DOMAIN p /\ p[i + 1] = r[i]
      BY <1>1, <2>2
    <3>2. PICK j \in ((i + 1) + 1)..Len(p) : t \in p[j].delta.added
      BY <1>4, <2>2, <3>1 DEF View
    <3>3. j - 1 \in (i + 1)..Len(r) /\ r[j - 1] = p[j]
      BY <1>1, <2>2, <3>2
    <3> QED BY <3>2, <3>3
  <2> QED BY <2>1, <2>2 DEF View
<1> QED BY <1>3, <1>4 DEF r

\* A change of the cache changes no more of the view.
LEMMA ViewOfConfirmed ==
  ASSUME NEW c, NEW d, NEW p, NEW t, t \in c <=> t \in d
  PROVE  t \in View(c, p) <=> t \in View(d, p)
  BY DEF View

\* An answer to a pending write changes nothing that it shows.
LEMMA ViewOfDeltas ==
  ASSUME NEW c, NEW p \in Seq(Optimistic), NEW r \in Seq(Optimistic), Len(r) = Len(p),
         \A i \in 1..Len(p) : r[i].delta = p[i].delta
  PROVE  View(c, r) = View(c, p)
<1>1. Len(p) \in Nat /\ DOMAIN p = 1..Len(p) /\ DOMAIN r = DOMAIN p
  OBVIOUS
<1>2. \A i \in DOMAIN p : \A j \in (i + 1)..Len(p) : j \in DOMAIN p
  BY <1>1
<1>3. \A i \in DOMAIN p : r[i].delta = p[i].delta
  BY <1>1
<1>4. UNION {r[i].delta.added : i \in DOMAIN r} = UNION {p[i].delta.added : i \in DOMAIN p}
  BY <1>1, <1>3
<1>5. ASSUME NEW t, NEW i \in DOMAIN p
      PROVE  /\ t \in r[i].delta.removed \ r[i].delta.added <=> t \in p[i].delta.removed \ p[i].delta.added
             /\ (\E j \in (i + 1)..Len(r) : t \in r[j].delta.added)
                  <=> (\E j \in (i + 1)..Len(p) : t \in p[j].delta.added)
  BY <1>2, <1>3
<1>6. ASSUME NEW t PROVE t \in View(c, r) <=> t \in View(c, p)
  BY <1>1, <1>4, <1>5 DEF View
<1> QED BY <1>6

\* What is kept of the cache still gives all that is needed of the view.
LEMMA ViewOfKept ==
  ASSUME NEW c, NEW p, NEW N, N \subseteq View(c, p)
  PROVE  N \subseteq View(c \cap N, p) /\ View(c \cap N, p) \subseteq View(c, p)
  BY DEF View

----------------------------------------------------------------------------
\* The cache and the store

\* Some delta after version v that the client has not read mentions t.
Unread(t, v) == \E i \in DOMAIN stream : stream[i].version > v /\ t \in Touched(stream[i].delta)

\* What of T the store does not hold, the stream has still to say after version v.
Accounted(T, v) == \A t \in T \ store : Unread(t, v)

\* The stream holds the last versions, each once.
Dense ==
  /\ Len(stream) < version /\ cursor <= version
  /\ \A i \in DOMAIN stream : stream[i].version = version - Len(stream) + i

\* What the stream says last of a triple is how it is in the store.
LastWordIsTrue ==
  \A i \in DOMAIN stream : \A t \in Touched(stream[i].delta) :
    (\A j \in (i + 1)..Len(stream) : t \notin Touched(stream[j].delta))
      => (t \in stream[i].delta.added <=> t \in store)

CacheAccounted ==
  ~ stale => Accounted(confirmed, cursor) /\ (cursor = 0 => confirmed = {})

AnswersAccounted ==
  \A r \in loads : \A a \in r.answer :
    /\ a.version <= version
    /\ a.version >= cursor => Accounted(a.triples, a.version)

\* Only the first pending write is on the wire.
AcksAccounted ==
  \A i \in DOMAIN pending : \A a \in pending[i].answer :
    /\ i = 1 /\ a.version <= version
    /\ a.ok /\ a.version >= cursor => Accounted(a.delta.added, a.version)
    /\ ~ a.ok => a.delta = NoDelta

TruthInv == Dense /\ LastWordIsTrue /\ CacheAccounted /\ AnswersAccounted /\ AcksAccounted

----------------------------------------------------------------------------
\* What telling the queries does

LEMMA OpenIs ==
  ASSUME NEW l, DOMAIN l = DOMAIN Payload, NEW q
  PROVE  q \in Open(l) <=> q \in DOMAIN Payload /\ l[q].status \in {"loading", "ready", "error"}
  BY DEF Open

\* rematerialize gives a query the rows of the view and keeps it painted; identity and
\* status stay.
LEMMA RematerializedIs ==
  ASSUME NEW l, NEW q \in DOMAIN Payload, DOMAIN l[q] = Slots, NEW V
  PROVE  LET m == Rematerialized(l, q, V, FALSE)
         IN  /\ DOMAIN m = Slots
             /\ m.status = l[q].status /\ m.id = l[q].id
             /\ m.rows = RunPayload(V, Payload[q])
             /\ l[q].screen = l[q].rows => m.screen = m.rows
<1> DEFINE rows == RunPayload(V, Payload[q])
           screen == IF rows # l[q].rows THEN rows ELSE l[q].screen
           refilling == l[q].refilling \/ (IsShort(q, rows) /\ l[q].full /\ l[q].status = "ready")
           m == [l[q] EXCEPT !.rows = rows, !.screen = screen, !.full = l[q].full, !.refilling = refilling]
<1>1. Rematerialized(l, q, V, FALSE) = m
  BY DEF Rematerialized
<1>2. l[q].screen = l[q].rows => screen = rows
  OBVIOUS
<1>3. rows = RunPayload(V, Payload[q])
  OBVIOUS
<1> HIDE DEF rows, screen, refilling
<1>4. DOMAIN m = Slots /\ m.status = l[q].status /\ m.id = l[q].id /\ m.rows = rows /\ m.screen = screen
  BY DEF Slots
<1> HIDE DEF m
<1> QED BY <1>1, <1>2, <1>3, <1>4

\* With force it paints whatever was there.
Repainted(l, q, V) == Rematerialized(l, q, V, TRUE)

LEMMA RepaintedIs ==
  ASSUME NEW l, NEW q \in DOMAIN Payload, DOMAIN l[q] = Slots, NEW V
  PROVE  LET m == Repainted(l, q, V)
         IN  /\ DOMAIN m = Slots
             /\ m.status = l[q].status /\ m.id = l[q].id
             /\ m.rows = RunPayload(V, Payload[q]) /\ m.screen = m.rows
<1> DEFINE rows == RunPayload(V, Payload[q])
           full == Payload[q].limit # 0 /\ ~ IsShort(q, rows)
           refilling == l[q].refilling \/ FALSE
           m == [l[q] EXCEPT !.rows = rows, !.screen = rows, !.full = full, !.refilling = refilling]
<1>1. Repainted(l, q, V) = m
  BY DEF Repainted, Rematerialized
<1>2. rows = RunPayload(V, Payload[q])
  OBVIOUS
<1> HIDE DEF rows, full, refilling
<1>3. DOMAIN m = Slots /\ m.status = l[q].status /\ m.id = l[q].id /\ m.rows = rows /\ m.screen = rows
  BY DEF Slots
<1> HIDE DEF m
<1> QED BY <1>1, <1>2, <1>3

\* Between l and m the queries were told of a change of the view from V to W: every
\* open query is as fresh as it was, the others are left alone.
Told(l, V, m, W) ==
  /\ \A n : Mounted(l, n) => Mounted(m, n)
  /\ Open(m) = Open(l)
  /\ \A q \in DOMAIN Payload : m[q].status = l[q].status /\ m[q].id = l[q].id
  /\ \A q \in DOMAIN Payload : q \notin Open(l) => m[q] = l[q]
  /\ Painted(l) => Painted(m)
  /\ FreshAt(l, V) => FreshAt(m, W)

\* It takes telling the predicates of all that changed.
LEMMA NotifiedIs ==
  ASSUME NEW l, NEW n, Mounted(l, n), NEW V \in SUBSET Triple, NEW W \in SUBSET Triple,
         NEW predicates, \A t \in (V \ W) \cup (W \ V) : t.predicate \in predicates
  PROVE  Told(l, V, Notified(l, W, predicates), W)
<1> DEFINE m == Notified(l, W, predicates)
<1>1. DOMAIN l = DOMAIN Payload /\ \A q \in DOMAIN Payload : DOMAIN l[q] = Slots
  BY DEF Mounted
<1>2. DOMAIN m = DOMAIN Payload
  BY <1>1 DEF Notified
<1>3. ASSUME NEW q \in DOMAIN Payload
      PROVE  /\ DOMAIN m[q] = Slots
             /\ m[q].status = l[q].status /\ m[q].id = l[q].id
             /\ q \notin Open(l) => m[q] = l[q]
             /\ l[q].screen = l[q].rows => m[q].screen = m[q].rows
             /\ q \in Open(l) /\ l[q].rows = RunPayload(V, Payload[q])
                  => m[q].rows = RunPayload(W, Payload[q])
  <2>1. m[q] = IF q \in Open(l) /\ Watches(Payload[q]) \cap predicates # {}
               THEN Rematerialized(l, q, W, FALSE) ELSE l[q]
    BY <1>1 DEF Notified
  <2>2. CASE q \in Open(l) /\ Watches(Payload[q]) \cap predicates # {}
    <3>1. m[q] = Rematerialized(l, q, W, FALSE)
      BY <2>1, <2>2
    <3> DEFINE z == Rematerialized(l, q, W, FALSE)
    <3>2. /\ DOMAIN z = Slots
          /\ z.status = l[q].status /\ z.id = l[q].id
          /\ z.rows = RunPayload(W, Payload[q])
          /\ l[q].screen = l[q].rows => z.screen = z.rows
      BY <1>1, RematerializedIs
    <3>3. m[q] = z
      BY <3>1
    <3> HIDE DEF m, z
    <3> QED BY <2>2, <3>2, <3>3
  <2>3. CASE ~ (q \in Open(l) /\ Watches(Payload[q]) \cap predicates # {})
    <3>1. m[q] = l[q]
      BY <2>1, <2>3
    <3>2. ASSUME q \in Open(l) PROVE RunPayload(V, Payload[q]) = RunPayload(W, Payload[q])
      <4>1. {t.predicate : t \in (V \ W) \cup (W \ V)} \cap Watches(Payload[q]) = {}
        BY <2>3, <3>2
      <4> QED BY <4>1, WatchesAssumption
    <3> HIDE DEF m
    <3> QED BY <1>1, <3>1, <3>2
  <2> QED BY <2>2, <2>3
<1> HIDE DEF m
<1>4. Open(m) = Open(l)
  BY <1>1, <1>2, <1>3 DEF Open
<1>5. ASSUME NEW k, Mounted(l, k) PROVE Mounted(m, k)
  BY <1>2, <1>3, <1>4, <1>5 DEF Mounted
<1>6. Painted(l) => Painted(m)
  BY <1>3 DEF Painted
<1>7. FreshAt(l, V) => FreshAt(m, W)
  <2>1. \A q \in Open(m) : q \in DOMAIN Payload
    BY <1>2 DEF Open
  <2> QED BY <1>3, <1>4, <2>1 DEF FreshAt
<1>8. \A q \in DOMAIN Payload : m[q].status = l[q].status /\ m[q].id = l[q].id
  BY <1>3
<1>9. \A q \in DOMAIN Payload : q \notin Open(l) => m[q] = l[q]
  BY <1>3
<1>10. Told(l, V, m, W)
  BY <1>4, <1>5, <1>6, <1>7, <1>8, <1>9 DEF Told
<1> QED BY <1>10 DEF m

\* The refills a notification starts are loads of open queries.
LEMMA RefillsAreLoads ==
  ASSUME NEW l, NEW n, Mounted(l, n), NEW m, DOMAIN m = DOMAIN Payload,
         \A q \in DOMAIN Payload : m[q].id = l[q].id,
         \A q \in DOMAIN Payload : q \notin Open(l) /\ m[q].refilling => l[q].refilling
  PROVE  Refills(l, m) \in SUBSET Load /\ \A r \in Refills(l, m) : r.answer = {}
<1>1. ASSUME NEW q \in DOMAIN l, m[q].refilling, ~ l[q].refilling
      PROVE  Asked(q, m[q].id) \in Load /\ Asked(q, m[q].id).answer = {}
  <2>1. q \in DOMAIN Payload /\ q \in Open(l)
    BY <1>1 DEF Mounted
  <2>2. m[q].id \in Nat \ {0}
    BY <2>1 DEF Mounted
  <2> QED BY <2>1, <2>2 DEF Asked, Load
<1> QED BY <1>1 DEF Refills

\* The query that a load was for is painted anew and ready; a load made for another
\* mount of it changes nothing.
LEMMA SettledIs ==
  ASSUME NEW l, NEW n, Mounted(l, n), NEW r \in Load, NEW V
  PROVE  LET m == Settled(l, r, V)
         IN  /\ Mounted(m, n)
             /\ \A q \in DOMAIN Payload : m[q].id = l[q].id
             /\ \A q \in DOMAIN Payload : q # r.query => m[q] = l[q]
             /\ Painted(l) => Painted(m)
             /\ FreshAt(l, V) => FreshAt(m, V)
<1> DEFINE m == Settled(l, r, V)
           p == r.query
<1>1. p \in DOMAIN Payload /\ r.id \in Nat \ {0}
  BY DEF Load
<1>2. DOMAIN l = DOMAIN Payload /\ \A q \in DOMAIN Payload : DOMAIN l[q] = Slots
  BY DEF Mounted
<1> DEFINE Claim(x) ==
             /\ Mounted(x, n)
             /\ \A q \in DOMAIN Payload : x[q].id = l[q].id
             /\ \A q \in DOMAIN Payload : q # p => x[q] = l[q]
             /\ Painted(l) => Painted(x)
             /\ FreshAt(l, V) => FreshAt(x, V)
<1> SUFFICES Claim(m)
  OBVIOUS
<1>3. CASE l[p].id # r.id
  <2>1. m = l
    BY <1>3 DEF Settled
  <2>2. Claim(l)
    OBVIOUS
  <2> HIDE DEF Claim, m
  <2> QED BY <2>1, <2>2
<1>4. CASE l[p].id = r.id
  <2> DEFINE done == [l EXCEPT ![p].status = "ready"]
             z == Repainted(done, p, V)
             y == [z EXCEPT !.refilling = FALSE]
  <2>1. m = [done EXCEPT ![p] = y]
    BY <1>4 DEF Settled, Repainted
  <2>2. DOMAIN done = DOMAIN Payload /\ DOMAIN done[p] = Slots /\ done[p].status = "ready" /\ done[p].id = l[p].id
    BY <1>1, <1>2 DEF Slots
  <2>3. \A q \in DOMAIN Payload : q # p => done[q] = l[q]
    BY <1>2
  <2>a. /\ DOMAIN z = Slots /\ z.status = done[p].status /\ z.id = done[p].id
        /\ z.rows = RunPayload(V, Payload[p]) /\ z.screen = z.rows
    <3> HIDE DEF done
    <3> QED BY <1>1, <2>2, RepaintedIs
  <2> HIDE DEF done
  <2>4. /\ DOMAIN z = Slots /\ z.status = "ready" /\ z.id = l[p].id
        /\ z.rows = RunPayload(V, Payload[p]) /\ z.screen = z.rows
    BY <2>2, <2>a
  <2> HIDE DEF z
  <2>5. /\ DOMAIN y = Slots /\ y.status = "ready" /\ y.id = l[p].id
        /\ y.rows = RunPayload(V, Payload[p]) /\ y.screen = y.rows
    BY <2>4 DEF Slots
  <2> HIDE DEF y
  <2>6. DOMAIN m = DOMAIN Payload /\ m[p] = y
    BY <1>1, <2>1, <2>2
  <2>7. \A q \in DOMAIN Payload : q # p => m[q] = l[q]
    BY <2>1, <2>2, <2>3
  <2> HIDE DEF m
  <2>8. p \in Open(l)
    BY <1>1, <1>4 DEF Mounted
  <2>9. Open(m) = Open(l)
    BY <1>1, <1>2, <2>5, <2>6, <2>7, <2>8 DEF Open
  <2>10. Mounted(m, n)
    <3> SUFFICES ASSUME NEW q \in DOMAIN Payload
                 PROVE  /\ DOMAIN m[q] = Slots /\ m[q].id \in Nat
                        /\ q \in Open(m) <=> m[q].id # 0
                        /\ m[q].status = "rendered" => n > 0
      BY <2>6 DEF Mounted
    <3>1. CASE q = p
      BY <1>1, <1>4, <2>5, <2>6, <2>8, <2>9, <3>1
    <3>2. CASE q # p
      BY <2>7, <2>9, <3>2 DEF Mounted
    <3> QED BY <3>1, <3>2
  <2>11. \A q \in DOMAIN Payload : m[q].id = l[q].id
    BY <2>5, <2>6, <2>7
  <2>12. Painted(l) => Painted(m)
    BY <2>5, <2>6, <2>7 DEF Painted
  <2>13. FreshAt(l, V) => FreshAt(m, V)
    <3>1. \A q \in Open(l) : q \in DOMAIN Payload
      BY <1>2 DEF Open
    <3> QED BY <2>5, <2>6, <2>7, <2>9, <3>1 DEF FreshAt
  <2> QED BY <2>7, <2>10, <2>11, <2>12, <2>13
<1> QED BY <1>3, <1>4

----------------------------------------------------------------------------
\* Each action keeps what is shown

LEMMA DeltaTyped ==
  ASSUME NEW S \in SUBSET Triple, NEW w \in Writes
  PROVE  DeltaOf(S, w) \in Delta
  BY LiveAssumption DEF DeltaOf, Delta

LEMMA AppliedTyped ==
  ASSUME NEW S \in SUBSET Triple, NEW d \in Delta
  PROVE  Applied(S, d) \in SUBSET Triple
  BY DEF Applied, Delta

LEMMA ViewNow ==
  ASSUME Typing
  PROVE  View(confirmed, pending) \in SUBSET Triple
  BY ViewTyped DEF Typing

LEMMA ShowInit == Init => ShowInv
<1> SUFFICES ASSUME Init PROVE ShowInv
  OBVIOUS
<1>1. Typing
  BY LiveAssumption DEF Init, Typing
<1>2. ASSUME NEW q \in DOMAIN Payload PROVE live[q] = Unmounted
  BY DEF Init
<1>3. DOMAIN live = DOMAIN Payload
  BY DEF Init
<1>4. Open(live) = {}
  BY <1>2, <1>3 DEF Open, Unmounted
<1>5. Mounted(live, mounts)
  BY <1>2, <1>3, <1>4 DEF Mounted, Unmounted, Slots
<1>6. Painted(live)
  BY <1>2 DEF Painted, Unmounted
<1>7. Fresh
  BY <1>4 DEF Fresh, FreshAt
<1> QED BY <1>1, <1>5, <1>6, <1>7 DEF ShowInv

\* A change of the layers of which everybody watching is told.
LEMMA TouchKeeps ==
  ASSUME ShowInv, NEW c \in SUBSET Triple, NEW p \in Seq(Optimistic), NEW predicates,
         Touch(c, p, predicates), mounts' = mounts, blurred' = blurred,
         \A t \in (View(confirmed, pending) \ View(c, p)) \cup (View(c, p) \ View(confirmed, pending)) :
           t.predicate \in predicates
  PROVE  /\ Mounted(live', mounts') /\ Painted(live') /\ Fresh'
         /\ loads' \in SUBSET Load
<1> DEFINE V == View(confirmed, pending)
           W == View(c, p)
           m == Notified(live, W, predicates)
<1>1. V \in SUBSET Triple /\ W \in SUBSET Triple
  BY ViewNow, ViewTyped DEF ShowInv
<1>2. live' = m /\ View(confirmed', pending') = W
  BY DEF Touch
<1>3. \A t \in (V \ W) \cup (W \ V) : t.predicate \in predicates
  OBVIOUS
<1>4. Mounted(live, mounts)
  BY DEF ShowInv
<1> HIDE DEF V, W
<1>5. /\ Mounted(m, mounts)
      /\ \A q \in DOMAIN Payload : m[q].id = live[q].id
      /\ \A q \in DOMAIN Payload : q \notin Open(live) => m[q] = live[q]
      /\ Painted(live) => Painted(m)
      /\ FreshAt(live, V) => FreshAt(m, W)
  <2>1. Told(live, V, m, W)
    BY <1>1, <1>3, <1>4, NotifiedIs
  <2> HIDE DEF m
  <2> QED BY <1>4, <2>1 DEF Told
<1> HIDE DEF m
<1>6. Fresh'
  <2>1. ASSUME ~ blurred' PROVE FreshAt(live', View(confirmed', pending'))
    BY <1>2, <1>5, <2>1 DEF ShowInv, Fresh, V
  <2> QED BY <2>1 DEF Fresh
<1>7. Refills(live, live') \in SUBSET Load
  <2>1. DOMAIN m = DOMAIN Payload
    BY <1>5 DEF Mounted
  <2>2. \A q \in DOMAIN Payload : q \notin Open(live) /\ m[q].refilling => live[q].refilling
    BY <1>5
  <2>3. Refills(live, m) \in SUBSET Load
    BY <1>4, <1>5, <2>1, <2>2, RefillsAreLoads
  <2> QED BY <1>2, <2>3
<1>8. loads' \in SUBSET Load
  BY <1>7 DEF Touch, ShowInv, Typing
<1> QED BY <1>2, <1>5, <1>6, <1>8 DEF ShowInv

\* One slot changes.
Put(l, q, x) == [l EXCEPT ![q] = x]

LEMMA SlotChanged ==
  ASSUME NEW l, NEW n \in Nat, Mounted(l, n), NEW q \in DOMAIN Payload, NEW k \in Nat, k >= n,
         NEW x, DOMAIN x = Slots, x.id \in Nat,
         x.status \in {"loading", "ready", "error"} <=> x.id # 0,
         x.status = "rendered" => k > 0,
         NEW m, m = Put(l, q, x)
  PROVE  /\ Mounted(m, k)
         /\ x.id # 0 => Open(m) = Open(l) \cup {q}
         /\ x.id = 0 => Open(m) = Open(l) \ {q}
         /\ m[q] = x
         /\ \A p \in DOMAIN Payload : p # q => m[p] = l[p]
<1>1. DOMAIN l = DOMAIN Payload
  BY DEF Mounted
<1>2. DOMAIN m = DOMAIN Payload /\ m[q] = x /\ \A p \in DOMAIN Payload : p # q => m[p] = l[p]
  BY <1>1 DEF Put
<1>3. \A p \in DOMAIN Payload : p # q => (p \in Open(m) <=> p \in Open(l))
  BY <1>1, <1>2 DEF Open
<1>4. q \in Open(m) <=> x.id # 0
  BY <1>2 DEF Open
<1>5. (x.id # 0 => Open(m) = Open(l) \cup {q}) /\ (x.id = 0 => Open(m) = Open(l) \ {q})
  <2>1. \A p \in Open(m) \cup Open(l) : p \in DOMAIN Payload
    BY <1>1, <1>2 DEF Open
  <2> QED BY <1>3, <1>4, <2>1
<1>6. Mounted(m, k)
  <2> SUFFICES ASSUME NEW p \in DOMAIN Payload
               PROVE  /\ DOMAIN m[p] = Slots /\ m[p].id \in Nat
                      /\ p \in Open(m) <=> m[p].id # 0
                      /\ m[p].status = "rendered" => k > 0
    BY <1>2 DEF Mounted
  <2>1. CASE p = q
    BY <1>2, <1>4, <2>1
  <2>2. CASE p # q
    <3>1. m[p] = l[p] /\ (p \in Open(m) <=> p \in Open(l))
      BY <1>2, <1>3, <2>2
    <3>2. /\ DOMAIN l[p] = Slots /\ l[p].id \in Nat
          /\ p \in Open(l) <=> l[p].id # 0
          /\ l[p].status = "rendered" => n > 0
      BY DEF Mounted
    <3>3. n > 0 => k > 0
      OBVIOUS
    <3> QED BY <3>1, <3>2, <3>3
  <2> QED BY <2>1, <2>2
<1> QED BY <1>2, <1>5, <1>6

LEMMA RenderKeeps ==
  ASSUME ShowInv, NEW q \in DOMAIN Payload, Render(q)
  PROVE  ShowInv'
<1> DEFINE V == View(confirmed, pending)
           x == [Unmounted EXCEPT !.status = "rendered", !.screen = RunPayload(V, Payload[q])]
           m == [live EXCEPT ![q] = x]
<1>1. Typing /\ Mounted(live, mounts) /\ Painted(live) /\ Fresh /\ mounts \in Nat
  BY DEF ShowInv, Typing
<1>2. /\ live' = m /\ mounts' = mounts + 1 /\ blurred' = blurred
      /\ live[q].status = "unmounted" /\ View(confirmed', pending') = V
  BY DEF Render, history
<1>3. DOMAIN x = Slots /\ x.id = 0 /\ x.status = "rendered"
  BY DEF Unmounted, Slots
<1> HIDE DEF x, V
<1>a. m = Put(live, q, x)
  BY DEF Put
<1> HIDE DEF m
<1>4. /\ Mounted(m, mounts + 1) /\ Open(m) = Open(live) \ {q}
      /\ m[q] = x /\ \A p \in DOMAIN Payload : p # q => m[p] = live[p]
  <2>1. mounts + 1 \in Nat /\ mounts + 1 >= mounts /\ mounts + 1 > 0
    BY <1>1
  <2>2. (x.status \in {"loading", "ready", "error"} <=> x.id # 0) /\ x.id \in Nat
    BY <1>3
  <2> QED BY <1>a, <1>1, <1>3, <2>1, <2>2, SlotChanged
<1>5. Typing'
  BY <1>1 DEF Render, Typing, server
<1>6. Painted(m)
  BY <1>1, <1>3, <1>4 DEF Painted
<1>7. ASSUME FreshAt(live, V) PROVE FreshAt(m, V)
  <2>1. \A p \in Open(live) : p \in DOMAIN Payload
    BY <1>1 DEF Open, Mounted
  <2> QED BY <1>4, <1>7, <2>1 DEF FreshAt
<1>8. Fresh'
  BY <1>1, <1>2, <1>7 DEF Fresh, V
<1> QED BY <1>2, <1>4, <1>5, <1>6, <1>8 DEF ShowInv

LEMMA AttachKeeps ==
  ASSUME ShowInv, NEW q \in DOMAIN Payload, Attach(q)
  PROVE  ShowInv'
<1> DEFINE V == View(confirmed, pending)
           rows == RunPayload(V, Payload[q])
           full == Payload[q].limit # 0 /\ ~ IsShort(q, rows)
           screen == live[q].screen
           x == [status |-> "loading", rows |-> rows, screen |-> screen, id |-> mounts,
                 full |-> full, refilling |-> FALSE]
           m == [live EXCEPT ![q] = x]
<1>1. Typing /\ Mounted(live, mounts) /\ Painted(live) /\ Fresh /\ mounts \in Nat
  BY DEF ShowInv, Typing
<1>2. /\ live' = m /\ mounts' = mounts /\ blurred' = blurred
      /\ live[q].status = "rendered" /\ View(confirmed', pending') = V
      /\ loads' = loads \cup {Asked(q, mounts)}
  <2>1. live' = m
    <3>1. DOMAIN live = DOMAIN Payload
      BY <1>1 DEF Mounted
    <3> QED BY <3>1 DEF Attach
  <2> QED BY <2>1 DEF Attach, history
<1>3. mounts \in Nat \ {0}
  BY <1>1, <1>2 DEF Mounted
<1>4. rows = RunPayload(V, Payload[q])
  OBVIOUS
<1> HIDE DEF V, rows, full, screen
<1>5. DOMAIN x = Slots /\ x.id = mounts /\ x.status = "loading" /\ x.rows = rows
  BY DEF Slots
<1> HIDE DEF x
<1>a. m = Put(live, q, x)
  BY DEF Put
<1> HIDE DEF m
<1>6. /\ Mounted(m, mounts) /\ Open(m) = Open(live) \cup {q}
      /\ m[q] = x /\ \A p \in DOMAIN Payload : p # q => m[p] = live[p]
  <2>1. mounts >= mounts /\ mounts > 0
    BY <1>3
  <2>2. (x.status \in {"loading", "ready", "error"} <=> x.id # 0) /\ x.id \in Nat /\ x.id # 0
    BY <1>3, <1>5
  <2> QED BY <1>a, <1>1, <1>5, <2>1, <2>2, SlotChanged
<1>7. Asked(q, mounts) \in Load
  BY <1>3 DEF Asked, Load
<1>8. Typing'
  BY <1>1, <1>2, <1>7 DEF Attach, Typing, server
<1>9. Painted(m)
  BY <1>1, <1>5, <1>6 DEF Painted
<1>10. ASSUME FreshAt(live, V) PROVE FreshAt(m, V)
  <2>1. \A p \in Open(live) : p \in DOMAIN Payload
    BY <1>1 DEF Open, Mounted
  <2> QED BY <1>4, <1>5, <1>6, <1>10, <2>1 DEF FreshAt
<1>11. Fresh'
  BY <1>1, <1>2, <1>10 DEF Fresh, V
<1> QED BY <1>2, <1>6, <1>8, <1>9, <1>11 DEF ShowInv

\* Here the rows must survive losing what no query needs.
LEMMA UnmountKeeps ==
  ASSUME ShowInv, NEW q \in DOMAIN Payload, Unmount(q)
  PROVE  ShowInv'
<1> DEFINE V == View(confirmed, pending)
           m == [live EXCEPT ![q] = Unmounted]
           N == Needed(m, confirmed, pending)
           kept == confirmed \cap N
           W == View(kept, pending)
<1>1. Typing /\ Mounted(live, mounts) /\ Painted(live) /\ Fresh /\ mounts \in Nat
  BY DEF ShowInv, Typing
<1>2. /\ live' = m /\ mounts' = mounts /\ confirmed' = kept /\ pending' = pending
      /\ blurred' = (blurred \/ (kept # confirmed /\ ~ Collectable(m, V)))
      /\ View(confirmed', pending') = W
  BY DEF Unmount
<1>3. DOMAIN Unmounted = Slots /\ Unmounted.id = 0 /\ Unmounted.status = "unmounted"
  BY DEF Unmounted, Slots
<1>4. V \in SUBSET Triple
  BY <1>1, ViewNow
<1>a. m = Put(live, q, Unmounted)
  BY DEF Put
<1> HIDE DEF m
<1>5. /\ Mounted(m, mounts) /\ Open(m) = Open(live) \ {q}
      /\ m[q] = Unmounted /\ \A p \in DOMAIN Payload : p # q => m[p] = live[p]
  <2>1. mounts >= mounts
    BY <1>1
  <2>2. /\ Unmounted.status \in {"loading", "ready", "error"} <=> Unmounted.id # 0
        /\ Unmounted.id \in Nat /\ Unmounted.status # "rendered"
    BY <1>3
  <2> QED BY <1>a, <1>1, <1>3, <2>1, <2>2, SlotChanged
<1>6. \A p \in Open(m) : p \in DOMAIN Payload /\ p # q /\ p \in Open(live)
  BY <1>1, <1>5 DEF Open, Mounted
<1>7. N = UNION {CollectPayloadTriples(V, Payload[p], FALSE) : p \in Open(m)}
  BY DEF Needed
<1>8. N \subseteq V
  BY <1>4, <1>6, <1>7, LiveAssumption
<1> HIDE DEF V, N
<1>9. N \subseteq W /\ W \subseteq V
  BY <1>8, ViewOfKept DEF V
<1>10. Typing'
  BY <1>1, <1>2 DEF Unmount, Typing, server
<1>11. Painted(m)
  BY <1>1, <1>3, <1>5 DEF Painted
<1>12. ASSUME ~ blurred' PROVE FreshAt(m, W)
  <2>1. FreshAt(live, V)
    BY <1>1, <1>2, <1>12 DEF Fresh, V
  <2>2. FreshAt(m, V)
    BY <1>5, <1>6, <2>1 DEF FreshAt
  <2>3. CASE kept = confirmed
    BY <2>2, <2>3 DEF V
  <2>4. CASE kept # confirmed
    <3>1. Collectable(m, V)
      BY <1>2, <1>12, <2>4
    <3>2. ASSUME NEW p \in Open(m) PROVE RunPayload(W, Payload[p]) = RunPayload(V, Payload[p])
      <4>1. CollectPayloadTriples(V, Payload[p], FALSE) \subseteq W
        BY <1>7, <1>9
      <4>2. OneValueEach(V) /\ (Payload[p].limit # 0 => AllWhole(V, Payload[p]))
        BY <3>1 DEF Collectable
      <4>3. W \in SUBSET V /\ p \in DOMAIN Payload
        BY <1>6, <1>9
      <4> HIDE DEF W
      <4> QED BY <1>4, <4>1, <4>2, <4>3, CollectAssumption
    <3> HIDE DEF W
    <3> QED BY <2>2, <3>2 DEF FreshAt
  <2> QED BY <2>3, <2>4
<1>13. Fresh'
  BY <1>2, <1>12 DEF Fresh
<1> QED BY <1>2, <1>5, <1>10, <1>11, <1>13 DEF ShowInv

\* Nothing that is shown, and nothing it is shown from, changes.
LEMMA StillShown ==
  ASSUME ShowInv, live' = live, mounts' = mounts, blurred' = blurred,
         View(confirmed', pending') = View(confirmed, pending)
  PROVE  Mounted(live', mounts') /\ Painted(live') /\ Fresh'
  BY DEF ShowInv, Fresh

LEMMA ServeLoadKeeps ==
  ASSUME ShowInv, NEW r \in loads, ServeLoad(r)
  PROVE  ShowInv'
<1> DEFINE a == [version |-> version, triples |-> CollectPayloadTriples(store, Payload[r.query], TRUE)]
<1>1. Typing /\ r \in Load
  BY DEF ShowInv, Typing
<1>2. r.query \in DOMAIN Payload
  BY <1>1 DEF Load
<1>3. CollectPayloadTriples(store, Payload[r.query], TRUE) \in SUBSET Triple
  BY <1>1, <1>2, LiveAssumption DEF Typing
<1>4. a \in Answer
  BY <1>1, <1>3 DEF Answer, Typing
<1> HIDE DEF a
<1>5. [r EXCEPT !.answer = {a}] \in Load
  BY <1>1, <1>4 DEF Load
<1>6. loads' = (loads \ {r}) \cup {[r EXCEPT !.answer = {a}]}
  BY DEF ServeLoad, a
<1>7. Typing'
  BY <1>1, <1>5, <1>6 DEF ServeLoad, Typing, server
<1> QED BY <1>7, StillShown DEF ServeLoad, ShowInv, history

LEMMA RetryAnswerKeeps ==
  ASSUME ShowInv, NEW r \in loads, RetryAnswer(r)
  PROVE  ShowInv'
<1>1. Typing /\ r \in Load
  BY DEF ShowInv, Typing
<1>2. Asked(r.query, r.id) \in Load
  BY <1>1 DEF Asked, Load
<1>3. Typing'
  BY <1>1, <1>2 DEF RetryAnswer, Typing, server
<1> QED BY <1>3, StillShown DEF RetryAnswer, ShowInv, history

LEMMA LoseLoadKeeps ==
  ASSUME ShowInv, NEW r \in loads, LoseLoad(r)
  PROVE  ShowInv'
<1> DEFINE q == r.query
           V == View(confirmed, pending)
           z == [live[q] EXCEPT !.status = "error"]
           y == [z EXCEPT !.refilling = FALSE]
           rows == live[q].rows
           x == [y EXCEPT !.screen = rows]
<1>1. /\ Typing /\ Mounted(live, mounts) /\ Painted(live) /\ Fresh /\ mounts \in Nat
      /\ r \in Load
  BY DEF ShowInv, Typing
<1>2. q \in DOMAIN Payload /\ r.id \in Nat \ {0}
  BY <1>1 DEF Load
<1>3. /\ mounts' = mounts /\ blurred' = blurred /\ confirmed' = confirmed /\ pending' = pending
  BY DEF LoseLoad, history
<1>4. Typing'
  BY <1>1 DEF LoseLoad, Typing, server
<1>5. CASE live[q].id # r.id
  BY <1>3, <1>4, <1>5, StillShown DEF LoseLoad, ShowInv
<1>6. CASE live[q].id = r.id
  <2>1. DOMAIN live = DOMAIN Payload /\ DOMAIN live[q] = Slots
    BY <1>1, <1>2 DEF Mounted
  <2>2. live' = Put(live, q, x)
    BY <1>2, <1>6, <2>1 DEF LoseLoad, Put, Slots
  <2>3. DOMAIN z = Slots /\ z.status = "error" /\ z.id = r.id /\ z.rows = rows
    BY <1>6, <2>1 DEF Slots
  <2> HIDE DEF z, rows
  <2>4. DOMAIN y = Slots /\ y.status = "error" /\ y.id = r.id /\ y.rows = rows
    BY <2>3 DEF Slots
  <2> HIDE DEF y
  <2>5. DOMAIN x = Slots /\ x.status = "error" /\ x.id = r.id /\ x.rows = rows /\ x.screen = rows
    BY <2>4 DEF Slots
  <2> HIDE DEF x
  <2>6. /\ mounts >= mounts
        /\ x.status \in {"loading", "ready", "error"} <=> x.id # 0
        /\ x.id \in Nat /\ x.id # 0 /\ x.status # "rendered"
    BY <1>1, <1>2, <2>5
  <2>7. /\ Mounted(live', mounts) /\ Open(live') = Open(live) \cup {q}
        /\ live'[q] = x /\ \A p \in DOMAIN Payload : p # q => live'[p] = live[p]
    <3> HIDE DEF q
    <3> QED BY <1>1, <1>2, <2>2, <2>5, <2>6, SlotChanged
  <2>8. Painted(live')
    BY <1>1, <2>5, <2>7 DEF Painted
  <2>9. q \in Open(live)
    BY <1>1, <1>2, <1>6 DEF Mounted
  <2>10. ASSUME FreshAt(live, V) PROVE FreshAt(live', V)
    <3>1. \A p \in Open(live) : p \in DOMAIN Payload
      BY <1>1 DEF Open, Mounted
    <3> HIDE DEF q, V
    <3> QED BY <2>5, <2>7, <2>9, <2>10, <3>1 DEF FreshAt, rows
  <2>11. Fresh'
    BY <1>1, <1>3, <2>10 DEF Fresh
  <2> QED BY <1>3, <1>4, <2>7, <2>8, <2>11 DEF ShowInv
<1> QED BY <1>5, <1>6

LEMMA CommittedTyped ==
  ASSUME Typing, NEW w \in Writes, Committed(w)
  PROVE  store' \in SUBSET Triple /\ version' \in Nat \ {0} /\ stream' \in Seq(Message)
<1>1. DeltaOf(store, w) \in Delta
  BY DeltaTyped DEF Typing
<1>2. Applied(store, DeltaOf(store, w)) \in SUBSET Triple
  BY <1>1, AppliedTyped DEF Typing
<1>3. version + 1 \in Nat \ {0}
  BY DEF Typing
<1>4. [version |-> version + 1, delta |-> DeltaOf(store, w)] \in Message
  BY <1>1, <1>3 DEF Message
<1> QED BY <1>2, <1>3, <1>4 DEF Committed, Typing

LEMMA OtherCommitKeeps ==
  ASSUME ShowInv, NEW w \in Writes, OtherCommit(w)
  PROVE  ShowInv'
<1>1. Typing'
  BY CommittedTyped DEF OtherCommit, ShowInv, Typing
<1> QED BY <1>1, StillShown DEF OtherCommit, ShowInv, history

LEMMA TransactKeeps ==
  ASSUME ShowInv, NEW w \in Writes, Transact(w)
  PROVE  ShowInv'
<1> DEFINE V == View(confirmed, pending)
           d == DeltaOf(V, w)
           m == [delta |-> d, write |-> w, answer |-> {}]
           p == Append(pending, m)
           W == View(confirmed, p)
<1>1. Typing /\ V \in SUBSET Triple
  BY ViewNow DEF ShowInv
<1>2. Touch(confirmed, p, Predicates(d)) /\ mounts' = mounts /\ blurred' = blurred
  BY DEF Transact, history
<1> HIDE DEF V
<1>3. d \in Delta
  BY <1>1, DeltaTyped
<1> HIDE DEF d
<1>4. m \in Optimistic
  BY <1>3 DEF Optimistic
<1> HIDE DEF m
<1>5. p \in Seq(Optimistic) /\ W = Applied(V, d)
  <2>1. W = Applied(V, m.delta)
    BY <1>1, <1>4, ViewAppended DEF V, Typing
  <2> QED BY <1>1, <1>4, <2>1 DEF Typing, m
<1>6. \A t \in (V \ W) \cup (W \ V) : t.predicate \in Predicates(d)
  BY <1>5 DEF Applied, Predicates
<1> HIDE DEF p
<1>7. Mounted(live', mounts') /\ Painted(live') /\ Fresh' /\ loads' \in SUBSET Load
  BY <1>1, <1>2, <1>5, <1>6, TouchKeeps DEF V, Typing
<1>8. Typing'
  BY <1>1, <1>2, <1>5, <1>7 DEF Transact, Touch, Typing, server
<1> QED BY <1>7, <1>8 DEF ShowInv

\* The server's word on the write in hand changes nothing the component sees.
LEMMA AnsweredShown ==
  ASSUME ShowInv, pending # <<>>, NEW a \in Ack, Answered(a)
  PROVE  /\ pending' \in Seq(Optimistic) /\ Len(pending') = Len(pending)
         /\ View(confirmed, pending') = View(confirmed, pending)
<1>1. pending \in Seq(Optimistic) /\ confirmed \in SUBSET Triple
  BY DEF ShowInv, Typing
<1>2. pending[1] \in Optimistic /\ 1 \in DOMAIN pending
  BY <1>1
<1> DEFINE m == [pending[1] EXCEPT !.answer = {a}]
<1>3. m \in Optimistic /\ m.delta = pending[1].delta
  BY <1>2 DEF Optimistic
<1>4. pending' = [pending EXCEPT ![1] = m]
  BY <1>2 DEF Answered
<1> HIDE DEF m
<1>5. /\ pending' \in Seq(Optimistic) /\ Len(pending') = Len(pending)
      /\ \A i \in 1..Len(pending) : pending'[i].delta = pending[i].delta
  BY <1>1, <1>2, <1>3, <1>4
<1> QED BY <1>1, <1>5, ViewOfDeltas

LEMMA ServeCommitKeeps == ShowInv /\ ServeCommit => ShowInv'
<1> SUFFICES ASSUME ShowInv, ServeCommit PROVE ShowInv'
  OBVIOUS
<1> DEFINE w == pending[1].write
           a == [ok |-> TRUE, version |-> version + 1, delta |-> DeltaOf(store, w)]
<1>1. Typing /\ pending # <<>> /\ pending[1] \in Optimistic
  BY DEF ServeCommit, ShowInv, Typing
<1>2. w \in Writes
  BY <1>1 DEF Optimistic
<1>3. a \in Ack
  <2>1. DeltaOf(store, w) \in Delta
    BY <1>1, <1>2, DeltaTyped DEF Typing
  <2>2. version + 1 \in Nat \ {0}
    BY <1>1 DEF Typing
  <2> QED BY <2>1, <2>2 DEF Ack
<1>4. Answered(a)
  BY DEF ServeCommit
<1>5. Committed(w)
  BY DEF ServeCommit
<1> HIDE DEF a, w
<1>6. pending' \in Seq(Optimistic) /\ View(confirmed, pending') = View(confirmed, pending)
  BY <1>1, <1>3, <1>4, AnsweredShown
<1>7. store' \in SUBSET Triple /\ version' \in Nat \ {0} /\ stream' \in Seq(Message)
  BY <1>1, <1>2, <1>5, CommittedTyped
<1>8. Typing'
  BY <1>1, <1>6, <1>7 DEF ServeCommit, Typing
<1> QED BY <1>6, <1>8, StillShown DEF ServeCommit, ShowInv, history

LEMMA ServeNoneKeeps ==
  ASSUME ShowInv, ServeNothing \/ ServeReject
  PROVE  ShowInv'
<1>1. Typing /\ pending # <<>>
  BY DEF ServeNothing, ServeReject, ShowInv
<1>2. NoDelta \in Delta
  BY DEF NoDelta, Delta
<1>3. \E ok \in BOOLEAN : Answered([ok |-> ok, version |-> version, delta |-> NoDelta])
  BY Zenon DEF ServeNothing, ServeReject
<1>4. PICK ok \in BOOLEAN : Answered([ok |-> ok, version |-> version, delta |-> NoDelta])
  BY <1>3
<1> DEFINE a == [ok |-> ok, version |-> version, delta |-> NoDelta]
<1>5. a \in Ack
  BY <1>1, <1>2 DEF Ack, Typing
<1>6. Answered(a)
  BY <1>4
<1> HIDE DEF a
<1>7. pending' \in Seq(Optimistic) /\ View(confirmed, pending') = View(confirmed, pending)
  BY <1>1, <1>5, <1>6, AnsweredShown
<1>8. /\ confirmed' = confirmed /\ live' = live /\ mounts' = mounts /\ blurred' = blurred
      /\ UNCHANGED <<store, version, stream, cursor, loads>>
  BY DEF ServeNothing, ServeReject, server, history
<1>9. Typing'
  BY <1>1, <1>7, <1>8 DEF Typing
<1> QED BY <1>7, <1>8, <1>9, StillShown DEF ShowInv

LEMMA ReceiveAnswerKeeps ==
  ASSUME ShowInv, NEW r \in loads, ReceiveAnswer(r)
  PROVE  ShowInv'
<1>1. PICK a \in r.answer :
        /\ InTime(a)
        /\ confirmed' = confirmed \cup a.triples
        /\ cursor' = IF cursor = 0 THEN a.version ELSE cursor
        /\ LET V == View(confirmed', pending)
               l == Notified(live, V, {t.predicate : t \in a.triples})
           IN  /\ live' = Settled(l, r, V)
               /\ loads' = (loads \ {r}) \cup Refills(live, [live' EXCEPT ![r.query].refilling = FALSE])
        /\ UNCHANGED <<server, stream, pending, mounts, faults, swept, blurred, stale>>
  BY DEF ReceiveAnswer
<1> DEFINE V0 == View(confirmed, pending)
           c == confirmed \cup a.triples
           V == View(c, pending)
           predicates == {t.predicate : t \in a.triples}
           l == Notified(live, V, predicates)
           m == Settled(l, r, V)
           q == r.query
           k == [m EXCEPT ![q].refilling = FALSE]
<1>2. /\ Typing /\ Mounted(live, mounts) /\ Painted(live) /\ Fresh
      /\ r \in Load /\ V0 \in SUBSET Triple
  BY ViewNow DEF ShowInv, Typing
<1>3. a \in Answer /\ q \in DOMAIN Payload
  BY <1>2 DEF Load
<1>4. c \in SUBSET Triple
  BY <1>2, <1>3 DEF Typing, Answer
<1>5. V \in SUBSET Triple
  BY <1>2, <1>4, ViewTyped DEF Typing
<1>6. /\ confirmed' = c /\ pending' = pending /\ live' = m
      /\ mounts' = mounts /\ blurred' = blurred
      /\ loads' = (loads \ {r}) \cup Refills(live, k)
  BY <1>1
<1>7. \A t \in (V \ V0) \cup (V0 \ V) : t.predicate \in predicates
  <2> SUFFICES ASSUME NEW t \in (V \ V0) \cup (V0 \ V) PROVE t \in a.triples
    OBVIOUS
  <2>1. ~ (t \in confirmed <=> t \in c)
    BY ViewOfConfirmed
  <2> QED BY <2>1
<1>8. View(confirmed', pending') = V
  BY <1>6
<1> HIDE DEF V, V0, predicates
<1>9. /\ Mounted(l, mounts)
      /\ Open(l) = Open(live)
      /\ \A p \in DOMAIN Payload : l[p].id = live[p].id
      /\ \A p \in DOMAIN Payload : p \notin Open(live) => l[p] = live[p]
      /\ Painted(live) => Painted(l)
      /\ FreshAt(live, V0) => FreshAt(l, V)
  <2>1. Told(live, V0, l, V)
    BY <1>2, <1>5, <1>7, NotifiedIs
  <2> HIDE DEF l
  <2> QED BY <1>2, <2>1 DEF Told
<1> HIDE DEF l
<1>10. /\ Mounted(m, mounts)
       /\ \A p \in DOMAIN Payload : m[p].id = l[p].id
       /\ \A p \in DOMAIN Payload : p # r.query => m[p] = l[p]
       /\ Painted(l) => Painted(m)
       /\ FreshAt(l, V) => FreshAt(m, V)
  BY <1>2, <1>9, SettledIs
<1> HIDE DEF m
<1>11. Refills(live, k) \in SUBSET Load
  <2>1. DOMAIN m = DOMAIN Payload /\ DOMAIN m[q] = Slots
    BY <1>3, <1>10 DEF Mounted
  <2>2. DOMAIN k = DOMAIN Payload
    BY <2>1
  <2>3. \A p \in DOMAIN Payload : k[p].id = live[p].id
    BY <1>9, <1>10, <2>1 DEF Slots
  <2>4. \A p \in DOMAIN Payload : p \notin Open(live) /\ k[p].refilling => live[p].refilling
    BY <1>9, <1>10, <2>1 DEF Slots
  <2> HIDE DEF k
  <2> QED BY <1>2, <2>2, <2>3, <2>4, RefillsAreLoads
<1> HIDE DEF k
<1>12. Typing'
  <2>1. a.version \in Nat
    BY <1>3 DEF Answer
  <2>2. cursor' \in Nat
    BY <1>1, <1>2, <2>1 DEF Typing
  <2>3. loads' \in SUBSET Load
    BY <1>2, <1>6, <1>11 DEF Typing
  <2> QED BY <1>1, <1>2, <1>4, <1>6, <2>2, <2>3 DEF Typing, server
<1>13. Fresh'
  <2>1. ASSUME ~ blurred' PROVE FreshAt(live', View(confirmed', pending'))
    BY <1>2, <1>6, <1>8, <1>9, <1>10, <2>1 DEF Fresh, V0
  <2> QED BY <2>1 DEF Fresh
<1> QED BY <1>2, <1>6, <1>9, <1>10, <1>12, <1>13 DEF ShowInv

\* Two notifications: of the server's delta, and of the pending write that goes.
LEMMA ReceiveAckKeeps == ShowInv /\ ReceiveAck => ShowInv'
<1> SUFFICES ASSUME ShowInv, ReceiveAck PROVE ShowInv'
  OBVIOUS
<1>1. PICK a \in pending[1].answer :
       LET c    == Applied(confirmed, a.delta)
           told == Notified(live, View(c, pending), Predicates(a.delta))
       IN  /\ confirmed' = c
           /\ pending' = Tail(pending)
           /\ live' = Notified(told, View(c, Tail(pending)), Predicates(pending[1].delta))
           /\ loads' = loads \cup Refills(live, live')
           /\ stale' = (stale \/ (a.ok /\ (a.version < cursor \/ cursor = 0)))
  BY DEF ReceiveAck
<1> DEFINE V0 == View(confirmed, pending)
           c == Applied(confirmed, a.delta)
           V == View(c, pending)
           W == View(c, Tail(pending))
           heard == Predicates(a.delta)
           dropped == Predicates(pending[1].delta)
           told == Notified(live, V, heard)
           m == Notified(told, W, dropped)
<1>2. /\ Typing /\ Mounted(live, mounts) /\ Painted(live) /\ Fresh
      /\ V0 \in SUBSET Triple /\ pending \in Seq(Optimistic) /\ pending # <<>>
  BY ViewNow DEF ShowInv, Typing, ReceiveAck
<1>3. pending[1] \in Optimistic /\ Tail(pending) \in Seq(Optimistic)
  BY <1>2
<1>4. a \in Ack
  BY <1>3 DEF Optimistic
<1>5. c \in SUBSET Triple
  BY <1>2, <1>4, AppliedTyped DEF Ack, Typing
<1>6. V \in SUBSET Triple /\ W \in SUBSET Triple
  BY <1>2, <1>3, <1>5, ViewTyped
<1>7. /\ confirmed' = c /\ pending' = Tail(pending) /\ live' = m
      /\ mounts' = mounts /\ blurred' = blurred
      /\ loads' = loads \cup Refills(live, m)
  BY <1>1 DEF ReceiveAck
<1>8. \A t \in (V \ V0) \cup (V0 \ V) : t.predicate \in heard
  <2> SUFFICES ASSUME NEW t \in (V \ V0) \cup (V0 \ V) PROVE t \in a.delta.added \cup a.delta.removed
    BY DEF Predicates
  <2>1. ~ (t \in confirmed <=> t \in c)
    BY ViewOfConfirmed
  <2> QED BY <2>1 DEF Applied
<1>9. \A t \in (V \ W) \cup (W \ V) : t.predicate \in dropped
  <2> SUFFICES ASSUME NEW t \in (V \ W) \cup (W \ V) PROVE t \in Touched(pending[1].delta)
    BY DEF Predicates, Touched
  <2> QED BY <1>2, ViewOfTail
<1>10. View(confirmed', pending') = W
  BY <1>7
<1> HIDE DEF V, V0, W, heard, dropped
<1>11. /\ Mounted(told, mounts)
       /\ Open(told) = Open(live)
       /\ \A p \in DOMAIN Payload : told[p].id = live[p].id
       /\ \A p \in DOMAIN Payload : p \notin Open(live) => told[p] = live[p]
       /\ Painted(live) => Painted(told)
       /\ FreshAt(live, V0) => FreshAt(told, V)
  <2>1. Mounted(live, mounts) /\ V0 \in SUBSET Triple /\ V \in SUBSET Triple
    BY <1>2, <1>6
  <2>2. \A t \in (V0 \ V) \cup (V \ V0) : t.predicate \in heard
    BY <1>8
  <2>3. Told(live, V0, told, V)
    BY <2>1, <2>2, NotifiedIs
  <2> HIDE DEF told
  <2> QED BY <2>1, <2>3 DEF Told
<1> HIDE DEF told
<1>12. /\ Mounted(m, mounts)
       /\ \A p \in DOMAIN Payload : m[p].id = told[p].id
       /\ \A p \in DOMAIN Payload : p \notin Open(told) => m[p] = told[p]
       /\ Painted(told) => Painted(m)
       /\ FreshAt(told, V) => FreshAt(m, W)
  <2>1. Mounted(told, mounts) /\ V \in SUBSET Triple /\ W \in SUBSET Triple
    BY <1>6, <1>11
  <2>2. Told(told, V, m, W)
    BY <2>1, <1>9, NotifiedIs
  <2> HIDE DEF m
  <2> QED BY <2>1, <2>2 DEF Told
<1> HIDE DEF m
<1>13. Refills(live, m) \in SUBSET Load
  <2>1. DOMAIN m = DOMAIN Payload
    BY <1>12 DEF Mounted
  <2>2. \A p \in DOMAIN Payload : m[p].id = live[p].id
    BY <1>11, <1>12
  <2>3. \A p \in DOMAIN Payload : p \notin Open(live) /\ m[p].refilling => live[p].refilling
    BY <1>11, <1>12
  <2> QED BY <1>2, <2>1, <2>2, <2>3, RefillsAreLoads
<1>14. Typing'
  BY <1>2, <1>3, <1>5, <1>7, <1>13 DEF Typing, ReceiveAck, server
<1>15. Fresh'
  <2>1. ASSUME ~ blurred' PROVE FreshAt(live', View(confirmed', pending'))
    BY <1>2, <1>7, <1>10, <1>11, <1>12, <2>1 DEF Fresh, V0
  <2> QED BY <2>1 DEF Fresh
<1> QED BY <1>2, <1>7, <1>11, <1>12, <1>14, <1>15 DEF ShowInv

LEMMA ReceiveDeltaKeeps == ShowInv /\ ReceiveDelta => ShowInv'
<1> SUFFICES ASSUME ShowInv, ReceiveDelta PROVE ShowInv'
  OBVIOUS
<1> DEFINE m == Head(stream)
           c == Applied(confirmed, m.delta)
           d == Effective(confirmed, m.delta)
           V0 == View(confirmed, pending)
           V == View(c, pending)
<1>1. Typing /\ stream \in Seq(Message) /\ stream # <<>>
  BY DEF ShowInv, Typing, ReceiveDelta
<1>2. m \in Message /\ Tail(stream) \in Seq(Message)
  BY <1>1
<1>3. /\ mounts' = mounts /\ blurred' = blurred /\ store' = store /\ version' = version
      /\ stream' = Tail(stream)
  BY DEF ReceiveDelta, server, history
<1>4. CASE m.version > cursor
  <2>1. cursor' = m.version /\ Touch(c, pending, Predicates(d))
    BY <1>4 DEF ReceiveDelta
  <2>2. m.version \in Nat /\ m.delta \in Delta
    BY <1>2 DEF Message
  <2>3. c \in SUBSET Triple
    BY <1>1, <2>2, AppliedTyped DEF Typing
  <2>4. \A t \in (V0 \ V) \cup (V \ V0) : t.predicate \in Predicates(d)
    <3> SUFFICES ASSUME NEW t \in (V0 \ V) \cup (V \ V0) PROVE t \in d.added \cup d.removed
      BY DEF Predicates
    <3>1. ~ (t \in confirmed <=> t \in c)
      BY ViewOfConfirmed
    <3> QED BY <3>1 DEF Applied, Effective
  <2> HIDE DEF c, d, m
  <2>5. Mounted(live', mounts') /\ Painted(live') /\ Fresh' /\ loads' \in SUBSET Load
    BY <1>1, <1>3, <2>1, <2>3, <2>4, TouchKeeps DEF Typing
  <2>6. Typing'
    BY <1>1, <1>2, <1>3, <2>1, <2>2, <2>3, <2>5 DEF Typing, Touch
  <2> QED BY <2>5, <2>6 DEF ShowInv
<1>5. CASE ~ (m.version > cursor)
  <2>1. UNCHANGED <<cursor, confirmed, pending, live, loads>>
    BY <1>5 DEF ReceiveDelta
  <2>2. Typing'
    BY <1>1, <1>2, <1>3, <2>1 DEF Typing
  <2> QED BY <1>3, <2>1, <2>2, StillShown DEF ShowInv
<1> QED BY <1>4, <1>5

LEMMA ShowStep == ShowInv /\ [Next]_vars => ShowInv'
<1> SUFFICES ASSUME ShowInv, [Next]_vars PROVE ShowInv'
  OBVIOUS
<1>1. ASSUME NEW q \in DOMAIN Payload, Render(q) \/ Attach(q) \/ Unmount(q) PROVE ShowInv'
  BY <1>1, RenderKeeps, AttachKeeps, UnmountKeeps
<1>2. ASSUME NEW r \in loads, ServeLoad(r) \/ ReceiveAnswer(r) \/ RetryAnswer(r) \/ LoseLoad(r)
      PROVE  ShowInv'
  BY <1>2, ServeLoadKeeps, ReceiveAnswerKeeps, RetryAnswerKeeps, LoseLoadKeeps
<1>3. ASSUME NEW w \in Writes, OtherCommit(w) \/ Transact(w) PROVE ShowInv'
  BY <1>3, OtherCommitKeeps, TransactKeeps
<1>4. ASSUME ServeCommit \/ ServeNothing \/ ServeReject PROVE ShowInv'
  BY <1>4, ServeCommitKeeps, ServeNoneKeeps
<1>5. ASSUME UNCHANGED vars PROVE ShowInv'
  <2>1. UNCHANGED <<store, version, stream, confirmed, cursor, pending, live, loads, mounts, blurred>>
    BY <1>5 DEF vars, history
  <2>2. Typing'
    BY <2>1 DEF ShowInv, Typing
  <2> QED BY <2>1, <2>2, StillShown DEF ShowInv
<1> QED BY <1>1, <1>2, <1>3, <1>4, <1>5, ReceiveAckKeeps, ReceiveDeltaKeeps DEF Next

\* SPEC 6.4, 7.5, for every engine and every set of queries and writes: a component
\* that has its answer shows what cache and pending writes give now.
THEOREM ShownAlwaysCurrent == Spec => []ShownIsCurrent
<1>1. ShowInv => ShownIsCurrent
  <2> SUFFICES ASSUME ShowInv, ~ blurred, NEW q \in Ready
               PROVE  live[q].screen = RunPayload(View(confirmed, pending), Payload[q])
    BY DEF ShownIsCurrent
  <2>1. q \in Open(live) /\ live[q].status = "ready" /\ q \in DOMAIN Payload
    BY DEF Ready, Open, ShowInv, Mounted
  <2> QED BY <2>1 DEF ShowInv, Fresh, FreshAt, Painted
<1> QED BY <1>1, ShowInit, ShowStep, PTL DEF Spec

----------------------------------------------------------------------------
\* Each action keeps what is true

\* Where the stream ends with this version, its i-th message has that one.
LEMMA Versions ==
  ASSUME Typing, Dense, NEW i \in DOMAIN stream
  PROVE  /\ stream[i] \in Message /\ stream[i].version \in Nat /\ i \in 1..Len(stream)
         /\ stream[i].version = version - Len(stream) + i /\ stream[i].version <= version
<1>1. stream[i] \in Message /\ i \in 1..Len(stream) /\ Len(stream) \in Nat
  BY DEF Typing
<1>2. stream[i].version \in Nat
  BY <1>1 DEF Message
<1> QED BY <1>1, <1>2 DEF Dense, Typing

\* Less to account for, from earlier on.
LEMMA Less ==
  ASSUME Typing, Dense, NEW T, NEW S, S \subseteq T, NEW v \in Nat, NEW u \in Nat, u <= v,
         Accounted(T, v)
  PROVE  Accounted(S, u)
<1> SUFFICES ASSUME NEW t \in S \ store PROVE Unread(t, u)
  BY DEF Accounted
<1>1. PICK i \in DOMAIN stream : stream[i].version > v /\ t \in Touched(stream[i].delta)
  BY DEF Accounted, Unread
<1>2. stream[i].version > u
  BY <1>1, Versions
<1> QED BY <1>1, <1>2 DEF Unread

\* What the store does hold needs no account.
LEMMA HeldByStore ==
  ASSUME NEW T, T \subseteq store, NEW v
  PROVE  Accounted(T, v)
  BY DEF Accounted

NoNewAnswers == \A r \in loads' : r.answer = {} \/ r \in loads

NoNewAcks ==
  \A i \in DOMAIN pending' : \A a \in pending'[i].answer :
    i = 1 /\ 1 \in DOMAIN pending /\ a \in pending[1].answer

LEMMA RefillsUnanswered ==
  ASSUME NEW l, NEW m, NEW r \in Refills(l, m)
  PROVE  r.answer = {}
  BY DEF Refills, Asked

LEMMA StillTrue ==
  ASSUME Typing, TruthInv, cursor' \in Nat, UNCHANGED <<store, version, stream>>,
         cursor' >= cursor, cursor' <= version, NoNewAnswers, NoNewAcks
  PROVE  Dense' /\ LastWordIsTrue' /\ AnswersAccounted' /\ AcksAccounted'
<1>1. \A T, v : Accounted(T, v)' <=> Accounted(T, v)
  BY DEF Accounted, Unread
<1>2. Dense'
  BY DEF TruthInv, Dense
<1>3. LastWordIsTrue'
  BY DEF TruthInv, LastWordIsTrue
<1>4. AnswersAccounted'
  <2> SUFFICES ASSUME NEW r \in loads', NEW a \in r.answer
               PROVE  a.version <= version' /\ (a.version >= cursor' => Accounted(a.triples, a.version)')
    BY DEF AnswersAccounted
  <2>1. r \in loads /\ a \in Answer
    BY DEF NoNewAnswers, Typing, Load
  <2>2. a.version <= version /\ (a.version >= cursor => Accounted(a.triples, a.version))
    BY <2>1 DEF TruthInv, AnswersAccounted
  <2>3. a.version >= cursor' => a.version >= cursor
    BY <2>1 DEF Answer, Typing
  <2> QED BY <1>1, <2>2, <2>3
<1>5. AcksAccounted'
  <2> SUFFICES ASSUME NEW i \in DOMAIN pending', NEW a \in pending'[i].answer
               PROVE  /\ i = 1 /\ a.version <= version'
                      /\ a.ok /\ a.version >= cursor' => Accounted(a.delta.added, a.version)'
                      /\ ~ a.ok => a.delta = NoDelta
    BY DEF AcksAccounted
  <2>1. i = 1 /\ 1 \in DOMAIN pending /\ a \in pending[1].answer
    BY DEF NoNewAcks
  <2>2. a \in Ack
    <3>1. pending[1] \in Optimistic
      BY <2>1 DEF Typing
    <3> QED BY <2>1, <3>1 DEF Optimistic
  <2>3. /\ a.version <= version
        /\ a.ok /\ a.version >= cursor => Accounted(a.delta.added, a.version)
        /\ ~ a.ok => a.delta = NoDelta
    BY <2>1 DEF TruthInv, AcksAccounted
  <2>4. a.version >= cursor' => a.version >= cursor
    BY <2>2 DEF Ack, Typing
  <2> QED BY <1>1, <2>1, <2>3, <2>4
<1> QED BY <1>2, <1>3, <1>4, <1>5

LEMMA TruthInit == Init => TruthInv
<1> SUFFICES ASSUME Init PROVE TruthInv
  OBVIOUS
<1>1. stream = <<>> /\ DOMAIN stream = {} /\ Len(stream) = 0 /\ DOMAIN pending = {}
  BY DEF Init
<1>2. Dense
  BY <1>1 DEF Init, Dense
<1>3. LastWordIsTrue
  BY <1>1 DEF LastWordIsTrue
<1>4. CacheAccounted
  BY HeldByStore DEF Init, CacheAccounted
<1>5. AnswersAccounted
  BY DEF Init, AnswersAccounted
<1>6. AcksAccounted
  BY <1>1 DEF AcksAccounted
<1> QED BY <1>2, <1>3, <1>4, <1>5, <1>6 DEF TruthInv

\* Actions that neither write nor read the stream.
LEMMA ClientStepsTrue ==
  ASSUME Typing, TruthInv,
         \/ \E q \in DOMAIN Payload : Render(q) \/ Attach(q) \/ Unmount(q)
         \/ \E r \in loads : RetryAnswer(r) \/ LoseLoad(r)
         \/ \E w \in Writes : Transact(w)
  PROVE  TruthInv'
<1>1. /\ UNCHANGED <<store, version, stream, cursor, stale>>
      /\ confirmed' \subseteq confirmed
  BY DEF Render, Attach, Unmount, RetryAnswer, LoseLoad, Transact, Touch, server, history
<1>2. NoNewAnswers
  <2>1. CASE loads' \subseteq loads
    BY <2>1 DEF NoNewAnswers
  <2>2. CASE \E q, id : loads' \subseteq loads \cup {Asked(q, id)}
    BY <2>2 DEF NoNewAnswers, Asked
  <2>3. CASE loads' = loads \cup Refills(live, live')
    BY <2>3, RefillsUnanswered DEF NoNewAnswers
  <2>4. ASSUME NEW q \in DOMAIN Payload, Render(q) \/ Unmount(q) PROVE loads' = loads
    BY <2>4 DEF Render, Unmount
  <2>5. ASSUME NEW q \in DOMAIN Payload, Attach(q) PROVE loads' \subseteq loads \cup {Asked(q, mounts)}
    BY <2>5 DEF Attach
  <2>6. ASSUME NEW r \in loads, RetryAnswer(r) PROVE loads' \subseteq loads \cup {Asked(r.query, r.id)}
    BY <2>6 DEF RetryAnswer
  <2>7. ASSUME NEW r \in loads, LoseLoad(r) PROVE loads' \subseteq loads
    BY <2>7 DEF LoseLoad
  <2>8. ASSUME NEW w \in Writes, Transact(w) PROVE loads' = loads \cup Refills(live, live')
    BY <2>8 DEF Transact, Touch
  <2> QED BY <2>1, <2>2, <2>3, <2>4, <2>5, <2>6, <2>7, <2>8
<1>3. NoNewAcks
  <2>1. CASE pending' = pending
    BY <2>1 DEF NoNewAcks, TruthInv, AcksAccounted
  <2>2. CASE \E w \in Writes : Transact(w)
    <3>1. PICK w \in Writes : Transact(w)
      BY <2>2
    <3> DEFINE m == [delta |-> DeltaOf(View(confirmed, pending), w), write |-> w, answer |-> {}]
    <3>2. pending' = Append(pending, m)
      BY <3>1 DEF Transact, Touch
    <3>3. m.answer = {}
      OBVIOUS
    <3> HIDE DEF m
    <3>4. ASSUME NEW i \in DOMAIN pending'
          PROVE  (i \in DOMAIN pending /\ pending'[i] = pending[i]) \/ pending'[i] = m
      BY <3>2 DEF Typing
    <3> QED BY <3>3, <3>4 DEF NoNewAcks, TruthInv, AcksAccounted
  <2> QED BY <2>1, <2>2 DEF Render, Attach, Unmount, RetryAnswer, LoseLoad
<1>4. Dense' /\ LastWordIsTrue' /\ AnswersAccounted' /\ AcksAccounted'
  <2>1. cursor \in Nat /\ cursor <= version
    BY DEF Typing, TruthInv, Dense
  <2> QED BY <1>1, <1>2, <1>3, <2>1, StillTrue
<1>5. CacheAccounted'
  BY <1>1 DEF TruthInv, CacheAccounted, Accounted, Unread
<1> QED BY <1>4, <1>5 DEF TruthInv

LEMMA ServeLoadTrue ==
  ASSUME Typing, TruthInv, NEW r \in loads, ServeLoad(r)
  PROVE  TruthInv'
<1> DEFINE a == [version |-> version, triples |-> CollectPayloadTriples(store, Payload[r.query], TRUE)]
           s == [r EXCEPT !.answer = {a}]
<1>1. UNCHANGED <<store, version, stream, confirmed, cursor, pending, stale>>
  BY DEF ServeLoad, server, history
<1>2. \A T, v : Accounted(T, v)' <=> Accounted(T, v)
  BY <1>1 DEF Accounted, Unread
<1>3. /\ a.version = version /\ Accounted(a.triples, a.version)
      /\ s.answer = {a} /\ loads' = (loads \ {r}) \cup {s}
  <2>1. r.query \in DOMAIN Payload /\ store \in SUBSET Triple
    BY DEF Typing, Load
  <2>2. a.triples \subseteq store
    BY <2>1, LiveAssumption
  <2>3. "answer" \in DOMAIN r
    BY DEF Typing, Load
  <2> QED BY <2>2, <2>3, HeldByStore DEF ServeLoad
<1> HIDE DEF a, s
<1>4. AnswersAccounted'
  <2> SUFFICES ASSUME NEW q \in loads', NEW b \in q.answer
               PROVE  b.version <= version' /\ (b.version >= cursor' => Accounted(b.triples, b.version)')
    BY DEF AnswersAccounted
  <2>1. CASE q \in loads
    BY <1>1, <1>2, <2>1 DEF TruthInv, AnswersAccounted
  <2>2. CASE q = s
    BY <1>1, <1>2, <1>3, <2>2 DEF Typing
  <2> QED BY <1>3, <2>1, <2>2
<1>5. Dense' /\ LastWordIsTrue' /\ CacheAccounted' /\ AcksAccounted'
  BY <1>1 DEF TruthInv, Dense, LastWordIsTrue, CacheAccounted, AcksAccounted, Accounted, Unread
<1> QED BY <1>4, <1>5 DEF TruthInv

\* An answer in time is no older than the cursor, or the first thing the cache holds.
LEMMA ReceiveAnswerTrue ==
  ASSUME Typing, TruthInv, NEW r \in loads, ReceiveAnswer(r)
  PROVE  TruthInv'
<1>1. PICK a \in r.answer :
        /\ InTime(a)
        /\ confirmed' = confirmed \cup a.triples
        /\ cursor' = IF cursor = 0 THEN a.version ELSE cursor
        /\ loads' = (loads \ {r}) \cup Refills(live, [live' EXCEPT ![r.query].refilling = FALSE])
        /\ UNCHANGED <<server, stream, pending, mounts, faults, swept, blurred, stale>>
  BY DEF ReceiveAnswer
<1>2. a \in Answer /\ a.version \in Nat \ {0} /\ cursor \in Nat /\ version \in Nat
  BY DEF Typing, Load, Answer
<1>3. a.version >= cursor /\ a.version <= version /\ Accounted(a.triples, a.version)
  BY <1>1 DEF InTime, TruthInv, AnswersAccounted
<1>4. cursor <= version
  BY DEF TruthInv, Dense
<1>5. cursor' \in Nat /\ cursor' >= cursor /\ cursor' <= version /\ cursor' # 0
  BY <1>1, <1>2, <1>3, <1>4
<1>6. UNCHANGED <<store, version, stream, pending, stale>>
  BY <1>1 DEF server
<1>7. NoNewAnswers
  BY <1>1, RefillsUnanswered DEF NoNewAnswers
<1>8. NoNewAcks
  BY <1>6 DEF NoNewAcks, TruthInv, AcksAccounted
<1>9. Dense' /\ LastWordIsTrue' /\ AnswersAccounted' /\ AcksAccounted'
  BY <1>5, <1>6, <1>7, <1>8, StillTrue
<1>10. ASSUME ~ stale PROVE Accounted(confirmed', cursor')
  <2>1. Dense
    BY DEF TruthInv
  <2>2. Accounted(a.triples, cursor')
    BY <1>1, <1>2, <1>3, <2>1, Less
  <2>3. Accounted(confirmed, cursor')
    BY <1>1, <1>10 DEF TruthInv, CacheAccounted, Accounted
  <2> QED BY <1>1, <2>2, <2>3 DEF Accounted
<1>11. CacheAccounted'
  BY <1>5, <1>6, <1>10 DEF CacheAccounted, Accounted, Unread
<1> QED BY <1>9, <1>11 DEF TruthInv

LEMMA ReceiveAckTrue ==
  ASSUME Typing, TruthInv, ReceiveAck
  PROVE  TruthInv'
<1>1. PICK a \in pending[1].answer :
        /\ confirmed' = Applied(confirmed, a.delta)
        /\ pending' = Tail(pending)
        /\ loads' = loads \cup Refills(live, live')
        /\ stale' = (stale \/ (a.ok /\ (a.version < cursor \/ cursor = 0)))
  BY DEF ReceiveAck
<1>2. /\ pending \in Seq(Optimistic) /\ pending # <<>>
      /\ UNCHANGED <<store, version, stream, cursor>>
  BY DEF ReceiveAck, Typing, server
<1>3. 1 \in DOMAIN pending /\ pending[1] \in Optimistic
  BY <1>2
<1>4. a \in Ack /\ a.version \in Nat
  BY <1>3 DEF Optimistic, Ack
<1>5. NoNewAnswers
  BY <1>1, RefillsUnanswered DEF NoNewAnswers
<1>6. NoNewAcks
  <2>1. ASSUME NEW i \in DOMAIN pending' PROVE i + 1 \in DOMAIN pending /\ pending'[i] = pending[i + 1] /\ i + 1 # 1
    BY <1>1, <1>2
  <2>2. ASSUME NEW i \in DOMAIN pending', NEW b \in pending'[i].answer PROVE FALSE
    BY <2>1, <2>2 DEF TruthInv, AcksAccounted
  <2> QED BY <2>2 DEF NoNewAcks
<1>7. cursor \in Nat /\ cursor <= version
  BY DEF Typing, TruthInv, Dense
<1>8. Dense' /\ LastWordIsTrue' /\ AnswersAccounted' /\ AcksAccounted'
  BY <1>2, <1>5, <1>6, <1>7, StillTrue
<1>9. ASSUME ~ stale' PROVE Accounted(confirmed', cursor)
  <2>1. Accounted(confirmed, cursor) /\ ~ stale
    BY <1>1, <1>9 DEF TruthInv, CacheAccounted
  <2>2. CASE a.ok
    <3>1. a.version >= cursor
      <4>1. ~ (a.version < cursor)
        BY <1>1, <1>9, <2>2, Zenon
      <4> QED BY <1>4, <1>7, <4>1
    <3>2. Accounted(a.delta.added, a.version)
      BY <1>3, <2>2, <3>1 DEF TruthInv, AcksAccounted
    <3>3. Accounted(a.delta.added, cursor)
      BY <1>4, <1>7, <3>1, <3>2, Less DEF TruthInv
    <3> QED BY <1>1, <2>1, <3>3 DEF Accounted, Applied
  <2>3. CASE ~ a.ok
    <3>1. a.delta = NoDelta
      BY <1>3, <2>3 DEF TruthInv, AcksAccounted
    <3>2. confirmed' = confirmed
      BY <1>1, <3>1 DEF Applied, NoDelta
    <3> QED BY <2>1, <3>2
  <2> QED BY <2>2, <2>3
<1>10. ASSUME ~ stale', cursor = 0 PROVE confirmed' = {}
  <2>1. ~ a.ok /\ confirmed = {}
    BY <1>1, <1>10 DEF TruthInv, CacheAccounted
  <2>2. a.delta = NoDelta
    BY <1>3, <2>1 DEF TruthInv, AcksAccounted
  <2> QED BY <1>1, <2>1, <2>2 DEF Applied, NoDelta
<1>11. CacheAccounted'
  BY <1>2, <1>9, <1>10 DEF CacheAccounted, Accounted, Unread
<1> QED BY <1>8, <1>11 DEF TruthInv

\* A commit speaks last of what it touches.
LEMMA CommittedTrue ==
  ASSUME Typing, TruthInv, NEW w \in Writes, Committed(w), cursor' = cursor
  PROVE  /\ Dense' /\ LastWordIsTrue'
         /\ \A T : \A v \in Nat : v <= version /\ Accounted(T, v) => Accounted(T, v)'
<1> DEFINE d == DeltaOf(store, w)
           m == [version |-> version + 1, delta |-> d]
           n == Len(stream)
<1>1. /\ store' = Applied(store, d) /\ version' = version + 1 /\ stream' = Append(stream, m)
      /\ d \in Delta
  BY DeltaTyped DEF Committed, Typing
<1>2. stream \in Seq(Message) /\ n \in Nat /\ version \in Nat /\ cursor \in Nat
  BY DEF Typing
<1>3. m.version = version + 1 /\ m.delta = d
  OBVIOUS
<1> HIDE DEF d
<1>4. m \in Message
  BY <1>1, <1>2 DEF Message
<1> HIDE DEF m
<1>5. /\ Len(stream') = n + 1 /\ DOMAIN stream' = 1..(n + 1) /\ DOMAIN stream = 1..n
      /\ stream'[n + 1] = m /\ \A i \in 1..n : stream'[i] = stream[i]
  BY <1>1, <1>2, <1>4
<1> HIDE DEF n
<1>6. Dense'
  <2>1. n < version /\ cursor <= version
    BY DEF TruthInv, Dense, n
  <2>2. ASSUME NEW i \in DOMAIN stream' PROVE stream'[i].version = version' - (n + 1) + i
    <3>1. CASE i = n + 1
      BY <1>1, <1>2, <1>3, <1>5, <3>1 DEF n
    <3>2. CASE i # n + 1
      <4>1. i \in 1..n /\ i \in DOMAIN stream /\ stream'[i] = stream[i]
        BY <1>2, <1>5, <3>2 DEF n
      <4>2. stream[i].version = version - n + i
        BY <4>1 DEF TruthInv, Dense, n
      <4> QED BY <1>1, <1>2, <4>1, <4>2 DEF n
    <3> QED BY <3>1, <3>2
  <2>3. n + 1 < version' /\ cursor' <= version'
    BY <1>1, <1>2, <2>1 DEF n
  <2> QED BY <1>5, <2>2, <2>3 DEF Dense
<1>7. LastWordIsTrue'
  <2> SUFFICES ASSUME NEW i \in DOMAIN stream', NEW t \in Touched(stream'[i].delta),
                      \A j \in (i + 1)..(n + 1) : t \notin Touched(stream'[j].delta)
               PROVE  t \in stream'[i].delta.added <=> t \in store'
    BY <1>5 DEF LastWordIsTrue
  <2>1. CASE i = n + 1
    BY <1>1, <1>3, <1>5, <2>1 DEF Touched, Applied
  <2>2. CASE i # n + 1
    <3>1. i \in 1..n /\ i \in DOMAIN stream /\ stream'[i] = stream[i]
      BY <1>2, <1>5, <2>2 DEF n
    <3>2. t \notin Touched(d)
      <4>1. n + 1 \in (i + 1)..(n + 1)
        BY <1>2, <3>1 DEF n
      <4> QED BY <1>3, <1>5, <4>1
    <3>3. \A j \in (i + 1)..n : t \notin Touched(stream[j].delta)
      <4> SUFFICES ASSUME NEW j \in (i + 1)..n PROVE t \notin Touched(stream[j].delta)
        OBVIOUS
      <4>1. j \in (i + 1)..(n + 1) /\ j \in 1..n
        BY <1>2, <3>1 DEF n
      <4> QED BY <1>5, <4>1
    <3>4. t \in stream[i].delta.added <=> t \in store
      BY <3>1, <3>3 DEF TruthInv, LastWordIsTrue, n
    <3> QED BY <1>1, <3>1, <3>2, <3>4 DEF Touched, Applied
  <2> QED BY <2>1, <2>2
<1>8. ASSUME NEW T, NEW v \in Nat, v <= version, Accounted(T, v) PROVE Accounted(T, v)'
  <2> SUFFICES ASSUME NEW t \in T, t \notin store'
               PROVE  \E i \in DOMAIN stream' : stream'[i].version > v /\ t \in Touched(stream'[i].delta)
    BY DEF Accounted, Unread
  <2>1. CASE t \in store
    <3>1. t \in Touched(d)
      BY <1>1, <2>1 DEF Applied, Touched
    <3>2. n + 1 \in DOMAIN stream' /\ version + 1 > v
      BY <1>2, <1>5, <1>8 DEF n
    <3> QED BY <1>3, <1>5, <3>1, <3>2
  <2>2. CASE t \notin store
    <3>1. PICK i \in DOMAIN stream : stream[i].version > v /\ t \in Touched(stream[i].delta)
      BY <1>8, <2>2 DEF Accounted, Unread
    <3>2. i \in DOMAIN stream' /\ stream'[i] = stream[i]
      BY <1>2, <1>5, <3>1 DEF n
    <3> QED BY <3>1, <3>2
  <2> QED BY <2>1, <2>2
<1> QED BY <1>6, <1>7, <1>8

\* What was accounted for before a commit is after it.
LEMMA CommitKeepsAccounts ==
  ASSUME Typing, TruthInv, NEW w \in Writes, Committed(w),
         UNCHANGED <<confirmed, cursor, loads, stale>>
  PROVE  /\ Dense' /\ LastWordIsTrue' /\ CacheAccounted' /\ AnswersAccounted'
         /\ pending' = pending => AcksAccounted'
<1>1. /\ Dense' /\ LastWordIsTrue'
      /\ \A T : \A v \in Nat : v <= version /\ Accounted(T, v) => Accounted(T, v)'
  BY CommittedTrue
<1>2. cursor \in Nat /\ version \in Nat /\ cursor <= version /\ version' = version + 1
  BY DEF Typing, TruthInv, Dense, Committed
<1>3. CacheAccounted'
  <2>1. ASSUME ~ stale PROVE Accounted(confirmed, cursor)
    BY <2>1 DEF TruthInv, CacheAccounted
  <2>2. ASSUME ~ stale PROVE \A t \in confirmed \ store' : Unread(t, cursor)'
    <3>1. \A T : \A v \in Nat : v <= version /\ Accounted(T, v) => \A t \in T \ store' : Unread(t, v)'
      BY <1>1 DEF Accounted
    <3> QED BY <1>2, <2>1, <2>2, <3>1 DEF Unread
  <2> QED BY <2>2 DEF TruthInv, CacheAccounted, Accounted, Unread
<1>4. AnswersAccounted'
  <2> SUFFICES ASSUME NEW r \in loads, NEW a \in r.answer
               PROVE  a.version <= version' /\ (a.version >= cursor => Accounted(a.triples, a.version)')
    BY DEF AnswersAccounted
  <2>1. a.version <= version /\ (a.version >= cursor => Accounted(a.triples, a.version))
    BY DEF TruthInv, AnswersAccounted
  <2>2. a.version \in Nat
    BY DEF Typing, Load, Answer
  <2> QED BY <1>1, <1>2, <2>1, <2>2
<1>5. ASSUME pending' = pending PROVE AcksAccounted'
  <2> SUFFICES ASSUME NEW i \in DOMAIN pending, NEW a \in pending[i].answer
               PROVE  /\ i = 1 /\ a.version <= version'
                      /\ a.ok /\ a.version >= cursor => Accounted(a.delta.added, a.version)'
                      /\ ~ a.ok => a.delta = NoDelta
    BY <1>5 DEF AcksAccounted
  <2>1. /\ i = 1 /\ a.version <= version
        /\ a.ok /\ a.version >= cursor => Accounted(a.delta.added, a.version)
        /\ ~ a.ok => a.delta = NoDelta
    BY DEF TruthInv, AcksAccounted
  <2>2. a.version \in Nat
    <3>1. pending[i] \in Optimistic
      BY DEF Typing
    <3> QED BY <3>1 DEF Optimistic, Ack
  <2>3. a.version <= version'
    BY <1>2, <2>1, <2>2
  <2> QED BY <1>1, <2>1, <2>2, <2>3
<1> QED BY <1>1, <1>3, <1>4, <1>5

\* The first pending write has its answer, and no other has one.
LEMMA AnsweredTrue ==
  ASSUME Typing, TruthInv, pending # <<>>, NEW a \in Ack, Answered(a),
         a.version <= version', Accounted(a.delta.added, a.version)', ~ a.ok => a.delta = NoDelta
  PROVE  AcksAccounted'
<1>1. 1 \in DOMAIN pending /\ pending[1] \in Optimistic
  BY DEF Typing
<1>2. DOMAIN pending' = DOMAIN pending /\ pending'[1].answer = {a}
  BY <1>1 DEF Answered, Optimistic
<1>3. \A i \in DOMAIN pending : i # 1 => pending'[i] = pending[i]
  BY DEF Answered
<1> SUFFICES ASSUME NEW i \in DOMAIN pending', NEW b \in pending'[i].answer
             PROVE  /\ i = 1 /\ b.version <= version'
                    /\ b.ok /\ b.version >= cursor' => Accounted(b.delta.added, b.version)'
                    /\ ~ b.ok => b.delta = NoDelta
  BY DEF AcksAccounted
<1>4. i = 1
  BY <1>2, <1>3 DEF TruthInv, AcksAccounted
<1>5. b = a
  BY <1>2, <1>4
<1> QED BY <1>4, <1>5

LEMMA ServerStepsTrue ==
  ASSUME Typing, TruthInv,
         ServeCommit \/ ServeNothing \/ ServeReject \/ \E w \in Writes : OtherCommit(w)
  PROVE  TruthInv'
<1>1. ASSUME NEW w \in Writes, OtherCommit(w) PROVE TruthInv'
  <2>1. Committed(w) /\ pending' = pending /\ UNCHANGED <<confirmed, cursor, loads, stale>>
    BY <1>1 DEF OtherCommit, history
  <2> QED BY <2>1, CommitKeepsAccounts DEF TruthInv
<1>2. ASSUME ServeCommit PROVE TruthInv'
  <2> DEFINE w == pending[1].write
             d == DeltaOf(store, w)
             b == [ok |-> TRUE, version |-> version + 1, delta |-> d]
  <2>1. /\ pending # <<>> /\ Committed(w) /\ Answered(b)
        /\ UNCHANGED <<confirmed, cursor, loads, stale>>
    BY <1>2 DEF ServeCommit, history
  <2>2. w \in Writes
    <3>1. pending[1] \in Optimistic
      BY <2>1 DEF Typing
    <3> QED BY <3>1 DEF Optimistic
  <2>3. /\ d \in Delta /\ version \in Nat /\ version' = version + 1
        /\ store' = Applied(store, d)
    BY <2>1, <2>2, DeltaTyped DEF Typing, Committed
  <2>4. d.added \subseteq store'
    BY <2>3 DEF Applied
  <2> HIDE DEF w, d
  <2>5. b \in Ack /\ b.version = version + 1 /\ b.delta = d /\ b.ok
    BY <2>3 DEF Ack
  <2> HIDE DEF b
  <2>a. PICK a \in Ack : a = b
    BY <2>5
  <2>6. Accounted(a.delta.added, a.version)'
    BY <2>4, <2>5, <2>a DEF Accounted
  <2>7. a.version <= version'
    BY <2>3, <2>5, <2>a
  <2>8. AcksAccounted'
    BY <2>1, <2>5, <2>6, <2>7, <2>a, AnsweredTrue
  <2> QED BY <2>1, <2>2, <2>8, CommitKeepsAccounts DEF TruthInv
<1>3. ASSUME ServeNothing \/ ServeReject PROVE TruthInv'
  <2>1. /\ pending # <<>>
        /\ UNCHANGED <<store, version, stream, confirmed, cursor, loads, stale>>
    BY <1>3 DEF ServeNothing, ServeReject, server, history
  <2>2. \E ok \in BOOLEAN : Answered([ok |-> ok, version |-> version, delta |-> NoDelta])
    BY <1>3, Zenon DEF ServeNothing, ServeReject
  <2>3. PICK ok \in BOOLEAN : Answered([ok |-> ok, version |-> version, delta |-> NoDelta])
    BY <2>2
  <2> DEFINE b == [ok |-> ok, version |-> version, delta |-> NoDelta]
  <2>4. version \in Nat \ {0} /\ NoDelta \in Delta /\ NoDelta.added = {}
    BY DEF Typing, NoDelta, Delta
  <2>b. b \in Ack /\ b.version = version /\ b.delta = NoDelta /\ Answered(b)
    BY <2>3, <2>4 DEF Ack
  <2> HIDE DEF b
  <2>a. PICK a \in Ack : a = b
    BY <2>b
  <2>5. a.version = version /\ a.delta = NoDelta /\ Answered(a)
    BY <2>a, <2>b
  <2>6. Accounted(a.delta.added, a.version)'
    BY <2>4, <2>5 DEF Accounted
  <2>7. a.version <= version'
    BY <2>1, <2>4, <2>5
  <2>8. AcksAccounted'
    BY <2>1, <2>5, <2>6, <2>7, AnsweredTrue
  <2> QED BY <2>1, <2>8 DEF TruthInv, Dense, LastWordIsTrue, CacheAccounted, AnswersAccounted, Accounted, Unread
<1> QED BY <1>1, <1>2, <1>3

\* Whoever was past the message read needs it no more; who reads it learns whether it
\* was the last word.
LEMMA ReceiveDeltaTrue ==
  ASSUME Typing, TruthInv, ReceiveDelta
  PROVE  TruthInv'
<1> DEFINE m == Head(stream)
           n == Len(stream)
<1>1. /\ stream \in Seq(Message) /\ stream # <<>> /\ stream' = Tail(stream)
      /\ UNCHANGED <<store, version, pending, stale>>
      /\ cursor \in Nat /\ version \in Nat /\ cursor <= version
  BY DEF ReceiveDelta, Typing, server, history, Touch, TruthInv, Dense
<1>2. /\ n \in Nat \ {0} /\ DOMAIN stream = 1..n /\ m = stream[1] /\ m \in Message
      /\ Len(stream') = n - 1 /\ DOMAIN stream' = 1..(n - 1)
      /\ \A i \in 1..(n - 1) : stream'[i] = stream[i + 1]
  BY <1>1
<1> HIDE DEF m, n
<1>3. /\ m.version \in Nat /\ m.version = version - n + 1 /\ m.version <= version
      /\ \A i \in DOMAIN stream : i # 1 => stream[i].version > m.version
      /\ n < version
  <2>1. \A i \in DOMAIN stream : stream[i].version = version - n + i
    BY DEF TruthInv, Dense, n
  <2> QED BY <1>1, <1>2, <2>1 DEF Message, TruthInv, Dense, n
<1>4. /\ cursor' = IF m.version > cursor THEN m.version ELSE cursor
      /\ NoNewAnswers
  BY RefillsUnanswered DEF ReceiveDelta, Touch, NoNewAnswers, m
<1>5. cursor' \in Nat /\ cursor' >= cursor /\ cursor' >= m.version /\ cursor' <= version
  BY <1>1, <1>3, <1>4
<1>6. Dense'
  <2>1. ASSUME NEW i \in DOMAIN stream' PROVE stream'[i].version = version - (n - 1) + i
    <3>1. i \in 1..(n - 1) /\ i + 1 \in DOMAIN stream
      BY <1>2
    <3>2. stream[i + 1].version = version - n + (i + 1)
      BY <3>1 DEF TruthInv, Dense, n
    <3> QED BY <1>1, <1>2, <3>1, <3>2
  <2>2. n - 1 < version
    BY <1>1, <1>2, <1>3
  <2> QED BY <1>1, <1>2, <1>5, <2>1, <2>2 DEF Dense
<1>7. LastWordIsTrue'
  <2> SUFFICES ASSUME NEW i \in 1..(n - 1), NEW t \in Touched(stream'[i].delta),
                      \A j \in (i + 1)..(n - 1) : t \notin Touched(stream'[j].delta)
               PROVE  t \in stream'[i].delta.added <=> t \in store
    BY <1>1, <1>2 DEF LastWordIsTrue
  <2>1. i + 1 \in DOMAIN stream /\ stream'[i] = stream[i + 1]
    BY <1>2
  <2>2. \A j \in ((i + 1) + 1)..n : t \notin Touched(stream[j].delta)
    <3> SUFFICES ASSUME NEW j \in ((i + 1) + 1)..n PROVE t \notin Touched(stream[j].delta)
      OBVIOUS
    <3>1. j - 1 \in (i + 1)..(n - 1) /\ j - 1 \in 1..(n - 1) /\ (j - 1) + 1 = j
      BY <1>2
    <3> QED BY <1>2, <3>1
  <2> QED BY <2>1, <2>2 DEF TruthInv, LastWordIsTrue, n
<1>8. \A i \in DOMAIN stream : i # 1 => i - 1 \in DOMAIN stream' /\ stream'[i - 1] = stream[i]
  <2> SUFFICES ASSUME NEW i \in DOMAIN stream, i # 1
               PROVE  i - 1 \in DOMAIN stream' /\ stream'[i - 1] = stream[i]
    OBVIOUS
  <2>1. i - 1 \in 1..(n - 1) /\ (i - 1) + 1 = i
    BY <1>2
  <2> QED BY <1>2, <2>1
<1>9. ASSUME NEW t, NEW v, NEW i \in DOMAIN stream, i # 1,
             stream[i].version > v, t \in Touched(stream[i].delta)
      PROVE  Unread(t, v)'
  BY <1>8, <1>9 DEF Unread
<1>10. ASSUME NEW T, NEW v \in Nat, Accounted(T, v), v >= m.version PROVE Accounted(T, v)'
  <2> SUFFICES ASSUME NEW t \in T, t \notin store PROVE Unread(t, v)'
    BY <1>1 DEF Accounted
  <2>1. PICK i \in DOMAIN stream : stream[i].version > v /\ t \in Touched(stream[i].delta)
    BY <1>10 DEF Accounted, Unread
  <2>2. i # 1
    BY <1>2, <1>3, <1>10, <2>1
  <2> QED BY <1>9, <2>1, <2>2
<1>11. AnswersAccounted'
  <2> SUFFICES ASSUME NEW r \in loads', NEW a \in r.answer
               PROVE  a.version <= version /\ (a.version >= cursor' => Accounted(a.triples, a.version)')
    BY <1>1 DEF AnswersAccounted
  <2>1. r \in loads
    BY <1>4 DEF NoNewAnswers
  <2>2. a.version <= version /\ (a.version >= cursor => Accounted(a.triples, a.version))
    BY <2>1 DEF TruthInv, AnswersAccounted
  <2>3. a.version \in Nat
    BY <2>1 DEF Typing, Load, Answer
  <2>4. a.version >= cursor' => a.version >= cursor /\ a.version >= m.version
    BY <1>1, <1>3, <1>5, <2>3
  <2> QED BY <1>10, <2>2, <2>3, <2>4
<1>12. AcksAccounted'
  <2> SUFFICES ASSUME NEW i \in DOMAIN pending, NEW a \in pending[i].answer
               PROVE  /\ i = 1 /\ a.version <= version
                      /\ a.ok /\ a.version >= cursor' => Accounted(a.delta.added, a.version)'
                      /\ ~ a.ok => a.delta = NoDelta
    BY <1>1 DEF AcksAccounted
  <2>1. /\ i = 1 /\ a.version <= version
        /\ a.ok /\ a.version >= cursor => Accounted(a.delta.added, a.version)
        /\ ~ a.ok => a.delta = NoDelta
    BY DEF TruthInv, AcksAccounted
  <2>2. a.version \in Nat
    <3>1. pending[i] \in Optimistic
      BY DEF Typing
    <3> QED BY <3>1 DEF Optimistic, Ack
  <2>3. a.version >= cursor' => a.version >= cursor /\ a.version >= m.version
    BY <1>1, <1>3, <1>5, <2>2
  <2> QED BY <1>10, <2>1, <2>2, <2>3
<1>13. ASSUME ~ stale, NEW t \in confirmed', t \notin store, NEW v, v = cursor' PROVE Unread(t, v)'
  <2>1. \A s \in confirmed : s \notin store => Unread(s, cursor)
    BY <1>13 DEF TruthInv, CacheAccounted, Accounted
  <2>2. CASE m.version > cursor
    <3>1. cursor' = m.version /\ confirmed' = Applied(confirmed, m.delta)
      BY <2>2 DEF ReceiveDelta, Touch, m
    <3>2. CASE t \in m.delta.added
      <4>1. t \in Touched(stream[1].delta) /\ 1 \in DOMAIN stream
        BY <1>2, <3>2 DEF Touched
      <4>2. PICK j \in (1 + 1)..n : t \in Touched(stream[j].delta)
        BY <1>2, <1>13, <3>2, <4>1 DEF TruthInv, LastWordIsTrue, n
      <4>3. j \in DOMAIN stream /\ j # 1
        BY <1>2, <4>2
      <4> QED BY <1>3, <1>9, <1>13, <3>1, <4>2, <4>3
    <3>3. CASE t \notin m.delta.added
      <4>1. t \in confirmed /\ t \notin Touched(m.delta)
        BY <1>13, <3>1, <3>3 DEF Applied, Touched
      <4>2. PICK i \in DOMAIN stream : stream[i].version > cursor /\ t \in Touched(stream[i].delta)
        BY <1>13, <2>1, <4>1 DEF Unread
      <4>3. i # 1
        BY <1>2, <4>1, <4>2
      <4> QED BY <1>3, <1>9, <1>13, <3>1, <4>2, <4>3
    <3> QED BY <3>2, <3>3
  <2>3. CASE ~ (m.version > cursor)
    <3>1. cursor' = cursor /\ confirmed' = confirmed
      BY <2>3 DEF ReceiveDelta, m
    <3>2. PICK i \in DOMAIN stream : stream[i].version > cursor /\ t \in Touched(stream[i].delta)
      BY <1>13, <2>1, <3>1 DEF Unread
    <3>3. i # 1
      BY <1>2, <2>3, <3>2
    <3> QED BY <1>9, <1>13, <3>1, <3>2, <3>3
  <2> QED BY <2>2, <2>3
<1>14. ASSUME ~ stale, cursor' = 0 PROVE confirmed' = {}
  <2>1. ~ (m.version > cursor) /\ cursor = 0
    BY <1>1, <1>3, <1>5, <1>14, <1>4
  <2>2. confirmed' = confirmed
    BY <2>1 DEF ReceiveDelta, m
  <2> QED BY <1>14, <2>1, <2>2 DEF TruthInv, CacheAccounted
<1>15. CacheAccounted'
  <2>1. ASSUME ~ stale, NEW t \in confirmed', t \notin store
        PROVE  \E i \in DOMAIN stream' : stream'[i].version > cursor' /\ t \in Touched(stream'[i].delta)
    BY <1>13, <2>1 DEF Unread
  <2> QED BY <1>1, <1>14, <2>1 DEF CacheAccounted, Accounted, Unread
<1> QED BY <1>6, <1>7, <1>11, <1>12, <1>15 DEF TruthInv

LEMMA TruthStep == Typing /\ TruthInv /\ [Next]_vars => TruthInv'
<1> SUFFICES ASSUME Typing, TruthInv, [Next]_vars PROVE TruthInv'
  OBVIOUS
<1>1. ASSUME UNCHANGED vars PROVE TruthInv'
  BY <1>1 DEF vars, server, history, TruthInv, Dense, LastWordIsTrue, CacheAccounted, AnswersAccounted,
              AcksAccounted, Accounted, Unread
<1> QED BY <1>1, ClientStepsTrue, ServeLoadTrue, ReceiveAnswerTrue, ServerStepsTrue, ReceiveAckTrue,
           ReceiveDeltaTrue DEF Next

LEMMA TruthAlways == Spec => [](ShowInv /\ TruthInv)
<1>1. ShowInv => Typing
  BY DEF ShowInv
<1> QED BY <1>1, ShowInit, ShowStep, TruthInit, TruthStep, PTL DEF Spec

\* SPEC 7.6, 8.2, for every engine and every set of queries and writes: once nothing
\* is on its way, a row on screen is the server's.
THEOREM ShownRowsAlwaysTrue == Spec => []ShownRowsAreTrue
<1>1. ShowInv /\ TruthInv => ShownRowsAreTrue
  <2> SUFFICES ASSUME ShowInv, TruthInv, Quiet, ~ stale, ~ blurred, NEW q \in Ready,
                      NEW i \in DOMAIN live[q].screen,
                      Held(store, confirmed, q, live[q].screen[i].id)
               PROVE  live[q].screen[i] \in ToSet(RunPayload(store, Unlimited(q)))
    BY DEF ShownRowsAreTrue
  <2>1. confirmed \subseteq store
    BY DEF Quiet, TruthInv, CacheAccounted, Accounted, Unread
  <2>2. View(confirmed, pending) = confirmed
    BY ViewOfNone DEF Quiet
  <2>3. q \in Open(live) /\ live[q].status = "ready" /\ q \in DOMAIN Payload
    BY DEF Ready, Open, ShowInv, Mounted
  <2>4. live[q].screen = RunPayload(confirmed, Payload[q])
    BY <2>2, <2>3 DEF ShowInv, Fresh, FreshAt, Painted
  <2>5. store \in SUBSET Triple
    BY DEF ShowInv, Typing
  <2> QED BY <2>1, <2>3, <2>4, <2>5, RowAssumption
<1> QED BY <1>1, TruthAlways, PTL
=============================================================================
