------------------------- MODULE Generations_proof -------------------------
(***************************************************************************)
(* What holds of every workspace cell of Generations: any fields, kinds,   *)
(* subjects and pages, any declarations, any bounds.                       *)
(***************************************************************************)
EXTENDS Generations, SequenceTheorems, TLAPS

----------------------------------------------------------------------------
\* The schema table

\* INSERT OR REPLACE at a later time makes its row the one that #boot runs.
LEMMA NewestIsInserted ==
  ASSUME NEW rows, NEW d, NEW now \in Nat,
         \A row \in rows : row.at \in Nat /\ row.at < now
  PROVE  Newest(Inserted(rows, d, now)) = Row(d, now)
<1> DEFINE all == Inserted(rows, d, now)
           IsNewest(row) == \A other \in all : other.at <= row.at
<1>1. Row(d, now) \in all /\ Row(d, now).at = now  BY DEF Inserted, Row
<1>2. ASSUME NEW row \in all, row # Row(d, now)  PROVE row.at \in Nat /\ row.at < now
  BY <1>2 DEF Inserted
<1>3. IsNewest(Row(d, now))
  <2> SUFFICES ASSUME NEW other \in all  PROVE other.at <= now  BY <1>1
  <2>1. CASE other = Row(d, now)  BY <2>1, <1>1
  <2>2. CASE other # Row(d, now)  BY <2>2, <1>2
  <2> QED  BY <2>1, <2>2
<1>4. ASSUME NEW row \in all, IsNewest(row)  PROVE row = Row(d, now)
  BY <1>1, <1>2, <1>4
<1> QED  BY <1>1, <1>3, <1>4 DEF Newest

\* So #boot after a set_schema runs that declaration and accepts one generation more.
LEMMA BootedIsInserted ==
  ASSUME NEW rows, NEW d, NEW now \in Nat,
         \A row \in rows : row.at \in Nat /\ row.at < now
  PROVE  /\ Booted(Inserted(rows, d, now)).declaration = d
         /\ Booted(Inserted(rows, d, now)).accepted = Booted(rows).accepted \cup {d.fields}
<1>1. Newest(Inserted(rows, d, now)) = Row(d, now)  BY NewestIsInserted
<1>2. Inserted(rows, d, now) # {}  BY DEF Inserted
<1>3. Booted(Inserted(rows, d, now)).declaration = d  BY <1>1, <1>2 DEF Booted, Row
<1>4. GenerationsOf(Inserted(rows, d, now)) = GenerationsOf(rows) \cup {d.fields}
  <2> DEFINE all == Inserted(rows, d, now)
  <2>1. Row(d, now) \in all /\ Row(d, now).declaration = d  BY DEF Inserted, Row
  <2>2. \A row \in all : row \in rows \/ row.declaration.fields = d.fields
    BY DEF Inserted, Row
  <2>3. \A row \in rows : row \in all \/ row.declaration.fields = d.fields
    BY DEF Inserted
  <2> HIDE DEF all
  <2>4. GenerationsOf(all) \subseteq GenerationsOf(rows) \cup {d.fields}
    BY <2>2 DEF GenerationsOf
  <2>5. GenerationsOf(rows) \cup {d.fields} \subseteq GenerationsOf(all)
    <3>1. ASSUME NEW row \in rows  PROVE row.declaration.fields \in GenerationsOf(all)
      BY <2>1, <2>3 DEF GenerationsOf
    <3>2. d.fields \in GenerationsOf(all)  BY <2>1 DEF GenerationsOf
    <3> QED  BY <3>1, <3>2 DEF GenerationsOf
  <2>6. GenerationsOf(all) = GenerationsOf(rows) \cup {d.fields}  BY <2>4, <2>5
  <2> QED  BY <2>6 DEF all
<1> QED  BY <1>3, <1>4 DEF Booted

\* The pages of a process with n servers.
PageOf(n) == [generation : Shape, link : 0..n, outdated : BOOLEAN, beforeReset : BOOLEAN]

Relinked(p, l) == [p EXCEPT !.link = l]
OverReset(p)   == [p EXCEPT !.beforeReset = TRUE]
Frozen(p)      == [p EXCEPT !.outdated = TRUE, !.link = 0]

LEMMA PageRelinked ==
  ASSUME NEW n \in Nat, NEW p \in PageOf(n), NEW k \in Nat, NEW l \in 0..k
  PROVE  /\ Relinked(p, l) \in PageOf(k) /\ Relinked(p, l).link = l
         /\ Relinked(p, l).generation = p.generation
         /\ Relinked(p, l).outdated = p.outdated
         /\ Relinked(p, l).beforeReset = p.beforeReset
BY DEF PageOf, Relinked

LEMMA PageOverReset ==
  ASSUME NEW n \in Nat, NEW p \in PageOf(n)
  PROVE  /\ OverReset(p) \in PageOf(n + 1)
         /\ OverReset(p).link = p.link
         /\ OverReset(p).generation = p.generation
         /\ OverReset(p).outdated = p.outdated
         /\ OverReset(p).beforeReset = TRUE
<1>1. ASSUME NEW b \in BOOLEAN
      PROVE  /\ [p EXCEPT !.beforeReset = b] \in PageOf(n)
             /\ [p EXCEPT !.beforeReset = b].link = p.link
             /\ [p EXCEPT !.beforeReset = b].generation = p.generation
             /\ [p EXCEPT !.beforeReset = b].outdated = p.outdated
             /\ [p EXCEPT !.beforeReset = b].beforeReset = b
  BY DEF PageOf
<1>2. TRUE \in BOOLEAN  OBVIOUS
<1>3. ASSUME NEW q \in PageOf(n)  PROVE q \in PageOf(n + 1)
  BY DEF PageOf
<1>4. OverReset(p) \in PageOf(n)  BY <1>1, <1>2, Zenon DEF OverReset
<1>5. OverReset(p) \in PageOf(n + 1)  BY <1>3, <1>4, Zenon
<1> QED  BY <1>1, <1>2, <1>5, Zenon DEF OverReset

LEMMA PageFrozen ==
  ASSUME NEW n \in Nat, NEW p \in PageOf(n)
  PROVE  /\ Frozen(p) \in PageOf(n)
         /\ Frozen(p).link = 0
         /\ Frozen(p).beforeReset = p.beforeReset
<1>1. ASSUME NEW b \in BOOLEAN
      PROVE  /\ [p EXCEPT !.outdated = b] \in PageOf(n)
             /\ [p EXCEPT !.outdated = b].beforeReset = p.beforeReset
  BY DEF PageOf
<1>2. 0 \in 0..n /\ TRUE \in BOOLEAN  OBVIOUS
<1> DEFINE q == [p EXCEPT !.outdated = TRUE]
<1>3. Frozen(p) = Relinked(q, 0)  BY DEF Frozen, Relinked
<1>4. q \in PageOf(n) /\ q.beforeReset = p.beforeReset  BY <1>1, <1>2, Zenon
<1> HIDE DEF q
<1>5. Relinked(q, 0) \in PageOf(n) /\ Relinked(q, 0).link = 0
      /\ Relinked(q, 0).beforeReset = q.beforeReset
  BY <1>2, <1>4, PageRelinked
<1> QED  BY <1>3, <1>4, <1>5

LEMMA EmptyDeclarationTyped ==
  EmptyDeclaration \in [fields : Shape, rules : Rules] /\ EmptyDeclaration.fields = NoFields
<1>1. NoFields \in [{} -> [kind : Kind, required : BOOLEAN]]  BY DEF NoFields
<1>2. NoFields \in Shape  BY <1>1 DEF Shape
<1> QED  BY <1>2, GenerationsAssumption DEF EmptyDeclaration

----------------------------------------------------------------------------
\* The inductive invariant

Declared == Declarations \cup {EmptyDeclaration}

\* The present server is the last; there is one more than the resets since the start of
\* the process, at most.
Typing ==
  /\ GenTypeOK
  /\ used \in [schemas : Nat, resets : 0..MaxResets, restarts : Nat]
  /\ Len(servers) \in 1..(used.resets + 1)

\* Pages of the present storage never meet a hello that leaves their generation out.
PagesAccepted ==
  /\ Server.declaration.fields \in Server.accepted
  /\ NoFields \in Server.accepted
  /\ \A c \in Client :
       \/ client[c].beforeReset
       \/ /\ ~ client[c].outdated
          /\ client[c].generation \in Server.accepted
          /\ \A i \in 1..Len(inbox[c]) : client[c].generation \in inbox[c][i]

GenInv == Typing /\ RebootChangesNothing /\ PagesAccepted /\ RowsFit /\ RowsComplete

LEMMA ServerTyped ==
  Typing => /\ Current \in 1..Len(servers)
            /\ Server \in [declaration : Declared, accepted : SUBSET Shape]
            /\ Server.declaration \in [fields : Shape, rules : Rules]
            /\ Server.declaration.fields \in Shape
<1> SUFFICES ASSUME Typing  PROVE Current \in 1..Len(servers)
            /\ Server \in [declaration : Declared, accepted : SUBSET Shape]
            /\ Server.declaration \in [fields : Shape, rules : Rules]
            /\ Server.declaration.fields \in Shape
  OBVIOUS
<1>1. servers \in Seq([declaration : Declared, accepted : SUBSET Shape])
  BY DEF Typing, GenTypeOK, Declared
<1>2. Current \in 1..Len(servers)  BY <1>1 DEF Typing, Current
<1>3. Server \in [declaration : Declared, accepted : SUBSET Shape]
  <2> DEFINE S == [declaration : Declared, accepted : SUBSET Shape]
  <2>1. servers \in Seq(S)  BY <1>1
  <2> HIDE DEF S
  <2>2. servers[Current] \in S  BY <2>1, <1>2
  <2> QED  BY <2>2 DEF Server, S
<1> QED  BY <1>2, <1>3, EmptyDeclarationTyped, GenerationsAssumption DEF Declared

----------------------------------------------------------------------------
\* Typing

LEMMA InitTyping == Init => Typing
<1> SUFFICES ASSUME Init  PROVE Typing
  OBVIOUS
<1>1. EmptyDeclaration \in Declared /\ NoFields \in Shape
  BY EmptyDeclarationTyped DEF Declared
<1>2. Booted({}) \in [declaration : Declared, accepted : SUBSET Shape]
  BY <1>1 DEF Booted, GenerationsOf
<1>3. servers \in Seq([declaration : Declared, accepted : SUBSET Shape]) /\ Len(servers) = 1
  BY <1>2 DEF Init
<1>4. used \in [schemas : Nat, resets : 0..MaxResets, restarts : Nat] /\ used.resets = 0
  BY GenerationsAssumption DEF Init
<1>5. client \in [Client -> [generation : Shape, link : 0..Len(servers),
                            outdated : BOOLEAN, beforeReset : BOOLEAN]]
  BY <1>1, <1>3 DEF Init, Page
<1>6. \A c \in Client : client[c].outdated => client[c].link = 0
  BY DEF Init, Page
<1>7. inbox \in [Client -> Seq(SUBSET Shape)]  BY DEF Init
<1>8. triples \subseteq Triple /\ request \subseteq Request /\ revived \subseteq Field
      /\ overtaken \in BOOLEAN
      /\ table \subseteq [declaration : Declarations, at : 1..used.schemas]
  BY DEF Init
<1> QED  BY <1>3, <1>4, <1>5, <1>6, <1>7, <1>8 DEF Typing, GenTypeOK, Declared

\* The rows of the schema table are older than the next set_schema.
LEMMA RowsAreOlder ==
  Typing => /\ used.schemas \in Nat
            /\ \A row \in table : row.at \in Nat /\ row.at < used.schemas + 1
BY DEF Typing, GenTypeOK

LEMMA SetSchemaTyping ==
  ASSUME Typing, NEW d \in Declarations, SetSchema(d)  PROVE Typing'
<1> DEFINE accepted == Server.accepted \cup {d.fields}
<1>1. d \in Declared /\ d.fields \in Shape  BY GenerationsAssumption DEF Declared
<1>2. accepted \in SUBSET Shape  BY ServerTyped, <1>1
<1>3. /\ servers' \in Seq([declaration : Declared, accepted : SUBSET Shape])
      /\ Len(servers') = Len(servers)
  <2> DEFINE S == [declaration : Declared, accepted : SUBSET Shape]
             new == [declaration |-> d, accepted |-> accepted]
  <2>1. new \in S  BY <1>1, <1>2
  <2>2. servers \in Seq(S)  BY DEF Typing, GenTypeOK, Declared
  <2>3. servers' = [servers EXCEPT ![Current] = new]  BY DEF SetSchema, Reload
  <2> HIDE DEF S, new
  <2>4. servers' \in Seq(S) /\ Len(servers') = Len(servers)
    BY <2>1, <2>2, <2>3, ServerTyped, ExceptSeq
  <2> QED  BY <2>4 DEF S
<1>4. used' \in [schemas : Nat, resets : 0..MaxResets, restarts : Nat]
      /\ used'.schemas = used.schemas + 1 /\ used'.resets = used.resets
  BY DEF SetSchema, Typing
<1>5. table' \subseteq [declaration : Declarations, at : 1..used'.schemas]
  <2>1. table' = {row \in table : row.declaration.fields # d.fields} \cup {Row(d, used.schemas + 1)}
    BY <1>4 DEF SetSchema, Inserted
  <2>2. Row(d, used.schemas + 1) \in [declaration : Declarations, at : 1..used'.schemas]
    BY <1>4, RowsAreOlder DEF Row
  <2>3. \A row \in table : row \in [declaration : Declarations, at : 1..used'.schemas]
    BY <1>4, RowsAreOlder DEF Typing, GenTypeOK
  <2> QED  BY <2>1, <2>2, <2>3
<1>6. inbox' \in [Client -> Seq(SUBSET Shape)]
  BY <1>2 DEF SetSchema, Reload, Typing, GenTypeOK
<1>7. revived' \subseteq Field
  <2>1. DOMAIN d.fields \subseteq Field  BY <1>1 DEF Shape
  <2> QED  BY <2>1 DEF SetSchema, Typing, GenTypeOK
<1>8. UNCHANGED <<triples, client, request, overtaken>>  BY DEF SetSchema
<1> QED  BY <1>3, <1>4, <1>5, <1>6, <1>7, <1>8 DEF Typing, GenTypeOK, Declared

\* A process that starts runs what the process before it ran.
LEMMA RestartTyping ==
  ASSUME Typing, RebootChangesNothing, Restart  PROVE Typing'
<1>1. Booted(table) \in [declaration : Declared, accepted : SUBSET Shape]
  <2>1. Booted(table).declaration \in Declared /\ Booted(table).accepted \in SUBSET Shape
    BY ServerTyped DEF RebootChangesNothing
  <2> QED  BY <2>1 DEF Booted
<1>2. servers' \in Seq([declaration : Declared, accepted : SUBSET Shape]) /\ Len(servers') = 1
  BY <1>1 DEF Restart
<1>3. used' \in [schemas : Nat, resets : 0..MaxResets, restarts : Nat]
      /\ used'.schemas = used.schemas /\ used'.resets = used.resets
  BY DEF Restart, Typing
<1>4. /\ client' \in [Client -> [generation : Shape, link : 0..Len(servers'),
                                outdated : BOOLEAN, beforeReset : BOOLEAN]]
      /\ \A c \in Client : client'[c].link = 0
  <2>1. client \in [Client -> [generation : Shape, link : 0..Len(servers),
                              outdated : BOOLEAN, beforeReset : BOOLEAN]]
    BY DEF Typing, GenTypeOK
  <2>2. client' = [c \in Client |-> [client[c] EXCEPT !.link = 0]]  BY DEF Restart
  <2>3. Len(servers) \in Nat  BY DEF Typing, GenTypeOK
  <2>4. ASSUME NEW c \in Client  PROVE client'[c] \in PageOf(1) /\ client'[c].link = 0
    <3>1. client[c] \in PageOf(Len(servers)) /\ 1 \in Nat /\ 0 \in 0..1  BY <2>1 DEF PageOf
    <3>2. client'[c] = Relinked(client[c], 0)  BY <2>2 DEF Relinked
    <3>3. Relinked(client[c], 0) \in PageOf(1) /\ Relinked(client[c], 0).link = 0
      BY <3>1, <2>3, PageRelinked
    <3> QED  BY <3>2, <3>3
  <2>5. client' \in [Client -> PageOf(1)]  BY <2>2, <2>4
  <2> QED  BY <2>4, <2>5, <1>2 DEF PageOf
<1>5. inbox' \in [Client -> Seq(SUBSET Shape)] /\ request' \subseteq Request
  BY DEF Restart
<1>6. UNCHANGED <<triples, table, revived, overtaken>>  BY DEF Restart
<1> QED
  BY <1>2, <1>3, <1>4, <1>5, <1>6 DEF Typing, GenTypeOK, Declared

LEMMA ResetTyping ==
  ASSUME Typing, Reset  PROVE Typing'
<1>1. Booted({}) \in [declaration : Declared, accepted : SUBSET Shape]
  BY EmptyDeclarationTyped DEF Booted, GenerationsOf, Declared
<1>2. /\ servers' \in Seq([declaration : Declared, accepted : SUBSET Shape])
      /\ Len(servers') = Len(servers) + 1
  <2> DEFINE S == [declaration : Declared, accepted : SUBSET Shape]
  <2>1. servers \in Seq(S)  BY DEF Typing, GenTypeOK, Declared
  <2>2. Booted({}) \in S  BY <1>1
  <2>3. servers' = Append(servers, Booted({}))  BY DEF Reset
  <2> HIDE DEF S
  <2>4. servers' \in Seq(S) /\ Len(servers') = Len(servers) + 1
    BY <2>1, <2>2, <2>3, AppendProperties
  <2> QED  BY <2>4 DEF S
<1>3. used' \in [schemas : Nat, resets : 0..MaxResets, restarts : Nat]
      /\ used'.schemas = used.schemas /\ used'.resets = used.resets + 1
  BY GenerationsAssumption DEF Reset, Typing
<1>4. Len(servers) \in Nat /\ Len(servers) \in 1..(used.resets + 1) /\ used.resets \in Nat
  BY DEF Typing, GenTypeOK
<1>5. /\ client' \in [Client -> [generation : Shape, link : 0..Len(servers'),
                                outdated : BOOLEAN, beforeReset : BOOLEAN]]
      /\ \A c \in Client : client'[c].outdated = client[c].outdated
                           /\ client'[c].link = client[c].link
  <2>1. client \in [Client -> [generation : Shape, link : 0..Len(servers),
                              outdated : BOOLEAN, beforeReset : BOOLEAN]]
    BY DEF Typing, GenTypeOK
  <2>2. client' = [c \in Client |-> [client[c] EXCEPT !.beforeReset = TRUE]]  BY DEF Reset
  <2>3. ASSUME NEW c \in Client
        PROVE  /\ client'[c] \in PageOf(Len(servers) + 1)
               /\ client'[c].outdated = client[c].outdated /\ client'[c].link = client[c].link
    <3>1. client[c] \in PageOf(Len(servers)) /\ TRUE \in BOOLEAN  BY <2>1 DEF PageOf
    <3>2. client'[c] = OverReset(client[c])  BY <2>2 DEF OverReset
    <3> QED  BY <3>1, <3>2, <1>4, PageOverReset, Zenon
  <2>4. client' \in [Client -> PageOf(Len(servers) + 1)]  BY <2>2, <2>3
  <2> QED  BY <2>3, <2>4, <1>2 DEF PageOf
<1>6. /\ triples' = {} /\ table' = {} /\ revived' = {} /\ overtaken' = FALSE
      /\ UNCHANGED <<inbox, request>>
  BY DEF Reset
<1>7. Len(servers') \in 1..(used'.resets + 1)  BY <1>2, <1>3, <1>4
<1> QED
  BY <1>2, <1>3, <1>5, <1>6, <1>7 DEF Typing, GenTypeOK, Declared

LEMMA WriteTyping ==
  ASSUME Typing, NEW c \in Client, NEW s \in Subject,
         Delete(c, s) \/ \E change \in Change : Write(c, s, change)
  PROVE  Typing'
<1>1. Current \in 1..(MaxResets + 1)
  <2>1. Current \in 1..Len(servers)  BY ServerTyped
  <2>2. Len(servers) \in Nat /\ used.resets \in 0..MaxResets /\ Len(servers) <= used.resets + 1
    BY DEF Typing, GenTypeOK
  <2> QED  BY <2>1, <2>2, GenerationsAssumption
<1>2. client[c].generation \in Shape  BY DEF Typing, GenTypeOK
<1>3. request' \subseteq Request
  <2>1. CASE Delete(c, s)  BY <2>1, <1>1, <1>2 DEF Delete, Request
  <2>2. CASE \E change \in Change : Write(c, s, change)
    BY <2>2, <1>1, <1>2 DEF Write, Request
  <2> QED  BY <2>1, <2>2
<1>4. UNCHANGED <<triples, table, servers, client, inbox, revived, overtaken, used>>
  BY DEF Delete, Write
<1> QED  BY <1>3, <1>4 DEF Typing, GenTypeOK

\* What a transaction writes has the kind that it gives to the field.
LEMMA AfterTyped ==
  ASSUME triples \subseteq Triple, NEW r \in Request
  PROVE  After(r) \subseteq Triple
<1>1. CASE r.kind = "delete"  BY <1>1 DEF After
<1>2. CASE r.kind = "change"
  <2>1. r \in [kind : {"change"}, subject : Subject, change : Change, by : Shape,
               at : 1..(MaxResets + 1)]
    BY <1>2 DEF Request
  <2>2. r.subject \in Subject /\ r.change \in Change  BY <2>1
  <2>3. PICK F \in SUBSET Field : r.change \in [F -> [op : {"set", "remove"}, kind : Kind]]
    BY <2>2 DEF Change
  <2>4. ASSUME NEW f \in DOMAIN r.change
        PROVE  [subject |-> r.subject, field |-> f, kind |-> r.change[f].kind] \in Triple
    BY <2>2, <2>3 DEF Triple
  <2> QED  BY <1>2, <2>4 DEF After
<1> QED  BY <1>1, <1>2 DEF Request

LEMMA ServeTyping ==
  ASSUME Typing, NEW r \in request, Serve(r)  PROVE Typing'
<1>1. r \in Request  BY DEF Typing, GenTypeOK
<1>2. triples' \subseteq Triple
  BY <1>1, AfterTyped DEF Serve, Typing, GenTypeOK
<1>3. overtaken' \in BOOLEAN
  <2>1. overtaken \in BOOLEAN  BY DEF Typing, GenTypeOK
  <2>2. overtaken' = overtaken \/ overtaken' = (overtaken \/ r.at # Current)  BY DEF Serve
  <2> QED  BY <2>1, <2>2, Zenon
<1>4. request' \subseteq Request  BY DEF Serve, Typing, GenTypeOK
<1>5. UNCHANGED <<table, servers, client, inbox, revived, used>>  BY DEF Serve
<1> QED  BY <1>2, <1>3, <1>4, <1>5 DEF Typing, GenTypeOK

\* What a page does changes its own record and inbox alone.
PageStep(c) == LoadPage(c) \/ Connect(c) \/ Drop(c) \/ ReceiveHello(c) \/ Refused(c)

\* Page c becomes p, with the hellos m to read.
PageTo(c, p, m) ==
  /\ client' = [client EXCEPT ![c] = p]
  /\ inbox' = [inbox EXCEPT ![c] = m]
  /\ p.outdated => p.link = 0
  /\ \/ /\ p.generation \in {Server.declaration.fields, NoFields}
        /\ p.beforeReset = FALSE /\ p.outdated = FALSE /\ m = <<>>
     \/ /\ p.generation = client[c].generation
        /\ p.beforeReset = client[c].beforeReset
        /\ p.outdated = client[c].outdated
        /\ \/ m = <<>>
           \/ m = <<Server.accepted>>
           \/ inbox[c] # <<>> /\ m = Tail(inbox[c])
     \/ /\ p.beforeReset = client[c].beforeReset /\ m = <<>>
        /\ \/ client[c].generation \notin Server.accepted
           \/ inbox[c] # <<>> /\ client[c].generation \notin Head(inbox[c])

LEMMA PageStepIsLocal ==
  ASSUME Typing, NEW c \in Client, PageStep(c)
  PROVE  /\ UNCHANGED <<triples, table, servers, request, revived, overtaken, used>>
         /\ \E p \in PageOf(Len(servers)), m \in Seq(SUBSET Shape) : PageTo(c, p, m)
<1> DEFINE n == Len(servers)
<1>1. /\ n \in Nat
      /\ client \in [Client -> PageOf(n)]
      /\ client[c] \in PageOf(n)
      /\ client[c].outdated => client[c].link = 0
      /\ inbox \in [Client -> Seq(SUBSET Shape)]
  BY DEF Typing, GenTypeOK, PageOf
<1>0. <<>> \in Seq(SUBSET Shape)  OBVIOUS
<1>2. UNCHANGED <<triples, table, servers, request, revived, overtaken, used>>
  BY DEF PageStep, LoadPage, Connect, Drop, ReceiveHello, Refused
<1>3. ASSUME Outdate(c),
             \/ client[c].generation \notin Server.accepted
             \/ inbox[c] # <<>> /\ client[c].generation \notin Head(inbox[c])
      PROVE  \E p \in PageOf(n), m \in Seq(SUBSET Shape) : PageTo(c, p, m)
  <2> DEFINE p == Frozen(client[c])
  <2>1. p \in PageOf(n) /\ p.link = 0 /\ p.beforeReset = client[c].beforeReset
    BY <1>1, PageFrozen
  <2>2. [[client EXCEPT ![c].outdated = TRUE] EXCEPT ![c].link = 0] = [client EXCEPT ![c] = p]
    BY <1>1 DEF Frozen
  <2>3. PageTo(c, p, <<>>)  BY <1>3, <2>1, <2>2 DEF Outdate, PageTo
  <2> QED  BY <1>0, <2>1, <2>3, Zenon
<1>4. CASE LoadPage(c)
  <2>1. PICK generation \in {Server.declaration.fields, NoFields} :
          client' = [client EXCEPT ![c] = Page(generation)]
    BY <1>4 DEF LoadPage
  <2>2. Page(generation) \in PageOf(n)
    BY <1>1, ServerTyped, EmptyDeclarationTyped DEF Page, PageOf, EmptyDeclaration
  <2>3. PageTo(c, Page(generation), <<>>)  BY <1>4, <2>1 DEF LoadPage, Page, PageTo
  <2> QED  BY <1>0, <1>2, <2>2, <2>3, Zenon
<1>5. CASE Connect(c)
  <2> DEFINE p == Relinked(client[c], Current)
  <2>1. Current \in 1..n /\ Server.accepted \in SUBSET Shape  BY ServerTyped
  <2>2. p \in PageOf(n) /\ p.generation = client[c].generation
        /\ p.beforeReset = client[c].beforeReset /\ p.outdated = client[c].outdated
    BY <1>1, <2>1, PageRelinked
  <2>3. p.outdated = FALSE  BY <1>1, <1>5, <2>2 DEF Connect, PageOf
  <2>4. client' = [client EXCEPT ![c] = p]  BY <1>5 DEF Connect, Relinked
  <2>5. PageTo(c, p, <<Server.accepted>>)  BY <1>5, <2>2, <2>3, <2>4 DEF Connect, PageTo
  <2>6. <<Server.accepted>> \in Seq(SUBSET Shape)  BY <2>1
  <2> QED  BY <1>2, <2>2, <2>5, <2>6, Zenon
<1>6. CASE Drop(c)
  <2> DEFINE p == Relinked(client[c], 0)
  <2>0. 0 \in 0..n  BY <1>1
  <2>1. p \in PageOf(n) /\ p.generation = client[c].generation /\ p.link = 0
        /\ p.beforeReset = client[c].beforeReset /\ p.outdated = client[c].outdated
    BY <1>1, <2>0, PageRelinked, Zenon
  <2>2. client' = [client EXCEPT ![c] = p]  BY <1>6 DEF Drop, Relinked
  <2>3. PageTo(c, p, <<>>)  BY <1>6, <2>1, <2>2 DEF Drop, PageTo
  <2> QED  BY <1>0, <1>2, <2>1, <2>3, Zenon
<1>7. CASE ReceiveHello(c)
  <2>1. CASE client[c].generation \in Head(inbox[c])
    <3>1. Tail(inbox[c]) \in Seq(SUBSET Shape)
      BY <1>1, <1>7, HeadTailProperties DEF ReceiveHello
    <3>2. client' = [client EXCEPT ![c] = client[c]]
      BY <1>1, <1>7, <2>1 DEF ReceiveHello
    <3>3. inbox' = [inbox EXCEPT ![c] = Tail(inbox[c])] /\ inbox[c] # <<>>
      BY <1>7, <2>1 DEF ReceiveHello
    <3>4. PageTo(c, client[c], Tail(inbox[c]))  BY <1>1, <3>2, <3>3 DEF PageTo
    <3> QED  BY <1>1, <1>2, <3>1, <3>4
  <2>2. CASE client[c].generation \notin Head(inbox[c])
    BY <1>2, <1>3, <1>7, <2>2 DEF ReceiveHello
  <2> QED  BY <2>1, <2>2
<1>8. CASE Refused(c)  BY <1>2, <1>3, <1>8 DEF Refused
<1> QED  BY <1>4, <1>5, <1>6, <1>7, <1>8 DEF PageStep

LEMMA PageStepTyping ==
  ASSUME Typing, NEW c \in Client, PageStep(c)  PROVE Typing'
<1>1. UNCHANGED <<triples, table, servers, request, revived, overtaken, used>>
  BY PageStepIsLocal
<1>2. PICK p \in PageOf(Len(servers)), m \in Seq(SUBSET Shape) :
        /\ client' = [client EXCEPT ![c] = p]
        /\ inbox' = [inbox EXCEPT ![c] = m]
        /\ p.outdated => p.link = 0
  BY PageStepIsLocal DEF PageTo
<1>3. client' \in [Client -> PageOf(Len(servers))] /\ inbox' \in [Client -> Seq(SUBSET Shape)]
  BY <1>2 DEF Typing, GenTypeOK, PageOf
<1>4. \A d \in Client : client'[d].outdated => client'[d].link = 0
  BY <1>2 DEF Typing, GenTypeOK
<1> QED  BY <1>1, <1>3, <1>4 DEF Typing, GenTypeOK, PageOf

----------------------------------------------------------------------------
\* The server of the cell

\* A declaration is adopted in place, with one generation more.
LEMMA ServerAfterSetSchema ==
  ASSUME Typing, NEW d \in Declarations, SetSchema(d)
  PROVE  /\ Server'.declaration = d
         /\ Server'.accepted = Server.accepted \cup {d.fields}
<1> DEFINE S == [declaration : Declared, accepted : SUBSET Shape]
           new == [declaration |-> d, accepted |-> Server.accepted \cup {d.fields}]
<1>1. servers \in Seq(S) /\ Current \in 1..Len(servers)
  BY ServerTyped DEF Typing, GenTypeOK, Declared
<1>2. servers' = [servers EXCEPT ![Current] = new]  BY DEF SetSchema, Reload
<1>3. new \in S
  <2>1. d \in Declared /\ d.fields \in Shape  BY GenerationsAssumption DEF Declared
  <2> QED  BY <2>1, ServerTyped
<1> HIDE DEF S, new
<1>4. Len(servers') = Len(servers) /\ servers'[Current] = new
  BY <1>1, <1>2, <1>3, ExceptSeq
<1>5. Server' = new  BY <1>4 DEF Server, Current
<1> QED  BY <1>5 DEF new

\* A new process runs what the storage holds, which is what ran before.
LEMMA ServerAfterRestart ==
  ASSUME RebootChangesNothing, Restart
  PROVE  /\ Server' = Booted(table)
         /\ Server'.declaration = Server.declaration
         /\ Server'.accepted = Server.accepted
<1>1. servers' = <<Booted(table)>>  BY DEF Restart
<1>2. Server' = Booted(table)  BY <1>1 DEF Server, Current
<1> QED  BY <1>2 DEF RebootChangesNothing

LEMMA ServerAfterReset ==
  ASSUME Typing, Reset
  PROVE  /\ Server' = Booted({})
         /\ Server'.declaration = EmptyDeclaration
         /\ Server'.accepted = {NoFields}
<1> DEFINE S == [declaration : Declared, accepted : SUBSET Shape]
<1>1. servers \in Seq(S)  BY DEF Typing, GenTypeOK, Declared
<1>2. Booted({}) \in S
  BY EmptyDeclarationTyped DEF Booted, GenerationsOf, Declared
<1>3. servers' = Append(servers, Booted({}))  BY DEF Reset
<1> HIDE DEF S
<1>4. Len(servers') = Len(servers) + 1 /\ servers'[Len(servers) + 1] = Booted({})
  BY <1>1, <1>2, <1>3, AppendProperties
<1>5. Server' = Booted({})  BY <1>4 DEF Server, Current
<1> QED  BY <1>5 DEF Booted, GenerationsOf

\* The steps that leave the cell's declaration and its table alone.
LEMMA ServerElsewhere ==
  ASSUME UNCHANGED servers  PROVE Server' = Server /\ Current' = Current
BY DEF Server, Current

LEMMA RebootPreserved ==
  ASSUME Typing, RebootChangesNothing, Next  PROVE RebootChangesNothing'
<1>1. ASSUME NEW d \in Declarations, SetSchema(d)  PROVE RebootChangesNothing'
  <2>1. table' = Inserted(table, d, used.schemas + 1)
    BY <1>1, RowsAreOlder DEF SetSchema, Typing
  <2>2. used.schemas + 1 \in Nat
        /\ \A row \in table : row.at \in Nat /\ row.at < used.schemas + 1
    BY RowsAreOlder
  <2>3. /\ Booted(table').declaration = d
        /\ Booted(table').accepted = Booted(table).accepted \cup {d.fields}
    BY <2>1, <2>2, BootedIsInserted
  <2> QED  BY <1>1, <2>3, ServerAfterSetSchema DEF RebootChangesNothing
<1>2. CASE Restart
  <2>1. table' = table  BY <1>2 DEF Restart
  <2> QED  BY <1>2, <2>1, ServerAfterRestart DEF RebootChangesNothing
<1>3. CASE Reset
  <2>1. table' = {}  BY <1>3 DEF Reset
  <2> QED  BY <1>3, <2>1, ServerAfterReset DEF RebootChangesNothing
<1>4. CASE UNCHANGED <<table, servers>>
  BY <1>4, ServerElsewhere DEF RebootChangesNothing
<1>5. ASSUME NEW c \in Client, NEW s \in Subject,
             Delete(c, s) \/ \E change \in Change : Write(c, s, change)
      PROVE  UNCHANGED <<table, servers>>
  BY <1>5 DEF Delete, Write
<1>6. ASSUME NEW r \in request, Serve(r)  PROVE UNCHANGED <<table, servers>>
  BY <1>6 DEF Serve
<1>7. ASSUME NEW c \in Client, PageStep(c)  PROVE UNCHANGED <<table, servers>>
  BY <1>7, PageStepIsLocal
<1> QED  BY <1>1, <1>2, <1>3, <1>4, <1>5, <1>6, <1>7 DEF Next, PageStep

----------------------------------------------------------------------------
\* Pages

LEMMA PagesPreserved ==
  ASSUME Typing, RebootChangesNothing, PagesAccepted, Next  PROVE PagesAccepted'
<1> USE DEF PagesAccepted
<1>0. inbox \in [Client -> Seq(SUBSET Shape)]  BY DEF Typing, GenTypeOK
<1>1. ASSUME NEW d \in Declarations, SetSchema(d)  PROVE PagesAccepted'
  <2>1. Server'.declaration = d /\ Server'.accepted = Server.accepted \cup {d.fields}
    BY <1>1, ServerAfterSetSchema
  <2>2. ASSUME NEW c \in Client, ~ client[c].beforeReset
        PROVE  \A i \in 1..Len(inbox'[c]) : client[c].generation \in inbox'[c][i]
    <3> DEFINE accepted == Server.accepted \cup {d.fields}
    <3>1. inbox'[c] = inbox[c] \/ inbox'[c] = Append(inbox[c], accepted)
      BY <1>1 DEF SetSchema, Reload
    <3>2. client[c].generation \in accepted
          /\ \A i \in 1..Len(inbox[c]) : client[c].generation \in inbox[c][i]
      BY <2>2
    <3>3. inbox[c] \in Seq(SUBSET Shape) /\ accepted \in SUBSET Shape
      <4>1. d.fields \in Shape  BY GenerationsAssumption
      <4> QED  BY <1>0, <4>1, ServerTyped
    <3> HIDE DEF accepted
    <3> QED  BY <3>1, <3>2, <3>3, AppendProperties
  <2>3. client' = client  BY <1>1 DEF SetSchema
  <2> QED  BY <2>1, <2>2, <2>3
<1>2. CASE Restart
  <2>1. inbox' = [c \in Client |-> <<>>]
        /\ client' = [c \in Client |-> [client[c] EXCEPT !.link = 0]]
    BY <1>2 DEF Restart
  <2>2. ASSUME NEW c \in Client
        PROVE  /\ client'[c].generation = client[c].generation
               /\ client'[c].outdated = client[c].outdated
               /\ client'[c].beforeReset = client[c].beforeReset
               /\ inbox'[c] = <<>>
    <3>1. client[c] \in PageOf(Len(servers)) /\ Len(servers) \in Nat
      BY DEF Typing, GenTypeOK, PageOf
    <3>2. client'[c] = Relinked(client[c], 0)  BY <2>1 DEF Relinked
    <3>3. 0 \in Nat /\ 0 \in 0..0  OBVIOUS
    <3> QED  BY <2>1, <3>1, <3>2, <3>3, PageRelinked
  <2> QED  BY <1>2, <2>2, ServerAfterRestart
<1>3. CASE Reset
  <2>1. ASSUME NEW c \in Client  PROVE client'[c].beforeReset
    <3>1. client[c] \in PageOf(Len(servers)) /\ Len(servers) \in Nat
      BY DEF Typing, GenTypeOK, PageOf
    <3>2. client'[c] = OverReset(client[c])  BY <1>3 DEF Reset, OverReset
    <3> QED  BY <3>1, <3>2, PageOverReset
  <2> QED  BY <1>3, <2>1, ServerAfterReset, EmptyDeclarationTyped
<1>4. CASE UNCHANGED <<servers, client, inbox>>
  BY <1>4, ServerElsewhere
<1>5. ASSUME NEW c \in Client, NEW s \in Subject,
             Delete(c, s) \/ \E change \in Change : Write(c, s, change)
      PROVE  UNCHANGED <<servers, client, inbox>>
  BY <1>5 DEF Delete, Write
<1>6. ASSUME NEW r \in request, Serve(r)  PROVE UNCHANGED <<servers, client, inbox>>
  BY <1>6 DEF Serve
<1>7. ASSUME NEW c \in Client, PageStep(c)  PROVE PagesAccepted'
  <2>1. servers' = servers  BY <1>7, PageStepIsLocal
  <2>2. PICK p \in PageOf(Len(servers)), m \in Seq(SUBSET Shape) : PageTo(c, p, m)
    BY <1>7, PageStepIsLocal
  <2>3. client' = [client EXCEPT ![c] = p] /\ inbox' = [inbox EXCEPT ![c] = m]
    BY <2>2 DEF PageTo
  <2>4. client'[c] = p /\ inbox'[c] = m
        /\ \A e \in Client \ {c} : client'[e] = client[e] /\ inbox'[e] = inbox[e]
    BY <2>3, <1>0 DEF Typing, GenTypeOK
  <2>5. \/ p.beforeReset
        \/ /\ ~ p.outdated
           /\ p.generation \in Server.accepted
           /\ \A i \in 1..Len(m) : p.generation \in m[i]
    <3>0. inbox[c] # <<>> => /\ Head(inbox[c]) = inbox[c][1] /\ 1 \in 1..Len(inbox[c])
                             /\ Len(Tail(inbox[c])) = Len(inbox[c]) - 1
                             /\ \A i \in 1..Len(Tail(inbox[c])) : Tail(inbox[c])[i] = inbox[c][i + 1]
      BY <1>0, HeadTailProperties
    <3>1. CASE /\ p.generation \in {Server.declaration.fields, NoFields}
               /\ p.beforeReset = FALSE /\ p.outdated = FALSE /\ m = <<>>
      BY <3>1
    <3>2. CASE /\ p.generation = client[c].generation
               /\ p.beforeReset = client[c].beforeReset
               /\ p.outdated = client[c].outdated
               /\ \/ m = <<>>
                  \/ m = <<Server.accepted>>
                  \/ inbox[c] # <<>> /\ m = Tail(inbox[c])
      <4> SUFFICES ASSUME ~ p.beforeReset
                   PROVE  \A i \in 1..Len(m) : p.generation \in m[i]
        BY <3>2
      <4>1. CASE m = <<>>  BY <4>1
      <4>2. CASE m = <<Server.accepted>>  BY <3>2, <4>2
      <4>3. CASE inbox[c] # <<>> /\ m = Tail(inbox[c])
        <5>1. \A i \in 1..Len(m) : i + 1 \in 1..Len(inbox[c]) /\ m[i] = inbox[c][i + 1]
          BY <1>0, <3>0, <4>3
        <5> QED  BY <3>2, <5>1
      <4> QED  BY <3>2, <4>1, <4>2, <4>3
    <3>3. CASE /\ p.beforeReset = client[c].beforeReset /\ m = <<>>
               /\ \/ client[c].generation \notin Server.accepted
                  \/ inbox[c] # <<>> /\ client[c].generation \notin Head(inbox[c])
      BY <3>0, <3>3
    <3> QED  BY <2>2, <3>1, <3>2, <3>3 DEF PageTo
  <2> QED  BY <2>1, <2>4, <2>5, ServerElsewhere
<1> QED  BY <1>1, <1>2, <1>3, <1>4, <1>5, <1>6, <1>7 DEF Next, PageStep

----------------------------------------------------------------------------
\* Rows

\* A transaction gives its subject the kinds it was compiled with and leaves the
\* values of the other subjects and fields alone.
LEMMA AfterFits ==
  ASSUME NEW r \in Request, NEW shape, Compiles(r, shape), NEW t \in After(r)
  PROVE  \/ t \in triples
         \/ t.field \in DOMAIN shape /\ t.kind = shape[t.field].kind
<1>1. CASE r.kind = "delete"  BY <1>1 DEF After
<1>2. CASE r.kind = "change"
  <2> SUFFICES ASSUME t \notin triples
               PROVE  t.field \in DOMAIN shape /\ t.kind = shape[t.field].kind
    OBVIOUS
  <2>1. PICK f \in DOMAIN r.change :
          t = [subject |-> r.subject, field |-> f, kind |-> r.change[f].kind]
    BY <1>2 DEF After
  <2>2. f \in DOMAIN shape /\ r.change[f].kind = shape[f].kind
    BY <1>2 DEF Compiles
  <2> QED  BY <2>1, <2>2
<1> QED  BY <1>1, <1>2 DEF Request

LEMMA AfterElsewhere ==
  ASSUME NEW r \in Request, NEW s, s # r.subject
  PROVE  TriplesOf(After(r), s) = TriplesOf(triples, s)
<1>1. CASE r.kind = "delete"  BY <1>1 DEF After, TriplesOf
<1>2. CASE r.kind = "change"
  <2> DEFINE gone == {t \in triples : (t.subject = r.subject /\ t.field \in DOMAIN r.change)
                        /\ (r.change[t.field].op = "set" \/ r.change[t.field].kind = t.kind)}
             new == {[subject |-> r.subject, field |-> f, kind |-> r.change[f].kind] :
                       f \in {x \in DOMAIN r.change : r.change[x].op = "set"}}
  <2>1. After(r) = (triples \ gone) \cup new  BY <1>2 DEF After
  <2>2. \A t \in gone : t.subject = r.subject  OBVIOUS
  <2>3. \A t \in new : t.subject = r.subject  OBVIOUS
  <2> HIDE DEF gone, new
  <2> QED  BY <2>1, <2>2, <2>3 DEF TriplesOf
<1> QED  BY <1>1, <1>2 DEF Request

LEMMA RowsFitPreserved ==
  ASSUME Typing, RebootChangesNothing, RowsFit, Next  PROVE RowsFit'
<1>1. ASSUME NEW d \in Declarations, SetSchema(d)  PROVE RowsFit'
  <2> DEFINE old == Server.declaration.fields
  <2>1. Server'.declaration.fields = d.fields  BY <1>1, ServerAfterSetSchema
  <2>2. /\ UNCHANGED <<triples, overtaken>>
        /\ revived' = revived \cup ((DOMAIN d.fields \cap Holding) \ DOMAIN old)
        /\ ~ MigrationProblems(old, d.fields)
    BY <1>1 DEF SetSchema
  <2>3. ASSUME ~ overtaken, NEW t \in triples, t.field \in DOMAIN d.fields \ revived'
        PROVE  t.kind = d.fields[t.field].kind
    <3>1. t.field \in Holding  BY DEF Holding
    <3>2. t.field \in DOMAIN old \cap DOMAIN d.fields /\ t.field \notin revived
      BY <2>2, <2>3, <3>1
    <3>3. t.kind = old[t.field].kind  BY <2>3, <3>2 DEF RowsFit
    <3>4. d.fields[t.field].kind = old[t.field].kind
      BY <2>2, <3>2 DEF MigrationProblems
    <3> QED  BY <3>3, <3>4
  <2> QED  BY <2>1, <2>2, <2>3 DEF RowsFit
<1>2. CASE Restart
  <2>1. UNCHANGED <<triples, revived, overtaken>>  BY <1>2 DEF Restart
  <2> QED  BY <1>2, <2>1, ServerAfterRestart DEF RowsFit
<1>3. CASE Reset  BY <1>3 DEF Reset, RowsFit
<1>4. CASE UNCHANGED <<servers, triples, revived, overtaken>>
  BY <1>4, ServerElsewhere DEF RowsFit
<1>5. ASSUME NEW c \in Client, NEW s \in Subject,
             Delete(c, s) \/ \E change \in Change : Write(c, s, change)
      PROVE  UNCHANGED <<servers, triples, revived, overtaken>>
  BY <1>5 DEF Delete, Write
<1>6. ASSUME NEW r \in request, Serve(r)  PROVE RowsFit'
  <2>1. UNCHANGED <<servers, revived>> /\ Server' = Server
    BY <1>6, ServerElsewhere DEF Serve
  <2>2. CASE UNCHANGED <<triples, overtaken>>  BY <2>1, <2>2 DEF RowsFit
  <2>3. CASE /\ Compiles(r, servers[r.at].declaration.fields)
             /\ triples' = After(r)
             /\ overtaken' = (overtaken \/ r.at # Current)
    <3>1. r \in Request  BY DEF Typing, GenTypeOK
    <3>2. CASE overtaken \/ r.at # Current  BY <2>3, <3>2 DEF RowsFit
    <3>3. CASE ~ overtaken /\ r.at = Current
      <4>1. Compiles(r, Server.declaration.fields)  BY <2>3, <3>3 DEF Server
      <4>2. ASSUME NEW t \in After(r), t.field \in DOMAIN Server.declaration.fields \ revived
            PROVE  t.kind = Server.declaration.fields[t.field].kind
        BY <3>1, <3>3, <4>1, <4>2, AfterFits DEF RowsFit
      <4> QED  BY <2>1, <2>3, <4>2 DEF RowsFit
    <3> QED  BY <3>2, <3>3
  <2> QED  BY <1>6, <2>2, <2>3 DEF Serve
<1>7. ASSUME NEW c \in Client, PageStep(c)
      PROVE  UNCHANGED <<servers, triples, revived, overtaken>>
  BY <1>7, PageStepIsLocal
<1> QED  BY <1>1, <1>2, <1>3, <1>4, <1>5, <1>6, <1>7 DEF Next, PageStep

\* What RowsComplete says of one subject, in a store and under a shape.
Whole(S, s, shape) ==
  LET held == {t.field : t \in TriplesOf(S, s)}
  IN  held \cap DOMAIN shape # {} => Required(shape) \subseteq held

LEMMA RowsCompleteIsWhole ==
  RowsComplete <=> ((~ overtaken /\ revived = {}) =>
                      \A s \in Subject : Whole(triples, s, Server.declaration.fields))
BY DEF RowsComplete, Whole

LEMMA RowsCompleteIsWholeNext ==
  RowsComplete' <=> ((~ overtaken' /\ revived' = {}) =>
                      \A s \in Subject : Whole(triples', s, Server'.declaration.fields))
BY DEF RowsComplete, Whole

\* What #checkRequired lets through is whole.
LEMMA CompleteIsWhole ==
  ASSUME NEW S, NEW s, NEW shape, Complete(S, s, shape)  PROVE Whole(S, s, shape)
BY DEF Complete, Whole

\* A declaration that migrationProblems lets through asks nothing new of a whole row,
\* unless it declares a field that holds undeclared values.
LEMMA MigrationKeepsWhole ==
  ASSUME NEW old, NEW new, NEW s, ~ MigrationProblems(old, new),
         (DOMAIN new \cap Holding) \ DOMAIN old = {},
         Whole(triples, s, old)
  PROVE  Whole(triples, s, new)
<1> DEFINE held == {t.field : t \in TriplesOf(triples, s)}
<1> SUFFICES ASSUME held \cap DOMAIN new # {}  PROVE Required(new) \subseteq held
  BY DEF Whole
<1>1. held \subseteq Holding  BY DEF TriplesOf, Holding
<1>2. held \cap DOMAIN old # {}  BY <1>1
<1>3. Required(old) \subseteq held  BY <1>2 DEF Whole
<1>4. DOMAIN old \cap Holding # {}  BY <1>1, <1>2
<1>5. ASSUME NEW f \in Required(new)  PROVE f \in held
  <2>1. f \in DOMAIN new /\ new[f].required  BY DEF Required
  <2>2. f \in DOMAIN old  BY <2>1, <1>4 DEF MigrationProblems, HasRows
  <2>3. old[f].required  BY <2>1, <2>2 DEF MigrationProblems
  <2> QED  BY <2>2, <2>3, <1>3 DEF Required
<1> QED  BY <1>5

LEMMA RowsCompletePreserved ==
  ASSUME Typing, RebootChangesNothing, RowsComplete, Next  PROVE RowsComplete'
<1> SUFFICES ASSUME ~ overtaken', revived' = {}, NEW s \in Subject
             PROVE  Whole(triples', s, Server'.declaration.fields)
  BY RowsCompleteIsWholeNext
<1> DEFINE shape == Server.declaration.fields
<1>0. ~ overtaken /\ revived = {} => Whole(triples, s, shape)  BY RowsCompleteIsWhole
<1>1. ASSUME NEW d \in Declarations, SetSchema(d)
      PROVE  Whole(triples', s, Server'.declaration.fields)
  <2>1. Server'.declaration.fields = d.fields  BY <1>1, ServerAfterSetSchema
  <2>2. /\ UNCHANGED <<triples, overtaken>>
        /\ revived = {} /\ (DOMAIN d.fields \cap Holding) \ DOMAIN shape = {}
        /\ ~ MigrationProblems(shape, d.fields)
    BY <1>1 DEF SetSchema
  <2>3. Whole(triples, s, d.fields)  BY <1>0, <2>2, MigrationKeepsWhole
  <2> QED  BY <2>1, <2>2, <2>3
<1>2. CASE Restart
  <2>1. UNCHANGED <<triples, revived, overtaken>>  BY <1>2 DEF Restart
  <2> QED  BY <1>0, <1>2, <2>1, ServerAfterRestart
<1>3. CASE Reset
  <2>1. triples' = {}  BY <1>3 DEF Reset
  <2> QED  BY <2>1 DEF Whole, TriplesOf
<1>4. CASE UNCHANGED <<servers, triples, revived, overtaken>>
  BY <1>0, <1>4, ServerElsewhere
<1>5. ASSUME NEW c \in Client, NEW x \in Subject,
             Delete(c, x) \/ \E change \in Change : Write(c, x, change)
      PROVE  UNCHANGED <<servers, triples, revived, overtaken>>
  BY <1>5 DEF Delete, Write
<1>6. ASSUME NEW r \in request, Serve(r)
      PROVE  Whole(triples', s, Server'.declaration.fields)
  <2>1. UNCHANGED <<servers, revived>> /\ Server' = Server
    BY <1>6, ServerElsewhere DEF Serve
  <2>2. CASE UNCHANGED <<triples, overtaken>>  BY <1>0, <2>1, <2>2
  <2>3. CASE /\ Complete(After(r), r.subject, servers[r.at].declaration.fields)
             /\ triples' = After(r)
             /\ overtaken' = (overtaken \/ r.at # Current)
    <3>1. r \in Request  BY DEF Typing, GenTypeOK
    <3>2. ~ overtaken /\ r.at = Current  BY <2>3
    <3>3. CASE s = r.subject
      <4>1. Complete(After(r), s, shape)  BY <2>3, <3>2, <3>3 DEF Server
      <4> QED  BY <2>1, <2>3, <4>1, CompleteIsWhole
    <3>4. CASE s # r.subject
      <4>1. TriplesOf(triples', s) = TriplesOf(triples, s)
        BY <2>3, <3>1, <3>4, AfterElsewhere
      <4> QED  BY <1>0, <2>1, <3>2, <4>1 DEF Whole
    <3> QED  BY <3>3, <3>4
  <2> QED  BY <1>6, <2>2, <2>3 DEF Serve
<1>7. ASSUME NEW c \in Client, PageStep(c)
      PROVE  UNCHANGED <<servers, triples, revived, overtaken>>
  BY <1>7, PageStepIsLocal
<1> QED  BY <1>1, <1>2, <1>3, <1>4, <1>5, <1>6, <1>7 DEF Next, PageStep

----------------------------------------------------------------------------
\* The invariant holds

LEMMA GenInvInit == Init => GenInv
<1> SUFFICES ASSUME Init  PROVE GenInv
  OBVIOUS
<1>1. Typing  BY InitTyping
<1>2. /\ Server.declaration = EmptyDeclaration /\ Server.accepted = {NoFields}
      /\ Booted(table).declaration = EmptyDeclaration /\ Booted(table).accepted = {NoFields}
  BY DEF Init, Server, Current, Booted, GenerationsOf
<1>3. RebootChangesNothing  BY <1>2 DEF RebootChangesNothing
<1>4. \A c \in Client : client[c].outdated = FALSE /\ client[c].generation = NoFields
                        /\ inbox[c] = <<>>
  BY DEF Init, Page
<1>5. PagesAccepted  BY <1>2, <1>4, EmptyDeclarationTyped DEF PagesAccepted
<1>6. RowsFit /\ RowsComplete
  BY DEF Init, RowsFit, RowsComplete, TriplesOf
<1> QED  BY <1>1, <1>3, <1>5, <1>6 DEF GenInv

LEMMA GenInvNext == GenInv /\ [Next]_vars => GenInv'
<1> SUFFICES ASSUME GenInv, [Next]_vars  PROVE GenInv'
  OBVIOUS
<1> USE DEF GenInv
<1>1. CASE Next
  <2>1. Typing'
    <3>1. ASSUME NEW c \in Client,
                 LoadPage(c) \/ Connect(c) \/ Drop(c) \/ ReceiveHello(c) \/ Refused(c)
          PROVE  Typing'
      BY <3>1, PageStepTyping DEF PageStep
    <3> QED
      BY <1>1, <3>1, SetSchemaTyping, RestartTyping, ResetTyping, WriteTyping, ServeTyping
      DEF Next
  <2> QED
    BY <1>1, <2>1, RebootPreserved, PagesPreserved, RowsFitPreserved, RowsCompletePreserved
<1>2. CASE UNCHANGED vars
  <2> USE <1>2 DEF vars
  <2>1. Typing'  BY DEF Typing, GenTypeOK
  <2>2. Server' = Server /\ Current' = Current  BY ServerElsewhere
  <2>3. RebootChangesNothing' /\ PagesAccepted'  BY <2>2 DEF RebootChangesNothing, PagesAccepted
  <2>4. RowsFit' /\ RowsComplete'  BY <2>2 DEF RowsFit, RowsComplete
  <2> QED  BY <2>1, <2>3, <2>4
<1> QED  BY <1>1, <1>2

\* Every reachable state is typed: streams hang on servers of the process, requests
\* were given to one, rows of the schema table are in the past.
THEOREM GenerationsTypeCorrect == Spec => []GenTypeOK
<1>1. GenInv => GenTypeOK  BY DEF GenInv, Typing
<1> QED  BY <1>1, GenInvInit, GenInvNext, PTL DEF Spec

\* The cell in memory is at every moment what a boot from its storage would make
\* (#boot and #setSchema keep the same two things in two ways).
THEOREM ARebootNeverChangesAnything == Spec => []RebootChangesNothing
<1>1. GenInv => RebootChangesNothing  BY DEF GenInv
<1> QED  BY <1>1, GenInvInit, GenInvNext, PTL DEF Spec

\* No page of the present storage is ever frozen as outdated, whatever was declared
\* and however often the process restarted.
THEOREM PagesOnlyOutdatedByReset == Spec => []OutdatedOnlyByReset
<1>1. GenInv => OutdatedOnlyByReset  BY DEF GenInv, PagesAccepted, OutdatedOnlyByReset
<1> QED  BY <1>1, GenInvInit, GenInvNext, PTL DEF Spec

\* Stored values have the declared kinds, over any sequence of declarations and of
\* writes by pages of any generation.
THEOREM RowsAlwaysFit == Spec => []RowsFit
<1>1. GenInv => RowsFit  BY DEF GenInv
<1> QED  BY <1>1, GenInvInit, GenInvNext, PTL DEF Spec

\* Rows always have the required fields of the declaration that runs.
THEOREM RowsAlwaysComplete == Spec => []RowsComplete
<1>1. GenInv => RowsComplete  BY DEF GenInv
<1> QED  BY <1>1, GenInvInit, GenInvNext, PTL DEF Spec
=============================================================================
