----------------------------- MODULE Generations -----------------------------
(***************************************************************************)
(* A workspace cell, whose schema is data (worker/src/cell.ts, with        *)
(* platform/src/workspace.ts and TripleServer.reload): declarations of one *)
(* entity replace one another while it has rows, while clients built from  *)
(* earlier ones stay connected, while the object's process restarts and    *)
(* while an operator resets it to nothing.                                 *)
(*                                                                         *)
(* A generation is the shape that a schema hash stands for: a function     *)
(* from the declared fields to their kind and whether they are required.   *)
(* A kind is a type with one value; a cardinality changes like a type.  A  *)
(* declaration adds rules, which the hash does not see.  Date.now() is     *)
(* taken to grow from one set_schema to the next: the count of those is    *)
(* the clock.                                                              *)
(***************************************************************************)
EXTENDS Naturals, Sequences

CONSTANTS
  Field, Kind, Subject, Client,
  Rules, NoRules,
  Declarations,  \* the declarations admins send: a set of [fields, rules]
  MaxSchemas,    \* bound on accepted set_schema calls
  MaxResets,     \* bound on resets
  MaxRestarts    \* bound on restarts of the process

VARIABLES
  triples,   \* the store: [subject, field, kind of the value]
  table,     \* workspace_schema: rows [declaration, at], keyed by the generation
  servers,   \* the TripleServers of this process; requests and streams keep theirs
  client,
  inbox,     \* per client, the hellos on its stream that it has not read
  request,   \* the transactions a handler has begun to read
  revived,   \* history variable: fields declared while they held undeclared values
  overtaken, \* history variable: a server that was no longer the cell's has committed
  used       \* what was used of the three bounds

vars == <<triples, table, servers, client, inbox, request, revived, overtaken, used>>

Shape == UNION {[F -> [kind : Kind, required : BOOLEAN]] : F \in SUBSET Field}

\* EMPTY_DECLARATION, and the fixed schema that the console speaks.
NoFields == [f \in {} |-> 0]
EmptyDeclaration == [fields |-> NoFields, rules |-> NoRules]

ASSUME GenerationsAssumption ==
  /\ Declarations \subseteq [fields : Shape, rules : Rules]
  /\ NoRules \in Rules
  /\ MaxResets \in Nat

Triple == [subject : Subject, field : Field, kind : Kind]

Required(shape) == {f \in DOMAIN shape : shape[f].required}

Holding == {t.field : t \in triples}

----------------------------------------------------------------------------
\* The cell

Current == Len(servers)
Server  == servers[Current]

\* The last row ORDER BY at.
Newest(rows) == CHOOSE row \in rows : \A other \in rows : other.at <= row.at

\* Mutant: only the newest generation.
GenerationsNewest(rows) == IF rows = {} THEN {} ELSE {Newest(rows).declaration.fields}

\* #generations at boot: every generation ever run.
GenerationsOf(rows) == {row.declaration.fields : row \in rows}

\* #boot: run the newest row, accept every row and the fixed schema.
Booted(rows) ==
  [declaration |-> IF rows = {} THEN EmptyDeclaration ELSE Newest(rows).declaration,
   accepted    |-> {NoFields} \cup GenerationsOf(rows)]

\* Mutant: only rows that have the field itself are looked for.
HasRowsOf(previous, f) == f \in Holding

HasRows(previous, f) == DOMAIN previous \cap Holding # {}

\* migrationProblems: what a declaration may not do to the one before.
MigrationProblems(previous, next) ==
  \/ \E f \in DOMAIN next \ DOMAIN previous :
       HasRows(previous, f) /\ next[f].required
  \/ \E f \in DOMAIN next \cap DOMAIN previous :
       \/ next[f].kind # previous[f].kind
       \/ next[f].required /\ ~ previous[f].required

Row(d, now) == [declaration |-> d, at |-> now]

\* Mutant: INSERT OR IGNORE: a generation run before keeps its place.
InsertedIfNew(rows, d, now) ==
  IF d.fields \in {row.declaration.fields : row \in rows} THEN rows
  ELSE rows \cup {Row(d, now)}

\* INSERT OR REPLACE under the generation, at the present time.
Inserted(rows, d, now) ==
  {row \in rows : row.declaration.fields # d.fields} \cup {Row(d, now)}

OnStream(s) == {c \in Client : client[c].link = s}

\* TripleServer.reload with one more generation: a fresh hello on every open stream.
Reload(d) ==
  LET accepted == Server.accepted \cup {d.fields}
  IN  /\ servers' = [servers EXCEPT ![Current] = [declaration |-> d, accepted |-> accepted]]
      /\ inbox' = [c \in Client |-> IF c \in OnStream(Current)
                                    THEN Append(inbox[c], accepted) ELSE inbox[c]]

\* #setSchema
SetSchema(d) ==
  /\ used.schemas < MaxSchemas
  /\ used' = [used EXCEPT !.schemas = @ + 1]
  /\ ~ MigrationProblems(Server.declaration.fields, d.fields)
  /\ table' = Inserted(table, d, used'.schemas)
  /\ Reload(d)
  /\ revived' = revived \cup
       ((DOMAIN d.fields \cap Holding) \ DOMAIN Server.declaration.fields)
  /\ UNCHANGED <<triples, client, request, overtaken>>

\* The object is evicted or dies: #boot runs again from the same storage, whose
\* meta table has the epoch; streams and handlers of the old process are gone.
Restart ==
  /\ used.restarts < MaxRestarts
  /\ used' = [used EXCEPT !.restarts = @ + 1]
  /\ servers' = <<Booted(table)>>
  /\ client' = [c \in Client |-> [client[c] EXCEPT !.link = 0]]
  /\ inbox' = [c \in Client |-> <<>>]
  /\ request' = {}
  /\ UNCHANGED <<triples, table, revived, overtaken>>

\* /ops reset: deleteAll and #boot in the same process. Streams and handlers go on
\* with the server they began with.
Reset ==
  /\ used.resets < MaxResets
  /\ used' = [used EXCEPT !.resets = @ + 1]
  /\ triples' = {}
  /\ table' = {}
  /\ servers' = Append(servers, Booted({}))
  /\ revived' = {}
  /\ overtaken' = FALSE
  /\ client' = [c \in Client |-> [client[c] EXCEPT !.beforeReset = TRUE]]
  /\ UNCHANGED <<inbox, request>>

----------------------------------------------------------------------------
\* Writes of clients

\* What one transaction asks of a subject: field by field a value of the kind the
\* author's own generation declares, or the removal of a value it saw.
Change ==
  UNION {[F -> [op : {"set", "remove"}, kind : Kind]] : F \in (SUBSET Field) \ {{}}}

Request ==
  [kind : {"change"}, subject : Subject, change : Change, by : Shape, at : 1..(MaxResets + 1)]
    \cup [kind : {"delete"}, subject : Subject, by : Shape, at : 1..(MaxResets + 1)]

OwnKinds(shape, change) ==
  /\ DOMAIN change \subseteq DOMAIN shape
  /\ \A f \in DOMAIN change :
       /\ change[f].op = "set" => change[f].kind = shape[f].kind
       /\ change[f].op = "remove" => ~ shape[f].required

\* A request reaches the cell and a handler of its present server begins to read its
\* body (one at a time: a handler that has read it runs to its end).
Write(c, s, change) ==
  /\ ~ client[c].outdated
  /\ request = {}
  /\ OwnKinds(client[c].generation, change)
  /\ request' = {[kind |-> "change", subject |-> s, change |-> change,
                  by |-> client[c].generation, at |-> Current]}
  /\ UNCHANGED <<triples, table, servers, client, inbox, revived, overtaken, used>>

Delete(c, s) ==
  /\ ~ client[c].outdated
  /\ request = {}
  /\ request' = {[kind |-> "delete", subject |-> s,
                  by |-> client[c].generation, at |-> Current]}
  /\ UNCHANGED <<triples, table, servers, client, inbox, revived, overtaken, used>>

TriplesOf(S, s) == {t \in S : t.subject = s}

\* Mutant: values are validated against the author's generation.
CompilesForAuthor(r, shape) ==
  CASE r.kind = "delete" -> DOMAIN shape # {}
    [] r.kind = "change" -> DOMAIN r.change \subseteq DOMAIN r.by

\* compileOperations throws on a field it does not know and a value of another kind.
Compiles(r, shape) ==
  CASE r.kind = "delete" -> DOMAIN shape # {}
    [] r.kind = "change" -> /\ DOMAIN r.change \subseteq DOMAIN shape
                            /\ \A f \in DOMAIN r.change : r.change[f].kind = shape[f].kind

\* A set replaces every value of its field; a delete takes the undeclared ones too.
After(r) ==
  IF r.kind = "delete"
  THEN triples \ TriplesOf(triples, r.subject)
  ELSE LET Hit(t) == t.subject = r.subject /\ t.field \in DOMAIN r.change
           gone == {t \in triples : Hit(t) /\ (r.change[t.field].op = "set"
                                                 \/ r.change[t.field].kind = t.kind)}
           sets == {f \in DOMAIN r.change : r.change[f].op = "set"}
       IN  (triples \ gone) \cup
             {[subject |-> r.subject, field |-> f, kind |-> r.change[f].kind] : f \in sets}

\* #checkRequired, for the one subject.
Complete(S, s, shape) ==
  TriplesOf(S, s) = {} \/ Required(shape) \subseteq {t.field : t \in TriplesOf(S, s)}

\* transact, on the server the handler was given. The policy may refuse as well.
Serve(r) ==
  LET server == servers[r.at]
      shape  == server.declaration.fields
  IN  /\ request' = request \ {r}
      /\ \/ /\ r.by \in server.accepted
            /\ Compiles(r, shape)
            /\ Complete(After(r), r.subject, shape)
            /\ triples' = After(r)
            /\ overtaken' = (overtaken \/ r.at # Current)
         \/ UNCHANGED <<triples, overtaken>>
      /\ UNCHANGED <<table, servers, client, inbox, revived, used>>

----------------------------------------------------------------------------
\* Clients

Page(generation) ==
  [generation |-> generation, link |-> 0, outdated |-> FALSE, beforeReset |-> FALSE]

\* A page is loaded: built from /schema.js, or with the fixed schema alone.
LoadPage(c) ==
  /\ \E generation \in {Server.declaration.fields, NoFields} :
       client' = [client EXCEPT ![c] = Page(generation)]
  /\ inbox' = [inbox EXCEPT ![c] = <<>>]
  /\ UNCHANGED <<triples, table, servers, request, revived, overtaken, used>>

\* subscribe: the hello is always first.
Connect(c) ==
  /\ ~ client[c].outdated
  /\ client[c].link = 0
  /\ client' = [client EXCEPT ![c].link = Current]
  /\ inbox' = [inbox EXCEPT ![c] = <<Server.accepted>>]
  /\ UNCHANGED <<triples, table, servers, request, revived, overtaken, used>>

\* The network drops the stream.
Drop(c) ==
  /\ client[c].link # 0
  /\ client' = [client EXCEPT ![c].link = 0]
  /\ inbox' = [inbox EXCEPT ![c] = <<>>]
  /\ UNCHANGED <<triples, table, servers, request, revived, overtaken, used>>

Outdate(c) ==
  /\ client' = [client EXCEPT ![c].outdated = TRUE, ![c].link = 0]
  /\ inbox' = [inbox EXCEPT ![c] = <<>>]

\* #onStream hello: freeze unless this generation is one the server accepts.
ReceiveHello(c) ==
  /\ inbox[c] # <<>>
  /\ IF client[c].generation \in Head(inbox[c])
     THEN /\ inbox' = [inbox EXCEPT ![c] = Tail(@)]
          /\ UNCHANGED client
     ELSE Outdate(c)
  /\ UNCHANGED <<triples, table, servers, request, revived, overtaken, used>>

\* A query is answered 409. (Other answers change nothing kept here, and a write
\* is answered with a reject by server/fetch.ts.)
Refused(c) ==
  /\ ~ client[c].outdated
  /\ client[c].generation \notin Server.accepted
  /\ Outdate(c)
  /\ UNCHANGED <<triples, table, servers, request, revived, overtaken, used>>

----------------------------------------------------------------------------
Init ==
  /\ triples = {}
  /\ table = {}
  /\ servers = <<Booted({})>>
  /\ client = [c \in Client |-> Page(NoFields)]
  /\ inbox = [c \in Client |-> <<>>]
  /\ request = {}
  /\ revived = {}
  /\ overtaken = FALSE
  /\ used = [schemas |-> 0, resets |-> 0, restarts |-> 0]

Next ==
  \/ \E d \in Declarations : SetSchema(d)
  \/ Restart
  \/ Reset
  \/ \E c \in Client, s \in Subject, change \in Change : Write(c, s, change)
  \/ \E c \in Client, s \in Subject : Delete(c, s)
  \/ \E r \in request : Serve(r)
  \/ \E c \in Client : LoadPage(c) \/ Connect(c) \/ Drop(c) \/ ReceiveHello(c) \/ Refused(c)

Spec == Init /\ [][Next]_vars

----------------------------------------------------------------------------
\* The state is well typed; a stream hangs on a server of this process.
GenTypeOK ==
  /\ triples \subseteq Triple
  /\ table \subseteq [declaration : Declarations, at : 1..used.schemas]
  /\ servers \in Seq([declaration : Declarations \cup {EmptyDeclaration},
                      accepted : SUBSET Shape])
  /\ client \in [Client -> [generation : Shape, link : 0..Len(servers),
                            outdated : BOOLEAN, beforeReset : BOOLEAN]]
  /\ \A c \in Client : client[c].outdated => client[c].link = 0
  /\ inbox \in [Client -> Seq(SUBSET Shape)]
  /\ request \subseteq Request
  /\ revived \subseteq Field
  /\ overtaken \in BOOLEAN

\* Every value of a declared field has the kind declared for it, over any sequence of
\* declarations and of writes by pages of any generation. Two things can break it in
\* the code, and are provisos here: a field dropped and declared again over the values
\* left from before (migrationProblems compares with the last declaration only), and a
\* write that began before a reset and ends after it.
RowsFit ==
  overtaken \/ \A t \in triples :
    t.field \in DOMAIN Server.declaration.fields \ revived =>
      t.kind = Server.declaration.fields[t.field].kind

\* A row, a subject with a value in a declared field, has every required field: what
\* the types of a page claim (#checkRequired at each write, migrationProblems at each
\* declaration), with the same provisos.
RowsComplete ==
  (~ overtaken /\ revived = {}) =>
    LET fields == Server.declaration.fields
    IN  \A s \in Subject :
          LET held == {t.field : t \in TriplesOf(triples, s)}
          IN  held \cap DOMAIN fields # {} => Required(fields) \subseteq held

\* The process holds nothing its storage does not: booted now, the cell would run the
\* declaration, rules included, and accept the generations it runs and accepts.
RebootChangesNothing ==
  /\ Server.declaration = Booted(table).declaration
  /\ Server.accepted = Booted(table).accepted

\* No declaration and no restart freezes a page: only one loaded before a reset ever
\* becomes outdated ("every earlier generation stays accepted").
OutdatedOnlyByReset ==
  \A c \in Client : client[c].outdated => client[c].beforeReset

=============================================================================
