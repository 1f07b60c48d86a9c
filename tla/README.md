# A TLA+ development of triple-sdk

triple-sdk keeps application data as triples `(subject, predicate, object)` on a
server, answers queries with the triples a client needs, pushes every commit to
every connected client filtered by what its user may read, and lets clients write
optimistically and offline. The correctness of the program is not in any single
function: it is in how answers, pushed deltas, acks, caches, reconnects and
permission changes combine. That is what is modelled here.

Source paths below are relative to `src/packages/sdk/src/sdk/` unless they start
with another package.

## 1. The system

| part | source | state it keeps | operations |
|---|---|---|---|
| triple store | `shared/store.ts`, `types.ts` | three indexes over one set of triples | `apply` (returns the *effective* delta), `match`, `withDelta` |
| storage adapters | `shared/storage.ts`, `server/sqlite.ts`, `server/durable.ts` | the store, a log of effective deltas by version, a retention floor | `apply`, `entriesSince`, `compact` |
| transaction | `shared/transaction.ts` | recorded operations (intent), optimistic added and removed | draft set / push / remove / clear / delete; `compileOperations` on the server |
| server | `server/server.ts` | storage, schema, policy, epoch, subscribers | `query`, `transact`, `commit`, `subscribe`, `reload`, presence, `broadcast` |
| policy | `server/policy.ts` | the rules, the map from predicates to the ref paths of rules that read them | read filter, `canSeeSubject`, `checkWrite` |
| client | `client/client.ts` | confirmed cache, cursor, epoch, pending deltas, send chain, outbox, saved copy | `load`, `transact`, stream handling, `watch` / `close`, hydrate / persist |
| live queries, hooks | `client/client.ts`, `client/react.ts` | result, status, window | refresh, refill, close |
| transports | `client/transport.ts`, `server/http.ts`, `server/fetch.ts` | one stream, requests in flight | reconnect for ever, one request per call |
| query engine | `shared/query.ts` | none | payloads, roots, ordered windows, collection of triples |
| schema | `shared/schema.ts`, `shared/value.ts` | none | declarations, hash, value codecs |
| cells, worker | `server/cells.ts`, `packages/worker` | one server per workspace, its schema as data | boot, `setSchema`, reset, auth |
| platform | `packages/platform` | apps, drafts, published versions | publish, invite, delete; migration checks; MCP tools |

How they interact: a client sends *intent* (`transact`); the server compiles it
against its store, checks policy and required fields, computes what each
subscriber may see of the change *before* applying it, applies it (the version is
taken here), compacts the log every `retainLog` versions, pushes, and answers with
the author's own view. The whole handler is synchronous, so on the server
nothing interleaves with it. State reaches a client on channels that do not wait
for each other: the stream, query answers, and acks. The cursor (`#version`) ties
them together, the epoch ties them to one history.

### What is hard here, and what makes each part correct

- *Storage*: the log is dense from the floor to the version; the state is the fold
  of the log; a version is taken only by a change; a process that dies between two
  SQL statements leaves state and log agreeing.
- *Transactions*: in-order compilation preserves meaning, keeps one value per
  single-valued field, never strips a required field, and the optimistic preview
  agrees with the author's view.
- *Sync*: an answer can be older or newer than the stream; a connection may break
  anywhere; the log may have forgotten the cursor; the page may reload from an old
  copy. Content must never be older than the cursor, no version may be skipped, and
  a client that has caught up must agree with the server.
- *Outbox*: an answer may be lost after the commit; a reload may come before the
  debounced save; a deploy may change the schema. No write may vanish unreported.
- *Visibility*: permission is data reached through refs, so a commit changes what
  an actor may read without touching it; live diffs and the catch-up repair must
  move exactly the right triples.
- *Schema generations*: a schema is replaced under rows, pages and requests of
  earlier ones. Rows must keep fitting what is declared, the process must run what
  its storage says, and no page may be frozen by a declaration.
- *Queries*: the server answers with triples, not rows, and the client runs the
  query again over a partial cache. What is shipped must be enough for that, negated
  constraints included; a window is ranked before it is filtered, and must be the one
  that filtering first would give.
- *Live queries*: what is on screen is confirmed cache plus pending writes, told of
  changes field by field, refilled when short, evicted when nobody needs it. It must
  be what those layers give, and in the end what the server has.
- *Workspaces*: who may write is data that the edge remembers and mirrors into the
  cell; a release is several rows that only rules keep together.

`PROJECT.json` lists each hazard at its line with the properties aimed at it, and
says why where there is none yet.

## 2. Modules

| module | stands for |
|---|---|
| `Triples` | deltas, `Store.apply` and `withDelta` on sets of triples |
| `Storage` | abstract contract of a storage adapter: store, dense log, floor |
| `MemoryStorage` | the array log of `MemoryStorage`, as operators `Sync` reuses, and as a specification shown to implement `Storage` |
| `SqliteStorage` | `apply` and `compact` one SQL statement per action, with crashes, shown to implement `Storage` |
| `DurableStorage` | the adapter of a Durable Object, whose transactions are atomic, as functions on its tables |
| `Adapters` | the three adapters driven by the same commits and compactions |
| `Storage_proof` | theorems about `MemoryStorage` and `Adapters`: the array log, and SQLite and the Durable Object against it |
| `Transact`, `MCTransact` | recording, preview and compilation of one transaction after another, and the required-field check |
| `Writes` | the write rules, as `Transact`'s `Authorized`; the rules are a parameter |
| `RuleLanguage` | the language a workspace declares rules in, which the run gives `Writes` |
| `Transact_proof` | theorems about `Transact` |
| `Sync`, `MCSync` | one client's cache against the server, over `MemoryStorage` |
| `Sync_proof` | theorems about `Sync` |
| `Outbox` | send chain, pending list, outbox, drain, persistence, schema deploys |
| `Outbox_proof` | theorems about `Outbox` |
| `FanOut`, `MCFanOut` | visibility diffs, catch-up repair, mirrors of clients; the demo's policy as instance |
| `FanOut_proof` | theorems about `FanOut` |
| `Schema` | the fields of the entities, which `Query` and `Live` share |
| `Query` | the query engine as operators: payloads, roots, windows, collection, local run |
| `Queries`, `MCQueries` | a whole store that changes and is hidden in parts, over which the engine is checked |
| `Live`, `MCLive` | live queries over a client's cache and pending writes; the query engine is a parameter, `Query` in the run |
| `Live_proof` | theorems about `Live` |
| `Actors`, `Edge` | the directory's roles, and the edge that looks them up and remembers them |
| `Apps` | apps, drafts, releases and files under the platform's policy |
| `Workspace`, `MCWorkspace` | the cell behind the edge: `Edge` and `Apps` composed |
| `Workspace_proof` | theorems about `Workspace` |
| `Generations`, `MCGenerations` | a worker cell whose schema is data: declarations, migration checks, pages of earlier generations, restart and reset |
| `Generations_proof` | theorems about `Generations` |

Variables carry the names of the fields they stand for (`confirmed`, `cursor` for
`#version`, `known` for `#epoch`, `draining`, ...). Variables marked *history
variable* in the modules are not in the code; no guard reads them except where a
comment says so, and they only serve properties.

**Storage.** `MemoryStorage` keeps the log as the code does, an array offset by
`floor`; `Appended`, `Compacted`, `EntriesSince` translate the methods. In
`SqliteStorage` the durable tables and the open transaction are separate, `Abandon`
(an exception or the death of the process) throws the latter away, and the step from `apply`'s COMMIT to the compaction it
triggers can be cut in two. Both map to `Storage` by INSTANCE. `DurableStorage` has
no steps of its own, because `transactionSync` leaves none to interrupt. `Adapters`
composes the three: a statement of SQLite is a step of SQLite alone, and the step
that commits its transaction is the moment the other two apply the same delta or
compact to the same version, so that they may be compared after it.

**Transact.** One action records an operation in both forms, since the server
compiles each against a view that only the same transaction changes:
`compiled` is `added`/`removed` of `compileOperations`, `preview` the maps of the
client's `Transaction`. `serverMeaning` and `clientMeaning` apply the operations
one at a time to the store and to the reader: that is the reference. Author caches
(`Read`) are arbitrary, because a client's cache is partial and may be stale.
`blind` says that an operation removed what is not there: `compileOperations` then
differs from in-order application (a remove of an absent value cancels a later add of
it, `shared/transaction.ts:369`). A delete can do so by itself: `CompileDelete` pushes the
subject's own triples and then the inbound refs, as the code does (385), so a ref of the
subject to itself that the transaction added is removed twice (`PushedTwice`), stands in
`removed` although the store lacks it, and is lost when it is added again. `MCTransact` has
such a ref. `undone` says that the preview took something back.

**Writes.** `CheckWrite` groups a compiled delta by subject, derives the verb of each
(`delete` is stated by the transaction, the others follow from what was there) and
evaluates the rule of the field or of the entity on the state it may look at and on
the author's record before the write. Whether a rule allows it (`Allows`) and which paths it
reads (`PathsOf`) are parameters: the run gives them `Holds` and `Mentioned` of
`RuleLanguage`, which with `Operand` are `compileExpression` of `platform/rules.ts`, the
language in which a workspace declares rules; the demo's rules are functions that say the
same things. `SealedAssumption` says of each single rule what its author means by it: none
lets a sealed field change while nobody holds a credential. TLC evaluates it for the rules
of the run; that no transaction gets around it is the property. A subject in `deleted` is judged as
deleted even when a later operation of the batch writes it again, as in the code.
`Selection` is what `compileRules` derives from the paths the rules mention, and a rule sees
nothing else of the entity (`Loaded`). One value and a list are told apart by the path
that leads to them (`Many`): a list is never the same as its only element, and `in` asks for
one value among those of a list. The order of a list is left out, and with it the comparison
of two lists, which the code makes by their JSON; so are the literal lists of `in`.

**Sync.** One action per handler or per message. A request, the handling at the
server and the reading of the answer are three actions. What the actor may read is a
constant here (`FanOut` moves it), a query's scope is a fixed set of triples, and
the pending layer is left to `Outbox`: confirmed never depends on it except in
eviction, which is in `Live`. Loads in flight for the same query and attempt are
one. A save may happen at any moment, which covers every placement of the debounce
timer. `basis` is the age of the oldest content; `raced` marks the cases the code
itself does not prevent: an ack, a seed or an unstamped subscribe that brings in
something older than the stream's position. `pure` marks a cache whose content is
all of the present epoch: an ack or answer carries no epoch in the code.

**Outbox.** `chain` is the promise chain (head in flight), `outbox` and `pending`
the arrays, `saved` what persistence holds, `draining` and `drainTimer` the flags. A mutation
carries a number of its own for the properties and the id the code gives it
(`m1`, `m2`, again from 1 after a reload). Faults: a request lost, an answer lost
after the commit, a reload at any moment, a deploy. The dirty key leaves out version
and cache size: they only add saves. A client the deploy still accepts is one the
deploy does not concern. An ack tells
the live queries before it drops its layer (`client/client.ts:574`, `615`). On a page that
a mismatch has frozen a query that is watched and touched throws there, so the layer of an
answered write stays, and a drain ends: `ChainAckThrows` and `DrainAnswerThrows`, beside the
steps for pages whose queries are not touched. A reject drops its layer first and loses
nothing by the throw. `PendingIsUnanswered` says so: every unanswered write has its layer, and
a layer more there is on a frozen page only, of a write the server committed. A mismatch is
answered as `server/http.ts` does (409);
`server/fetch.ts:29` answers 200 with a reject, which is `ServeReject`. Entries that
cannot be carried over at hydration are reported on the first `onRejected`
listener; the model counts them as reported.

**FanOut.** `Chains` are the walks along a path of refs, `Loaded` what a rule is
given of a subject, `Grants` any rule at all as a function of that, the actor and
the actor's record. `Affected` is the dependency map walked backwards in the states
before and after. Every actor has one client, whose stream keeps order; unread
messages are lost with the connection. A rule's imperative `read()` is left out:
SPEC 11.1 says it opts out of live revocation. The log is not compacted here.

**Query.** A payload is what `toPayload` sends: an entity, constraints, a selection of
paths, an order with a limit and a cursor, subqueries. `ResolveRoots` seeds by the
first constraint that can seed and lets the rest refine; `Sorted`, `LocalWindow` and
`Past` are the plain definition of a window, `RankedWindow` the adapter's ranking that
overfetches (`limit * 2 + 16`), `Walk` the server's path that ranks first and checks
readability in batches. The numbers are constants (`Factor`, `Margin`, `LeastBatch`),
so that small instances take every path. `Collected` is what the server ships: the
selected triples of roots and subqueries, and the evidence by which a client judges
negations; `Run` is the local run. `Rank` stands for the order-preserving encoding of
values. Row memoisation, count-only subqueries and deeper nesting are left out.

**Queries.** The store gains, loses and replaces single triples and stays whole, and
any of `Veils` may hide fields of subjects. The properties range over all payloads in
each state. Provisos: `AllValued` (every root has a readable value to be ranked by),
without which the ranked path may cut a window short, and `AllWhole` (what the reader
may see of every root is whole), without which the client's windows differ from the
server's. A third is `Found`, for queries pinned to an id: the server finds their root by any
triple of the subject (`shared/query.ts:1342`), but ships and watches only the fields they
select, so a row that has none of these is there for the server, by its id, and for a client
only if another query brought something of it. One query of `MCQueries` is pinned and selects
an optional field alone, so that this happens in the run.

**Live.** Rendering and attaching are two steps, as in React. `confirmed` and
`pending` are the client's layers, `live` its `LiveQuery`s with what their components
show, `loads` the requests under way, `stream` the deltas not yet read. The
engine is a parameter, about which the module assumes four things: what is collected is
part of what it is collected from; a query's rows depend on the predicates it watches
(`WatchesAssumption`); they can be had again from what is collected (`CollectAssumption`);
a row reads its own subject (`RowAssumption`, which leaves nested rows and refs to
`Query`). TLC evaluates them for `Query` and the queries of `MCLive` over every set of
triples there, and fails if either proviso of `CollectAssumption` is dropped. The stream
never breaks and everything is readable (`Sync` and `FanOut` do the contrary), so that
mounts, evictions, loads, deltas, acks and rejects may meet in every order. An answer
that comes while a pending write hides a row of it (`masked`), an eviction that meets
such a row (`swept`), one that meets a value doubled by a pending write, or in a window a
row of which the view has a part (`blurred`), and an ack after its echo
or before the first answer (`stale`) are what the code does not prevent; each proviso
is named by the property that needs it.

**Edge, Apps, Workspace.** A request is verified and given a role in one step when the
isolate remembers one, in two when it asks the directory; it then reaches the cell,
which mirrors the role into the actor's row (`EnsureUser`), and acts later, after its
body is read. What the directory, any isolate or any request under way takes an actor
to be is `Believed`; `held` is what of it the actor had when it last reached the cell.
An operation of `Apps` gives the set of states it may leave: `Transacted` refuses what
the policy forbids or what leaves a required ref dangling. Ids, random in the code, are
numbers: a new row's is above all others, a published file's is its draft's counted
from the release's. Roles pass only forwards
through the cache, so `WritersHeldTheirRole` bounds how long an old one counts: until
the first request that arrives after it is forgotten everywhere.

A transaction, of a tool or of a client, is a pair of rows to delete (`gone`) and rows to put
(`put`); `After` is what it leaves, `Authorized` asks the verb's rule of each row that
changes, `NoneLeftWithout` is the server's check of required refs. Through `/api` a client
may send any transaction at all (`ClientTransaction`, `RunTransaction`): create or change a
row of each kind, with refs to rows that are there or to nothing (the code does not look at
where a ref leads; one to a row of another kind, which tells the rules as little as nothing and
only keeps that row from being deleted, is left out), with ids it may remember from rows since deleted, delete any row, and set the
refs of the orphans again in the same transaction. The rules let a member do most of
this (`platform/policy.ts` 58, 59, 66, 73, 80): add a file to a release of last year, double a
path or a version, hang a release under an app that does not exist, point `live` at
anything, delete an app and leave its releases dangling. So what the code promises holds
of the tools, and of the rest except where a client wrote by hand. `hand` is the set of
apps and releases this concerns, a history variable: those that a row put by a client's own
transaction refers to, and the apps whose live pointer it set. `AppsAreWhole`,
`NothingTwice` and the first half of `ReleasesAreFrozen` (no file is added) except exactly
those, and speak of all others, whatever tools, clients and the operator then do to the rows
beside them. `WritersHeldTheirRole` and the second half of
`ReleasesAreFrozen` (no file goes or is replaced but by an admin or the operator) hold of all.

Apps of the same name may exist twice, because a member who may not open the
first does not find it (`platform/platform.ts:81`); no property says otherwise. The
comment at `platform/platform.ts:156` says that deleting an app is for admins because
the release policy says so: an app without releases may be deleted by a member.

**Generations.** One entity; a generation is a function from its declared fields to
kind and requiredness, which is what `migrationProblems` and the schema hash compare;
an undeclared entity has no fields. `table` is `workspace_schema`, rows with their
times (two declarations are taken to have different times), `servers` the
`TripleServer`s of the present process: a handler that awaits its body
(`server/fetch.ts:29`) and an open stream keep the one they began with, and `Reset`
boots another beside it. A page is built from `/schema.js` or from the fixed schema
alone. A write of a refused generation is answered with a reject by `fetch.ts`, which
freezes nothing; a query is answered 409, which does. Epochs and caches are in `Sync`.
`revived` and `overtaken` mark what the code does not prevent: a field dropped and
declared again over the values left from before, which `migrationProblems` cannot see
because it compares with the last declaration only (`platform/src/workspace.ts:113`,
whose comment says that nothing corrupts), and a request that outlives a reset.

## 3. Runs

| run | states | what it shows |
|---|---|---|
| `adapters` | 63 thousand | memory and SQLite implement the contract, SQLite with a crash between any two statements; catch-up from every retained version is exact; all three adapters agree after every commit and compaction |
| `transact` | 1.34 million | up to three operations per transaction, any number of transactions by two authors, over every reader cache, under write rules |
| `sync` | 898 thousand | cache against log with faults, compaction after each commit, reloads |
| `sync_restart` | 678 thousand | a restart under a new epoch; agreement and convergence |
| `outbox` | 569 thousand | three writes, two faults, one deploy |
| `outbox_retry` | violation | a drain that meets trouble arms no new timer |
| `fan_out` | 277 thousand | grants, revocations, deletion and recreation through refs, live and at catch-up |
| `generations` | 937 thousand | rows keep their declared kinds and required fields over declarations, stale pages, restarts and a reset; only a reset freezes a page |
| `query` | 2,912 | twelve shapes of query over every whole store of three todos and a user, under four ways to hide |
| `live` | 383 thousand | a window and a plain query that share rows: what is shown is current, and true and complete in the end; what `Live` assumes holds of `Query` |
| `live_window` | violation | a row that an edit sorts out of a full window stays in it |
| `workspace` | 1.19 million | two actors whose roles change, one app from draft to release and back by tools, clients' own transactions and the operator, requests under way through one isolate |

The two violations are disagreements between the code and its own comments or
`SPEC.md`, listed under `findings` with the line that says otherwise. Others met on
the way are the provisos of properties that hold, each marked by a history variable:
an ack out of order is applied again (`raced`, `stale`; SPEC.md:947 says it is skipped by
version); a write that fails over to the outbox is overtaken by those already chained
(`client/client.ts:557`; the comment at 526 says order is sacred); a repair lost with
its connection is never sent again (`cut`; SPEC.md:1306); a remove of what is not there
cancels a later add (`blind`); a layer outlives its ack on a frozen page (SPEC.md:980 drops it
on ack); a member writes into a release that `platform/schema.ts:87` calls a frozen copy, or
leaves rows dangling that `platform/policy.ts:28` says may not (`hand`); a pinned query hangs on
fields it does not watch (`Found`; SPEC.md:559 and 862). And one that came out of stating what `Live` assumes of
the engine: eviction keeps what `collectPayloadTriples` collects (`client/client.ts:414`),
which, unlike `runPayload` (`shared/query.ts:949`), does not set roots aside that lack a
required field before it cuts the window. A single triple of a row the cache does not
have otherwise, as a delta about an unseen row leaves it, can take the window's slot;
closing another query then evicts the row on screen, against "the cache holds exactly what
the remaining live queries need" (`client/client.ts:408`). In the run: `first`, a window
of one, shows `todo_1`; the place of `todo_2`, whose title the client never had, is moved
to the front; `all` closes; the screen still shows `todo_1` and the cache gives no row
(`blurred`).

**Bounds.** `MaxVersion` 3 to 5 commits: enough for a triple to be added, removed
and added again around a message in flight, and with `RetainLog` 1 or 2 for the log
to forget the cursor. `MaxAttempts` 2 stands for the five tries of a load: what
matters is that it can be stale once, retried, and given up. `MaxFaults` 1 to 2
faults are enough for a loss and a loss of its repair. Two triples in `Sync`, one readable and
one not, because properties are about one triple at a time and the hidden one makes
invisible commits. Three writes in `Outbox`: one queued, one in the chain, one new.
`MCFanOut` has one todo, team, member and role, so that every path of the demo's
rules (length one and two, a field override, the actor's record) is used; an
actor's mirror depends on no other actor, so one actor suffices. `MCQueries` has
`Factor`, `Margin` and `LeastBatch` at 1, 0 and 1, so that three todos are many for a
window of one and take the ranked paths; places repeat, so that ids break ties, and
may be missing. In `MCLive` a window of one over two todos is enough for a row to
leave it, be replaced, come back and be re-sorted, one of them perhaps not seen before;
`Budget` 4 is shared by commits,
mounts, losses and pending writes. `MCWorkspace` has one app of one file: two members
who work on it, one of whom is promoted or removed, reach every rule; `Budget` 5 is
shared by changes of the directory, writes and requests under way, of which two are
enough for one to overtake the other. There a client's own transaction deletes at most one
row and puts at most one (or sets the refs of the orphans again), since several in one come
to the same as one after the other, but for the orphans; `Version` {1} lets it double the first release, and `MaxHand` 1 app or release is
touched this way at a time, which leaves another beside it untouched. `MCGenerations` has
two fields, two kinds and six declarations, between which a field can be added,
dropped, retyped, loosened and required and the rules changed alone; three accepted
declarations are enough to drop a field and declare it again, or to return to an
older generation, and one reset and one restart for each to meet a page and a
request. Deadlock is not
checked where all bounds may be used up.

**Fairness.** `Sync.Fairness`: the transport's loop reconnects for ever
(`client/transport.ts:80`), server handlers run to completion, and what arrives is
read. `Outbox`: promise continuations and armed timers fire, the server answers
what reaches it. Nobody is assumed to write, watch, close, or to break anything, and no fault
is assumed to happen; faults are bounded, which is the usual "eventually the
network is up long enough".

## 4. Proofs

The theorems say of every value of the constants what the runs say of small ones.
They rest on the assumptions the modules name and on nothing else. Every safety property
of storage, transactions and their rules, sync, outbox, visibility, generations and
workspaces that a run checks is a theorem, and so are those of live queries but
`NothingStaysMissing`.

**`Transact_proof`**, for every schema (`Triple`, `Multiple`, `Required`,
`RefPredicate`), any store and any number of operations:

| theorem | establishes |
|---|---|
| `TypeCorrect` | the type invariant |
| `SingleValuedAlways` | no field declared with one value ever has two, in the store, in the compiled state or in the preview |
| `MeaningKept` | the compiled delta does to the store what the operations, applied one by one, would do |
| `PreviewMeaningKept` | so does the client's preview, to the view it was recorded against |
| `StoreAlwaysComplete` | no accepted transaction leaves an entity without a required field |

The inductive invariant is the conjunction of these with two strengthenings.
`Exact`: as long as no operation was blind (a remove of what is not there), the
compiled adds are new and the compiled removes hit; without it, cancelling an add
against an earlier remove could lose one. `AddedIsHidden`: a single-valued triple
that the compiled delta adds is either new to the store or also removed by the delta;
without it the step that replaces a value could leave two.

`SealedAlways`, in the same module, is `SealedNeedsCredential` for any rules of which each
keeps its promise (`SealedAssumption`), if the server asks `CheckWrite` of `Writes` before
it commits, as it does in the run. Only a commit changes the store; a triple it changes is
in the compiled delta, whatever order of operations or sweep of a delete put it there, and
was judged with the author's record from before the write.

**`FanOut_proof`**, for every policy `Grants` over declared fields with refs to
any depth, from `FanOutAssumption` alone:

| theorem | establishes |
|---|---|
| `TypeCorrect` | the type invariant; every version in a stream was committed (`VersionsAreCommitted`, the strengthening it needs) |
| `UnaffectedLoadsTheSame` | the dependency map is sound: a subject that it does not name for a delta shows every rule the same fields before and after |
| `VisibleDeltaIsExact` | the delta an actor is sent takes what it could read before to what it may read after |
| `LiveMirrorAlwaysExact` | a connected client that has read its stream holds exactly what its actor may read |

The argument for the second: the hops of a walk before the first triple of the delta
exist in both states, and walked backwards they lead from that triple's subject to
the subject the walk began at, which is thus affected; so a walk from an unaffected
subject uses nothing of the delta. The last is proved from an invariant about
messages not yet read: applying the stream one message at a time to the mirror
ends in what the actor may read of the present store. Only the quiet case is the
property, but only the general one is inductive. Its provisos are the property's: the
client has not been away, and the actor's own record has not changed.

**`FanOut_proof`, the catch-up.** `CaughtUpMirrorAlwaysExact`: a client that was away
holds, once backlog and repair are read, exactly what its actor may read of the fields
without a rule of their own. The invariant says of a client that is away that its mirror
is `Recoverable` from its cursor: what it has wrong is touched by the log since, or
belongs to a subject the dependency map names for the log since; a commit never makes a
mirror less recoverable. Of a client that is connected it says that every prefix of its
stream leaves a mirror recoverable from the version that prefix ends at
(`Settling`), so that the connection may break anywhere. `PastIsKnown`, that the log
leads from some sequence of stores to the present one, ties the two. Provisos as in the
property: the actor's own record has not changed (`shifted`), and no connection broke
with a repair on it (`cut`, which the code does not make good).

**`Storage_proof`**, for every set of triples and bound on versions: the type
invariant, `LogIsDense`, `StateIsFold` and `CatchUpIsExact`, and that the array log
implements the contract `Storage` (initial states map to initial states, every step
to a step or a stutter). The invariant is the first three together: that a version's
place in the array is its distance from the floor is what makes a slice of the array
a range of versions.

The adapters, for every `RetainLog` and every place at which a write of SQLite
may be cut: `AdaptersAlwaysAgree`, `TablesAlwaysImplement`, `RowsAlwaysDense` and
`TablesTypeCorrect`. The invariant is that the committed tables of SQLite and of the
Durable Object *are* the array log, row for entry (`Same`), and that the open transaction
has done exactly the statements its step says (`InProgress`). A commit is then one
append, a compaction one slice, a crash nothing, and the contract follows from that of
the array log.

**`Sync_proof`**, for any triples, queries and writes, any number of commits, faults and
restarts:

| theorem | establishes |
|---|---|
| `SyncTypeCorrect` | the type invariant |
| `NothingEverOlderThanCursor` | what a cache says of a triple, or of its absence, was true at some version since its cursor |
| `NoVersionEverSkipped` | the deltas on a stream lead from the cursor to the newest version without a gap, or a resync does |
| `CaughtUpAlwaysAgrees` | a client that has read its stream agrees with the server on every query it was answered |

The invariant gives a shape to the stream (`StreamInv`: some messages of handshake, then
deltas of consecutive versions from the one the handshake names), says that all in
flight from the present epoch is true of the history (`Truth`), and dates the cache
(`BasisInv`): each triple held, and each absence in an answered query, was so at a
version from `basis` on. `CursorInv` is then the property, and `FromInv` and
`SavedInv` are what it needs to survive a reconnect and a reload.

**`Outbox_proof`**, for any number of writes, faults, reloads and deploys:

| theorem | establishes |
|---|---|
| `OutboxTypeCorrect` | the type invariant; chain and drain wait for at most one answer each |
| `LayersAreTheUnanswered` | the optimistic layer has the unanswered writes, each once, and no others but, on a frozen page, committed ones |
| `QuietMeansSaved` | when no save is due, what is saved is the outbox |
| `NoSavedWriteIsLost` | a write that reached the disk is queued, answered or surfaced |
| `DoublesOnlyWhenUnsure` | nothing is committed twice unless an answer, or the page waiting for it, was lost |

What makes it inductive is `WireInv`: an answer on the wire is to the head of the list
that waits for it, and what a page left behind is of a write in doubt. `Numbered` says
that ids, which begin again with each page, still tell the layers of this one apart,
so that `#drop` by id takes the right one. `Once` says where a committed write may
still be: its caller was told, or its ack is under way, and no request for it is out. `LeftInv`
says of a layer that is in neither chain nor outbox that its page is frozen and its write
committed. Ids may then meet, so `Numbered` is given up when such a page has nothing left to
be answered (`Over`), and not before.

**`Generations_proof`**, for any fields, kinds, subjects, pages and declarations:
`GenerationsTypeCorrect`, `ARebootNeverChangesAnything` (the server in memory is what a
boot from the table would make), `PagesOnlyOutdatedByReset`, `RowsAlwaysFit` and
`RowsAlwaysComplete`, with the provisos `revived` and `overtaken`. The
strengthening is `PagesAccepted`: every page of the present storage has a generation
that the running server accepts, and every hello on its way to it lists that generation.

**`Workspace_proof`**, for any actors, apps, paths and isolates:

| theorem | establishes |
|---|---|
| `NothingOutlivesItsApp` | no row outlives what it belongs to, and a live pointer leads to a release of its app, except what a client wrote by hand |
| `NoRowIsDoubled` | one draft for a path, one release of a version, one file for a path, with the same exception |
| `OnlyStandingWrites` | who changed rows was believed a member, and for releases and files that went an admin |
| `ReleasesStayFrozen` | the files of a release that is there neither change nor grow but by hand, and only such an admin, or the operator, takes or replaces one |

`Sound(w, H)` is what each operation keeps of the rows `w` with the marks `H` (`hand`):
besides the first two properties it has that ids are distinct, by which a row's refs mean one
row, and that what has an id or is referred to by it is of one kind (`Typed`), so that a row a
client puts where others already refer cannot be of the wrong one. One lemma does the work for
tools, clients and operator alike: `TransactionIsSound` says that a transaction whose rows
fit the rest (`Fit`), are owned, well pointed and not doubled or else marked (`PutsWell`), and
which strips no row of its required ref, leaves the rows sound. `MarksAreKnown` then drops the marks of
ids that nothing has or refers to any more. For tools no marks are added: doubles cannot
arise although they look among readable rows only, because one who may open an app
sees all its releases and, being a member, all its drafts (`OpenApps`). For a client
`ByHand` marks whatever could go wrong, and `ClientsFit` shows that its refs and ids fit.
`Orderly` adds that files are put only into releases that are new or marked (`Frozen`), and that
the actor is a member, and an admin if a release or file goes (`Ruled`); the last two theorems
follow, by `PeopleHeld` (a row of the cell has no role that its actor was not believed to
hold). The operator asks no rule; that it takes the whole of an app is why nothing of it is
left behind.

**`Live_proof`**, for any queries, writes and number of commits, mounts and losses, and any
engine of which the four assumptions hold:

| theorem | establishes |
|---|---|
| `ShownAlwaysCurrent` | a component that has its answer shows the rows that cache and pending writes give now |
| `ShownRowsAlwaysTrue` | once nothing is on its way, a row on screen is the server's, field by field |

The first needs that *every* open query has the rows of the view, painted or not
(`ShowInv`): a query that was not told of a change watches none of its predicates
(`WatchesAssumption`), and an eviction keeps a set that gives its rows (`CollectAssumption`).
For the second, `TruthInv` says where a triple that the server no longer has may still be:
whatever cache, answers or acks hold that the store does not, the stream has yet to say, at
a version after theirs; and what it says last of a triple is how the store has it. When
nothing is on its way the cache is thus part of the store, and `RowAssumption` leads from
a row of the part to a row of the whole. Both provisos of the second are needed: an ack out
of order brings in what the stream has already taken back, and a row that an eviction
stranded on screen is not told of its end.

**How the models are written for the proofs.** What a stream carries, and what an outbox
carries over, is said by quantifiers instead of `SelectSeq`, of which the provers know
nothing; the schema table is a set of rows with their times; `publish` makes its files
in one set instead of one by one. The query engine and the rule language are recursive by
nature; `Live` and `Writes` take them as constant operators, whose assumptions the run
evaluates for the real ones.

**Model-checked only.** Liveness under fairness, and what needs ENABLED, is out of reach
of these tools: `Converges`, `ChainNeverStalls`, and the violation `QueueDrains`. `Query` is
recursive in its very subject (paths of refs, nested constraints, windows), and what a
recursive definition computes for every input cannot be proved here: TLC alone checks
`RootsSatisfyAll`, `WindowIsExact`, `LocalRunAgrees`, `PagesVisitEachRowOnce` and
`WatchedPredicatesSuffice` of `Queries`, and that the assumptions of `Live` hold of this
engine, for the queries of `MCLive`, and those of `Writes` of its rules, for the rules of
`MCTransact`. `NothingStaysMissing` would need of the engine which answers fill which
windows, and is left to TLC too.

## 5. Not modelled

- Presence and broadcast of the server; what a changed rule does to caches that were
  filtered by the old one.
- The imperative `read()` of rules, which SPEC 11.1 takes out of live revocation.
- Count-only subqueries, the memo of rows, the SQL text of the adapters' queries,
  value codecs, hashing, validation of declarations.
- Proxies and list drafts of a transaction, suspense and the other React hooks.
- Sessions, tokens, OAuth, anonymous visitors, routing and serving of assets; of the
  operator's plane everything but delete-app and reset.
- The output gate of a Durable Object: what may leave it before a write is durable.
- Storage errors other than a crash, a compaction that throws after its commit
  (`server/server.ts:210`) among them; backpressure of an HTTP response.
- Cells, shell, console, schema package: no state of their own, or interface only.

## 6. Plan

Modelled, in the order of importance: storage, transactions, sync, outbox, visibility,
schema generations, write rules, the query engine, live queries, workspaces. Proved: all
of them but the query engine.
Next:

1. Proofs: the lemmas that `Outbox_proof` and `FanOut_proof` repeat, said once;
   `NothingStaysMissing`; a form of `Query` without recursive operators for shallow
   queries, to prove of it what `Live` assumes.
2. `Presence` and ephemeral messages (`server/server.ts:262`, `client/client.ts:278`).
3. `Live` over a stream that breaks and a policy that hides, with the outbox behind it, and
   a run of its own for the eviction described in section 3.

A run is kept for one question: when a new module needs one, the violation runs
whose finding has been fixed in the code go first.
