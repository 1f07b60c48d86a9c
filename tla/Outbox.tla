------------------------------- MODULE Outbox -------------------------------
(***************************************************************************)
(* The client's write path (client/client.ts): the optimistic layer, the   *)
(* chain that serializes sends, the outbox that takes a write the network  *)
(* failed, the drain that replays it, the debounced save, and the page     *)
(* reload that keeps nothing but what was saved.                           *)
(*                                                                         *)
(* A write is known by its number; its mutationId is what the client calls *)
(* it, and that counter starts over with every page.  The server commits   *)
(* or rejects as it likes.                                                 *)
(***************************************************************************)
EXTENDS Naturals, Sequences, FiniteSets, SequencesExt

CONSTANTS
  MaxWrites,    \* bound on transact calls
  MaxFaults,    \* bound on lost requests, lost answers and reloads
  MaxDeploys,   \* bound on the schema generations deployed
  Carriable     \* the writes whose intent still compiles after a deploy

ASSUME OutboxAssumption ==
  /\ MaxWrites \in Nat /\ MaxFaults \in Nat /\ MaxDeploys \in Nat
  /\ Carriable \subseteq 1..MaxWrites

VARIABLES
  made,       \* transact calls so far
  counter,    \* #mutationCounter
  pending,    \* #pending
  chain,      \* #sendChain: sends not settled, the first one in flight
  outbox,     \* #outbox
  draining,   \* #draining
  drainTimer, \* #drainTimer is set
  saveTimer,  \* #saveTimer is set and has not fired
  savedKey,   \* #lastSavedKey
  saved,      \* what ClientPersistence holds
  online,     \* connect() was called and not undone
  generation, \* the schema this page runs
  outdated,   \* #outdated
  wire,       \* requests and answers under way
  deployed,   \* the schema the server runs
  applied,    \* the writes the server committed, in order
  durable,    \* history variable: writes that were ever saved
  settled,    \* history variable: writes whose caller or listener was told the end
  unsure,     \* history variable: writes in flight when an answer or the page was lost
  faults

timerVars  == <<draining, drainTimer>>
saveVars   == <<saveTimer, savedKey>>
pageVars   == <<counter, online, generation, outdated>>
serverVars == <<deployed, applied>>

vars == <<made, pending, chain, outbox, timerVars, saveVars, saved, pageVars, wire,
          serverVars, durable, settled, unsure, faults>>

Mutation == [write : 1..MaxWrites, id : 1..MaxWrites]

Stage == {"request", "ack", "reject", "mismatch", "failed"}

\* via is the loop that waits for the answer; nobody does once the page is gone.
Message == [mutation : Mutation, via : {"chain", "drain", "gone"}, stage : Stage,
            generation : 0..MaxDeploys]

WritesOf(s) == {s[i].write : i \in DOMAIN s}

Request(mutation, via) ==
  [mutation |-> mutation, via |-> via, stage |-> "request", generation |-> generation]

Waiting(via) == {m \in wire : m.via = via}

----------------------------------------------------------------------------
\* Mutant: a write that moves to the outbox changes nothing the key looks at.
KeyOfPending(o, p) == <<0, Len(p)>>

\* The dirty check of #persist.  The version and the size of the cache are in the
\* key too; they can only add saves.
KeyOf(o, p) == <<Len(o), Len(p)>>

\* #persist, with the layers as the handler leaves them.
Persist ==
  /\ savedKey' = KeyOf(outbox', pending')
  /\ saveTimer' = (saveTimer \/ KeyOf(outbox', pending') # savedKey)

\* #scheduleDrain
ScheduleDrain ==
  /\ drainTimer' = (drainTimer \/ ~ draining)
  /\ UNCHANGED draining

\* #drop: the first pending mutation of that id.
Dropped(id) ==
  LET found == {i \in DOMAIN pending : pending[i].id = id}
  IN  IF found = {} THEN pending
      ELSE RemoveAt(pending, CHOOSE i \in found : \A j \in found : i <= j)

\* #outdate: the first mismatch closes the stream, a later one finds nothing to do.
Outdate ==
  /\ outdated' = TRUE
  /\ online' = (online /\ outdated)
  /\ UNCHANGED <<counter, generation>>

----------------------------------------------------------------------------
\* transact

\* Mutant: the queue is not looked at.
TransactAlwaysSends ==
  LET m == [write |-> made + 1, id |-> counter + 1]
  IN  /\ made < MaxWrites /\ ~ outdated
      /\ made' = made + 1
      /\ counter' = counter + 1
      /\ pending' = Append(pending, m)
      /\ chain' = Append(chain, m)
      /\ UNCHANGED <<outbox, timerVars>>
      /\ Persist
      /\ UNCHANGED <<saved, online, generation, outdated, wire, serverVars, durable,
                     settled, unsure, faults>>

\* The layer shows at once; the write joins the queue if there is one and the
\* chain if there is none.
Transact ==
  LET m == [write |-> made + 1, id |-> counter + 1]
  IN  /\ made < MaxWrites /\ ~ outdated
      /\ made' = made + 1
      /\ counter' = counter + 1
      /\ pending' = Append(pending, m)
      /\ IF outbox # <<>>
         THEN /\ outbox' = Append(outbox, m)
              /\ ScheduleDrain
              /\ UNCHANGED chain
         ELSE /\ chain' = Append(chain, m)
              /\ UNCHANGED <<outbox, timerVars>>
      /\ Persist
      /\ UNCHANGED <<saved, online, generation, outdated, wire, serverVars, durable,
                     settled, unsure, faults>>

\* Mutant: the chain waits for the queue.
SendHeadBehindQueue ==
  /\ chain # <<>>
  /\ Waiting("chain") = {}
  /\ outbox = <<>>
  /\ wire' = wire \cup {Request(Head(chain), "chain")}
  /\ UNCHANGED <<made, pending, chain, outbox, timerVars, saveVars, saved, pageVars,
                 serverVars, durable, settled, unsure, faults>>

\* The last send has settled, either way: the next one goes out.
SendHead ==
  /\ chain # <<>>
  /\ Waiting("chain") = {}
  /\ wire' = wire \cup {Request(Head(chain), "chain")}
  /\ UNCHANGED <<made, pending, chain, outbox, timerVars, saveVars, saved, pageVars,
                 serverVars, durable, settled, unsure, faults>>

\* Ack and reject alike drop the layer and end the call.  A reject's queries are
\* told after the drop, so an outdated page changes nothing here.
ChainAnswer(m) ==
  /\ m \in Waiting("chain")
  /\ m.stage \in {"ack", "reject"}
  /\ wire' = wire \ {m}
  /\ chain' = Tail(chain)
  /\ pending' = Dropped(m.mutation.id)
  /\ settled' = settled \cup {m.mutation.write}
  /\ UNCHANGED outbox
  /\ Persist
  /\ UNCHANGED <<made, timerVars, saved, pageVars, serverVars, durable, unsure, faults>>

\* An ack tells the queries first.  On an outdated page one that is watched and
\* touched throws out of #notify: the caller gets its error and #drop is not reached.
ChainAckThrows(m) ==
  /\ m \in Waiting("chain")
  /\ m.stage = "ack" /\ outdated
  /\ wire' = wire \ {m}
  /\ chain' = Tail(chain)
  /\ settled' = settled \cup {m.mutation.write}
  /\ UNCHANGED <<pending, outbox>>
  /\ Persist
  /\ UNCHANGED <<made, timerVars, saved, pageVars, serverVars, durable, unsure, faults>>

\* The page runs an old schema: the write is dropped, its caller told, the
\* client frozen.
ChainMismatch(m) ==
  /\ m \in Waiting("chain")
  /\ m.stage = "mismatch"
  /\ wire' = wire \ {m}
  /\ chain' = Tail(chain)
  /\ pending' = Dropped(m.mutation.id)
  /\ settled' = settled \cup {m.mutation.write}
  /\ Outdate
  /\ UNCHANGED outbox
  /\ Persist
  /\ UNCHANGED <<made, timerVars, saved, serverVars, durable, unsure, faults>>

\* Mutant: the write is queued and sent again.
ChainFailureRetries(m) ==
  /\ m \in Waiting("chain")
  /\ m.stage = "failed"
  /\ wire' = wire \ {m}
  /\ UNCHANGED chain
  /\ outbox' = Append(outbox, m.mutation)
  /\ ScheduleDrain
  /\ UNCHANGED pending
  /\ Persist
  /\ UNCHANGED <<made, saved, pageVars, serverVars, durable, settled, unsure, faults>>

\* Network trouble: the layer stays, the intent is queued, the call resolves.
ChainFailure(m) ==
  /\ m \in Waiting("chain")
  /\ m.stage = "failed"
  /\ wire' = wire \ {m}
  /\ chain' = Tail(chain)
  /\ outbox' = Append(outbox, m.mutation)
  /\ ScheduleDrain
  /\ UNCHANGED pending
  /\ Persist
  /\ UNCHANGED <<made, saved, pageVars, serverVars, durable, settled, unsure, faults>>

----------------------------------------------------------------------------
\* The drain

\* The timer fires; an empty queue ends the loop before it starts.
DrainFires ==
  /\ drainTimer
  /\ drainTimer' = FALSE
  /\ IF draining \/ outdated \/ outbox = <<>>
     THEN UNCHANGED <<draining, wire>>
     ELSE /\ draining' = TRUE
          /\ wire' = wire \cup {Request(Head(outbox), "drain")}
  /\ UNCHANGED <<made, pending, chain, outbox, saveVars, saved, pageVars, serverVars,
                 durable, settled, unsure, faults>>

\* Ack or reject: the entry leaves the queue, and the loop goes on with the next.
DrainAnswer(m) ==
  /\ m \in Waiting("drain")
  /\ m.stage \in {"ack", "reject"}
  /\ outbox' = Tail(outbox)
  /\ pending' = Dropped(m.mutation.id)
  /\ settled' = settled \cup {m.mutation.write}
  /\ wire' = (wire \ {m}) \cup
       (IF outbox' # <<>> THEN {Request(Head(outbox'), "drain")} ELSE {})
  /\ draining' = (outbox' # <<>>)
  /\ Persist
  /\ UNCHANGED <<made, chain, drainTimer, saved, pageVars, serverVars, durable, unsure,
                 faults>>

\* On an outdated page the queries' error ends the loop, after the drop of a reject
\* and before that of an ack.
DrainAnswerThrows(m) ==
  /\ m \in Waiting("drain")
  /\ m.stage \in {"ack", "reject"} /\ outdated
  /\ outbox' = Tail(outbox)
  /\ pending' = IF m.stage = "ack" THEN pending ELSE Dropped(m.mutation.id)
  /\ settled' = settled \cup {m.mutation.write}
  /\ wire' = wire \ {m}
  /\ draining' = FALSE
  /\ Persist
  /\ UNCHANGED <<made, chain, drainTimer, saved, pageVars, serverVars, durable, unsure,
                 faults>>

\* Mutant: the entry was taken off the queue before it was sent.
DrainFailureForgets(m) ==
  /\ m \in Waiting("drain")
  /\ m.stage = "failed"
  /\ wire' = wire \ {m}
  /\ outbox' = Tail(outbox)
  /\ ScheduleDrain
  /\ draining' = FALSE
  /\ UNCHANGED pending
  /\ Persist
  /\ UNCHANGED <<made, chain, saved, pageVars, serverVars, durable, settled, unsure, faults>>

\* The loop stops.  #scheduleDrain is called while #draining still holds, so it
\* sets no timer.
DrainFailure(m) ==
  /\ m \in Waiting("drain")
  /\ m.stage = "failed"
  /\ wire' = wire \ {m}
  /\ drainTimer' = (drainTimer \/ ~ draining)
  /\ draining' = FALSE
  /\ UNCHANGED <<made, pending, chain, outbox, saveVars, saved, pageVars, serverVars,
                 durable, settled, unsure, faults>>

DrainMismatch(m) ==
  /\ m \in Waiting("drain")
  /\ m.stage = "mismatch"
  /\ wire' = wire \ {m}
  /\ draining' = FALSE
  /\ Outdate
  /\ UNCHANGED <<made, pending, chain, outbox, drainTimer, saveVars, saved, serverVars,
                 durable, settled, unsure, faults>>

\* connect: once per page, and again after a disconnect.
Connect ==
  /\ ~ online
  /\ online' = TRUE
  /\ ScheduleDrain
  /\ UNCHANGED <<made, pending, chain, outbox, saveVars, saved, counter, generation,
                 outdated, wire, serverVars, durable, settled, unsure, faults>>

\* The stream's hello names another schema.
HelloMismatch ==
  /\ online /\ ~ outdated
  /\ generation # deployed
  /\ Outdate
  /\ UNCHANGED <<made, pending, chain, outbox, timerVars, saveVars, saved, wire,
                 serverVars, durable, settled, unsure, faults>>

----------------------------------------------------------------------------
\* The server and the network

\* The answer travels back, unless the page that waits for it is gone.
Answered(m, stage) ==
  wire' = (wire \ {m}) \cup (IF m.via = "gone" THEN {} ELSE {[m EXCEPT !.stage = stage]})

ServeCommit(m) ==
  /\ m.stage = "request" /\ m.generation = deployed
  /\ applied' = Append(applied, m.mutation.write)
  /\ Answered(m, "ack")
  /\ UNCHANGED <<made, pending, chain, outbox, timerVars, saveVars, saved, pageVars,
                 deployed, durable, settled, unsure, faults>>

ServeReject(m) ==
  /\ m.stage = "request" /\ m.generation = deployed
  /\ Answered(m, "reject")
  /\ UNCHANGED <<made, pending, chain, outbox, timerVars, saveVars, saved, pageVars,
                 serverVars, durable, settled, unsure, faults>>

ServeMismatch(m) ==
  /\ m.stage = "request" /\ m.generation # deployed
  /\ Answered(m, "mismatch")
  /\ UNCHANGED <<made, pending, chain, outbox, timerVars, saveVars, saved, pageVars,
                 serverVars, durable, settled, unsure, faults>>

\* The request or its answer is lost; the client cannot tell which.
Lose(m) ==
  /\ faults < MaxFaults
  /\ faults' = faults + 1
  /\ m.stage # "failed"
  /\ Answered(m, "failed")
  /\ unsure' = unsure \cup (IF m.stage = "ack" THEN {m.mutation.write} ELSE {})
  /\ UNCHANGED <<made, pending, chain, outbox, timerVars, saveVars, saved, pageVars,
                 serverVars, durable, settled>>

Deploy ==
  /\ deployed < MaxDeploys
  /\ deployed' = deployed + 1
  /\ UNCHANGED <<made, pending, chain, outbox, timerVars, saveVars, saved, pageVars, wire,
                 applied, durable, settled, unsure, faults>>

----------------------------------------------------------------------------
\* Persistence

\* The save timer fires 100 ms after the last change.
SaveFires ==
  /\ saveTimer
  /\ saveTimer' = FALSE
  /\ saved' = [generation |-> generation, outbox |-> outbox]
  /\ durable' = durable \cup WritesOf(outbox)
  /\ UNCHANGED <<made, pending, chain, outbox, timerVars, savedKey, pageVars, wire,
                 serverVars, settled, unsure, faults>>

\* The numbers of K in their order.
Increasing(K) ==
  CHOOSE p \in [1..Cardinality(K) -> K] : \A i, j \in 1..Cardinality(K) : i < j => p[i] < p[j]

\* The entries of a saved outbox that a page of generation g takes over, in order.
Carried(g) ==
  LET kept == {i \in DOMAIN saved.outbox : saved.outbox[i].write \in Carriable}
  IN  IF g = saved.generation THEN saved.outbox
      ELSE [n \in 1..Cardinality(kept) |-> saved.outbox[Increasing(kept)[n]]]

\* Mutant: what no longer compiles is left out and nobody is told.
HydrateQuietly(g) ==
  /\ outbox' = Carried(g)
  /\ pending' = Carried(g)
  /\ UNCHANGED settled

\* #hydrate: the outbox comes back, its layers with it; of another generation's
\* outbox, what still compiles, and the rest is surfaced through onRejected.
Hydrate(g) ==
  /\ outbox' = Carried(g)
  /\ pending' = Carried(g)
  /\ settled' = settled \cup (WritesOf(saved.outbox) \ WritesOf(Carried(g)))

\* The page goes away and the next one starts, on its own code or on newer code.
\* A request that was sent may still arrive.
Reload(g) ==
  /\ faults < MaxFaults
  /\ faults' = faults + 1
  /\ g \in generation..deployed
  /\ Hydrate(g)
  /\ generation' = g
  /\ counter' = 0
  /\ online' = FALSE
  /\ outdated' = FALSE
  /\ chain' = <<>>
  /\ draining' = FALSE
  /\ drainTimer' = FALSE
  /\ saveTimer' = FALSE
  /\ savedKey' = <<>>
  /\ wire' = {[m EXCEPT !.via = "gone"] : m \in {n \in wire : n.stage = "request"}}
  /\ unsure' = unsure \cup {m.mutation.write : m \in wire}
                      \cup (settled \cap WritesOf(saved.outbox))
  /\ UNCHANGED <<made, saved, serverVars, durable>>

----------------------------------------------------------------------------
Init ==
  /\ made = 0
  /\ counter = 0
  /\ pending = <<>>
  /\ chain = <<>>
  /\ outbox = <<>>
  /\ draining = FALSE
  /\ drainTimer = FALSE
  /\ saveTimer = FALSE
  /\ savedKey = <<>>
  /\ saved = [generation |-> 0, outbox |-> <<>>]
  /\ online = FALSE
  /\ generation = 0
  /\ outdated = FALSE
  /\ wire = {}
  /\ deployed = 0
  /\ applied = <<>>
  /\ durable = {}
  /\ settled = {}
  /\ unsure = {}
  /\ faults = 0

Next ==
  \/ Transact
  \/ SendHead
  \/ \E m \in wire : ChainAnswer(m)
  \/ \E m \in wire : ChainAckThrows(m)
  \/ \E m \in wire : ChainMismatch(m)
  \/ \E m \in wire : ChainFailure(m)
  \/ DrainFires
  \/ \E m \in wire : DrainAnswer(m)
  \/ \E m \in wire : DrainAnswerThrows(m)
  \/ \E m \in wire : DrainFailure(m)
  \/ \E m \in wire : DrainMismatch(m)
  \/ Connect
  \/ HelloMismatch
  \/ \E m \in wire : ServeCommit(m)
  \/ \E m \in wire : ServeReject(m)
  \/ \E m \in wire : ServeMismatch(m)
  \/ \E m \in wire : Lose(m)
  \/ Deploy
  \/ SaveFires
  \/ \E g \in 0..MaxDeploys : Reload(g)

Spec == Init /\ [][Next]_vars

Settle(m) ==
  \/ ChainAnswer(m) \/ ChainAckThrows(m) \/ ChainMismatch(m) \/ ChainFailure(m)
  \/ DrainAnswer(m) \/ DrainAnswerThrows(m) \/ DrainFailure(m) \/ DrainMismatch(m)

\* Timers fire, microtasks run, and every request is answered or fails; nobody
\* has to write, deploy or reload.  An application connects when it starts.
Fairness ==
  /\ WF_vars(SendHead)
  /\ WF_vars(DrainFires)
  /\ WF_vars(SaveFires)
  /\ WF_vars(Connect)
  /\ WF_vars(\E m \in wire : ServeCommit(m) \/ ServeReject(m) \/ ServeMismatch(m))
  /\ WF_vars(\E m \in wire : Settle(m))

FairSpec == Spec /\ Fairness

----------------------------------------------------------------------------
OutboxTypeOK ==
  /\ made \in 0..MaxWrites /\ counter \in 0..made
  /\ \A s \in {pending, chain, outbox, saved.outbox} : s \in Seq(Mutation)
  /\ {draining, drainTimer, saveTimer, online, outdated} \subseteq BOOLEAN
  /\ {generation, deployed, saved.generation} \subseteq 0..MaxDeploys
  /\ wire \subseteq Message
  /\ Cardinality(Waiting("chain")) <= 1 /\ Cardinality(Waiting("drain")) <= 1
  /\ draining <=> Waiting("drain") # {}
  /\ applied \in Seq(1..MaxWrites)

\* The optimistic layer is the writes not yet answered, each once, though a layer is
\* dropped by a mutationId that another page may have used before (client.ts #drop):
\* no unanswered write vanishes, and an answered one stays visible only where the
\* page is outdated and the server committed it (SPEC 8.2 drops on ack; the queries
\* throw first, client.ts:574 and 615).
PendingIsUnanswered ==
  LET unanswered == WritesOf(outbox) \cup WritesOf(chain)
      left       == WritesOf(pending) \ unanswered
  IN  /\ unanswered \subseteq WritesOf(pending)
      /\ left # {} => outdated /\ left \subseteq ToSet(applied)
      /\ Cardinality(WritesOf(pending)) = Len(pending)
      /\ Cardinality(unanswered) = Len(outbox) + Len(chain)

\* The dirty check never leaves the saved outbox behind: when no save is due, a
\* page of the same schema would hydrate the present outbox (client.ts #persist).
SavedWhenQuiet ==
  (~ saveTimer /\ generation = saved.generation) => saved.outbox = outbox

\* SPEC 13: a write that reached the disk is replayed, answered or surfaced,
\* across reloads, failed drains and deploys, and never silently dropped.
NothingSilentlyLost == durable \subseteq WritesOf(outbox) \cup settled

Applications(w) == Cardinality({i \in DOMAIN applied : applied[i] = w})

\* A resend doubles a write only when its answer, or the page that knew of it, was
\* lost: never because chain and drain both carry it.
AppliedTwiceOnlyIfUnsure ==
  \A w \in 1..MaxWrites : Applications(w) > 1 => w \in unsure

\* "The chain must survive a failed send - the NEXT mutation still goes out."
ChainNeverStalls ==
  \A w \in 1..MaxWrites : (w \in WritesOf(chain)) ~> (w \notin WritesOf(chain))

\* "Stop on network trouble and retry later": the network fails a bounded number of
\* times, so the queue empties.
QueueDrains == (outbox # <<>>) ~> (outbox = <<>>)
=============================================================================
