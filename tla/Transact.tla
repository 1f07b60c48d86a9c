------------------------------ MODULE Transact ------------------------------
(***************************************************************************)
(* One transaction from the draft to the store (shared/transaction.ts and  *)
(* the decision of Server.transact).  A draft operation is recorded twice: *)
(* as the author's optimistic preview against its own partial cache        *)
(* (class Transaction), and as intent, which the server compiles against   *)
(* the truth (compileOperations).  Both start from states that do not      *)
(* change while they run, so one action stands for both halves of an       *)
(* operation.                                                              *)
(*                                                                         *)
(* Triple holds the triples the schema allows: records of a subject, a     *)
(* predicate of that subject's entity and an object of its type.           *)
(***************************************************************************)
EXTENDS Naturals, Triples

CONSTANTS
  Multiple,     \* the multi-valued predicates
  Required,     \* the predicates a live subject may not lack
  RefPredicate, \* the predicates whose objects are subjects
  Seed,         \* the store to begin with
  Caches,       \* what a client may have cached
  Author,       \* who may write
  Authorized(_, _, _, _), \* the policy: author, store, delta and the subjects deleted
  MaxOperations \* bound on the operations of one transaction

VARIABLES
  store,      \* the server's store
  reader,     \* what the author's client had cached when the draft began
  compiled,   \* compileOperations: added and removed
  preview,    \* Transaction: #added and #removed
  serverMeaning, \* the operations applied one at a time to the store
  clientMeaning, \* the operations applied one at a time to the reader
  deleted,    \* the subjects deleted, whatever is written to them later
  blind,      \* an operation added what was there, or removed what was not (any more)
  undone,     \* an operation removed what this transaction had added
  count       \* operations recorded so far

draftVars == <<compiled, preview, serverMeaning, clientMeaning, deleted, blind, undone, count>>
vars == <<store, reader, draftVars>>

Subject == {t.subject : t \in Triple}

SameField(t, u) == t.subject = u.subject /\ t.predicate = u.predicate

\* Reader.match([subject, predicate, undefined]) for the field of t
FieldOf(S, t) == {u \in S : SameField(u, t)}

\* What a delete sweeps: the subject's own triples and every inbound ref, a ref of
\* the subject to itself being both.
Own(S, s) == {t \in S : t.subject = s}
Inbound(S, s) == {t \in S : t.predicate \in RefPredicate /\ t.object = s}
Swept(S, s) == Own(S, s) \cup Inbound(S, s)

----------------------------------------------------------------------------
\* compileOperations: adds and removes of the same triple cancel

\* Mutant: an add does not take back an earlier remove.
PushAddUncancelled(d, t) == [d EXCEPT !.added = @ \cup {t}]

PushAdd(d, t) ==
  IF t \in d.removed
  THEN [d EXCEPT !.removed = @ \ {t}]
  ELSE [d EXCEPT !.added = @ \cup {t}]

PushRemoves(d, T) ==
  [added |-> d.added \ T, removed |-> d.removed \cup (T \ d.added)]

\* The evolving view a later operation sees.
View == Applied(store, compiled)

\* Mutant: the replaced values are read from the store, not the evolving view.
CompileSetFromStore(t) == PushAdd(PushRemoves(compiled, FieldOf(store, t)), t)

CompileSet(t) == PushAdd(PushRemoves(compiled, FieldOf(View, t)), t)

\* Mutant: the inbound refs are not swept.
CompileDeleteOwn(s) == PushRemoves(compiled, Own(View, s))

\* Each group is pushed for itself, both matched in the view from before: a ref of the
\* subject to itself is pushed twice.
CompileDelete(s) == PushRemoves(PushRemoves(compiled, Own(View, s)), Inbound(View, s))

\* Such a ref, added by this transaction: the second push removes what is not there.
PushedTwice(s) == compiled.added \cap Own(View, s) \cap Inbound(View, s)

----------------------------------------------------------------------------
\* Transaction: a replace forgets its own earlier adds of the field

\* Mutant: it does not.
PreviewSetKeeping(t) ==
  [added   |-> preview.added \cup {t},
   removed |-> preview.removed \cup FieldOf(reader, t)]

PreviewSet(t) ==
  [added   |-> (preview.added \ FieldOf(preview.added, t)) \cup {t},
   removed |-> preview.removed \cup FieldOf(reader, t)]

PreviewRemoves(T) == [preview EXCEPT !.removed = @ \cup T]

\* #currentValues: what a draft read returns.
Draft == Applied(reader, preview)

----------------------------------------------------------------------------
\* The draft operations

Another ==
  /\ count < MaxOperations
  /\ count' = count + 1

Set(t) ==
  /\ Another
  /\ t.predicate \notin Multiple
  /\ compiled' = CompileSet(t)
  /\ preview' = PreviewSet(t)
  /\ serverMeaning' = (serverMeaning \ FieldOf(serverMeaning, t)) \cup {t}
  /\ clientMeaning' = (clientMeaning \ FieldOf(clientMeaning, t)) \cup {t}
  /\ UNCHANGED <<store, reader, deleted, blind, undone>>

\* list.push, or one value of a multiple field in create
Add(t) ==
  /\ Another
  /\ t.predicate \in Multiple
  /\ compiled' = PushAdd(compiled, t)
  /\ preview' = [preview EXCEPT !.added = @ \cup {t}]
  /\ serverMeaning' = serverMeaning \cup {t}
  /\ clientMeaning' = clientMeaning \cup {t}
  /\ blind' = (blind \/ t \in View)
  /\ UNCHANGED <<store, reader, deleted, undone>>

\* The remove operations of T, each a triple of its own.
RecordRemoves(T) ==
  /\ Another
  /\ compiled' = PushRemoves(compiled, T)
  /\ preview' = PreviewRemoves(T)
  /\ serverMeaning' = serverMeaning \ T
  /\ clientMeaning' = clientMeaning \ T
  /\ blind' = (blind \/ ~ T \subseteq View)
  /\ undone' = (undone \/ T \cap preview.added # {})
  /\ UNCHANGED <<store, reader, deleted>>

\* list.remove of a value, present or not
Remove(t) ==
  /\ t.predicate \in Multiple
  /\ RecordRemoves({t})

\* draft.field = undefined: one remove for every value the author sees
Clear(t) ==
  /\ t.predicate \notin Multiple \cup Required
  /\ RecordRemoves(FieldOf(Draft, t))

Delete(s) ==
  /\ Another
  /\ compiled' = CompileDelete(s)
  /\ preview' = PreviewRemoves(Swept(reader, s))
  /\ serverMeaning' = serverMeaning \ Swept(serverMeaning, s)
  /\ clientMeaning' = clientMeaning \ Swept(clientMeaning, s)
  /\ deleted' = deleted \cup {s}
  /\ blind' = (blind \/ PushedTwice(s) # {})
  /\ undone' = (undone \/ Swept(preview.added, s) # {})
  /\ UNCHANGED <<store, reader>>

----------------------------------------------------------------------------
\* The server's decision

\* The predicates required of a subject are those of its own entity.
RequiredOf(s) == {t.predicate : t \in {u \in Triple : u.subject = s}} \cap Required

Complete(S, s) ==
  {t \in S : t.subject = s} = {}
    \/ RequiredOf(s) \subseteq {t.predicate : t \in {u \in S : u.subject = s}}

\* Mutant: a subject that only lost triples is not looked at.
CheckRequiredOfAdded ==
  \A t \in compiled.added : Complete(Applied(store, compiled), t.subject)

\* #checkRequired: every subject the delta touches, in the state after it.
CheckRequired ==
  \A t \in compiled.added \cup compiled.removed :
    Complete(Applied(store, compiled), t.subject)

SingleValued(S) ==
  \A t, u \in S : (SameField(t, u) /\ t.predicate \notin Multiple) => t = u

\* A new draft: nothing recorded, the reader as the client's cache is now.
Open(S, r) ==
  /\ reader' = r
  /\ compiled' = NoDelta
  /\ preview' = NoDelta
  /\ serverMeaning' = S
  /\ clientMeaning' = r
  /\ deleted' = {}
  /\ blind' = FALSE
  /\ undone' = FALSE
  /\ count' = 0

\* The cache of the next author: any triples, one per single field.
Read(r) ==
  /\ count = 0
  /\ SingleValued(r)
  /\ UNCHANGED store
  /\ Open(store, r)

Commit ==
  /\ \E a \in Author : Authorized(a, store, compiled, deleted)
  /\ CheckRequired
  /\ store' = Applied(store, compiled)
  /\ Open(Applied(store, compiled), {})

\* Refused by the policy or for a required field: nothing of it is applied.
Reject ==
  /\ UNCHANGED store
  /\ Open(store, {})

Init ==
  /\ store = Seed
  /\ reader = {}
  /\ compiled = NoDelta
  /\ preview = NoDelta
  /\ serverMeaning = Seed
  /\ clientMeaning = {}
  /\ deleted = {}
  /\ blind = FALSE
  /\ undone = FALSE
  /\ count = 0

ASSUME DraftAssumption ==
  Seed \subseteq Triple /\ Caches \subseteq SUBSET Triple
    /\ SingleValued(Seed) /\ \A s \in Subject : Complete(Seed, s)

Next ==
  \/ \E t \in Triple : Set(t)
  \/ \E t \in Triple : Add(t)
  \/ \E t \in Triple : Remove(t)
  \/ \E t \in Triple : Clear(t)
  \/ \E s \in Subject : Delete(s)
  \/ \E r \in Caches : Read(r)
  \/ Commit
  \/ Reject

Spec == Init /\ [][Next]_vars

----------------------------------------------------------------------------
\* The deltas are sets of triples, and the compiled one names no triple in
\* both halves: "the resulting delta is minimal".
TransactTypeOK ==
  /\ store \subseteq Triple
  /\ reader \subseteq Triple
  /\ compiled \in Delta
  /\ IsNet(compiled)
  /\ preview \in Delta
  /\ deleted \subseteq Subject
  /\ blind \in BOOLEAN
  /\ undone \in BOOLEAN
  /\ count \in Nat

\* SPEC 0.2: whatever clients read when they wrote, compiling leaves a
\* single-valued field with at most one value, and so does every commit.
StaysSingleValued == SingleValued(store) /\ SingleValued(View)

\* SPEC 4.5: a subject that still exists has every required field, even one that
\* only lost an inbound ref to somebody else's delete.
StoreIsComplete == \A s \in Subject : Complete(store, s)

\* SPEC 9.1: compiling keeps the meaning of the operations in order, as long as
\* none of them adds what is there or removes what is not.  A delete is such a one when
\* the transaction itself has made the subject refer to itself: that ref is removed
\* twice (transaction.ts:385), and adding it again is lost.
CompiledKeepsMeaning == blind \/ View = serverMeaning

\* The author sees the operations applied in order to its own cache, as long as
\* none of them takes back an earlier one of the same transaction.
PreviewKeepsMeaning == undone \/ Draft = clientMeaning
=============================================================================
