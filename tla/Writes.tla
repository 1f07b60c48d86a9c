------------------------------- MODULE Writes -------------------------------
(***************************************************************************)
(* The write rules (server/policy.ts: checkWrite) and what they get to see *)
(* of a row (platform/rules.ts).  Server.transact asks CheckWrite of every *)
(* compiled transaction: it is the Authorized of module Transact.  The     *)
(* rules themselves are a parameter, module RuleLanguage in the run.       *)
(***************************************************************************)
EXTENDS Transact, Sequences

CONSTANTS
  EntityOf,    \* the entity of each predicate
  Rules,       \* of each entity: create, update, delete, and write, by field
  PathsOf(_),  \* the paths into the row that a rule mentions
  Allows(_, _), \* whether a rule holds in a context
  Sealed,      \* the fields only a holder of a credential may write
  Credential   \* the triples that are one

\* walkValue: what a path of fields leads to from a subject.
Reached(S, s, path) ==
  IF path = <<>> THEN {s} ELSE {w[Len(path)].object : w \in Chains(S, s, path, Len(path))}

\* What the rules of an entity get to see of a row: the paths that any of them
\* mentions, and the refs on the way.
Selection ==
  [e \in DOMAIN Rules |->
     LET stated    == {Rules[e][verb] : verb \in {"create", "update", "delete"}}
         overrides == {Rules[e].write[p] : p \in DOMAIN Rules[e].write}
         paths     == UNION {PathsOf(r) : r \in stated \cup overrides}
     IN  UNION {{SubSeq(path, 1, n) : n \in 1..Len(path)} : path \in paths}]

\* fieldsLoader
Loaded(S, s, e) == [path \in Selection[e] |-> Reached(S, s, path)]

\* Deletes are stated, the other verbs follow from what was there.
Verb(S, gone, s) ==
  IF s \in gone THEN "delete"
  ELSE IF \E t \in S : t.subject = s THEN "update" ELSE "create"

\* Mutant: the author is taken as the write leaves them.
ActorRecordAfter(S, T) == T

\* Who is asking, as they are now: a write cannot promote its own author.
ActorRecord(S, T) == S

\* What a rule may look at, the author being as in U: create sees the state that
\* lands, delete the one before, update both.
Context(a, U, S, T, verb, s, e) ==
  [actor  |-> a, subject |-> s, actors |-> U,
   fields |-> Loaded(IF verb = "create" THEN T ELSE S, s, e),
   after  |-> Loaded(IF verb = "delete" THEN S ELSE T, s, e)]

\* A delete is judged by the entity's rule alone; of the rest, each touched field by
\* its own write rule if it has one, else by the entity's.
RuleFor(p, verb) ==
  LET rules == Rules[EntityOf[p]]
  IN  IF verb # "delete" /\ p \in DOMAIN rules.write THEN rules.write[p] ELSE rules[verb]

CheckWrite(a, S, d, gone) ==
  \A t \in d.added \cup d.removed :
    LET T    == Applied(S, d)
        verb == Verb(S, gone, t.subject)
    IN  Allows(RuleFor(t.predicate, verb),
               Context(a, ActorRecord(S, T), S, T, verb, t.subject, EntityOf[t.predicate]))

----------------------------------------------------------------------------
\* That the fields are sealed is a promise of their rules: none of them lets an author,
\* as they were before, change one unless somebody holds a credential.
ASSUME SealedAssumption ==
  \A S, T \in SUBSET Triple : \A t \in {t \in (S \ T) \cup (T \ S) : t.predicate \in Sealed} :
    \A a \in Author, verb \in {"create", "update", "delete"} :
      Allows(RuleFor(t.predicate, verb), Context(a, S, S, T, verb, t.subject, EntityOf[t.predicate]))
        => S \cap Credential # {}

\* SPEC 10.4: a sealed field changes only while somebody already holds a credential:
\* no order of operations in a transaction, no sweep of a delete and no promotion of
\* its own author lets it through.
SealedNeedsCredential ==
  [][(\E t \in (store \ store') \cup (store' \ store) : t.predicate \in Sealed)
       => store \cap Credential # {}]_store
=============================================================================
