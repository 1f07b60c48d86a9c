------------------------------ MODULE Workspace ------------------------------
(***************************************************************************)
(* One workspace: the edge that verifies requests and the cell that serves *)
(* them (worker/cell.ts).  The cell mirrors the caller into a user row     *)
(* when a request arrives, then awaits its body: another request of the    *)
(* same actor, with another standing, may come in between.                 *)
(***************************************************************************)
EXTENDS Edge, Apps

CONSTANTS
  Budget,  \* bound on directory changes, writes and requests under way, together
  MaxHand  \* bound on the apps and releases of which clients wrote

VARIABLES
  writes,     \* counts the transactions
  author      \* history variable: who wrote last

vars == <<edge, people, rows, hand, writes, author>>

\* Mutant: the row keeps the standing it was created with.
EnsureUserOnce(r) ==
  people' = IF people[r.actor] = None THEN [people EXCEPT ![r.actor] = Standing(r.role)] ELSE people

EnsureUser(r) == people' = [people EXCEPT ![r.actor] = Standing(r.role)]

\* The verified identity goes on to the cell, in headers that the edge sets.
\* WorkspaceCell.fetch, up to the body.
Arrive(r) ==
  /\ r.stage = "resolved"
  /\ EnsureUser(r)
  /\ Moved(r, "arrived")
  /\ held' = [held EXCEPT ![r.actor] = Believed(r.actor)]
  /\ UNCHANGED <<directory, cache, changes, rows, hand, writes, author>>

Wrote(a, w, byHand) ==
  /\ rows' = w
  /\ hand' = IF w = rows THEN hand ELSE (hand \cup byHand) \cap Known(w)
  /\ author' = a
  /\ writes' = IF w = rows THEN writes ELSE writes + 1

\* A tool call: the edge lets members alone through to /mcp.
RunTool(r) ==
  /\ r.stage = "arrived" /\ r.role \in Role
  /\ \E w \in Tool(r.actor, rows) : Wrote(r.actor, w, {})
  /\ Done(r)
  /\ UNCHANGED <<directory, cache, changes, held, people>>

\* A transaction of a client's own.
RunTransaction(r) ==
  /\ r.stage = "arrived"
  /\ \E t \in ClientTransaction(rows) :
       Wrote(r.actor, Transacted(r.actor, rows, t.gone, t.put), ByHand(rows, t.gone, t.put))
  /\ Done(r)
  /\ UNCHANGED <<directory, cache, changes, held, people>>

\* The tool invite_member asks the actor's row, and the invitation is accepted.
InviteMember(r, a, role) ==
  /\ r.stage = "arrived" /\ r.role \in Role /\ people[r.actor] = "admin"
  /\ directory[a] = None
  /\ Granted(a, role)
  /\ Done(r)
  /\ UNCHANGED <<cache, people, rows, hand, writes, author>>

\* The operator plane asks no rule.
Operate ==
  /\ \E name \in AppName : \E w \in OperatorDeleteApp(rows, name) : Wrote("operator", w, {})
  /\ UNCHANGED <<edge, people>>

Init ==
  /\ directory = [a \in Actor |-> None] /\ held = [a \in Actor |-> {None}]
  /\ cache = [i \in Isolate |-> [a \in Actor |-> {}]]
  /\ requests = {} /\ changes = 0
  /\ people = [a \in Actor |-> None] /\ rows = {} /\ hand = {}
  /\ writes = 0 /\ author = "operator"

AtEdge ==
  \/ \E a \in Actor, i \in Isolate : CreateWorkspace(a, i) \/ Ask(a, i) \/ Forget(i, a)
  \/ \E a \in Actor, role \in Role \cup {None} : Change(a, role)
  \/ \E r \in requests : Resolve(r)
  \/ \E r \in requests, a \in Actor, role \in Role : Invite(r, a, role)

Spent == changes + writes + Cardinality(requests)

Next ==
  /\ \/ AtEdge /\ UNCHANGED <<people, rows, hand, writes, author>>
     \/ \E r \in requests : Arrive(r) \/ RunTool(r) \/ RunTransaction(r)
     \/ \E r \in requests, a \in Actor, role \in Role : InviteMember(r, a, role)
     \/ Operate
  /\ Spent' <= Budget /\ Cardinality(hand') <= MaxHand

Spec == Init /\ [][Next]_vars

----------------------------------------------------------------------------
\* platform/policy.ts: rows change only by the hand of a member, and releases and their
\* files only go by that of an admin, or the operator's.  The role that counts is one the
\* directory gave the actor and which it, an isolate or a request under way still went by
\* when the actor last reached the cell: an old role ends with the first request that
\* arrives after it is forgotten everywhere.
WritersHeldTheirRole ==
  [][rows' # rows /\ author' # "operator" =>
       /\ held[author'] \cap Role # {}
       /\ (\E r \in Lost(rows, rows') : r.kind \in {"release", "file"}) => "admin" \in held[author']]_vars

\* platform/schema.ts: a published release is a frozen copy.  While it is there no tool
\* adds or changes a file of it, and only an admin takes one away or, in a transaction of
\* their own, replaces it; a member who adds one does so in such a transaction too.
ReleasesAreFrozen ==
  [][\A r \in Of(rows, "release") \cap Of(rows', "release") :
       LET files(w) == {f \in Of(w, "file") : f.release = r.id}
       IN  /\ files(rows') \subseteq files(rows) \/ r.id \in hand'
           /\ files(rows) \subseteq files(rows') \/ author' = "operator" \/ "admin" \in held[author']]_vars
=============================================================================
