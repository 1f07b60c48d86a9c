-------------------------------- MODULE Edge --------------------------------
(***************************************************************************)
(* The edge (worker/auth.ts, worker/index.ts): who a request comes from,   *)
(* and their standing in the workspace, looked up in the directory         *)
(* (WorkOS) or in what this isolate remembers of it.  Whoever the identity *)
(* provider knows may hold a session or a token at any time: of these the  *)
(* model keeps the actor alone.                                            *)
(***************************************************************************)
EXTENDS Actors, Naturals, FiniteSets

CONSTANTS
  Isolate,
  MaxRequests  \* bound on the requests under way

VARIABLES
  directory,   \* the role of each actor, None if not a member
  cache,       \* of each isolate, what it remembers of an actor: nothing or a role
  requests,    \* under way: [actor, isolate, role, stage]
  changes,     \* counts the changes of the directory
  held         \* history variable: the standings that may still count, of each actor

edge == <<directory, cache, requests, changes, held>>

Standing(role) == IF role = None THEN "appUser" ELSE role

Granted(a, role) ==
  /\ directory' = [directory EXCEPT ![a] = role]
  /\ held' = [held EXCEPT ![a] = @ \cup {role}]
  /\ changes' = changes + 1

\* createWorkspace: the creator is its first admin, and what this isolate remembers of
\* them is dropped.
CreateWorkspace(a, i) ==
  /\ changes = 0
  /\ Granted(a, "admin")
  /\ cache' = [cache EXCEPT ![i][a] = {}]
  /\ UNCHANGED requests

\* Membership ends or changes in the directory itself.
Change(a, role) ==
  /\ directory[a] # None /\ role # directory[a]
  /\ Granted(a, role)
  /\ UNCHANGED <<cache, requests>>

\* An entry lives for 60 seconds after its last use, and goes with its isolate.
Forget(i, a) ==
  /\ cache[i][a] # {}
  /\ cache' = [cache EXCEPT ![i][a] = {}]
  /\ UNCHANGED <<directory, requests, changes, held>>

\* roleIn: the standing is remembered, or the directory is asked and its answer is on
\* its way.
Ask(a, i) ==
  /\ \E r \in [actor : {a}, isolate : {i},
                role  : IF cache[i][a] # {} THEN cache[i][a] ELSE {directory[a]},
                stage : IF cache[i][a] # {} THEN {"resolved"} ELSE {"asked"}] :
       /\ r \notin requests /\ Cardinality(requests) < MaxRequests
       /\ requests' = requests \cup {r}
  /\ UNCHANGED <<directory, cache, changes, held>>

\* What the directory says, an isolate remembers or a request under way goes by.
Believed(a) ==
  {directory[a]} \cup (UNION {cache[i][a] : i \in Isolate}) \cup {r.role : r \in {r \in requests : r.actor = a}}

Moved(r, stage) == requests' = (requests \ {r}) \cup {[r EXCEPT !.stage = stage]}

\* roleIn, on the answer: it is remembered.
Resolve(r) ==
  /\ r.stage = "asked"
  /\ cache' = [cache EXCEPT ![r.isolate][r.actor] = {r.role}]
  /\ Moved(r, "resolved")
  /\ UNCHANGED <<directory, changes, held>>

Done(r) == requests' = requests \ {r}

\* api/invite, and the invitation accepted.
Invite(r, a, role) ==
  /\ r.stage = "resolved" /\ r.role = "admin"
  /\ directory[a] = None
  /\ Granted(a, role)
  /\ Done(r)
  /\ UNCHANGED cache
=============================================================================
