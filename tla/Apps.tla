-------------------------------- MODULE Apps --------------------------------
(***************************************************************************)
(* The platform of a workspace cell (platform/platform.ts, policy.ts,      *)
(* schema.ts): apps, their drafts, releases and the releases' files are    *)
(* rows.  A tool reads the rows its actor may read and writes in one       *)
(* transaction; a client sends transactions of its own.  Either takes rows *)
(* away and puts rows, and the rules judge it row by row.                  *)
(*                                                                         *)
(* A tool gives the rows that it leaves: the same ones if it is refused.   *)
(* Ids are drawn at random; here a new row's is above all others.          *)
(***************************************************************************)
EXTENDS Actors, Naturals, FiniteSets, FiniteSetsExt

CONSTANTS
  Email,      \* of each actor
  AppName, Path, Content,
  Version     \* bound on the versions a client may give a release

ASSUME VersionAssumption == Version \subseteq Nat

Audience == {"members", "invited", "public"}

VARIABLES
  people,     \* the user row of each actor: its role, None if it has no row
  rows,       \* all others: [kind, id, ...]
  hand        \* history variable: the apps and releases, there or referred to, of which a
              \* client wrote a row, or a live pointer, in a transaction of its own

Of(w, kind) == {r \in w : r.kind = kind}

\* What a row refers to: what it belongs to or, of an app, the live release (0 if none).
Ref(r) ==
  CASE r.kind = "app"  -> r.live
    [] r.kind = "file" -> r.release
    [] OTHER           -> r.app

Known(w) == {r.id : r \in w} \cup {Ref(r) : r \in w}

FreshId(w) == Max({0} \cup Known(w)) + 1

App(w, id) == {x \in Of(w, "app") : x.id = id}

\* The app of a row, through its refs.
AppOf(w, r) ==
  CASE r.kind = "app"  -> {r}
    [] r.kind = "file" -> UNION {App(w, x.app) : x \in {x \in Of(w, "release") : x.id = r.release}}
    [] OTHER           -> App(w, r.app)

----------------------------------------------------------------------------
\* The rules

IsMember(a) == people[a] \in Role

\* An actor with no row has no email the rules could see.
MayOpen(a, x) ==
  \/ people[a] = "admin"
  \/ x.audience = "members" /\ IsMember(a)
  \/ x.audience = "invited" /\ people[a] # None /\ Email[a] \in x.invited
  \/ x.audience = "public"

MayOpenAppOf(a, w, r) == \E x \in AppOf(w, r) : MayOpen(a, x)

\* queryAs: the rows an actor may read.
Readable(a, w) ==
  {r \in w : MayOpenAppOf(a, w, r) /\ (r.kind = "draft" => IsMember(a))}

\* Mutant: every member may delete releases.
MayDeleteByMember(a, w, r) == IsMember(a)

MayDelete(a, w, r) ==
  CASE r.kind = "app"   -> IsMember(a)
    [] r.kind = "draft" -> IsMember(a) /\ MayOpenAppOf(a, w, r)
    [] OTHER            -> people[a] = "admin"

MayCreate(a, w, r) == IsMember(a) /\ (r.kind = "draft" => MayOpenAppOf(a, w, r))

MayUpdate(a, w, r) ==
  CASE r.kind = "app"   -> IsMember(a)
    [] r.kind = "draft" -> IsMember(a) /\ MayOpenAppOf(a, w, r)
    [] OTHER            -> FALSE

SameRow(r, s) == r.kind = s.kind /\ r.id = s.id

\* The rows of w that v has no more.
Lost(w, v) == {r \in w : ~ \E s \in v : SameRow(r, s)}

\* checkWrite: a row that was deleted is judged as such, even if it is put again.
Authorized(a, w, gone, v) ==
  /\ \A r \in w \ v : IF r \in gone THEN MayDelete(a, w, r) ELSE MayUpdate(a, w, r)
  /\ \A r \in Lost(v, w) : MayCreate(a, v, r)

RefersTo(r, gone) == \E g \in gone : g.id = Ref(r)

\* Mutant: a delete leaves the optional refs to it.
WithoutUnswept(w, gone) == w \ gone

\* tx.delete: the rows and the optional refs to them.
Without(w, gone) ==
  {IF r.kind = "app" /\ RefersTo(r, gone) THEN [r EXCEPT !.live = 0] ELSE r : r \in w \ gone}

\* Rows are deleted, then rows are put.
After(w, gone, put) == {r \in Without(w, gone) : ~ \E p \in put : SameRow(p, r)} \cup put

\* checkRequired: no row loses a required ref to a delete, unless the ref is set again.
NoneLeftWithout(w, gone, put) ==
  \A r \in w \ gone : r.kind # "app" /\ RefersTo(r, gone) => \E p \in put : SameRow(p, r)

\* TripleServer.transact: all of it or, with an error, nothing.
Transacted(a, w, gone, put) ==
  LET v == After(w, gone, put)
  IN  IF Authorized(a, w, gone, v) /\ NoneLeftWithout(w, gone, put) THEN v ELSE w

----------------------------------------------------------------------------
\* The tools

\* appByName: an app of that name the actor may open, the first the store yields.
AppByName(a, w, name) == {x \in Of(Readable(a, w), "app") : x.name = name}

Drafts(a, w, x) == {d \in Of(Readable(a, w), "draft") : d.app = x.id}

Releases(a, w, x) == {r \in Of(Readable(a, w), "release") : r.app = x.id}

ReleaseFiles(a, w, x) ==
  {f \in Of(Readable(a, w), "file") : \E r \in Releases(a, w, x) : f.release = r.id}

NewDraft(w, app, path, content) ==
  [kind |-> "draft", id |-> FreshId(w), app |-> app, path |-> path, content |-> content]

\* writeDraft: the draft is replaced or created, and on the first write the app.
WriteDraft(a, w, name, path, content) ==
  LET founded == [kind |-> "app", id |-> FreshId(w), name |-> name,
                  audience |-> "members", invited |-> {}, live |-> 0]
      drafted(x) ==
        LET current == {d \in Drafts(a, w, x) : d.path = path}
        IN  IF current = {}
            THEN {{NewDraft(w, x.id, path, content)}}
            ELSE {{[d EXCEPT !.content = content]} : d \in current}
      written == IF AppByName(a, w, name) = {}
                 THEN {{founded, NewDraft(w \cup {founded}, founded.id, path, content)}}
                 ELSE UNION {drafted(x) : x \in AppByName(a, w, name)}
  IN  {Transacted(a, w, {}, put) : put \in written}

DeleteDraft(a, w, name, path) ==
  {Transacted(a, w, {d}, {}) :
     d \in {d \in UNION {Drafts(a, w, x) : x \in AppByName(a, w, name)} : d.path = path}}

SetAudience(a, w, name, audience) ==
  {Transacted(a, w, {}, {[x EXCEPT !.audience = audience]}) : x \in AppByName(a, w, name)}

InviteToApp(a, w, name, email) ==
  {Transacted(a, w, {}, {[x EXCEPT !.invited = @ \cup {email}]}) : x \in AppByName(a, w, name)}

Unpublish(a, w, name) ==
  {Transacted(a, w, {}, {[x EXCEPT !.live = 0]}) : x \in AppByName(a, w, name)}

\* Mutant: the version is one more than that of the live release.
NextVersionOfLive(a, w, x) == Max({0} \cup {r.version : r \in {r \in Releases(a, w, x) : r.id = x.live}}) + 1

NextVersion(a, w, x) == Max({0} \cup {r.version : r \in Releases(a, w, x)}) + 1

\* publish: a release, a file for every draft and the live pointer, at once.
Publish(a, w, name) ==
  UNION {LET drafts  == Drafts(a, w, x)
             release == [kind |-> "release", id |-> FreshId(w), app |-> x.id,
                         version |-> NextVersion(a, w, x)]
             files   == {[kind |-> "file", id |-> release.id + d.id, release |-> release.id,
                          path |-> d.path, content |-> d.content] : d \in drafts}
         IN  IF drafts = {} THEN {}
             ELSE {Transacted(a, w, {}, {[x EXCEPT !.live = release.id], release} \cup files)} :
         x \in AppByName(a, w, name)}

\* deleteApp: all that the actor can see of it, and the row.
DeleteApp(a, w, name) ==
  {Transacted(a, w, {x} \cup Drafts(a, w, x) \cup Releases(a, w, x) \cup ReleaseFiles(a, w, x), {}) :
     x \in AppByName(a, w, name)}

\* The tools of handleMcp that write.
Tool(a, w) ==
  UNION {
    (UNION {WriteDraft(a, w, name, path, content) : path \in Path, content \in Content})
      \cup (UNION {DeleteDraft(a, w, name, path) : path \in Path})
      \cup (UNION {SetAudience(a, w, name, audience) : audience \in Audience})
      \cup (UNION {InviteToApp(a, w, name, Email[b]) : b \in Actor})
      \cup Publish(a, w, name) \cup Unpublish(a, w, name) \cup DeleteApp(a, w, name) :
    name \in AppName}

----------------------------------------------------------------------------
\* The clients and the operator

\* The ids that rows of these kinds refer to, but no row has.
Missing(w, kinds) == {Ref(r) : r \in {r \in w : r.kind \in kinds}} \ ({0} \cup {r.id : r \in w})

Ids(w, kind) == {r.id : r \in Of(w, kind)} \cup {FreshId(w)}

\* The last is a ref to nothing.
Refs(w, kind) == {r.id : r \in Of(w, kind)} \cup {FreshId(w) + 1}

\* A row that a client may put: one with an id that is new, or missing though rows refer
\* to it, or a row there with one field changed.
Writable(w) ==
  [kind : {"app"}, id : Missing(w, {"draft", "release"}) \cup {FreshId(w)}, name : AppName,
   audience : {"members"}, invited : {{}}, live : Refs(w, "release") \cup {0}]
  \cup {[x EXCEPT !.live = live] : x \in Of(w, "app"), live \in Refs(w, "release") \cup {0}}
  \cup {[x EXCEPT !.audience = audience] : x \in Of(w, "app"), audience \in Audience}
  \cup {[x EXCEPT !.invited = invited] : x \in Of(w, "app"), invited \in SUBSET {Email[b] : b \in Actor}}
  \cup [kind : {"draft"}, id : Ids(w, "draft"), app : Refs(w, "app"), path : Path, content : Content]
  \cup [kind : {"release"}, id : Ids(w, "release") \cup Missing(w, {"app", "file"}),
        app : Refs(w, "app"), version : Version]
  \cup [kind : {"file"}, id : Ids(w, "file"), release : Refs(w, "release"), path : Path, content : Content]

\* A client's own transaction, through /api, with ids that it may know from before.  The
\* rows that belong to the deleted ones are left alone or have their refs set again.
ClientTransaction(w) ==
  UNION {LET orphans == {r \in w \ gone : r.kind # "app" /\ RefersTo(r, gone)}
         IN  [gone : {gone}, put : {{}, orphans} \cup {{p} : p \in Writable(w)}] :
         gone \in {{}} \cup {{g} : g \in w}}

\* The apps and releases of which a transaction puts a row or sets the live pointer.
ByHand(w, gone, put) ==
  {Ref(p) : p \in {p \in put : p.kind # "app"}}
    \cup {p.id : p \in {p \in Of(put, "app") :
                        p.live # 0 /\ ~ \E r \in Without(w, gone) : SameRow(r, p) /\ r.live = p.live}}

\* The operator's delete-app sees every row and asks no rule.
OperatorDeleteApp(w, name) ==
  LET whole(x) == {r \in w : x \in AppOf(w, r)}
  IN  {Without(w, whole(x)) : x \in {x \in Of(w, "app") : x.name = name}}

----------------------------------------------------------------------------
\* platform/policy.ts, SPEC 4.5: no row outlives what it belongs to, and an app's live
\* pointer is nothing or a release of that app, whoever deletes what, except where a
\* client itself wrote the row or the pointer.
AppsAreWhole ==
  /\ \A r \in rows : r.kind # "app" =>
       \/ Ref(r) \in hand
       \/ \E s \in Of(rows, IF r.kind = "file" THEN "release" ELSE "app") : s.id = Ref(r)
  /\ \A x \in Of(rows, "app") :
       \/ x.id \in hand
       \/ x.live # 0 => \E r \in Of(rows, "release") : r.id = x.live /\ r.app = x.id

\* platform.ts on writeDraft and publish: within an app there is one draft for a path
\* and one release of a version, and within a release one file for a path, although
\* each is looked up among the rows its writer may read, unless a client itself wrote
\* rows of that app or release.
NothingTwice ==
  \A r, s \in rows :
    \/ r = s \/ r.kind # s.kind
    \/ r.kind = "app" \/ Ref(r) \in hand
    \/ r.kind = "draft"   /\ (r.app # s.app \/ r.path # s.path)
    \/ r.kind = "release" /\ (r.app # s.app \/ r.version # s.version)
    \/ r.kind = "file"    /\ (r.release # s.release \/ r.path # s.path)
    \/ r.kind = "file"    /\ \E x \in Of(rows, "release") : x.id = r.release /\ x.app \in hand
=============================================================================
