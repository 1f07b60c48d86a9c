--------------------------- MODULE Workspace_proof ---------------------------
(***************************************************************************)
(* For any actors, apps, paths and isolates: whatever tools, clients and   *)
(* the operator do in whatever order, the rows of a workspace stay whole   *)
(* and distinct and releases frozen, save where a client's own transaction *)
(* wrote the rows (hand), and who wrote held the role.                     *)
(***************************************************************************)
EXTENDS Workspace, WellFoundedInduction, TLAPS

----------------------------------------------------------------------------
\* The largest of a set of naturals

LEMMA LeastNumber ==
  ASSUME NEW T \in SUBSET Nat, T # {}
  PROVE  \E k \in T : \A j \in T : k <= j
<1> DEFINE R == {ss \in Nat \X Nat : ss[1] < ss[2]}
<1>1. IsWellFoundedOn(R, Nat)
  BY NatLessThanWellFounded, Zenon DEF OpToRel
<1>2. \A x, y \in Nat : y < x => <<y, x>> \in R
  OBVIOUS
<1> HIDE DEF R
<1>3. PICK k \in T : \A y \in T : <<y, k>> \notin R
  BY <1>1, WFMin
<1>4. \A j \in T : k \in Nat /\ j \in Nat /\ ~ (j < k)
  BY <1>2, <1>3
<1>5. \A j \in T : k <= j
  BY <1>4
<1> QED BY <1>5

LEMMA MaxOfBounded ==
  ASSUME NEW T \in SUBSET Nat, T # {}, NEW b \in Nat, \A x \in T : x <= b
  PROVE  Max(T) \in T /\ \A x \in T : x <= Max(T)
<1> DEFINE U == {n \in Nat : \A x \in T : x <= n}
<1>1. PICK m \in U : \A j \in U : m <= j
  <2>1. b \in U /\ U \in SUBSET Nat
    OBVIOUS
  <2> HIDE DEF U
  <2> QED BY <2>1, LeastNumber
<1>2. m \in T
  <2> SUFFICES ASSUME m \notin T PROVE FALSE
    OBVIOUS
  <2>1. PICK x \in T : TRUE
    OBVIOUS
  <2>2. \A y \in T : y <= m - 1 /\ m - 1 \in Nat
    OBVIOUS
  <2>3. m - 1 \in U
    BY <2>1, <2>2
  <2> QED BY <1>1, <2>3
<1>3. \A x \in T : m >= x
  OBVIOUS
<1>4. Max(T) \in T /\ \A x \in T : Max(T) >= x
  BY <1>2, <1>3 DEF Max
<1> QED BY <1>4

----------------------------------------------------------------------------
\* The rows of a workspace

AppRow == [kind : {"app"}, id : Nat \ {0}, name : AppName, audience : Audience,
           invited : SUBSET {Email[a] : a \in Actor}, live : Nat]

DraftRow == [kind : {"draft"}, id : Nat \ {0}, app : Nat \ {0}, path : Path, content : Content]

ReleaseRow == [kind : {"release"}, id : Nat \ {0}, app : Nat \ {0}, version : Nat]

FileRow == [kind : {"file"}, id : Nat \ {0}, release : Nat \ {0}, path : Path, content : Content]

Row == AppRow \cup DraftRow \cup ReleaseRow \cup FileRow

Bounded(w) ==
  \E n \in Nat : \A r \in w : r.id <= n /\ Ref(r) <= n /\ (r.kind = "release" => r.version <= n)

UniqueIds(w) == \A r, s \in w : r.id = s.id => r = s

\* Two rows that say the same thing twice.
Clash(r, s) ==
  /\ r.kind = s.kind
  /\ \/ r.kind = "draft"   /\ r.app = s.app /\ r.path = s.path
     \/ r.kind = "release" /\ r.app = s.app /\ r.version = s.version
     \/ r.kind = "file"    /\ r.release = s.release /\ r.path = s.path

\* The kind of row that r refers to.
Target(r) == IF r.kind \in {"app", "file"} THEN "release" ELSE "app"

Typed(w) ==
  \A r, s \in w :
    /\ s.id = Ref(r) => s.kind = Target(r)
    /\ Ref(r) = Ref(s) /\ Ref(r) # 0 => Target(r) = Target(s)

\* The row that r belongs to is there.
HasOwner(w, r) == \E s \in Of(w, Target(r)) : s.id = Ref(r)

\* A client wrote rows of the app or release that r belongs to (H is the hand variable).
Marked(w, H, r) ==
  \/ Ref(r) \in H
  \/ r.kind = "file" /\ \E z \in Of(w, "release") : z.id = r.release /\ z.app \in H

\* The live pointer of an app is nothing or one of its releases.
PointsWell(w, x) == x.live # 0 => \E r \in Of(w, "release") : r.id = x.live /\ r.app = x.id

Owned(w, H) == \A r \in w : r.kind # "app" => Ref(r) \in H \/ HasOwner(w, r)

LivePointers(w, H) == \A x \in Of(w, "app") : x.id \in H \/ PointsWell(w, x)

Distinct(w, H) == \A r, s \in w : r = s \/ ~ Clash(r, s) \/ Marked(w, H, r)

Sound(w, H) ==
  /\ w \subseteq Row /\ Bounded(w) /\ UniqueIds(w) /\ Typed(w)
  /\ Owned(w, H) /\ LivePointers(w, H) /\ Distinct(w, H)

\* The files of v are those of w, or of a release that w does not have or a client wrote in.
Frozen(w, v, H) ==
  \A f \in Of(v, "file") : f \in w \/ f.release \in H \/ (\A r \in Of(w, "release") : r.id # f.release)

LEMMA RowKinds ==
  ASSUME NEW r \in Row
  PROVE  /\ r.id \in Nat \ {0} /\ Ref(r) \in Nat
         /\ r.kind \in {"app", "draft", "release", "file"}
         /\ r.kind = "app" => r \in AppRow /\ Ref(r) = r.live
         /\ r.kind = "draft" => r \in DraftRow /\ Ref(r) = r.app
         /\ r.kind = "release" => r \in ReleaseRow /\ Ref(r) = r.app
         /\ r.kind = "file" => r \in FileRow /\ Ref(r) = r.release
BY DEF Row, AppRow, DraftRow, ReleaseRow, FileRow, Ref

LEMMA ClashingRefs ==
  ASSUME NEW r, NEW s, Clash(r, s)
  PROVE  /\ Clash(s, r) /\ r.kind = s.kind /\ r.kind # "app" /\ Ref(r) = Ref(s)
         /\ \A w, H : Marked(w, H, r) <=> Marked(w, H, s)
<1>1. Clash(s, r) /\ r.kind = s.kind /\ r.kind # "app"
  BY DEF Clash
<1>2. Ref(r) = Ref(s) /\ (r.kind = "file" => r.release = s.release)
  BY DEF Clash, Ref
<1> QED BY <1>1, <1>2 DEF Marked

LEMMA SoundEmpty == Sound({}, {})
<1>1. Bounded({})
  <2>1. \A r \in {} : r.id <= 0 /\ Ref(r) <= 0 /\ (r.kind = "release" => r.version <= 0)
    OBVIOUS
  <2> QED BY <2>1 DEF Bounded
<1> QED BY <1>1 DEF Sound, UniqueIds, Typed, Owned, LivePointers, Distinct, Of

\* The id of a new row is above all others and no row refers to it.
LEMMA FreshIdIsNew ==
  ASSUME NEW w, w \subseteq Row, Bounded(w)
  PROVE  FreshId(w) \in Nat \ {0} /\ \A r \in w : r.id < FreshId(w) /\ Ref(r) < FreshId(w)
<1> DEFINE T == {0} \cup Known(w)
<1>1. PICK n \in Nat : \A r \in w : r.id <= n /\ Ref(r) <= n
  BY DEF Bounded
<1>2. \A r \in w : r.id \in Nat /\ Ref(r) \in Nat
  BY RowKinds
<1>3. T \in SUBSET Nat /\ T # {} /\ \A x \in T : x <= n
  BY <1>1, <1>2 DEF Known
<1>4. Max(T) \in T /\ \A x \in T : x <= Max(T)
  <2> HIDE DEF T
  <2> QED BY <1>3, MaxOfBounded
<1>5. FreshId(w) = Max(T) + 1
  BY DEF FreshId
<1>6. \A r \in w : r.id \in T /\ Ref(r) \in T
  BY DEF Known
<1> HIDE DEF T
<1>7. \A r \in w : r.id \in Nat /\ r.id <= Max(T) /\ Ref(r) \in Nat /\ Ref(r) <= Max(T)
  BY <1>2, <1>4, <1>6
<1>8. Max(T) \in Nat
  BY <1>3, <1>4
<1>9. Max(T) + 1 \in Nat \ {0}
  BY <1>8
<1>10. \A r \in w : r.id < Max(T) + 1 /\ Ref(r) < Max(T) + 1
  BY <1>7, <1>8
<1> QED BY <1>5, <1>9, <1>10

----------------------------------------------------------------------------
\* What a transaction leaves

\* A row that stays, without the optional ref to what was deleted (tx.delete).
Swept(gone, r) == IF r.kind = "app" /\ RefersTo(r, gone) THEN [r EXCEPT !.live = 0] ELSE r

LEMMA SweptRow ==
  ASSUME NEW gone, NEW r \in Row
  PROVE  /\ Swept(gone, r) \in Row /\ Swept(gone, r).id = r.id /\ Swept(gone, r).kind = r.kind
         /\ r.kind # "app" => Swept(gone, r) = r
         /\ r.kind = "app" =>
              /\ Swept(gone, r).live = 0 \/ Swept(gone, r).live = r.live
              /\ RefersTo(r, gone) => Swept(gone, r).live = 0
<1>1. CASE r.kind = "app" /\ RefersTo(r, gone)
  <2>1. r \in AppRow /\ Swept(gone, r) = [r EXCEPT !.live = 0]
    BY <1>1, RowKinds DEF Swept
  <2>2. [r EXCEPT !.live = 0] \in AppRow
    BY <2>1 DEF AppRow
  <2>3. /\ [r EXCEPT !.live = 0].id = r.id /\ [r EXCEPT !.live = 0].kind = r.kind
        /\ [r EXCEPT !.live = 0].live = 0
    BY <2>1 DEF AppRow
  <2> QED BY <1>1, <2>1, <2>2, <2>3 DEF Row
<1>2. CASE ~ (r.kind = "app" /\ RefersTo(r, gone))
  BY <1>2 DEF Swept
<1> QED BY <1>1, <1>2

\* What a transaction leaves is put, or was there, is not deleted and is not put anew.
LEMMA AfterRows ==
  ASSUME NEW w, w \subseteq Row, NEW gone, NEW put
  PROVE  \A s : s \in After(w, gone, put) <=>
                  \/ s \in put
                  \/ \E r \in w \ gone : s = Swept(gone, r) /\ ~ \E p \in put : SameRow(p, r)
<1>1. Without(w, gone) = {Swept(gone, r) : r \in w \ gone}
  BY DEF Without, Swept
<1>2. \A r \in w : \A p : SameRow(p, Swept(gone, r)) <=> SameRow(p, r)
  BY SweptRow DEF SameRow
<1> QED BY <1>1, <1>2 DEF After

\* Rows to delete and to put that make sense together.
Fit(w, gone, put) ==
  /\ gone \subseteq w
  /\ put \subseteq Row /\ Bounded(put) /\ UniqueIds(put)
  /\ \A p \in put, r \in w : p.id = r.id => p.kind = r.kind
  /\ Typed(w \cup put)

\* The rows put belong somewhere, point well and repeat nothing, or are marked.
PutsWell(w, v, H, put) ==
  \A p \in put :
    /\ p.kind # "app" => Ref(p) \in H \/ HasOwner(v, p)
    /\ p.kind = "app" => p.id \in H \/ PointsWell(v, p)
    /\ \A s \in v : p = s \/ ~ Clash(p, s) \/ Marked(v, H, p)
    /\ p.kind = "file" => p \in w \/ p.release \in H \/ (\A r \in Of(w, "release") : r.id # p.release)

LEMMA TransactionIsSound ==
  ASSUME NEW w, NEW H, Sound(w, H), NEW G, H \subseteq G,
         NEW gone, NEW put, Fit(w, gone, put), NEW v, v = After(w, gone, put),
         \A z \in Of(w, "release") : z \in gone \/ z \in v,
         NoneLeftWithout(w, gone, put), PutsWell(w, v, G, put)
  PROVE  Sound(v, G) /\ Frozen(w, v, G)
<1>1. w \subseteq Row /\ put \subseteq Row /\ gone \subseteq w
  BY DEF Sound, Fit
<1>2. \A s : s \in v <=> \/ s \in put
                         \/ \E r \in w \ gone : s = Swept(gone, r) /\ ~ \E p \in put : SameRow(p, r)
  BY <1>1, AfterRows
<1>3. ASSUME NEW s \in v, s \notin put
      PROVE  \E r \in w \ gone : /\ s = Swept(gone, r) /\ ~ \E p \in put : SameRow(p, r)
                                 /\ s \in Row /\ s.id = r.id /\ s.kind = r.kind
                                 /\ s.kind # "app" => s = r
  BY <1>1, <1>2, <1>3, SweptRow
<1>4. v \subseteq Row
  BY <1>1, <1>3
\* A row that is not deleted stays, whatever becomes of it.
<1>5. ASSUME NEW r \in w, r \notin gone
      PROVE  \E s \in v : s.id = r.id /\ s.kind = r.kind
  <2>1. CASE \E p \in put : SameRow(p, r)
    BY <1>2, <2>1 DEF SameRow
  <2>2. CASE ~ \E p \in put : SameRow(p, r)
    <3>1. Swept(gone, r) \in v
      BY <1>2, <1>5, <2>2
    <3> QED BY <1>1, <3>1, SweptRow
  <2> QED BY <2>1, <2>2
<1>6. ASSUME NEW r \in w, r \notin gone, ~ \E p \in put : SameRow(p, r), r.kind # "app",
             NEW o \in w, o.id = Ref(r)
      PROVE  o \notin gone
  BY <1>6 DEF NoneLeftWithout, RefersTo
<1>7. Bounded(v)
  <2>1. PICK n \in Nat : \A r \in w : r.id <= n /\ Ref(r) <= n /\ (r.kind = "release" => r.version <= n)
    BY DEF Sound, Bounded
  <2>2. PICK m \in Nat : \A r \in put : r.id <= m /\ Ref(r) <= m /\ (r.kind = "release" => r.version <= m)
    BY DEF Fit, Bounded
  <2>3. ASSUME NEW s \in v
        PROVE  s.id <= n + m /\ Ref(s) <= n + m /\ (s.kind = "release" => s.version <= n + m)
    <3>1. s.id \in Nat /\ Ref(s) \in Nat /\ (s.kind = "release" => s.version \in Nat)
      BY <1>4, RowKinds DEF ReleaseRow
    <3>2. CASE s \in put
      BY <2>2, <3>1, <3>2
    <3>3. CASE s \notin put
      <4>1. PICK r \in w \ gone : /\ s = Swept(gone, r) /\ s.id = r.id /\ s.kind = r.kind
                                  /\ s.kind # "app" => s = r
        BY <1>3, <3>3
      <4>2. s.id <= n /\ (s.kind # "app" => Ref(s) <= n /\ (s.kind = "release" => s.version <= n))
        BY <2>1, <4>1
      <4>3. s.kind = "app" => Ref(s) = 0 \/ Ref(s) = Ref(r)
        BY <1>1, <1>4, <4>1, SweptRow, RowKinds
      <4> QED BY <2>1, <3>1, <4>2, <4>3
    <3> QED BY <3>2, <3>3
  <2>4. n + m \in Nat
    OBVIOUS
  <2> QED BY <2>3, <2>4 DEF Bounded
<1>8. UniqueIds(v)
  <2> SUFFICES ASSUME NEW r \in v, NEW s \in v, r.id = s.id PROVE r = s
    BY DEF UniqueIds
  <2>1. CASE r \in put /\ s \in put
    BY <2>1 DEF Fit, UniqueIds
  <2>2. ASSUME NEW p \in put, NEW q \in v, q \notin put, p.id = q.id PROVE FALSE
    <3>1. PICK y \in w \ gone : q.id = y.id /\ ~ SameRow(p, y)
      BY <1>3, <2>2
    <3> QED BY <2>2, <3>1 DEF Fit, SameRow
  <2>3. CASE r \notin put /\ s \notin put
    <3>1. PICK x \in w \ gone : r = Swept(gone, x) /\ r.id = x.id
      BY <1>3, <2>3
    <3>2. PICK y \in w \ gone : s = Swept(gone, y) /\ s.id = y.id
      BY <1>3, <2>3
    <3> QED BY <3>1, <3>2 DEF Sound, UniqueIds
  <2> QED BY <2>1, <2>2, <2>3
<1>9. Owned(v, G)
  <2> SUFFICES ASSUME NEW s \in v, s.kind # "app", s \notin put, Ref(s) \notin G PROVE HasOwner(v, s)
    BY DEF Owned, PutsWell
  <2>1. s \in w /\ s \notin gone /\ ~ \E p \in put : SameRow(p, s)
    BY <1>3
  <2>2. PICK o \in Of(w, Target(s)) : o.id = Ref(s)
    BY <2>1 DEF Sound, Owned, HasOwner
  <2>3. o \in w /\ o \notin gone
    BY <1>6, <2>1, <2>2 DEF Of
  <2>4. PICK q \in v : q.id = o.id /\ q.kind = o.kind
    BY <1>5, <2>3
  <2> QED BY <2>2, <2>4 DEF HasOwner, Of
<1>10. LivePointers(v, G)
  <2> SUFFICES ASSUME NEW x \in Of(v, "app"), x \notin put, x.id \notin G, x.live # 0
               PROVE  \E z \in Of(v, "release") : z.id = x.live /\ z.app = x.id
    BY DEF LivePointers, PutsWell, PointsWell, Of
  <2>1. PICK y \in w \ gone : x = Swept(gone, y) /\ x.id = y.id /\ x.kind = y.kind
    BY <1>3 DEF Of
  <2>2. y.kind = "app" /\ y \in Row /\ y.live = x.live /\ ~ RefersTo(y, gone) /\ Ref(y) = y.live
    BY <1>1, <2>1, SweptRow, RowKinds DEF Of
  <2>3. PICK z \in Of(w, "release") : z.id = y.live /\ z.app = y.id
    BY <2>1, <2>2 DEF Sound, LivePointers, PointsWell, Of
  <2>4. z \notin gone
    BY <2>2, <2>3 DEF RefersTo
  <2> QED BY <2>1, <2>2, <2>3, <2>4 DEF Of
<1>11. Distinct(v, G)
  <2> SUFFICES ASSUME NEW r \in v, NEW s \in v, Clash(r, s), r # s PROVE Marked(v, G, r)
    BY DEF Distinct
  <2>1. CASE r \in put
    BY <2>1 DEF PutsWell
  <2>2. CASE s \in put
    <3>1. Clash(s, r) /\ (Marked(v, G, r) <=> Marked(v, G, s))
      BY ClashingRefs
    <3> QED BY <2>2, <3>1 DEF PutsWell
  <2>3. CASE r \notin put /\ s \notin put
    <3>1. /\ r \in w /\ s \in w /\ r \notin gone
          /\ ~ \E p \in put : SameRow(p, r)
      BY <1>3, <2>3, ClashingRefs
    <3>2. Marked(w, H, r)
      BY <3>1 DEF Sound, Distinct
    <3>3. CASE Ref(r) \in H
      BY <3>3 DEF Marked
    <3>4. ASSUME r.kind = "file", NEW z \in Of(w, "release"), z.id = r.release, z.app \in H
          PROVE  Marked(v, G, r)
      <4>1. z.id = Ref(r) /\ z \in w
        BY <1>1, <3>1, <3>4, RowKinds DEF Of
      <4>2. z \in v
        BY <1>6, <3>1, <3>4, <4>1
      <4> QED BY <3>4, <4>2 DEF Marked, Of
    <3> QED BY <3>2, <3>3, <3>4 DEF Marked
  <2> QED BY <2>1, <2>2, <2>3
<1>12. Frozen(w, v, G)
  <2> SUFFICES ASSUME NEW f \in Of(v, "file"), f \notin w
               PROVE  f.release \in G \/ (\A r \in Of(w, "release") : r.id # f.release)
    BY DEF Frozen
  <2>1. f \in put
    BY <1>3 DEF Of
  <2> QED BY <2>1 DEF PutsWell, Of
<1>13. Typed(v)
  <2>1. \A s \in v : \E o \in w \cup put : s.id = o.id /\ s.kind = o.kind /\ (Ref(s) = 0 \/ Ref(s) = Ref(o))
    <3> TAKE s \in v
    <3>1. CASE s \in put
      BY <3>1
    <3>2. CASE s \notin put
      <4>1. PICK r \in w \ gone : s = Swept(gone, r) /\ s.id = r.id /\ s.kind = r.kind /\ (s.kind # "app" => s = r)
        BY <1>3, <3>2
      <4>2. s.kind = "app" => Ref(s) = 0 \/ Ref(s) = Ref(r)
        BY <1>1, <1>4, <4>1, SweptRow, RowKinds
      <4> QED BY <4>1, <4>2
    <3> QED BY <3>1, <3>2
  <2>2. \A s \in v : s.id # 0
    BY <1>4, RowKinds
  <2>3. \A r, s : r.kind = s.kind => Target(r) = Target(s)
    BY DEF Target
  <2> SUFFICES ASSUME NEW r \in v, NEW s \in v
               PROVE  /\ s.id = Ref(r) => s.kind = Target(r)
                      /\ Ref(r) = Ref(s) /\ Ref(r) # 0 => Target(r) = Target(s)
    BY DEF Typed
  <2>4. PICK o \in w \cup put : r.id = o.id /\ r.kind = o.kind /\ (Ref(r) = 0 \/ Ref(r) = Ref(o))
    BY <2>1
  <2>5. PICK q \in w \cup put : s.id = q.id /\ s.kind = q.kind /\ (Ref(s) = 0 \/ Ref(s) = Ref(q))
    BY <2>1
  <2>6. /\ q.id = Ref(o) => q.kind = Target(o)
        /\ Ref(o) = Ref(q) /\ Ref(o) # 0 => Target(o) = Target(q)
    BY DEF Fit, Typed
  <2> QED BY <2>2, <2>3, <2>4, <2>5, <2>6
<1> QED BY <1>4, <1>7, <1>8, <1>9, <1>10, <1>11, <1>12, <1>13 DEF Sound

\* Marks that no row knows of can be forgotten.
LEMMA MarksAreKnown ==
  ASSUME NEW w, NEW v, NEW G, Sound(v, G), Frozen(w, v, G)
  PROVE  Sound(v, G \cap Known(v)) /\ Frozen(w, v, G \cap Known(v))
<1> DEFINE F == G \cap Known(v)
<1>1. \A r \in v : (r.id \in G => r.id \in F) /\ (Ref(r) \in G => Ref(r) \in F)
  BY DEF Known
<1>2. v \subseteq Row
  BY DEF Sound
<1> HIDE DEF F
<1>3. Owned(v, F)
  BY <1>1 DEF Sound, Owned
<1>4. LivePointers(v, F)
  BY <1>1 DEF Sound, LivePointers, Of
<1>5. \A r \in v : Marked(v, G, r) => Marked(v, F, r)
  <2> SUFFICES ASSUME NEW r \in v, r.kind = "file",
                      NEW z \in Of(v, "release"), z.id = r.release, z.app \in G
               PROVE  z.app \in F
    BY <1>1 DEF Marked
  <2>1. z \in v /\ Ref(z) = z.app
    BY <1>2, RowKinds DEF Of
  <2> QED BY <1>1, <2>1
<1>6. Distinct(v, F)
  BY <1>5 DEF Sound, Distinct
<1>7. Frozen(w, v, F)
  <2>1. \A f \in Of(v, "file") : f \in v /\ Ref(f) = f.release
    BY <1>2, RowKinds DEF Of
  <2> QED BY <1>1, <2>1 DEF Frozen
<1> QED BY <1>3, <1>4, <1>6, <1>7 DEF Sound, F

----------------------------------------------------------------------------
\* What the rules allow

\* Members alone change rows, and admins alone change or take releases and files.
Ruled(a, w, v) ==
  IsMember(a) /\ \A r \in w \ v : r.kind \in {"release", "file"} => people[a] = "admin"

\* What a transaction of actor a may make of w.
Orderly(a, w, H, v) == v = w \/ (Sound(v, H) /\ Frozen(w, v, H) /\ Ruled(a, w, v))

LEMMA RulesNeedStanding ==
  ASSUME NEW a, NEW w, NEW gone, NEW v, UniqueIds(v), Authorized(a, w, gone, v), v # w
  PROVE  Ruled(a, w, v)
<1>1. ASSUME NEW r \in w \ v
      PROVE  IsMember(a) /\ (r.kind \in {"release", "file"} => people[a] = "admin")
  <2>1. CASE r \in gone
    <3>1. MayDelete(a, w, r)
      BY <2>1 DEF Authorized
    <3> QED BY <3>1 DEF MayDelete, IsMember, Role
  <2>2. CASE r \notin gone
    <3>1. MayUpdate(a, w, r)
      BY <2>2 DEF Authorized
    <3> QED BY <3>1 DEF MayUpdate
  <2> QED BY <2>1, <2>2
<1>2. ASSUME NEW s \in v, s \notin w PROVE IsMember(a)
  <2>1. CASE s \in Lost(v, w)
    BY <2>1 DEF Authorized, MayCreate
  <2>2. CASE s \notin Lost(v, w)
    <3>1. PICK r \in w : r.id = s.id
      BY <2>2 DEF Lost, SameRow
    <3>2. r \notin v
      BY <1>2, <3>1 DEF UniqueIds
    <3> QED BY <1>1, <3>2
  <2> QED BY <2>1, <2>2
<1> QED BY <1>1, <1>2 DEF Ruled

LEMMA ReleasesStay ==
  ASSUME NEW a, NEW w, NEW gone, NEW v, Authorized(a, w, gone, v)
  PROVE  \A z \in Of(w, "release") : z \in gone \/ z \in v
BY DEF Authorized, MayUpdate, Of

LEMMA TransactsOrderly ==
  ASSUME NEW a, NEW w, NEW H, Sound(w, H), NEW G, H \subseteq G, NEW gone, NEW put, Fit(w, gone, put),
         Authorized(a, w, gone, After(w, gone, put)) => PutsWell(w, After(w, gone, put), G, put)
  PROVE  Orderly(a, w, G, Transacted(a, w, gone, put))
<1> DEFINE v == After(w, gone, put)
<1>1. CASE Authorized(a, w, gone, v) /\ NoneLeftWithout(w, gone, put)
  <2>1. Transacted(a, w, gone, put) = v
    BY <1>1 DEF Transacted
  <2>2. PutsWell(w, v, G, put) /\ \A z \in Of(w, "release") : z \in gone \/ z \in v
    BY <1>1, ReleasesStay
  <2> HIDE DEF v
  <2>3. Sound(v, G) /\ Frozen(w, v, G)
    BY <1>1, <2>2, TransactionIsSound DEF v
  <2>4. v = w \/ Ruled(a, w, v)
    BY <1>1, <2>3, RulesNeedStanding DEF Sound
  <2> QED BY <2>1, <2>3, <2>4 DEF Orderly
<1>2. CASE ~ (Authorized(a, w, gone, v) /\ NoneLeftWithout(w, gone, put))
  BY <1>2 DEF Transacted, Orderly
<1> QED BY <1>1, <1>2

----------------------------------------------------------------------------
\* The tools

\* Deletes alone.
LEMMA RemovalIsOrderly ==
  ASSUME NEW a, NEW w, NEW H, Sound(w, H), NEW gone \in SUBSET w
  PROVE  Orderly(a, w, H, Transacted(a, w, gone, {}))
<1>1. Bounded({})
  BY SoundEmpty DEF Sound
<1>2. Typed(w \cup {})
  BY DEF Sound, Typed
<1>3. Fit(w, gone, {}) /\ PutsWell(w, After(w, gone, {}), H, {})
  BY <1>1, <1>2 DEF Fit, PutsWell, UniqueIds
<1> QED BY <1>3, TransactsOrderly

\* What is put when nothing is deleted is there, with all it does not replace.
LEMMA PutRows ==
  ASSUME NEW w, w \subseteq Row, NEW put
  PROVE  \A s : s \in After(w, {}, put) <=> s \in put \/ (s \in w /\ ~ \E p \in put : SameRow(p, s))
<1>1. \A r : Swept({}, r) = r
  BY DEF Swept, RefersTo
<1> QED BY <1>1, AfterRows

\* A set with a single row.
LEMMA OneRow ==
  ASSUME NEW p \in Row
  PROVE  {p} \subseteq Row /\ Bounded({p}) /\ UniqueIds({p})
<1>1. p.id \in Nat /\ Ref(p) \in Nat /\ (p.kind = "release" => p.version \in Nat)
  BY RowKinds DEF ReleaseRow
<1>2. CASE p.kind = "release"
  <2>1. \A r \in {p} : /\ r.id <= p.id + Ref(p) + p.version /\ Ref(r) <= p.id + Ref(p) + p.version
                       /\ r.version <= p.id + Ref(p) + p.version
    BY <1>1, <1>2
  <2>2. p.id + Ref(p) + p.version \in Nat
    BY <1>1, <1>2
  <2> QED BY <2>1, <2>2 DEF Bounded, UniqueIds
<1>3. CASE p.kind # "release"
  <2>1. \A r \in {p} : r.id <= p.id + Ref(p) /\ Ref(r) <= p.id + Ref(p) /\ r.kind # "release"
    BY <1>1, <1>3
  <2>2. p.id + Ref(p) \in Nat
    BY <1>1
  <2> QED BY <2>1, <2>2 DEF Bounded, UniqueIds
<1> QED BY <1>2, <1>3

\* The id of a row put is new, that of a row of its kind or one that only refs to its kind
\* have.
Named(w, p) ==
  \/ \A s \in w : s.id # p.id /\ Ref(s) # p.id
  \/ \E x \in w : x.id = p.id /\ x.kind = p.kind
  \/ \E x \in w : Ref(x) = p.id /\ Target(x) = p.kind /\ \A s \in w : s.id # p.id

\* It refers to nothing, to a row of the right kind, or to what another row refers to.
Refers(w, p) ==
  \/ Ref(p) = 0
  \/ \E o \in w : o.id = Ref(p) /\ o.kind = Target(p)
  \/ \E x \in w : Ref(x) = Ref(p) /\ Target(x) = Target(p)

LEMMA PutIsTyped ==
  ASSUME NEW w, w \subseteq Row, UniqueIds(w), Typed(w),
         NEW put, put \subseteq Row, \A p \in put : Named(w, p) /\ Refers(w, p)
  PROVE  Typed(w \cup put)
<1> SUFFICES ASSUME NEW r \in w \cup put, NEW s \in w \cup put
             PROVE  /\ s.id = Ref(r) => s.kind = Target(r)
                    /\ Ref(r) = Ref(s) /\ Ref(r) # 0 => Target(r) = Target(s)
  BY DEF Typed
<1>1. r.id # 0 /\ s.id # 0
  BY RowKinds
<1>2. /\ \A o, x \in w : o.id = Ref(x) => o.kind = Target(x)
      /\ \A o, x \in w : Ref(o) = Ref(x) /\ Ref(o) # 0 => Target(o) = Target(x)
      /\ \A o, x \in w : o.id = x.id => o = x
  BY DEF Typed, UniqueIds
<1>3. Refers(w, r) /\ Refers(w, s)
  BY DEF Refers
<1>4. Named(w, s)
  BY DEF Named
<1>5. ASSUME s.id = Ref(r) PROVE s.kind = Target(r)
  <2>1. CASE \A x \in w : x.id # s.id /\ Ref(x) # s.id
    BY <1>1, <1>3, <1>5, <2>1 DEF Refers
  <2>2. ASSUME NEW x \in w, x.id = s.id, x.kind = s.kind PROVE s.kind = Target(r)
    BY <1>1, <1>2, <1>3, <1>5, <2>2 DEF Refers
  <2>3. ASSUME NEW x \in w, Ref(x) = s.id, Target(x) = s.kind, \A o \in w : o.id # s.id
        PROVE  s.kind = Target(r)
    BY <1>1, <1>2, <1>3, <1>5, <2>3 DEF Refers
  <2> QED BY <1>4, <2>1, <2>2, <2>3 DEF Named
<1>6. ASSUME Ref(r) = Ref(s), Ref(r) # 0 PROVE Target(r) = Target(s)
  BY <1>2, <1>3, <1>6 DEF Refers
<1> QED BY <1>5, <1>6

\* An actor that may open an app sees all its releases and, as a member, all its drafts.
LEMMA OpenApps ==
  ASSUME NEW a, NEW w, w \subseteq Row, NEW name, NEW x \in AppByName(a, w, name)
  PROVE  /\ x \in Of(w, "app") /\ x \in AppRow /\ x \in w /\ x.name = name
         /\ Drafts(a, w, x) \subseteq {d \in Of(w, "draft") : d.app = x.id}
         /\ \A r \in Of(w, "release") : r.app = x.id => r \in Releases(a, w, x)
         /\ Releases(a, w, x) \subseteq Of(w, "release")
         /\ IsMember(a) => \A d \in Of(w, "draft") : d.app = x.id => d \in Drafts(a, w, x)
<1>1. x \in w /\ x.kind = "app" /\ x.name = name /\ MayOpenAppOf(a, w, x)
  BY DEF AppByName, Of, Readable
<1>2. AppOf(w, x) = {x}
  BY <1>1 DEF AppOf
<1>3. MayOpen(a, x)
  BY <1>1, <1>2 DEF MayOpenAppOf
<1>4. ASSUME NEW r \in w, r.kind \in {"release", "draft"}, r.app = x.id
      PROVE  MayOpenAppOf(a, w, r)
  <2>1. AppOf(w, r) = App(w, x.id)
    BY <1>4 DEF AppOf
  <2>2. x \in App(w, x.id)
    BY <1>1 DEF App, Of
  <2> QED BY <1>3, <2>1, <2>2 DEF MayOpenAppOf
<1>5. x \in AppRow
  BY <1>1, RowKinds
<1>6. \A r \in Of(w, "release") : r.app = x.id => r \in Releases(a, w, x)
  BY <1>4 DEF Of, Releases, Readable
<1>7. IsMember(a) => \A d \in Of(w, "draft") : d.app = x.id => d \in Drafts(a, w, x)
  BY <1>4 DEF Of, Drafts, Readable
<1>8. Releases(a, w, x) \subseteq Of(w, "release") /\ Drafts(a, w, x) \subseteq {d \in Of(w, "draft") : d.app = x.id}
  BY DEF Of, Releases, Drafts, Readable
<1> QED BY <1>1, <1>5, <1>6, <1>7, <1>8 DEF Of

LEMMA EditIsOrderly ==
  ASSUME NEW a, NEW w, NEW H, Sound(w, H), NEW name, NEW x \in AppByName(a, w, name),
         NEW y \in AppRow, y.id = x.id, y.live = 0 \/ y.live = x.live
  PROVE  Orderly(a, w, H, Transacted(a, w, {}, {y}))
<1> DEFINE v == After(w, {}, {y})
<1>1. w \subseteq Row /\ x \in Of(w, "app") /\ x \in w
  BY OpenApps DEF Sound
<1>2. y \in Row /\ y.kind = "app"
  BY DEF Row, AppRow
<1>3. Fit(w, {}, {y})
  <2>1. \A r \in w : r.id = y.id => r.kind = y.kind
    BY <1>1, <1>2 DEF Sound, UniqueIds, Of
  <2>2. x.kind = "app" /\ (Ref(y) = 0 \/ Ref(y) = Ref(x))
    BY <1>1, <1>2, RowKinds DEF Of
  <2>3. Named(w, y) /\ Refers(w, y)
    BY <1>1, <1>2, <2>2 DEF Named, Refers, Target
  <2>4. Typed(w \cup {y})
    BY <1>2, <2>3, PutIsTyped DEF Sound
  <2> QED BY <1>2, <2>1, <2>4, OneRow DEF Fit
<1>4. \A z \in Of(w, "release") : z \in Of(v, "release")
  BY <1>1, <1>2, PutRows DEF Of, SameRow
<1> HIDE DEF v
<1>5. y.id \in H \/ PointsWell(v, y)
  <2>1. x.id \in H \/ PointsWell(w, x)
    BY <1>1 DEF Sound, LivePointers
  <2> QED BY <1>4, <2>1 DEF PointsWell
<1>6. PutsWell(w, v, H, {y})
  BY <1>2, <1>5 DEF PutsWell, Clash
<1> QED BY <1>3, <1>6, TransactsOrderly DEF v

LEMMA SetAudienceIsOrderly ==
  ASSUME NEW a, NEW w, NEW H, Sound(w, H), NEW name, NEW audience \in Audience,
         NEW v \in SetAudience(a, w, name, audience)
  PROVE  Orderly(a, w, H, v)
<1>1. PICK x \in AppByName(a, w, name) :
        v = Transacted(a, w, {}, {[x EXCEPT !.audience = audience]})
  BY DEF SetAudience
<1>2. x \in AppRow
  BY OpenApps DEF Sound
<1> DEFINE y == [x EXCEPT !.audience = audience]
<1>3. y \in AppRow /\ y.id = x.id /\ y.live = x.live
  BY <1>2 DEF AppRow
<1> HIDE DEF y
<1>4. Orderly(a, w, H, Transacted(a, w, {}, {y}))
  BY <1>3, EditIsOrderly
<1> QED BY <1>1, <1>4 DEF y

LEMMA InviteToAppIsOrderly ==
  ASSUME NEW a, NEW w, NEW H, Sound(w, H), NEW name, NEW b \in Actor,
         NEW v \in InviteToApp(a, w, name, Email[b])
  PROVE  Orderly(a, w, H, v)
<1>1. PICK x \in AppByName(a, w, name) :
        v = Transacted(a, w, {}, {[x EXCEPT !.invited = x.invited \cup {Email[b]}]})
  BY DEF InviteToApp
<1>2. x \in AppRow
  BY OpenApps DEF Sound
<1> DEFINE y == [x EXCEPT !.invited = x.invited \cup {Email[b]}]
<1>3. y \in AppRow /\ y.id = x.id /\ y.live = x.live
  BY <1>2 DEF AppRow
<1> HIDE DEF y
<1>4. Orderly(a, w, H, Transacted(a, w, {}, {y}))
  BY <1>3, EditIsOrderly
<1> QED BY <1>1, <1>4 DEF y

LEMMA UnpublishIsOrderly ==
  ASSUME NEW a, NEW w, NEW H, Sound(w, H), NEW name, NEW v \in Unpublish(a, w, name)
  PROVE  Orderly(a, w, H, v)
<1>1. PICK x \in AppByName(a, w, name) :
        v = Transacted(a, w, {}, {[x EXCEPT !.live = 0]})
  BY DEF Unpublish
<1>2. x \in AppRow
  BY OpenApps DEF Sound
<1> DEFINE y == [x EXCEPT !.live = 0]
<1>3. y \in AppRow /\ y.id = x.id /\ y.live = 0
  BY <1>2 DEF AppRow
<1> HIDE DEF y
<1>4. Orderly(a, w, H, Transacted(a, w, {}, {y}))
  BY <1>3, EditIsOrderly
<1> QED BY <1>1, <1>4 DEF y

LEMMA DeletesAreOrderly ==
  ASSUME NEW a, NEW w, NEW H, Sound(w, H), NEW v
  PROVE  /\ \A name, path : v \in DeleteDraft(a, w, name, path) => Orderly(a, w, H, v)
         /\ \A name : v \in DeleteApp(a, w, name) => Orderly(a, w, H, v)
<1>1. ASSUME NEW name, NEW path, v \in DeleteDraft(a, w, name, path)
      PROVE  Orderly(a, w, H, v)
  <2>1. PICK d \in UNION {Drafts(a, w, x) : x \in AppByName(a, w, name)} :
          v = Transacted(a, w, {d}, {})
    BY <1>1 DEF DeleteDraft
  <2>2. {d} \in SUBSET w
    BY <2>1 DEF Drafts, Readable, Of
  <2> QED BY <2>1, <2>2, RemovalIsOrderly
<1>2. ASSUME NEW name, v \in DeleteApp(a, w, name)
      PROVE  Orderly(a, w, H, v)
  <2>1. PICK x \in AppByName(a, w, name) :
          v = Transacted(a, w, {x} \cup Drafts(a, w, x) \cup Releases(a, w, x)
                                  \cup ReleaseFiles(a, w, x), {})
    BY <1>2 DEF DeleteApp
  <2>2. {x} \cup Drafts(a, w, x) \cup Releases(a, w, x) \cup ReleaseFiles(a, w, x) \in SUBSET w
    BY DEF AppByName, Drafts, Releases, ReleaseFiles, Readable, Of
  <2> QED BY <2>1, <2>2, RemovalIsOrderly
<1> QED BY <1>1, <1>2

LEMMA NewDraftRow ==
  ASSUME NEW w, w \subseteq Row, Bounded(w), NEW app \in Nat \ {0}, NEW path \in Path, NEW content \in Content
  PROVE  /\ NewDraft(w, app, path, content) \in DraftRow
         /\ NewDraft(w, app, path, content).app = app
         /\ NewDraft(w, app, path, content).path = path
         /\ NewDraft(w, app, path, content).kind = "draft"
         /\ \A s \in w : s.id < NewDraft(w, app, path, content).id
<1>1. FreshId(w) \in Nat \ {0} /\ \A s \in w : s.id < FreshId(w)
  BY FreshIdIsNew
<1> QED BY <1>1 DEF NewDraft, DraftRow

LEMMA NewDraftIsOrderly ==
  ASSUME NEW a, NEW w, NEW H, Sound(w, H), NEW name, NEW x \in AppByName(a, w, name),
         NEW path \in Path, NEW content \in Content,
         \A d \in Drafts(a, w, x) : d.path # path
  PROVE  Orderly(a, w, H, Transacted(a, w, {}, {NewDraft(w, x.id, path, content)}))
<1> DEFINE e == NewDraft(w, x.id, path, content)
           v == After(w, {}, {e})
<1>1. w \subseteq Row /\ Bounded(w) /\ x \in w /\ x.kind = "app" /\ x.id \in Nat \ {0}
  <2>1. w \subseteq Row /\ Bounded(w)
    BY DEF Sound
  <2>2. x \in w /\ x \in AppRow
    BY <2>1, OpenApps
  <2> QED BY <2>1, <2>2 DEF AppRow
<1>2. e \in DraftRow /\ e.app = x.id /\ e.path = path /\ e.kind = "draft" /\ \A s \in w : s.id < e.id
  BY <1>1, NewDraftRow
<1> HIDE DEF e
<1>3. e \in Row /\ e.id \in Nat /\ Ref(e) = x.id /\ \A s \in w : s.id \in Nat /\ s.id # e.id
  BY <1>1, <1>2, RowKinds DEF DraftRow, Row
<1>4. Fit(w, {}, {e})
  <2>1. \A s \in w : Ref(s) # e.id
    <3>1. \A s \in w : Ref(s) < FreshId(w) /\ Ref(s) \in Nat
      BY <1>1, FreshIdIsNew, RowKinds
    <3>2. e.id = FreshId(w)
      BY DEF e, NewDraft
    <3> QED BY <1>3, <3>1, <3>2
  <2>2. Named(w, e) /\ Refers(w, e)
    BY <1>1, <1>2, <1>3, <2>1 DEF Named, Refers, Target
  <2>3. Typed(w \cup {e})
    BY <1>3, <2>2, PutIsTyped DEF Sound
  <2> QED BY <1>3, <2>3, OneRow DEF Fit
<1>5. \A s : s \in v <=> s = e \/ s \in w
  BY <1>1, <1>3, PutRows DEF SameRow
<1> HIDE DEF v
<1>6. ASSUME Authorized(a, w, {}, v), NEW s \in w, Clash(e, s) PROVE FALSE
  <2>1. e \in Lost(v, w)
    BY <1>3, <1>5 DEF Lost, SameRow
  <2>2. IsMember(a)
    BY <1>6, <2>1 DEF Authorized, MayCreate
  <2>3. s \in Of(w, "draft") /\ s.app = x.id /\ s.path = path
    BY <1>2, <1>6 DEF Clash, Of
  <2>4. s \in Drafts(a, w, x)
    BY <1>1, <2>2, <2>3, OpenApps
  <2> QED BY <2>3, <2>4
<1>7. HasOwner(v, e)
  BY <1>1, <1>2, <1>3, <1>5 DEF HasOwner, Of, Target
<1>8. Authorized(a, w, {}, v) => PutsWell(w, v, H, {e})
  BY <1>2, <1>5, <1>6, <1>7 DEF PutsWell
<1> QED BY <1>4, <1>8, TransactsOrderly DEF e, v

LEMMA RewrittenDraftIsOrderly ==
  ASSUME NEW a, NEW w, NEW H, Sound(w, H), NEW x \in Of(w, "app"), NEW d \in Of(w, "draft"), d.app = x.id,
         NEW e \in DraftRow, e.id = d.id, e.app = d.app, e.path = d.path
  PROVE  Orderly(a, w, H, Transacted(a, w, {}, {e}))
<1> DEFINE v == After(w, {}, {e})
<1>1. w \subseteq Row /\ d \in w /\ d.kind = "draft" /\ x \in w /\ x.kind = "app"
  BY DEF Sound, Of
<1>2. e \in Row /\ e.kind = "draft" /\ Ref(e) = x.id /\ Ref(d) = x.id
  BY <1>1, RowKinds DEF Row, DraftRow
<1>3. Fit(w, {}, {e})
  <2>1. \A r \in w : r.id = e.id => r.kind = e.kind
    BY <1>1, <1>2 DEF Sound, UniqueIds
  <2>2. Named(w, e) /\ Refers(w, e)
    BY <1>1, <1>2 DEF Named, Refers, Target
  <2>3. Typed(w \cup {e})
    BY <1>2, <2>2, PutIsTyped DEF Sound
  <2> QED BY <1>2, <2>1, <2>3, OneRow DEF Fit
<1>4. \A s : s \in v <=> s = e \/ (s \in w /\ ~ SameRow(e, s))
  BY <1>1, PutRows
<1> HIDE DEF v
<1>5. HasOwner(v, e)
  BY <1>1, <1>2, <1>4 DEF HasOwner, Of, SameRow, Target
<1>6. ASSUME NEW s \in v, Clash(e, s), s # e PROVE Marked(v, H, e)
  <2>1. s \in w /\ s # d /\ Clash(d, s)
    BY <1>1, <1>2, <1>4, <1>6 DEF Clash, SameRow
  <2>2. Marked(w, H, d)
    BY <1>1, <2>1 DEF Sound, Distinct
  <2> QED BY <1>1, <1>2, <2>2 DEF Marked
<1>7. PutsWell(w, v, H, {e})
  BY <1>2, <1>5, <1>6 DEF PutsWell
<1> QED BY <1>3, <1>7, TransactsOrderly DEF v

LEMMA FoundingIsOrderly ==
  ASSUME NEW a, NEW w, NEW H, Sound(w, H), NEW path \in Path, NEW content \in Content,
         NEW f \in AppRow, f.id = FreshId(w), f.live = 0
  PROVE  Orderly(a, w, H, Transacted(a, w, {}, {f, NewDraft(w \cup {f}, f.id, path, content)}))
<1> DEFINE u == w \cup {f}
           e == NewDraft(u, f.id, path, content)
           N == {f, e}
           v == After(w, {}, N)
<1>1. w \subseteq Row /\ Bounded(w) /\ f.id \in Nat \ {0} /\ f.kind = "app" /\ f \in Row /\ Ref(f) = 0
  BY RowKinds DEF Sound, AppRow, Row
<1>2. \A s \in w : s.id \in Nat /\ Ref(s) \in Nat /\ s.id < f.id /\ Ref(s) < f.id
  BY <1>1, FreshIdIsNew, RowKinds
<1>3. Bounded(u) /\ u \subseteq Row
  <2>1. PICK n \in Nat : \A r \in w : r.id <= n /\ Ref(r) <= n /\ (r.kind = "release" => r.version <= n)
    BY <1>1 DEF Bounded
  <2>2. \A s \in u : s.id <= f.id + n /\ Ref(s) <= f.id + n /\ (s.kind = "release" => s.version <= f.id + n)
    <3> TAKE s \in u
    <3>1. s.kind = "release" => s \in w /\ s.version \in Nat
      BY <1>1, RowKinds DEF ReleaseRow
    <3>2. s.id \in Nat /\ Ref(s) \in Nat
      BY <1>1, <1>2
    <3> QED BY <1>1, <1>2, <2>1, <3>1, <3>2
  <2>3. f.id + n \in Nat
    BY <1>1
  <2> QED BY <1>1, <2>2, <2>3 DEF Bounded
<1> HIDE DEF u
<1>4. e \in DraftRow /\ e.app = f.id /\ e.kind = "draft" /\ \A s \in u : s.id < e.id
  BY <1>1, <1>3, NewDraftRow
<1> HIDE DEF e
<1>5. e \in Row /\ e.id \in Nat /\ Ref(e) = f.id
  BY <1>4, RowKinds DEF Row, DraftRow
<1>6. f.id # e.id /\ f.id < e.id /\ \A s \in w : s.id # f.id /\ s.id # e.id
  BY <1>1, <1>2, <1>4, <1>5 DEF u
<1>7. Fit(w, {}, N)
  <2>1. \A r \in N : r.id <= e.id /\ Ref(r) <= e.id /\ r.kind # "release"
    BY <1>1, <1>4, <1>5, <1>6
  <2>2. Bounded(N)
    BY <1>5, <2>1 DEF Bounded
  <2>3. UniqueIds(u) /\ f \in u
    BY <1>2 DEF Sound, UniqueIds, u
  <2>4. Typed(u)
    <3>1. Named(w, f) /\ Refers(w, f)
      BY <1>1, <1>2 DEF Named, Refers
    <3> QED BY <1>1, <3>1, PutIsTyped DEF Sound, u
  <2>5. \A s \in u : s.id # e.id /\ Ref(s) # e.id
    BY <1>1, <1>2, <1>5, <1>6 DEF u
  <2>6. Named(u, e) /\ Refers(u, e)
    BY <1>1, <1>4, <1>5, <2>3, <2>5 DEF Named, Refers, Target
  <2>7. Typed(u \cup {e})
    BY <1>3, <1>5, <2>3, <2>4, <2>6, PutIsTyped
  <2>8. u \cup {e} = w \cup N
    BY DEF u
  <2> QED BY <1>1, <1>5, <1>6, <2>2, <2>7, <2>8 DEF Fit, UniqueIds
<1>8. \A s : s \in v <=> s \in N \/ s \in w
  BY <1>1, <1>6, PutRows DEF SameRow
<1> HIDE DEF v
<1>9. HasOwner(v, e)
  BY <1>1, <1>4, <1>5, <1>8 DEF HasOwner, Of, Target
<1>10. PointsWell(v, f)
  BY DEF PointsWell
<1>11. ASSUME NEW s \in v, Clash(e, s) PROVE s = e
  <2>1. Ref(s) = f.id /\ s.kind = "draft"
    BY <1>4, <1>5, <1>11, ClashingRefs
  <2> QED BY <1>1, <1>2, <1>8, <2>1
<1>12. PutsWell(w, v, H, N)
  BY <1>1, <1>4, <1>9, <1>10, <1>11 DEF PutsWell, Clash
<1>13. Orderly(a, w, H, Transacted(a, w, {}, N))
  <2> HIDE DEF N
  <2> QED BY <1>7, <1>12, TransactsOrderly DEF v
<1> QED BY <1>13 DEF e, u

LEMMA WriteDraftIsOrderly ==
  ASSUME NEW a, NEW w, NEW H, Sound(w, H), NEW name \in AppName, NEW path \in Path, NEW content \in Content,
         NEW v \in WriteDraft(a, w, name, path, content)
  PROVE  Orderly(a, w, H, v)
<1> DEFINE f == [kind |-> "app", id |-> FreshId(w), name |-> name,
                 audience |-> "members", invited |-> {}, live |-> 0]
           current(x) == {d \in Drafts(a, w, x) : d.path = path}
<1>1. \/ AppByName(a, w, name) = {}
         /\ v = Transacted(a, w, {}, {f, NewDraft(w \cup {f}, f.id, path, content)})
      \/ \E x \in AppByName(a, w, name) :
           \/ current(x) = {} /\ v = Transacted(a, w, {}, {NewDraft(w, x.id, path, content)})
           \/ \E d \in current(x) : v = Transacted(a, w, {}, {[d EXCEPT !.content = content]})
  BY DEF WriteDraft
<1>2. ASSUME v = Transacted(a, w, {}, {f, NewDraft(w \cup {f}, f.id, path, content)})
      PROVE  Orderly(a, w, H, v)
  <2>1. f \in AppRow /\ f.id = FreshId(w) /\ f.live = 0
    <3>1. FreshId(w) \in Nat \ {0}
      BY FreshIdIsNew DEF Sound
    <3> QED BY <3>1 DEF AppRow, Audience
  <2> HIDE DEF f
  <2> QED BY <1>2, <2>1, FoundingIsOrderly
<1>3. ASSUME NEW x \in AppByName(a, w, name), current(x) = {},
             v = Transacted(a, w, {}, {NewDraft(w, x.id, path, content)})
      PROVE  Orderly(a, w, H, v)
  BY <1>3, NewDraftIsOrderly
<1>4. ASSUME NEW x \in AppByName(a, w, name), NEW d \in current(x),
             v = Transacted(a, w, {}, {[d EXCEPT !.content = content]})
      PROVE  Orderly(a, w, H, v)
  <2>1. x \in Of(w, "app") /\ d \in Of(w, "draft") /\ d.app = x.id /\ d \in DraftRow
    <3>1. w \subseteq Row /\ d \in Drafts(a, w, x)
      BY DEF Sound
    <3>2. x \in Of(w, "app") /\ d \in Of(w, "draft") /\ d.app = x.id
      BY <3>1, OpenApps
    <3> QED BY <3>1, <3>2, RowKinds DEF Of
  <2> DEFINE e == [d EXCEPT !.content = content]
  <2>2. e \in DraftRow /\ e.id = d.id /\ e.app = d.app /\ e.path = d.path
    BY <2>1 DEF DraftRow
  <2> HIDE DEF e
  <2>3. Orderly(a, w, H, Transacted(a, w, {}, {e}))
    BY <2>1, <2>2, RewrittenDraftIsOrderly
  <2> QED BY <1>4, <2>3 DEF e
<1> HIDE DEF current, f
<1> QED BY <1>1, <1>2, <1>3, <1>4

\* The next version is above all releases of the app.
LEMMA NextVersionIsNew ==
  ASSUME NEW a, NEW w, w \subseteq Row, Bounded(w), NEW name, NEW x \in AppByName(a, w, name)
  PROVE  /\ NextVersion(a, w, x) \in Nat
         /\ \A r \in Of(w, "release") : r.app = x.id => r.version # NextVersion(a, w, x)
<1> DEFINE T == {0} \cup {r.version : r \in Releases(a, w, x)}
<1>1. PICK n \in Nat : \A r \in w : r.id <= n /\ (r.kind = "release" => r.version <= n)
  BY DEF Bounded
<1>2. \A r \in Releases(a, w, x) : r \in w /\ r.kind = "release"
  BY DEF Releases, Readable, Of
<1>3. \A r \in Releases(a, w, x) : r.version \in Nat /\ r.version <= n
  BY <1>1, <1>2, RowKinds DEF ReleaseRow
<1>4. T \in SUBSET Nat /\ T # {} /\ \A y \in T : y <= n
  BY <1>3
<1>5. NextVersion(a, w, x) = Max(T) + 1
  BY DEF NextVersion
<1>6. \A r \in Releases(a, w, x) : r.version \in T
  OBVIOUS
<1> HIDE DEF T
<1>7. Max(T) \in T /\ \A y \in T : y <= Max(T)
  BY <1>4, MaxOfBounded
<1>8. Max(T) \in Nat
  BY <1>4, <1>7
<1>9. \A r \in Releases(a, w, x) : r.version # Max(T) + 1
  BY <1>3, <1>6, <1>7, <1>8
<1>10. \A r \in Of(w, "release") : r.app = x.id => r \in Releases(a, w, x)
  BY OpenApps
<1> QED BY <1>5, <1>8, <1>9, <1>10

\* The file a release gets of a draft.
Copied(id, d) ==
  [kind |-> "file", id |-> id + d.id, release |-> id, path |-> d.path, content |-> d.content]

LEMMA CopiedRow ==
  ASSUME NEW id \in Nat \ {0}, NEW d \in DraftRow
  PROVE  /\ Copied(id, d) \in FileRow /\ Copied(id, d).kind = "file"
         /\ Copied(id, d).id = id + d.id /\ Copied(id, d).id > id
         /\ Copied(id, d).release = id /\ Copied(id, d).path = d.path
BY DEF Copied, DraftRow, FileRow

LEMMA PublishedIsOrderly ==
  ASSUME NEW a, NEW w, NEW H, Sound(w, H), NEW name, NEW x \in AppByName(a, w, name),
         NEW z \in ReleaseRow, z.id = FreshId(w), z.app = x.id, z.version = NextVersion(a, w, x),
         NEW y \in AppRow, y.id = x.id, y.live = z.id
  PROVE  Orderly(a, w, H, Transacted(a, w, {}, {y, z} \cup {Copied(z.id, d) : d \in Drafts(a, w, x)}))
<1> DEFINE D == Drafts(a, w, x)
           F == {Copied(z.id, d) : d \in D}
           N == {y, z} \cup F
           v == After(w, {}, N)
<1>1. w \subseteq Row /\ Bounded(w) /\ UniqueIds(w) /\ Typed(w)
  BY DEF Sound
<1>2. x \in w /\ x.kind = "app" /\ x \in Row
  BY <1>1 DEF AppByName, Readable, Of
<1>3. /\ z.id \in Nat \ {0} /\ z.kind = "release" /\ z \in Row /\ Ref(z) = x.id /\ z.version \in Nat
      /\ y.kind = "app" /\ y \in Row /\ Ref(y) = z.id
  BY RowKinds DEF ReleaseRow, AppRow, Row
<1>4. \A s \in w : s.id \in Nat /\ s.id < z.id /\ Ref(s) \in Nat /\ Ref(s) < z.id
  BY <1>1, FreshIdIsNew, RowKinds
<1>5. \A d \in D : d \in w /\ d.kind = "draft" /\ d \in DraftRow /\ d.app = x.id
  BY <1>1, OpenApps, RowKinds DEF Of
<1>6. \A f \in F : \E d \in D : f = Copied(z.id, d)
  OBVIOUS
<1> HIDE DEF F
<1>7. \A f \in F : /\ f \in Row /\ f.kind = "file" /\ f.id \in Nat /\ f.id > z.id
                   /\ f.release = z.id /\ Ref(f) = z.id
  BY <1>3, <1>5, <1>6, CopiedRow, RowKinds DEF Row, FileRow
<1>8. \A f, g \in F : f.id = g.id => f = g
  <2> SUFFICES ASSUME NEW f \in F, NEW g \in F, f.id = g.id PROVE f = g
    OBVIOUS
  <2>1. PICK d \in D : f = Copied(z.id, d)
    BY <1>6
  <2>2. PICK e \in D : g = Copied(z.id, e)
    BY <1>6
  <2>3. z.id + d.id = z.id + e.id /\ d.id \in Nat /\ e.id \in Nat /\ d \in w /\ e \in w
    BY <1>3, <1>4, <1>5, <2>1, <2>2, CopiedRow
  <2>4. d.id = e.id
    BY <1>3, <2>3
  <2> QED BY <1>1, <2>1, <2>2, <2>3, <2>4 DEF UniqueIds
<1>9. N \subseteq Row /\ UniqueIds(N) /\ \A p \in N, r \in w : p.id = r.id => p.kind = r.kind
  <2>1. y.id \in Nat /\ y.id < z.id
    BY <1>2, <1>4
  <2>2. UniqueIds(N)
    BY <1>3, <1>7, <1>8, <2>1 DEF UniqueIds
  <2>3. \A r \in w : y.id = r.id => r = x
    BY <1>1, <1>2 DEF UniqueIds
  <2>4. \A r \in w : r.id # z.id /\ \A f \in F : r.id # f.id
    BY <1>3, <1>4, <1>7
  <2> QED BY <1>2, <1>3, <1>7, <2>2, <2>3, <2>4
<1>10. Bounded(N)
  <2>1. PICK n \in Nat : \A r \in w : r.id <= n
    BY <1>1 DEF Bounded
  <2> DEFINE b == z.id + n + z.version
  <2>2. ASSUME NEW f \in F PROVE f.id <= b
    <3>1. PICK d \in D : f = Copied(z.id, d)
      BY <1>6
    <3>2. f.id = z.id + d.id /\ d.id <= n /\ d.id \in Nat
      BY <1>3, <1>4, <1>5, <2>1, <3>1, CopiedRow
    <3> QED BY <1>3, <3>2
  <2>3. b \in Nat /\ z.id <= b /\ n <= b /\ z.version <= b
    BY <1>3
  <2>4. x.id <= b /\ y.id <= b
    BY <1>2, <1>3, <1>4
  <2> HIDE DEF b
  <2>5. \A r \in N : r.id <= b /\ Ref(r) <= b /\ (r.kind = "release" => r.version <= b)
    BY <1>3, <1>7, <2>2, <2>3, <2>4
  <2> QED BY <2>3, <2>5 DEF Bounded
<1>11. Typed(w \cup N)
  <2> DEFINE u == w \cup {z}
  <2>1. Named(w, z) /\ Refers(w, z)
    BY <1>2, <1>3, <1>4 DEF Named, Refers, Target
  <2>2. Typed(u)
    BY <1>1, <1>3, <2>1, PutIsTyped
  <2>3. UniqueIds(u)
    BY <1>1, <1>3, <1>4 DEF UniqueIds
  <2>4. u \subseteq Row /\ z \in u /\ x \in u
    BY <1>1, <1>2, <1>3
  <2>5. \A s \in u : s.id <= z.id /\ Ref(s) <= z.id /\ s.id \in Nat /\ Ref(s) \in Nat
    BY <1>2, <1>3, <1>4
  <2> HIDE DEF u
  <2>6. Named(u, y) /\ Refers(u, y)
    BY <1>2, <1>3, <2>4 DEF Named, Refers, Target
  <2>7. ASSUME NEW f \in F PROVE Named(u, f) /\ Refers(u, f)
    <3>1. \A s \in u : s.id # f.id /\ Ref(s) # f.id
      BY <1>3, <1>7, <2>5
    <3> QED BY <1>3, <1>7, <2>4, <3>1 DEF Named, Refers, Target
  <2>8. Typed(u \cup ({y} \cup F))
    BY <1>3, <1>7, <2>2, <2>3, <2>4, <2>6, <2>7, PutIsTyped
  <2>9. u \cup ({y} \cup F) = w \cup N
    BY DEF u
  <2> QED BY <2>8, <2>9
<1>12. Fit(w, {}, N)
  BY <1>9, <1>10, <1>11 DEF Fit
<1>13. \A s : s \in v <=> s \in N \/ (s \in w /\ ~ \E p \in N : SameRow(p, s))
  BY <1>1, PutRows
<1>14. y \in v /\ z \in v /\ z \notin w
  BY <1>3, <1>4, <1>13
<1>15. \A s \in v : s \in F \/ s = y \/ s = z \/ s \in w
  BY <1>13
<1> HIDE DEF v
<1>16. HasOwner(v, z) /\ PointsWell(v, y)
  BY <1>3, <1>14 DEF HasOwner, PointsWell, Of, Target
<1>17. ASSUME NEW s \in v, Clash(z, s) PROVE s = z
  <2>1. s.kind = "release" /\ s.app = x.id /\ s.version = z.version
    BY <1>3, <1>17 DEF Clash
  <2>2. s \notin w
    BY <1>1, <2>1, NextVersionIsNew DEF Of
  <2> QED BY <1>3, <1>7, <1>15, <2>1, <2>2
<1>18. ASSUME NEW f \in F PROVE HasOwner(v, f) /\ \A r \in Of(w, "release") : r.id # f.release
  <2>1. HasOwner(v, f)
    BY <1>3, <1>7, <1>14 DEF HasOwner, Of, Target
  <2>2. \A r \in Of(w, "release") : r.id # f.release
    BY <1>3, <1>4, <1>7 DEF Of
  <2> QED BY <2>1, <2>2
<1>19. ASSUME NEW f \in F, NEW g \in v, Clash(f, g), f # g PROVE Marked(v, H, f)
  <2>1. g.kind = "file" /\ Ref(g) = z.id /\ f.path = g.path
    BY <1>7, <1>19, ClashingRefs DEF Clash
  <2>2. g \in F
    BY <1>3, <1>4, <1>15, <2>1
  <2>3. PICK d \in D : f = Copied(z.id, d)
    BY <1>6
  <2>4. PICK e \in D : g = Copied(z.id, e)
    BY <1>6, <2>2
  <2>5. /\ d \in w /\ e \in w /\ d # e /\ d.kind = "draft" /\ e.kind = "draft"
        /\ d.app = x.id /\ e.app = x.id /\ d.path = e.path
    BY <1>3, <1>5, <1>19, <2>1, <2>3, <2>4, CopiedRow
  <2>6. Marked(w, H, d)
    BY <2>5 DEF Sound, Distinct, Clash
  <2>7. x.id \in H
    BY <1>1, <2>5, <2>6, RowKinds DEF Marked
  <2> QED BY <1>3, <1>7, <1>14, <2>7 DEF Marked, Of
<1>20. PutsWell(w, v, H, N)
  <2> SUFFICES ASSUME NEW p \in N
               PROVE  /\ p.kind # "app" => Ref(p) \in H \/ HasOwner(v, p)
                      /\ p.kind = "app" => p.id \in H \/ PointsWell(v, p)
                      /\ \A s \in v : p = s \/ ~ Clash(p, s) \/ Marked(v, H, p)
                      /\ p.kind = "file" => \/ p \in w \/ p.release \in H
                                            \/ \A r \in Of(w, "release") : r.id # p.release
    BY DEF PutsWell
  <2>1. CASE p = y
    BY <1>3, <1>16, <2>1 DEF Clash
  <2>2. CASE p = z
    BY <1>3, <1>16, <1>17, <2>2
  <2>3. CASE p \in F
    BY <1>7, <1>18, <1>19, <2>3
  <2> QED BY <2>1, <2>2, <2>3
<1>21. Orderly(a, w, H, Transacted(a, w, {}, N))
  <2> HIDE DEF N
  <2> QED BY <1>12, <1>20, TransactsOrderly DEF v
<1> QED BY <1>21 DEF F

LEMMA PublishIsOrderly ==
  ASSUME NEW a, NEW w, NEW H, Sound(w, H), NEW name, NEW v \in Publish(a, w, name)
  PROVE  Orderly(a, w, H, v)
<1>1. PICK x \in AppByName(a, w, name) :
        LET D == Drafts(a, w, x)
            z == [kind |-> "release", id |-> FreshId(w), app |-> x.id, version |-> NextVersion(a, w, x)]
            F == {[kind |-> "file", id |-> z.id + d.id, release |-> z.id,
                   path |-> d.path, content |-> d.content] : d \in D}
        IN  v = Transacted(a, w, {}, {[x EXCEPT !.live = z.id], z} \cup F)
  BY DEF Publish
<1> DEFINE z == [kind |-> "release", id |-> FreshId(w), app |-> x.id, version |-> NextVersion(a, w, x)]
           y == [x EXCEPT !.live = z.id]
<1>2. v = Transacted(a, w, {}, {y, z} \cup {Copied(z.id, d) : d \in Drafts(a, w, x)})
  BY <1>1 DEF Copied
<1>3. x \in AppRow /\ w \subseteq Row /\ Bounded(w)
  BY OpenApps DEF Sound
<1>4. z \in ReleaseRow /\ z.id = FreshId(w) /\ z.app = x.id /\ z.version = NextVersion(a, w, x)
  <2>1. FreshId(w) \in Nat \ {0} /\ NextVersion(a, w, x) \in Nat /\ x.id \in Nat \ {0}
    BY <1>3, FreshIdIsNew, NextVersionIsNew DEF AppRow
  <2> QED BY <2>1 DEF ReleaseRow
<1> HIDE DEF z
<1>5. y \in AppRow /\ y.id = x.id /\ y.live = z.id
  BY <1>3, <1>4 DEF AppRow, ReleaseRow
<1> HIDE DEF y
<1> QED BY <1>2, <1>4, <1>5, PublishedIsOrderly

LEMMA ToolsAreOrderly ==
  ASSUME NEW a, NEW w, NEW H, Sound(w, H), NEW v \in Tool(a, w)
  PROVE  Orderly(a, w, H, v)
<1> DEFINE W(name) == UNION {WriteDraft(a, w, name, path, content) : path \in Path, content \in Content}
           D(name) == UNION {DeleteDraft(a, w, name, path) : path \in Path}
           S(name) == UNION {SetAudience(a, w, name, audience) : audience \in Audience}
           I(name) == UNION {InviteToApp(a, w, name, Email[b]) : b \in Actor}
<1>1. PICK name \in AppName :
        v \in W(name) \cup D(name) \cup S(name) \cup I(name)
                \cup Publish(a, w, name) \cup Unpublish(a, w, name) \cup DeleteApp(a, w, name)
  BY DEF Tool
<1>2. ASSUME v \in W(name) PROVE Orderly(a, w, H, v)
  <2>1. PICK path \in Path, content \in Content : v \in WriteDraft(a, w, name, path, content)
    BY <1>2
  <2> QED BY <2>1, WriteDraftIsOrderly
<1>3. ASSUME v \in D(name) PROVE Orderly(a, w, H, v)
  <2>1. PICK path \in Path : v \in DeleteDraft(a, w, name, path)
    BY <1>3
  <2> QED BY <2>1, DeletesAreOrderly
<1>4. ASSUME v \in S(name) PROVE Orderly(a, w, H, v)
  <2>1. PICK audience \in Audience : v \in SetAudience(a, w, name, audience)
    BY <1>4
  <2> QED BY <2>1, SetAudienceIsOrderly
<1>5. ASSUME v \in I(name) PROVE Orderly(a, w, H, v)
  <2>1. PICK b \in Actor : v \in InviteToApp(a, w, name, Email[b])
    BY <1>5
  <2> QED BY <2>1, InviteToAppIsOrderly
<1>6. ASSUME v \in Publish(a, w, name) PROVE Orderly(a, w, H, v)
  BY <1>6, PublishIsOrderly
<1>7. ASSUME v \in Unpublish(a, w, name) PROVE Orderly(a, w, H, v)
  BY <1>7, UnpublishIsOrderly
<1>8. ASSUME v \in DeleteApp(a, w, name) PROVE Orderly(a, w, H, v)
  BY <1>8, DeletesAreOrderly
<1> HIDE DEF W, D, S, I
<1> QED BY <1>1, <1>2, <1>3, <1>4, <1>5, <1>6, <1>7, <1>8

----------------------------------------------------------------------------
\* The clients and the operator

\* Where the id of a row a client puts comes from, and where its ref goes.
Placed(w, id, kind) ==
  \/ id = FreshId(w)
  \/ \E x \in w : x.id = id /\ x.kind = kind
  \/ \E x \in w : Ref(x) = id /\ Target(x) = kind /\ \A s \in w : s.id # id

Pointed(w, ref, kind) ==
  \/ ref = FreshId(w) + 1
  \/ \E o \in w : o.id = ref /\ o.kind = kind

LEMMA WritableIds ==
  ASSUME NEW w, w \subseteq Row, Bounded(w), NEW id
  PROVE  /\ \A kind : id \in Ids(w, kind) => id \in Nat \ {0} /\ Placed(w, id, kind)
         /\ id \in Missing(w, {"draft", "release"}) => id \in Nat \ {0} /\ Placed(w, id, "app")
         /\ id \in Missing(w, {"app", "file"}) => id \in Nat \ {0} /\ Placed(w, id, "release")
         /\ \A kind : id \in Refs(w, kind) => id \in Nat \ {0} /\ Pointed(w, id, kind)
<1>1. FreshId(w) \in Nat \ {0} /\ \A r \in w : r.id \in Nat \ {0} /\ Ref(r) \in Nat
  BY FreshIdIsNew, RowKinds
<1>2. ASSUME NEW kind, id \in Ids(w, kind) PROVE id \in Nat \ {0} /\ Placed(w, id, kind)
  BY <1>1, <1>2 DEF Ids, Of, Placed
<1>3. ASSUME NEW kind, id \in Refs(w, kind) PROVE id \in Nat \ {0} /\ Pointed(w, id, kind)
  BY <1>1, <1>3 DEF Refs, Of, Pointed
<1>4. ASSUME NEW kinds, id \in Missing(w, kinds)
      PROVE  id \in Nat \ {0} /\ \E x \in w : x.kind \in kinds /\ Ref(x) = id /\ \A s \in w : s.id # id
  BY <1>1, <1>4 DEF Missing
<1>5. ASSUME id \in Missing(w, {"draft", "release"}) PROVE id \in Nat \ {0} /\ Placed(w, id, "app")
  BY <1>4, <1>5 DEF Placed, Target
<1>6. ASSUME id \in Missing(w, {"app", "file"}) PROVE id \in Nat \ {0} /\ Placed(w, id, "release")
  BY <1>4, <1>6 DEF Placed, Target
<1> QED BY <1>2, <1>3, <1>5, <1>6

LEMMA WritableRow ==
  ASSUME NEW w, w \subseteq Row, Bounded(w), NEW p \in Writable(w)
  PROVE  /\ p \in Row /\ Placed(w, p.id, p.kind)
         /\ \/ Ref(p) = 0 \/ Pointed(w, Ref(p), Target(p))
            \/ \E x \in w : Ref(x) = Ref(p) /\ Target(x) = Target(p)
<1> DEFINE Fine == /\ p \in Row /\ Placed(w, p.id, p.kind)
                   /\ \/ Ref(p) = 0 \/ Pointed(w, Ref(p), Target(p))
                      \/ \E x \in w : Ref(x) = Ref(p) /\ Target(x) = Target(p)
<1>1. CASE p \in [kind : {"app"}, id : Missing(w, {"draft", "release"}) \cup {FreshId(w)}, name : AppName,
                  audience : {"members"}, invited : {{}}, live : Refs(w, "release") \cup {0}]
  <2>1. /\ p.id \in Missing(w, {"draft", "release"}) \cup {FreshId(w)}
        /\ p.live \in Refs(w, "release") \cup {0} /\ p.kind = "app"
    BY <1>1
  <2>2. p.id \in Nat \ {0} /\ Placed(w, p.id, "app")
    BY <2>1, WritableIds, FreshIdIsNew DEF Placed
  <2>3. p.live \in Nat /\ (p.live = 0 \/ Pointed(w, p.live, "release"))
    BY <2>1, WritableIds
  <2>4. p \in AppRow
    BY <1>1, <2>2, <2>3 DEF AppRow, Audience
  <2> QED BY <2>1, <2>2, <2>3, <2>4, RowKinds DEF Row, Target
<1>2. ASSUME NEW x \in Of(w, "app"), NEW live \in Refs(w, "release") \cup {0}, p = [x EXCEPT !.live = live]
      PROVE  Fine
  <2>1. x \in AppRow /\ x \in w /\ x.kind = "app"
    BY RowKinds DEF Of
  <2>2. live \in Nat /\ (live = 0 \/ Pointed(w, live, "release"))
    BY WritableIds
  <2>3. p \in AppRow /\ p.id = x.id /\ p.live = live /\ p.kind = "app"
    BY <1>2, <2>1, <2>2 DEF AppRow
  <2> QED BY <2>1, <2>2, <2>3, RowKinds DEF Row, Target, Placed
<1>3. ASSUME NEW x \in Of(w, "app"), p \in AppRow, p.id = x.id, p.live = x.live
      PROVE  Fine
  <2>1. x \in w /\ x.kind = "app" /\ Ref(x) = x.live
    BY RowKinds DEF Of
  <2>2. p \in Row /\ p.kind = "app" /\ Ref(p) = p.live
    BY <1>3, RowKinds DEF Row, AppRow
  <2> QED BY <1>3, <2>1, <2>2 DEF Target, Placed
<1>4. ASSUME NEW x \in Of(w, "app"), NEW audience \in Audience, p = [x EXCEPT !.audience = audience]
      PROVE  Fine
  <2>1. x \in AppRow
    BY RowKinds DEF Of
  <2>2. p \in AppRow /\ p.id = x.id /\ p.live = x.live
    BY <1>4, <2>1 DEF AppRow
  <2> QED BY <1>3, <2>2
<1>5. ASSUME NEW x \in Of(w, "app"), NEW invited \in SUBSET {Email[b] : b \in Actor},
             p = [x EXCEPT !.invited = invited]
      PROVE  Fine
  <2>1. x \in AppRow
    BY RowKinds DEF Of
  <2>2. p \in AppRow /\ p.id = x.id /\ p.live = x.live
    BY <1>5, <2>1 DEF AppRow
  <2> QED BY <1>3, <2>2
<1>6. CASE p \in [kind : {"draft"}, id : Ids(w, "draft"), app : Refs(w, "app"), path : Path, content : Content]
  <2>1. p.kind = "draft" /\ p.id \in Ids(w, "draft") /\ p.app \in Refs(w, "app")
    BY <1>6
  <2>2. /\ p.id \in Nat \ {0} /\ Placed(w, p.id, "draft")
        /\ p.app \in Nat \ {0} /\ Pointed(w, p.app, "app")
    BY <2>1, WritableIds
  <2>3. p \in DraftRow
    BY <1>6, <2>2 DEF DraftRow
  <2> QED BY <2>1, <2>2, <2>3, RowKinds DEF Row, Target
<1>7. CASE p \in [kind : {"release"}, id : Ids(w, "release") \cup Missing(w, {"app", "file"}),
                  app : Refs(w, "app"), version : Version]
  <2>1. /\ p.kind = "release" /\ p.id \in Ids(w, "release") \cup Missing(w, {"app", "file"})
        /\ p.app \in Refs(w, "app") /\ p.version \in Version
    BY <1>7
  <2>2. /\ p.id \in Nat \ {0} /\ Placed(w, p.id, "release")
        /\ p.app \in Nat \ {0} /\ Pointed(w, p.app, "app") /\ p.version \in Nat
    BY <2>1, WritableIds, VersionAssumption
  <2>3. p \in ReleaseRow
    BY <1>7, <2>2 DEF ReleaseRow
  <2> QED BY <2>1, <2>2, <2>3, RowKinds DEF Row, Target
<1>8. CASE p \in [kind : {"file"}, id : Ids(w, "file"), release : Refs(w, "release"), path : Path,
                  content : Content]
  <2>1. p.kind = "file" /\ p.id \in Ids(w, "file") /\ p.release \in Refs(w, "release")
    BY <1>8
  <2>2. /\ p.id \in Nat \ {0} /\ Placed(w, p.id, "file")
        /\ p.release \in Nat \ {0} /\ Pointed(w, p.release, "release")
    BY <2>1, WritableIds
  <2>3. p \in FileRow
    BY <1>8, <2>2 DEF FileRow
  <2> QED BY <2>1, <2>2, <2>3, RowKinds DEF Row, Target
<1> HIDE DEF Fine
<1>9. Fine
  <2> DEFINE A1 == [kind : {"app"}, id : Missing(w, {"draft", "release"}) \cup {FreshId(w)}, name : AppName,
                    audience : {"members"}, invited : {{}}, live : Refs(w, "release") \cup {0}]
             A2 == {[x EXCEPT !.live = live] : x \in Of(w, "app"), live \in Refs(w, "release") \cup {0}}
             A3 == {[x EXCEPT !.audience = audience] : x \in Of(w, "app"), audience \in Audience}
             A4 == {[x EXCEPT !.invited = invited] :
                      x \in Of(w, "app"), invited \in SUBSET {Email[b] : b \in Actor}}
             D1 == [kind : {"draft"}, id : Ids(w, "draft"), app : Refs(w, "app"), path : Path, content : Content]
             R1 == [kind : {"release"}, id : Ids(w, "release") \cup Missing(w, {"app", "file"}),
                    app : Refs(w, "app"), version : Version]
             F1 == [kind : {"file"}, id : Ids(w, "file"), release : Refs(w, "release"), path : Path,
                    content : Content]
  <2>1. Writable(w) = A1 \cup A2 \cup A3 \cup A4 \cup D1 \cup R1 \cup F1
    BY DEF Writable
  <2>2. p \in A2 => Fine
    <3> SUFFICES ASSUME p \in A2 PROVE Fine
      OBVIOUS
    <3>1. PICK x \in Of(w, "app"), live \in Refs(w, "release") \cup {0} : p = [x EXCEPT !.live = live]
      OBVIOUS
    <3> QED BY <1>2, <3>1
  <2>3. p \in A3 => Fine
    <3> SUFFICES ASSUME p \in A3 PROVE Fine
      OBVIOUS
    <3>1. PICK x \in Of(w, "app"), audience \in Audience : p = [x EXCEPT !.audience = audience]
      OBVIOUS
    <3> QED BY <1>4, <3>1
  <2>4. p \in A4 => Fine
    <3> SUFFICES ASSUME p \in A4 PROVE Fine
      OBVIOUS
    <3>1. PICK x \in Of(w, "app"), invited \in SUBSET {Email[b] : b \in Actor} : p = [x EXCEPT !.invited = invited]
      OBVIOUS
    <3> QED BY <1>5, <3>1
  <2>5. (p \in A1 => Fine) /\ (p \in D1 => Fine) /\ (p \in R1 => Fine) /\ (p \in F1 => Fine)
    BY <1>1, <1>6, <1>7, <1>8 DEF Fine
  <2> HIDE DEF A1, A2, A3, A4, D1, R1, F1
  <2> QED BY <2>1, <2>2, <2>3, <2>4, <2>5
<1> QED BY <1>9 DEF Fine

\* What a client deletes and puts makes sense together.
LEMMA ClientsFit ==
  ASSUME NEW w, NEW H, Sound(w, H), NEW t \in ClientTransaction(w)
  PROVE  Fit(w, t.gone, t.put)
<1>1. w \subseteq Row /\ Bounded(w) /\ UniqueIds(w) /\ Typed(w)
  BY DEF Sound
<1>2. /\ t.gone \subseteq w
      /\ t.put \subseteq w \/ \E p \in Writable(w) : t.put = {p}
  BY DEF ClientTransaction
<1>3. CASE t.put \subseteq w
  <2>1. Bounded(t.put) /\ UniqueIds(t.put) /\ w \cup t.put = w
    BY <1>1, <1>3 DEF Bounded, UniqueIds
  <2> QED BY <1>1, <1>2, <1>3, <2>1 DEF Fit, UniqueIds
<1>4. ASSUME NEW p \in Writable(w), t.put = {p} PROVE Fit(w, t.gone, t.put)
  <2>1. /\ p \in Row /\ Placed(w, p.id, p.kind)
        /\ \/ Ref(p) = 0 \/ Pointed(w, Ref(p), Target(p))
           \/ \E x \in w : Ref(x) = Ref(p) /\ Target(x) = Target(p)
    BY <1>1, WritableRow
  <2>2. /\ FreshId(w) \in Nat
        /\ \A r \in w : /\ r.id \in Nat \ {0} /\ r.id < FreshId(w)
                        /\ Ref(r) \in Nat /\ Ref(r) < FreshId(w)
    BY <1>1, FreshIdIsNew, RowKinds
  <2>3. Named(w, p)
    BY <2>1, <2>2 DEF Named, Placed
  <2>4. \A r \in w : p.id = r.id => p.kind = r.kind
    BY <1>1, <2>1, <2>2 DEF Placed, UniqueIds
  <2>5. CASE Refers(w, p)
    <3>1. Typed(w \cup {p})
      BY <1>1, <2>1, <2>3, <2>5, PutIsTyped
    <3> QED BY <1>2, <1>4, <2>1, <2>4, <3>1, OneRow DEF Fit
  <2>6. CASE ~ Refers(w, p)
    <3>1. Ref(p) = FreshId(w) + 1
      BY <2>1, <2>6 DEF Refers, Pointed
    <3>2. p.id \in Nat /\ p.id <= FreshId(w)
      BY <2>1, <2>2 DEF Placed
    <3>3. \A s \in w \cup {p} : s.id # Ref(p)
      BY <2>2, <3>1, <3>2
    <3>4. \A s \in w : Ref(s) # Ref(p)
      BY <2>2, <3>1
    <3>5. ASSUME NEW r \in w, Ref(r) = p.id PROVE p.kind = Target(r)
      <4>1. p.id # 0
        BY <2>1, RowKinds
      <4>2. CASE p.id = FreshId(w)
        BY <2>2, <3>5, <4>2
      <4>3. ASSUME NEW x \in w, x.id = p.id, x.kind = p.kind PROVE p.kind = Target(r)
        BY <1>1, <3>5, <4>3 DEF Typed
      <4>4. ASSUME NEW x \in w, Ref(x) = p.id, Target(x) = p.kind PROVE p.kind = Target(r)
        BY <1>1, <3>5, <4>1, <4>4 DEF Typed
      <4> QED BY <2>1, <4>2, <4>3, <4>4 DEF Placed
    <3>6. \A r \in w : Ref(r) = p.id => p.kind = Target(r)
      BY <3>5
    <3>7. Typed(w \cup {p})
      BY <1>1, <3>3, <3>4, <3>6 DEF Typed
    <3> QED BY <1>2, <1>4, <2>1, <2>4, <3>7, OneRow DEF Fit
  <2> QED BY <2>5, <2>6
<1> QED BY <1>2, <1>3, <1>4

\* What a client does by hand is orderly with its marks.
LEMMA ClientsAreOrderly ==
  ASSUME NEW a, NEW w, NEW H, Sound(w, H), NEW t \in ClientTransaction(w)
  PROVE  Orderly(a, w, H \cup ByHand(w, t.gone, t.put), Transacted(a, w, t.gone, t.put))
<1> DEFINE gone == t.gone
           put == t.put
           v == After(w, gone, put)
           B == ByHand(w, gone, put)
           G == H \cup B
<1>1. Fit(w, gone, put)
  BY ClientsFit
<1>2. w \subseteq Row /\ put \subseteq Row
  BY <1>1 DEF Sound, Fit
<1> HIDE DEF gone, put
<1>3. ASSUME NEW p \in put, p.kind # "app" PROVE Ref(p) \in G
  BY <1>3 DEF ByHand
<1>4. ASSUME Authorized(a, w, gone, v), NEW p \in put, p.kind = "app", p.live # 0, p.id \notin G
      PROVE  PointsWell(v, p)
  <2>1. PICK r \in Without(w, gone) : SameRow(r, p) /\ r.live = p.live
    BY <1>4 DEF ByHand, Of
  <2>2. PICK y \in w \ gone : r = Swept(gone, y)
    BY <2>1 DEF Without, Swept
  <2>3. /\ y.id = p.id /\ y.kind = "app" /\ y.live = p.live /\ ~ RefersTo(y, gone) /\ Ref(y) = y.live
    BY <1>2, <1>4, <2>1, <2>2, SweptRow, RowKinds DEF SameRow
  <2>4. PICK z \in Of(w, "release") : z.id = y.live /\ z.app = y.id
    BY <1>4, <2>2, <2>3 DEF Sound, LivePointers, PointsWell, Of
  <2>5. z \notin gone
    BY <2>3, <2>4 DEF RefersTo
  <2>6. z \in v
    BY <1>4, <2>5, ReleasesStay
  <2> HIDE DEF v
  <2> QED BY <2>3, <2>4, <2>6 DEF PointsWell, Of
<1> HIDE DEF B, v
<1>5. ASSUME Authorized(a, w, gone, v) PROVE PutsWell(w, v, G, put)
  <2> SUFFICES ASSUME NEW p \in put
               PROVE  /\ p.kind # "app" => Ref(p) \in G \/ HasOwner(v, p)
                      /\ p.kind = "app" => p.id \in G \/ PointsWell(v, p)
                      /\ \A s \in v : p = s \/ ~ Clash(p, s) \/ Marked(v, G, p)
                      /\ p.kind = "file" => \/ p \in w \/ p.release \in G
                                            \/ \A r \in Of(w, "release") : r.id # p.release
    BY DEF PutsWell
  <2>1. CASE p.kind = "app"
    <3>1. p.id \in G \/ PointsWell(v, p)
      BY <1>4, <1>5, <2>1 DEF PointsWell
    <3> QED BY <2>1, <3>1 DEF Clash
  <2>2. CASE p.kind # "app"
    <3>1. Ref(p) \in G /\ (p.kind = "file" => Ref(p) = p.release)
      BY <1>2, <1>3, <2>2, RowKinds
    <3> QED BY <2>2, <3>1 DEF Marked
  <2> QED BY <2>1, <2>2
<1>6. Orderly(a, w, G, Transacted(a, w, gone, put))
  <2> HIDE DEF G
  <2>1. H \subseteq G
    BY DEF G
  <2> QED BY <1>1, <1>5, <2>1, TransactsOrderly DEF v
<1> QED BY <1>6 DEF B, gone, put

\* The operator takes an app with all that is of it, so nothing is left behind.
LEMMA OperatorIsSound ==
  ASSUME NEW w, NEW H, Sound(w, H), NEW name, NEW v \in OperatorDeleteApp(w, name)
  PROVE  Sound(v, H) /\ Frozen(w, v, H)
<1>1. PICK x \in Of(w, "app") : v = Without(w, {r \in w : x \in AppOf(w, r)})
  BY DEF OperatorDeleteApp
<1> DEFINE gone == {r \in w : x \in AppOf(w, r)}
<1>2. w \subseteq Row /\ UniqueIds(w) /\ Typed(w) /\ x \in w /\ x.kind = "app"
  BY DEF Sound, Of
<1>3. v = After(w, gone, {})
  BY <1>1 DEF After
<1>4. \A r \in w : r \in gone <=> x \in AppOf(w, r)
  OBVIOUS
<1>5. gone \subseteq w
  OBVIOUS
<1> HIDE DEF gone
<1>6. Fit(w, gone, {})
  <2>1. Bounded({})
    BY SoundEmpty DEF Sound
  <2>2. w \cup {} = w
    OBVIOUS
  <2> QED BY <1>2, <1>5, <2>1, <2>2 DEF Fit, UniqueIds
<1>7. NoneLeftWithout(w, gone, {})
  <2> SUFFICES ASSUME NEW r \in w \ gone, r.kind # "app", NEW g \in gone, g.id = Ref(r) PROVE FALSE
    BY DEF NoneLeftWithout, RefersTo
  <2>1. g \in w /\ g.kind = Target(r) /\ x \in AppOf(w, g)
    BY <1>2, <1>4, <1>5 DEF Typed
  <2>2. CASE r.kind = "file"
    <3>1. g.kind = "release" /\ g.id = r.release
      BY <1>2, <2>1, <2>2, RowKinds DEF Target
    <3>2. x \in App(w, g.app)
      BY <2>1, <3>1 DEF AppOf
    <3>3. x \in AppOf(w, r)
      BY <2>1, <2>2, <3>1, <3>2 DEF AppOf, Of
    <3> QED BY <1>4, <3>3
  <2>3. CASE r.kind # "file"
    <3>1. g.kind = "app" /\ g.id = r.app
      BY <1>2, <2>1, <2>3, RowKinds DEF Target
    <3>2. x = g
      BY <2>1, <3>1 DEF AppOf
    <3>3. x \in AppOf(w, r)
      BY <1>2, <2>3, <3>1, <3>2 DEF AppOf, App, Of
    <3> QED BY <1>4, <3>3
  <2> QED BY <2>2, <2>3
<1>8. \A z \in Of(w, "release") : z \in gone \/ z \in v
  <2>1. \A z \in w : z.kind = "release" => Swept(gone, z) = z
    BY DEF Swept
  <2> QED BY <1>2, <1>3, <2>1, AfterRows DEF Of
<1>9. PutsWell(w, v, H, {})
  BY DEF PutsWell
<1> QED BY <1>3, <1>6, <1>7, <1>8, <1>9, TransactionIsSound

----------------------------------------------------------------------------
\* The workspace, with the edge before it

\* A row of the cell has no role that its actor was not believed to hold when it arrived.
PeopleHeld == \A a \in Actor : people[a] \in Role => people[a] \in held[a]

EdgeTypes ==
  /\ people \in [Actor -> Role \cup {None, "appUser"}]
  /\ held \in [Actor -> SUBSET (Role \cup {None})]
  /\ directory \in [Actor -> Role \cup {None}]
  /\ cache \in [Isolate -> [Actor -> SUBSET (Role \cup {None})]]
  /\ \A r \in requests : r \in [actor : Actor, isolate : Isolate, role : Role \cup {None},
                                stage : {"asked", "resolved", "arrived"}]

WorkspaceInv == EdgeTypes /\ PeopleHeld /\ Sound(rows, hand)

LEMMA WorkspaceInit == Init => WorkspaceInv
<1> SUFFICES ASSUME Init PROVE WorkspaceInv
  OBVIOUS
<1>1. EdgeTypes /\ PeopleHeld
  BY DEF Init, EdgeTypes, PeopleHeld, Role, None
<1>2. Sound(rows, hand)
  BY SoundEmpty DEF Init
<1> QED BY <1>1, <1>2 DEF WorkspaceInv

\* What a grant of the directory leaves.
LEMMA GrantKeeps ==
  ASSUME EdgeTypes, PeopleHeld, NEW a \in Actor, NEW role \in Role \cup {None}, Granted(a, role),
         UNCHANGED people
  PROVE  /\ held' \in [Actor -> SUBSET (Role \cup {None})]
         /\ directory' \in [Actor -> Role \cup {None}]
         /\ PeopleHeld'
<1>1. directory' = [directory EXCEPT ![a] = role] /\ held' = [held EXCEPT ![a] = held[a] \cup {role}]
  BY DEF Granted
<1>2. held' \in [Actor -> SUBSET (Role \cup {None})] /\ directory' \in [Actor -> Role \cup {None}]
  BY <1>1 DEF EdgeTypes
<1>3. \A b \in Actor : held[b] \subseteq held'[b]
  BY <1>1 DEF EdgeTypes
<1> QED BY <1>2, <1>3 DEF PeopleHeld

LEMMA AtEdgeKeeps ==
  ASSUME EdgeTypes, PeopleHeld, AtEdge, UNCHANGED people
  PROVE  EdgeTypes' /\ PeopleHeld'
<1>1. ASSUME NEW a \in Actor, NEW i \in Isolate, CreateWorkspace(a, i)
      PROVE  EdgeTypes' /\ PeopleHeld'
  <2>1. cache' = [cache EXCEPT ![i][a] = {}] /\ UNCHANGED requests /\ Granted(a, "admin")
    BY <1>1 DEF CreateWorkspace
  <2>2. cache' \in [Isolate -> [Actor -> SUBSET (Role \cup {None})]]
    BY <2>1 DEF EdgeTypes
  <2> QED BY <2>1, <2>2, GrantKeeps DEF EdgeTypes, Role
<1>2. ASSUME NEW a \in Actor, NEW i \in Isolate, Forget(i, a)
      PROVE  EdgeTypes' /\ PeopleHeld'
  <2>1. cache' = [cache EXCEPT ![i][a] = {}] /\ UNCHANGED <<directory, requests, held>>
    BY <1>2 DEF Forget
  <2>2. cache' \in [Isolate -> [Actor -> SUBSET (Role \cup {None})]]
    BY <2>1 DEF EdgeTypes
  <2> QED BY <2>1, <2>2 DEF EdgeTypes, PeopleHeld
<1>3. ASSUME NEW a \in Actor, NEW i \in Isolate, Ask(a, i)
      PROVE  EdgeTypes' /\ PeopleHeld'
  <2>1. UNCHANGED <<directory, cache, held>>
    BY <1>3 DEF Ask
  <2>2. PICK r \in [actor : {a}, isolate : {i},
                    role  : IF cache[i][a] # {} THEN cache[i][a] ELSE {directory[a]},
                    stage : IF cache[i][a] # {} THEN {"resolved"} ELSE {"asked"}] :
          requests' = requests \cup {r}
    BY <1>3 DEF Ask
  <2>3. cache[i][a] \subseteq Role \cup {None} /\ directory[a] \in Role \cup {None}
    BY DEF EdgeTypes
  <2>4. r \in [actor : Actor, isolate : Isolate, role : Role \cup {None},
               stage : {"asked", "resolved", "arrived"}]
    BY <2>2, <2>3
  <2> QED BY <2>1, <2>2, <2>4 DEF EdgeTypes, PeopleHeld
<1>4. ASSUME NEW a \in Actor, NEW role \in Role \cup {None}, Change(a, role)
      PROVE  EdgeTypes' /\ PeopleHeld'
  BY <1>4, GrantKeeps DEF Change, EdgeTypes
<1>5. ASSUME NEW r \in requests, Resolve(r)
      PROVE  EdgeTypes' /\ PeopleHeld'
  <2>1. /\ cache' = [cache EXCEPT ![r.isolate][r.actor] = {r.role}]
        /\ requests' = (requests \ {r}) \cup {[r EXCEPT !.stage = "resolved"]}
        /\ UNCHANGED <<directory, held>>
    BY <1>5 DEF Resolve, Moved
  <2>2. r \in [actor : Actor, isolate : Isolate, role : Role \cup {None},
               stage : {"asked", "resolved", "arrived"}]
    BY DEF EdgeTypes
  <2>3. [r EXCEPT !.stage = "resolved"] \in [actor : Actor, isolate : Isolate, role : Role \cup {None},
               stage : {"asked", "resolved", "arrived"}]
    BY <2>2
  <2>4. cache' \in [Isolate -> [Actor -> SUBSET (Role \cup {None})]]
    BY <2>1, <2>2 DEF EdgeTypes
  <2> QED BY <2>1, <2>3, <2>4 DEF EdgeTypes, PeopleHeld
<1>6. ASSUME NEW r \in requests, NEW a \in Actor, NEW role \in Role, Invite(r, a, role)
      PROVE  EdgeTypes' /\ PeopleHeld'
  BY <1>6, GrantKeeps DEF Invite, Done, EdgeTypes
<1> QED BY <1>1, <1>2, <1>3, <1>4, <1>5, <1>6 DEF AtEdge

\* The row of the caller takes the standing the request goes by.
LEMMA ArriveKeeps ==
  ASSUME EdgeTypes, PeopleHeld, NEW r \in requests, Arrive(r)
  PROVE  EdgeTypes' /\ PeopleHeld'
<1> DEFINE a == r.actor
<1>1. r \in [actor : Actor, isolate : Isolate, role : Role \cup {None},
             stage : {"asked", "resolved", "arrived"}]
  BY DEF EdgeTypes
<1>2. /\ people' = [people EXCEPT ![a] = Standing(r.role)]
      /\ held' = [held EXCEPT ![a] = Believed(a)]
      /\ requests' = (requests \ {r}) \cup {[r EXCEPT !.stage = "arrived"]}
      /\ UNCHANGED <<directory, cache>>
  BY DEF Arrive, EnsureUser, Moved
<1>3. Standing(r.role) \in Role \cup {None, "appUser"} /\ (Standing(r.role) \in Role => Standing(r.role) = r.role)
  BY <1>1 DEF Standing, Role, None
<1>4. r.role \in Believed(a) /\ Believed(a) \subseteq Role \cup {None}
  <2>1. r.role \in Believed(a)
    BY DEF Believed
  <2>2. \A q \in requests : q.role \in Role \cup {None}
    BY DEF EdgeTypes
  <2>3. directory[a] \in Role \cup {None} /\ \A i \in Isolate : cache[i][a] \subseteq Role \cup {None}
    BY <1>1 DEF EdgeTypes
  <2> QED BY <2>1, <2>2, <2>3 DEF Believed
<1>5. [r EXCEPT !.stage = "arrived"] \in [actor : Actor, isolate : Isolate, role : Role \cup {None},
             stage : {"asked", "resolved", "arrived"}]
  BY <1>1
<1>6. a \in Actor
  BY <1>1
<1> HIDE DEF a
<1>7. /\ people' \in [Actor -> Role \cup {None, "appUser"}]
      /\ held' \in [Actor -> SUBSET (Role \cup {None})]
  BY <1>2, <1>3, <1>4, <1>6 DEF EdgeTypes
<1>8. EdgeTypes'
  BY <1>2, <1>5, <1>7 DEF EdgeTypes
<1>9. PeopleHeld'
  BY <1>2, <1>3, <1>4, <1>6 DEF PeopleHeld, EdgeTypes
<1> QED BY <1>8, <1>9

\* What is written leaves the rows sound with their marks.
LEMMA WriteIsSound ==
  ASSUME Sound(rows, hand), NEW a, NEW v, NEW B, Wrote(a, v, B),
         v = rows \/ (Sound(v, hand \cup B) /\ Frozen(rows, v, hand \cup B))
  PROVE  /\ author' = a /\ rows' = v
         /\ Sound(rows', hand')
         /\ rows' = rows \/ Frozen(rows, rows', hand')
<1>1. /\ author' = a /\ rows' = v
      /\ hand' = IF v = rows THEN hand ELSE (hand \cup B) \cap Known(v)
  BY DEF Wrote
<1>2. CASE v = rows
  BY <1>1, <1>2
<1>3. CASE v # rows
  <2>1. /\ Sound(v, (hand \cup B) \cap Known(v))
        /\ Frozen(rows, v, (hand \cup B) \cap Known(v))
    BY <1>3, MarksAreKnown
  <2> QED BY <1>1, <1>3, <2>1
<1> QED BY <1>2, <1>3

\* A step that writes rows is an orderly transaction of an actor, or the operator's.
LEMMA StepWrites ==
  ASSUME WorkspaceInv, [Next]_vars
  PROVE  /\ Sound(rows', hand')
         /\ \/ rows' = rows
            \/ /\ Frozen(rows, rows', hand')
               /\ author' = "operator" \/ \E a \in Actor : author' = a /\ Ruled(a, rows, rows')
<1> DEFINE Fine == /\ Sound(rows', hand')
                   /\ \/ rows' = rows
                      \/ /\ Frozen(rows, rows', hand')
                         /\ author' = "operator" \/ \E a \in Actor : author' = a /\ Ruled(a, rows, rows')
<1>1. Sound(rows, hand)
  BY DEF WorkspaceInv
<1>2. \A r \in requests : r.actor \in Actor
  BY DEF WorkspaceInv, EdgeTypes
<1>3. ASSUME NEW a \in Actor, NEW v, NEW B, Wrote(a, v, B), Orderly(a, rows, hand \cup B, v)
      PROVE  Fine
  <2>1. v = rows \/ (Sound(v, hand \cup B) /\ Frozen(rows, v, hand \cup B) /\ Ruled(a, rows, v))
    BY <1>3 DEF Orderly
  <2>2. /\ author' = a /\ rows' = v
        /\ Sound(rows', hand')
        /\ rows' = rows \/ Frozen(rows, rows', hand')
    BY <1>1, <1>3, <2>1, WriteIsSound
  <2> QED BY <2>1, <2>2
<1>4. ASSUME NEW r \in requests, RunTool(r) PROVE Fine
  <2>1. PICK v \in Tool(r.actor, rows) : Wrote(r.actor, v, {})
    BY <1>4 DEF RunTool
  <2>2. Orderly(r.actor, rows, hand, v) /\ hand \cup {} = hand
    BY <1>1, <2>1, ToolsAreOrderly
  <2> HIDE DEF Fine
  <2> QED BY <1>2, <1>3, <2>1, <2>2
<1>5. ASSUME NEW r \in requests, RunTransaction(r) PROVE Fine
  <2>1. PICK t \in ClientTransaction(rows) :
          Wrote(r.actor, Transacted(r.actor, rows, t.gone, t.put), ByHand(rows, t.gone, t.put))
    BY <1>5 DEF RunTransaction
  <2>2. Orderly(r.actor, rows, hand \cup ByHand(rows, t.gone, t.put),
                Transacted(r.actor, rows, t.gone, t.put))
    BY <1>1, <2>1, ClientsAreOrderly
  <2> HIDE DEF Fine
  <2> QED BY <1>2, <1>3, <2>1, <2>2
<1>6. ASSUME Operate PROVE Fine
  <2>1. PICK name \in AppName : \E v \in OperatorDeleteApp(rows, name) : Wrote("operator", v, {})
    BY <1>6 DEF Operate
  <2>2. PICK v \in OperatorDeleteApp(rows, name) : Wrote("operator", v, {})
    BY <2>1
  <2>3. Sound(v, hand) /\ Frozen(rows, v, hand) /\ hand \cup {} = hand
    BY <1>1, OperatorIsSound
  <2> QED BY <1>1, <2>2, <2>3, WriteIsSound
<1>7. ASSUME UNCHANGED <<rows, hand>> PROVE Fine
  BY <1>1, <1>7
<1>8. ASSUME AtEdge, UNCHANGED <<people, rows, hand, writes, author>> PROVE Fine
  BY <1>7, <1>8
<1>9. ASSUME NEW r \in requests, Arrive(r) PROVE Fine
  BY <1>7, <1>9 DEF Arrive
<1>10. ASSUME NEW r \in requests, NEW a \in Actor, NEW role \in Role, InviteMember(r, a, role) PROVE Fine
  BY <1>7, <1>10 DEF InviteMember
<1>11. ASSUME UNCHANGED vars PROVE Fine
  BY <1>7, <1>11 DEF vars
<1> HIDE DEF Fine
<1>12. ASSUME Next PROVE Fine
  <2>1. \/ AtEdge /\ UNCHANGED <<people, rows, hand, writes, author>>
        \/ \E r \in requests : Arrive(r) \/ RunTool(r) \/ RunTransaction(r)
        \/ \E r \in requests, a \in Actor, role \in Role : InviteMember(r, a, role)
        \/ Operate
    BY <1>12 DEF Next
  <2> QED BY <1>4, <1>5, <1>6, <1>8, <1>9, <1>10, <2>1, Zenon
<1>13. Fine
  BY <1>11, <1>12
<1> QED BY <1>13 DEF Fine

LEMMA WorkspaceStep == WorkspaceInv /\ [Next]_vars => WorkspaceInv'
<1> SUFFICES ASSUME WorkspaceInv, [Next]_vars PROVE EdgeTypes' /\ PeopleHeld'
  BY StepWrites DEF WorkspaceInv
<1>1. EdgeTypes /\ PeopleHeld
  BY DEF WorkspaceInv
<1>2. ASSUME AtEdge, UNCHANGED <<people, rows, hand, writes, author>> PROVE EdgeTypes' /\ PeopleHeld'
  BY <1>1, <1>2, AtEdgeKeeps
<1>3. ASSUME NEW r \in requests, Arrive(r) PROVE EdgeTypes' /\ PeopleHeld'
  BY <1>1, <1>3, ArriveKeeps
<1>4. ASSUME NEW r \in requests, RunTool(r) \/ RunTransaction(r) PROVE EdgeTypes' /\ PeopleHeld'
  <2>1. Done(r) /\ UNCHANGED <<directory, cache, changes, held, people>>
    BY <1>4 DEF RunTool, RunTransaction
  <2> QED BY <1>1, <2>1 DEF EdgeTypes, PeopleHeld, Done
<1>5. ASSUME NEW r \in requests, NEW a \in Actor, NEW role \in Role, InviteMember(r, a, role)
      PROVE  EdgeTypes' /\ PeopleHeld'
  <2>1. Granted(a, role) /\ Done(r) /\ UNCHANGED <<cache, people>>
    BY <1>5 DEF InviteMember
  <2>2. /\ held' \in [Actor -> SUBSET (Role \cup {None})]
        /\ directory' \in [Actor -> Role \cup {None}]
        /\ PeopleHeld'
    BY <1>1, <2>1, GrantKeeps
  <2> QED BY <1>1, <2>1, <2>2 DEF EdgeTypes, Done
<1>6. ASSUME Operate \/ UNCHANGED vars PROVE EdgeTypes' /\ PeopleHeld'
  <2>1. UNCHANGED <<directory, cache, requests, held, people>>
    BY <1>6 DEF Operate, vars, edge
  <2> QED BY <1>1, <2>1 DEF EdgeTypes, PeopleHeld
<1> QED BY <1>2, <1>3, <1>4, <1>5, <1>6 DEF Next

LEMMA WorkspaceInvariant == Spec => []WorkspaceInv
BY WorkspaceInit, WorkspaceStep, PTL DEF Spec

\* At every moment the rows refer to rows that are there: no draft, release or file
\* outlives its app, nor a live pointer its release, whoever deleted what in what order.
\* Only rows and live pointers of an app or release that a client's own transaction wrote
\* may refer to nothing, and those rows are marked when they are written.
THEOREM NothingOutlivesItsApp == Spec => []AppsAreWhole
<1>1. ASSUME WorkspaceInv, NEW r \in rows, r.kind # "app", Ref(r) \notin hand
      PROVE  \E s \in Of(rows, IF r.kind = "file" THEN "release" ELSE "app") : s.id = Ref(r)
  BY <1>1 DEF WorkspaceInv, Sound, Owned, HasOwner, Target
<1>2. ASSUME WorkspaceInv, NEW x \in Of(rows, "app"), x.id \notin hand, x.live # 0
      PROVE  \E r \in Of(rows, "release") : r.id = x.live /\ r.app = x.id
  BY <1>2 DEF WorkspaceInv, Sound, LivePointers, PointsWell
<1>3. WorkspaceInv => AppsAreWhole
  BY <1>1, <1>2, Zenon DEF AppsAreWhole
<1> QED BY <1>3, WorkspaceInvariant, PTL

\* No two drafts of an app have one path, no two releases of it one version and no two
\* files of a release one path, although the tools see only the rows their caller may
\* read; only among the rows of an app or release that a client's own transaction wrote
\* may there be two.
THEOREM NoRowIsDoubled == Spec => []NothingTwice
<1>1. ASSUME WorkspaceInv, NEW r \in rows, NEW s \in rows
      PROVE  \/ r = s \/ r.kind # s.kind
             \/ r.kind = "app" \/ Ref(r) \in hand
             \/ r.kind = "draft"   /\ (r.app # s.app \/ r.path # s.path)
             \/ r.kind = "release" /\ (r.app # s.app \/ r.version # s.version)
             \/ r.kind = "file"    /\ (r.release # s.release \/ r.path # s.path)
             \/ r.kind = "file"    /\ \E x \in Of(rows, "release") : x.id = r.release /\ x.app \in hand
  <2>1. r \in Row /\ (r = s \/ ~ Clash(r, s) \/ Marked(rows, hand, r))
    BY <1>1 DEF WorkspaceInv, Sound, Distinct
  <2> QED BY <2>1, RowKinds DEF Clash, Marked
<1>2. WorkspaceInv => NothingTwice
  BY <1>1 DEF NothingTwice
<1> QED BY <1>2, WorkspaceInvariant, PTL

----------------------------------------------------------------------------
\* Who may change what

\* Rows change only by the hand of one who was believed to be a member when they last
\* reached the cell; releases and files go only by that of one believed an admin, or the
\* operator's.  This holds of the tools and of the clients' own transactions alike.
THEOREM OnlyStandingWrites == Spec => WritersHeldTheirRole
<1>1. ASSUME WorkspaceInv, [Next]_vars, rows' # rows, author' # "operator"
      PROVE  /\ held[author'] \cap Role # {}
             /\ (\E r \in Lost(rows, rows') : r.kind \in {"release", "file"}) => "admin" \in held[author']
  <2>1. PICK a \in Actor : author' = a /\ Ruled(a, rows, rows')
    BY <1>1, StepWrites
  <2>2. Lost(rows, rows') \subseteq rows \ rows'
    BY DEF Lost, SameRow
  <2>3. /\ people[a] \in Role
        /\ \A r \in Lost(rows, rows') : r.kind \in {"release", "file"} => people[a] = "admin"
    BY <2>1, <2>2 DEF Ruled, IsMember
  <2>4. people[a] \in held[a]
    BY <1>1, <2>3 DEF WorkspaceInv, PeopleHeld
  <2> QED BY <2>1, <2>3, <2>4
<1>2. WorkspaceInv /\ [Next]_vars =>
        [rows' # rows /\ author' # "operator" =>
           /\ held[author'] \cap Role # {}
           /\ (\E r \in Lost(rows, rows') : r.kind \in {"release", "file"}) => "admin" \in held[author']]_vars
  BY <1>1
<1> QED BY <1>2, WorkspaceInvariant, PTL DEF Spec, WritersHeldTheirRole

\* While a release is there no tool, of whatever caller, adds or changes a file of it, and
\* neither does the operator: one who does is a client with a transaction of its own.  A
\* file goes, or is replaced, only by the hand of one believed an admin or the operator's.
THEOREM ReleasesStayFrozen == Spec => ReleasesAreFrozen
<1>1. ASSUME WorkspaceInv, [Next]_vars, NEW r \in Of(rows, "release") \cap Of(rows', "release")
      PROVE  LET files(w) == {f \in Of(w, "file") : f.release = r.id}
             IN  /\ files(rows') \subseteq files(rows) \/ r.id \in hand'
                 /\ files(rows) \subseteq files(rows') \/ author' = "operator" \/ "admin" \in held[author']
  <2> DEFINE files(w) == {f \in Of(w, "file") : f.release = r.id}
  <2>1. CASE rows' = rows
    BY <2>1
  <2>2. ASSUME Frozen(rows, rows', hand'), r.id \notin hand'
        PROVE  files(rows') \subseteq files(rows)
    BY <2>2 DEF Frozen, Of
  <2>3. ASSUME NEW a \in Actor, author' = a, Ruled(a, rows, rows')
        PROVE  files(rows) \subseteq files(rows') \/ "admin" \in held[author']
    <3>1. people[a] = "admin" => "admin" \in held[a]
      BY <1>1 DEF WorkspaceInv, PeopleHeld, Role
    <3>2. \A f \in rows \ rows' : f.kind = "file" => people[a] = "admin"
      BY <2>3 DEF Ruled
    <3> QED BY <2>3, <3>1, <3>2 DEF Of
  <2> QED BY <1>1, <2>1, <2>2, <2>3, StepWrites
<1>2. WorkspaceInv /\ [Next]_vars =>
        [\A r \in Of(rows, "release") \cap Of(rows', "release") :
           LET files(w) == {f \in Of(w, "file") : f.release = r.id}
           IN  /\ files(rows') \subseteq files(rows) \/ r.id \in hand'
               /\ files(rows) \subseteq files(rows') \/ author' = "operator" \/ "admin" \in held[author']]_vars
  BY <1>1
<1> QED BY <1>2, WorkspaceInvariant, PTL DEF Spec, ReleasesAreFrozen
=============================================================================
