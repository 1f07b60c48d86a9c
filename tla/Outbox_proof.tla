---------------------------- MODULE Outbox_proof ----------------------------
(***************************************************************************)
(* What holds of every client of Outbox: any number of writes, any faults  *)
(* of the network, any reloads and deploys, whatever the server answers.   *)
(***************************************************************************)
EXTENDS Outbox, SequenceTheorems, FiniteSetTheorems, WellFoundedInduction, TLAPS

----------------------------------------------------------------------------
\* The entries of an outbox that are carried over

Enumerates(p, K) ==
  /\ p \in [1..Cardinality(K) -> K]
  /\ \A i, j \in 1..Cardinality(K) : i < j => p[i] < p[j]

\* A greatest number more makes the enumeration one longer.
LEMMA EnumerationGrows ==
  ASSUME NEW k \in Nat, NEW K \in SUBSET (1..k), k \in K,
         NEW p, Enumerates(p, K \ {k})
  PROVE  \E q : Enumerates(q, K)
<1> DEFINE n == Cardinality(K \ {k})
           q == [i \in 1..(n + 1) |-> IF i = n + 1 THEN k ELSE p[i]]
<1>1. IsFiniteSet(K)
  <2>1. IsFiniteSet(1..k)  BY FS_Interval
  <2> QED  BY <2>1, FS_Subset
<1>2. n \in Nat /\ Cardinality(K) = n + 1
  <2>1. IsFiniteSet(K \ {k}) /\ Cardinality(K \ {k}) = Cardinality(K) - 1
    BY <1>1, FS_RemoveElement
  <2>2. Cardinality(K \ {k}) \in Nat /\ Cardinality(K) \in Nat
    BY <1>1, <2>1, FS_CardinalityType
  <2> QED  BY <2>1, <2>2
<1>3. \A i \in 1..n : p[i] \in K \ {k} /\ p[i] < k
  <2>1. p \in [1..n -> K \ {k}]  BY DEF Enumerates
  <2>2. \A x \in K \ {k} : x < k  OBVIOUS
  <2> HIDE DEF n
  <2> QED  BY <2>1, <2>2
<1>4. \A i, j \in 1..n : i < j => p[i] < p[j]  BY DEF Enumerates
<1> HIDE DEF n
<1>5. q \in [1..(n + 1) -> K]  BY <1>2, <1>3
<1>6. \A i, j \in 1..(n + 1) : i < j => q[i] < q[j]
  <2> TAKE i, j \in 1..(n + 1)
  <2> HAVE i < j
  <2>1. i \in 1..n /\ q[i] = p[i]  BY <1>2
  <2>2. CASE j = n + 1  BY <1>2, <1>3, <2>1, <2>2
  <2>3. CASE j # n + 1
    <3>1. j \in 1..n /\ q[j] = p[j]  BY <1>2, <2>3
    <3> QED  BY <1>4, <2>1, <3>1
  <2> QED  BY <2>2, <2>3
<1>7. Enumerates(q, K)  BY <1>2, <1>5, <1>6 DEF Enumerates
<1> QED  BY <1>7

\* Every finite set of numbers can be listed in order: a least bound for which some
\* set could not would leave no set for the bound below it.
LEMMA IncreasingEnumerates ==
  ASSUME NEW n \in Nat, NEW K \in SUBSET (1..n)
  PROVE  Enumerates(Increasing(K), K)
<1> DEFINE Bad == {k \in Nat : \E L \in SUBSET (1..k) : ~ \E p : Enumerates(p, L)}
           R == {ss \in Nat \X Nat : ss[1] < ss[2]}
<1>1. IsWellFoundedOn(R, Nat)
  BY NatLessThanWellFounded, Zenon DEF OpToRel
<1>2. Bad = {}
  <2> SUFFICES ASSUME Bad # {}  PROVE FALSE
    OBVIOUS
  <2>1. Bad \subseteq Nat  OBVIOUS
  <2>2. \A x, y \in Nat : y < x => <<y, x>> \in R  OBVIOUS
  <2>3. ASSUME NEW k \in Nat, k \in Bad  PROVE \E L \in SUBSET (1..k) : ~ \E p : Enumerates(p, L)
    BY <2>3
  <2>4. ASSUME NEW k \in Nat, k \notin Bad
        PROVE  \A L \in SUBSET (1..k) : \E p : Enumerates(p, L)
    BY <2>4
  <2> HIDE DEF Bad, R
  <2>5. PICK k \in Bad : \A y \in Bad : <<y, k>> \notin R
    BY <1>1, <2>1, WFMin
  <2>6. PICK L \in SUBSET (1..k) : ~ \E p : Enumerates(p, L)
    BY <2>1, <2>3
  <2>7. CASE k = 0
    <3>1. L = {}  BY <2>7
    <3>2. Cardinality(L) = 0  BY <3>1, FS_EmptySet
    <3>3. Enumerates([i \in {} |-> 0], L)  BY <3>1, <3>2 DEF Enumerates
    <3> QED  BY <2>6, <3>3
  <2>8. CASE k # 0
    <3>1. k - 1 \in Nat /\ k - 1 < k  BY <2>1, <2>8
    <3>2. k - 1 \notin Bad  BY <2>1, <2>2, <2>5, <3>1
    <3>3. \A M \in SUBSET (1..(k - 1)) : \E p : Enumerates(p, M)  BY <2>4, <3>1, <3>2
    <3>4. L \ {k} \in SUBSET (1..(k - 1))  BY <2>1, <3>1
    <3>5. PICK p : Enumerates(p, L \ {k})  BY <3>3, <3>4
    <3>6. CASE k \in L  BY <2>1, <2>6, <3>5, <3>6, EnumerationGrows
    <3>7. CASE k \notin L
      <4>1. L \ {k} = L  BY <3>7
      <4> QED  BY <2>6, <3>5, <4>1
    <3> QED  BY <3>6, <3>7
  <2> QED  BY <2>7, <2>8
<1>3. \E p : Enumerates(p, K)  BY <1>2
<1> HIDE DEF Bad, R
<1> QED  BY <1>3 DEF Increasing, Enumerates

----------------------------------------------------------------------------
\* Lists of mutations

Entries(s) == {s[i] : i \in DOMAIN s}

Distinct(s) == \A i, j \in DOMAIN s : s[i].write = s[j].write => i = j

Apart(s, t) == \A x \in Entries(s), y \in Entries(t) : x.write # y.write

LEMMA WritesOfEntries ==
  ASSUME NEW s  PROVE WritesOf(s) = {e.write : e \in Entries(s)}
BY DEF WritesOf, Entries

LEMMA EntriesTyped ==
  ASSUME NEW S, NEW s \in Seq(S)  PROVE Entries(s) \subseteq S
BY DEF Entries

LEMMA EmptyEntries == Entries(<<>>) = {} /\ Distinct(<<>>)
BY DEF Entries, Distinct

LEMMA EntriesAppend ==
  ASSUME NEW s \in Seq(Mutation), NEW e \in Mutation
  PROVE  /\ Append(s, e) \in Seq(Mutation)
         /\ Len(Append(s, e)) = Len(s) + 1
         /\ Entries(Append(s, e)) = Entries(s) \cup {e}
         /\ (Distinct(s) /\ \A x \in Entries(s) : x.write # e.write) => Distinct(Append(s, e))
         /\ Append(s, e) # <<>>
         /\ s # <<>> => Head(Append(s, e)) = Head(s)
<1> DEFINE t == Append(s, e)
<1>1. /\ t \in Seq(Mutation) /\ Len(t) = Len(s) + 1 /\ t # <<>> /\ Len(s) \in Nat
      /\ \A i \in 1..Len(s) : t[i] = s[i]
      /\ t[Len(s) + 1] = e
      /\ DOMAIN t = 1..(Len(s) + 1) /\ DOMAIN s = 1..Len(s)
  BY AppendProperties
<1>2. s # <<>> => Head(t) = Head(s)  BY HeadTailAppend
<1> HIDE DEF t
<1>3. Entries(t) = Entries(s) \cup {e}  BY <1>1 DEF Entries
<1>4. ASSUME Distinct(s), \A x \in Entries(s) : x.write # e.write  PROVE Distinct(t)
  <2>1. \A i \in 1..Len(s) : t[i].write # e.write  BY <1>1, <1>4 DEF Entries
  <2> QED  BY <1>1, <1>4, <2>1 DEF Distinct
<1> QED  BY <1>1, <1>2, <1>3, <1>4 DEF t

LEMMA EntriesTail ==
  ASSUME NEW s \in Seq(Mutation), s # <<>>
  PROVE  /\ Tail(s) \in Seq(Mutation)
         /\ Len(Tail(s)) = Len(s) - 1
         /\ \A i \in 1..Len(Tail(s)) : Tail(s)[i] = s[i + 1]
         /\ Head(s) \in Mutation /\ Head(s) = s[1] /\ Head(s) \in Entries(s)
         /\ Entries(s) = Entries(Tail(s)) \cup {Head(s)}
         /\ Distinct(s) => /\ Distinct(Tail(s))
                           /\ \A x \in Entries(Tail(s)) : x.write # Head(s).write
<1> DEFINE t == Tail(s)
<1>1. /\ t \in Seq(Mutation) /\ Len(t) = Len(s) - 1 /\ Len(s) \in Nat \ {0}
      /\ \A i \in 1..Len(t) : t[i] = s[i + 1]
      /\ Head(s) \in Mutation /\ Head(s) = s[1]
      /\ DOMAIN t = 1..(Len(s) - 1) /\ DOMAIN s = 1..Len(s)
  BY HeadTailProperties
<1> HIDE DEF t
<1>2. \A i \in 1..(Len(s) - 1) : i + 1 \in 1..Len(s)  BY <1>1
<1>3. \A j \in 1..Len(s) : j = 1 \/ (j - 1 \in 1..(Len(s) - 1) /\ s[j] = t[j - 1])  BY <1>1
<1>4. Head(s) \in Entries(s)  BY <1>1 DEF Entries
<1>5. Entries(s) = Entries(t) \cup {Head(s)}
  <2>1. Entries(t) \subseteq Entries(s)  BY <1>1, <1>2 DEF Entries
  <2>2. Entries(s) \subseteq Entries(t) \cup {Head(s)}  BY <1>1, <1>3 DEF Entries
  <2> QED  BY <1>4, <2>1, <2>2
<1>6. ASSUME Distinct(s)
      PROVE  Distinct(t) /\ \A x \in Entries(t) : x.write # Head(s).write
  <2>1. \A i, j \in 1..Len(s) : s[i].write = s[j].write => i = j  BY <1>1, <1>6 DEF Distinct
  <2>2. \A i, j \in 1..(Len(s) - 1) : s[i + 1].write = s[j + 1].write => i = j
    BY <1>1, <1>2, <2>1
  <2>3. \A i \in 1..(Len(s) - 1) : s[i + 1].write # s[1].write
    BY <1>1, <1>2, <2>1
  <2>4. Distinct(t)
    <3>1. \A i \in 1..(Len(s) - 1) : t[i] = s[i + 1]  BY <1>1
    <3> QED  BY <1>1, <2>2, <3>1 DEF Distinct
  <2>5. \A x \in Entries(t) : x.write # Head(s).write
    <3>1. \A i \in 1..(Len(s) - 1) : t[i] = s[i + 1]  BY <1>1
    <3> QED  BY <1>1, <2>3, <3>1 DEF Entries
  <2> QED  BY <2>4, <2>5
<1> QED  BY <1>1, <1>4, <1>5, <1>6 DEF t

LEMMA EntriesRemoveAt ==
  ASSUME NEW s \in Seq(Mutation), NEW k \in 1..Len(s)
  PROVE  /\ RemoveAt(s, k) \in Seq(Mutation)
         /\ Len(RemoveAt(s, k)) = Len(s) - 1
         /\ \A i \in 1..(Len(s) - 1) : RemoveAt(s, k)[i] = IF i < k THEN s[i] ELSE s[i + 1]
         /\ Distinct(s) => /\ Distinct(RemoveAt(s, k))
                           /\ Entries(RemoveAt(s, k)) = Entries(s) \ {s[k]}
<1> DEFINE a == SubSeq(s, 1, k - 1)
           b == SubSeq(s, k + 1, Len(s))
           t == RemoveAt(s, k)
<1>0. Len(s) \in Nat /\ DOMAIN s = 1..Len(s) /\ \A i \in 1..Len(s) : s[i] \in Mutation
  OBVIOUS
<1>1. a \in Seq(Mutation) /\ Len(a) = k - 1 /\ \A i \in 1..(k - 1) : a[i] = s[i]
  <2>1. 1 \in Int /\ k - 1 \in Int /\ \A i \in 1..(k - 1) : s[i] \in Mutation  BY <1>0
  <2>2. /\ a \in Seq(Mutation) /\ Len(a) = IF 1 <= k - 1 THEN (k - 1) - 1 + 1 ELSE 0
        /\ \A i \in 1..((k - 1) - 1 + 1) : a[i] = s[1 + i - 1]
    BY <2>1, SubSeqProperties
  <2> QED  BY <1>0, <2>2
<1>2. b \in Seq(Mutation) /\ Len(b) = Len(s) - k /\ \A i \in 1..(Len(s) - k) : b[i] = s[k + i]
  <2>1. k + 1 \in Int /\ Len(s) \in Int /\ \A i \in (k + 1)..Len(s) : s[i] \in Mutation  BY <1>0
  <2>2. /\ b \in Seq(Mutation)
        /\ Len(b) = IF k + 1 <= Len(s) THEN Len(s) - (k + 1) + 1 ELSE 0
        /\ \A i \in 1..(Len(s) - (k + 1) + 1) : b[i] = s[(k + 1) + i - 1]
    BY <2>1, SubSeqProperties
  <2>3. Len(s) - (k + 1) + 1 = Len(s) - k
        /\ \A i \in 1..(Len(s) - k) : (k + 1) + i - 1 = k + i
    BY <1>0
  <2>4. \A i \in 1..(Len(s) - k) : b[i] = s[k + i]
    <3> TAKE i \in 1..(Len(s) - k)
    <3>1. b[i] = s[(k + 1) + i - 1]  BY <2>2, <2>3
    <3>2. (k + 1) + i - 1 = k + i  BY <2>3
    <3> QED  BY <3>1, <3>2, Zenon
  <2> HIDE DEF b
  <2>5. k \in Nat /\ k <= Len(s) /\ Len(s) \in Nat  BY <1>0
  <2>6. Len(b) = Len(s) - k
    <3>1. CASE k + 1 <= Len(s)
      <4>1. Len(b) = Len(s) - (k + 1) + 1  BY <2>2, <3>1, Zenon
      <4> QED  BY <2>3, <4>1, Zenon
    <3>2. CASE ~ (k + 1 <= Len(s))
      <4>1. Len(b) = 0  BY <2>2, <3>2, Zenon
      <4>2. Len(s) - k = 0  BY <2>5, <3>2
      <4> QED  BY <4>1, <4>2, Zenon
    <3> QED  BY <3>1, <3>2
  <2> QED  BY <2>2, <2>4, <2>6
<1>3. t = a \o b  BY DEF RemoveAt
<1> HIDE DEF a, b, t
<1>4. /\ t \in Seq(Mutation) /\ Len(t) = Len(s) - 1
      /\ \A i \in 1..(Len(s) - 1) : t[i] = IF i < k THEN s[i] ELSE s[i + 1]
  <2>1. /\ t \in Seq(Mutation) /\ Len(t) = Len(a) + Len(b)
        /\ \A i \in 1..(Len(a) + Len(b)) : t[i] = IF i <= Len(a) THEN a[i] ELSE b[i - Len(a)]
    BY <1>1, <1>2, <1>3, ConcatProperties
  <2>2. Len(a) + Len(b) = Len(s) - 1  BY <1>0, <1>1, <1>2
  <2>3. ASSUME NEW i \in 1..(Len(s) - 1)  PROVE t[i] = IF i < k THEN s[i] ELSE s[i + 1]
    <3>1. t[i] = IF i <= Len(a) THEN a[i] ELSE b[i - Len(a)]  BY <2>1, <2>2
    <3>2. CASE i < k
      <4>1. i <= Len(a) /\ i \in 1..(k - 1)  BY <1>0, <1>1, <3>2
      <4> QED  BY <1>1, <3>1, <3>2, <4>1
    <3>3. CASE ~ (i < k)
      <4>1. ~ (i <= Len(a)) /\ i - Len(a) \in 1..(Len(s) - k) /\ k + (i - Len(a)) = i + 1
        BY <1>0, <1>1, <3>3
      <4>2. b[i - Len(a)] = s[i + 1]  BY <1>2, <4>1
      <4> QED  BY <3>1, <3>3, <4>1, <4>2
    <3> QED  BY <3>2, <3>3
  <2> QED  BY <2>1, <2>2, <2>3
<1>5. ASSUME Distinct(s)  PROVE Distinct(t) /\ Entries(t) = Entries(s) \ {s[k]}
  <2>1. DOMAIN t = 1..(Len(s) - 1)  BY <1>4
  <2> DEFINE At(i) == IF i < k THEN i ELSE i + 1
  <2>10. \A i \in 1..(Len(s) - 1) : At(i) \in 1..Len(s) \ {k} /\ t[i] = s[At(i)]
    BY <1>0, <1>4
  <2>11. \A i, j \in 1..(Len(s) - 1) : At(i) = At(j) => i = j  BY <1>0
  <2> HIDE DEF At
  <2>2. Distinct(t)  BY <1>0, <1>5, <2>1, <2>10, <2>11 DEF Distinct
  <2>3. Entries(t) \subseteq Entries(s) \ {s[k]}
    BY <1>0, <1>5, <2>1, <2>10 DEF Distinct, Entries
  <2>4. ASSUME NEW j \in 1..Len(s), j # k  PROVE s[j] \in Entries(t)
    <3>1. CASE j < k
      <4>1. j \in 1..(Len(s) - 1) /\ t[j] = s[j]  BY <1>0, <1>4, <3>1
      <4> QED  BY <2>1, <4>1 DEF Entries
    <3>2. CASE j > k
      <4>1. j - 1 \in 1..(Len(s) - 1) /\ t[j - 1] = s[j]  BY <1>0, <1>4, <3>2
      <4> QED  BY <2>1, <4>1 DEF Entries
    <3> QED  BY <1>0, <2>4, <3>1, <3>2
  <2>5. Entries(s) \ {s[k]} \subseteq Entries(t)  BY <1>0, <2>4 DEF Entries
  <2> QED  BY <2>2, <2>3, <2>5
<1> QED  BY <1>4, <1>5 DEF t

----------------------------------------------------------------------------
\* Layers: #pending holds the outbox and the chain, in the order of the calls.

Layered(p, o, c) ==
  /\ Distinct(p) /\ Distinct(o) /\ Distinct(c) /\ Apart(o, c)
  /\ Entries(o) \cup Entries(c) \subseteq Entries(p)

\* A mutationId is the write's number less the writes of earlier pages (base), for
\* the writes of this page. Those of earlier pages come first in both lists, in the
\* same order, and nothing is in the chain behind them: so the first entry with an
\* id is the one that is meant.
Numbered(p, o, c, base) ==
  /\ \A e \in Entries(p) : e.write > base => e.write = e.id + base
  /\ \A i \in DOMAIN o : o[i].write <= base =>
       /\ i \in DOMAIN p /\ p[i] = o[i]
       /\ \A j \in 1..i : o[j].write <= base
  /\ \A i \in DOMAIN p : p[i].write <= base => i \in DOMAIN o /\ o[i] = p[i]
  /\ c # <<>> => \A e \in Entries(p) : e.write > base

\* #drop on any list of layers.
DroppedFrom(p, id) ==
  LET found == {i \in DOMAIN p : p[i].id = id}
  IN  IF found = {} THEN p ELSE RemoveAt(p, CHOOSE i \in found : \A j \in found : i <= j)

LEMMA DroppedIsDroppedFrom == \A id : Dropped(id) = DroppedFrom(pending, id)
BY DEF Dropped, DroppedFrom

\* #drop removes an entry when no other has its id.
LEMMA DropsTheOnlyOne ==
  ASSUME NEW p \in Seq(Mutation), Distinct(p), NEW e \in Entries(p),
         \A x \in Entries(p) : x.id = e.id => x.write = e.write
  PROVE  \E k \in 1..Len(p) : p[k] = e /\ DroppedFrom(p, e.id) = RemoveAt(p, k)
<1> DEFINE found == {i \in DOMAIN p : p[i].id = e.id}
<1>1. DOMAIN p = 1..Len(p) /\ Len(p) \in Nat  OBVIOUS
<1>2. PICK k \in 1..Len(p) : p[k] = e  BY <1>1 DEF Entries
<1>3. k \in found  BY <1>1, <1>2
<1>4. ASSUME NEW i \in found  PROVE i = k
  <2>1. i \in DOMAIN p /\ p[i] \in Entries(p) /\ p[i].id = e.id  BY DEF Entries
  <2>2. p[i].write = p[k].write  BY <1>2, <2>1
  <2> QED  BY <1>1, <2>1, <2>2 DEF Distinct
<1>5. \A j \in found : k <= j  BY <1>1, <1>4
<1>6. (CHOOSE i \in found : \A j \in found : i <= j) = k  BY <1>3, <1>4, <1>5
<1>7. found # {}  BY <1>3
<1>8. DroppedFrom(p, e.id) =
      (IF found = {} THEN p ELSE RemoveAt(p, CHOOSE i \in found : \A j \in found : i <= j))
  BY DEF DroppedFrom
<1> HIDE DEF found
<1>9. DroppedFrom(p, e.id) = RemoveAt(p, k)  BY <1>6, <1>7, <1>8
<1> QED  BY <1>2, <1>9

\* #drop removes the first entry when that has the id.
LEMMA DropsTheFirst ==
  ASSUME NEW p \in Seq(Mutation), p # <<>>
  PROVE  DroppedFrom(p, p[1].id) = RemoveAt(p, 1)
<1> DEFINE found == {i \in DOMAIN p : p[i].id = p[1].id}
<1>1. DOMAIN p = 1..Len(p) /\ Len(p) \in Nat \ {0}  OBVIOUS
<1>2. 1 \in found /\ \A j \in found : 1 <= j  BY <1>1
<1>3. \A i \in found : (\A j \in found : i <= j) => i = 1  BY <1>1, <1>2
<1>4. (CHOOSE i \in found : \A j \in found : i <= j) = 1  BY <1>2, <1>3
<1>5. DroppedFrom(p, p[1].id) =
      (IF found = {} THEN p ELSE RemoveAt(p, CHOOSE i \in found : \A j \in found : i <= j))
  BY DEF DroppedFrom
<1>6. found # {}  BY <1>2
<1> HIDE DEF found
<1> QED  BY <1>4, <1>5, <1>6

\* Of entries all of this page, none shares its id with another.
LEMMA NewIdsDiffer ==
  ASSUME NEW p \in Seq(Mutation), NEW base \in Int,
         \A e \in Entries(p) : e.write > base,
         \A e \in Entries(p) : e.write > base => e.write = e.id + base
  PROVE  \A x, y \in Entries(p) : x.id = y.id => x.write = y.write
<1>1. \A e \in Entries(p) : e.write = e.id + base  OBVIOUS
<1> QED  BY <1>1

LEMMA NumberedWhenNew ==
  ASSUME NEW p \in Seq(Mutation), NEW o \in Seq(Mutation), NEW c, NEW base \in Int,
         \A e \in Entries(p) : e.write > base /\ e.write = e.id + base,
         Entries(o) \subseteq Entries(p)
  PROVE  Numbered(p, o, c, base)
<1>1. ASSUME NEW e \in Entries(p)  PROVE ~ (e.write <= base)
  <2>1. e \in Mutation /\ e.write > base  BY EntriesTyped
  <2> QED  BY <2>1 DEF Mutation
<1>2. \A i \in DOMAIN o : ~ (o[i].write <= base)  BY <1>1 DEF Entries
<1>3. \A i \in DOMAIN p : ~ (p[i].write <= base)  BY <1>1 DEF Entries
<1> QED  BY <1>2, <1>3 DEF Numbered

\* The send at the head of the chain is answered.
LEMMA ChainHeadDrops ==
  ASSUME NEW p \in Seq(Mutation), NEW o \in Seq(Mutation), NEW c \in Seq(Mutation),
         NEW base \in Int, Layered(p, o, c), Numbered(p, o, c, base), c # <<>>
  PROVE  /\ DroppedFrom(p, Head(c).id) \in Seq(Mutation)
         /\ Layered(DroppedFrom(p, Head(c).id), o, Tail(c))
         /\ Numbered(DroppedFrom(p, Head(c).id), o, Tail(c), base)
         /\ Entries(DroppedFrom(p, Head(c).id)) = Entries(p) \ {Head(c)}
<1> DEFINE e == Head(c)
           t == Tail(c)
           q == DroppedFrom(p, e.id)
<1>1. /\ t \in Seq(Mutation) /\ Len(t) = Len(c) - 1 /\ e \in Entries(c)
      /\ Entries(c) = Entries(t) \cup {e} /\ Distinct(t)
      /\ \A x \in Entries(t) : x.write # e.write
  BY EntriesTail DEF Layered
<1>2. e \in Entries(p)  BY <1>1 DEF Layered
<1>3. \A x \in Entries(p) : x.write > base /\ x.write = x.id + base  BY DEF Numbered
<1>4. \A x \in Entries(p) : x.id = e.id => x.write = e.write  BY <1>2, <1>3
<1> HIDE DEF e, t
<1>5. PICK k \in 1..Len(p) : p[k] = e /\ q = RemoveAt(p, k)
  BY <1>2, <1>4, DropsTheOnlyOne DEF Layered
<1>6. /\ q \in Seq(Mutation) /\ Len(q) = Len(p) - 1
      /\ Distinct(q) /\ Entries(q) = Entries(p) \ {e}
  <2> HIDE DEF q
  <2>1. Distinct(p)  BY DEF Layered
  <2>2. /\ RemoveAt(p, k) \in Seq(Mutation) /\ Len(RemoveAt(p, k)) = Len(p) - 1
        /\ Distinct(RemoveAt(p, k)) /\ Entries(RemoveAt(p, k)) = Entries(p) \ {p[k]}
    BY <2>1, EntriesRemoveAt
  <2> QED  BY <1>5, <2>2
<1> HIDE DEF q
<1>7. Apart(o, t) /\ e \notin Entries(o)  BY <1>1 DEF Layered, Apart
<1>8. Entries(o) \cup Entries(t) \subseteq Entries(q)
  BY <1>1, <1>6, <1>7 DEF Layered
<1>10. Layered(q, o, t)  BY <1>1, <1>6, <1>7, <1>8 DEF Layered
<1>11. Numbered(q, o, t, base)
  <2>1. \A x \in Entries(q) : x.write > base /\ x.write = x.id + base  BY <1>3, <1>6
  <2>2. Entries(o) \subseteq Entries(q)  BY <1>8
  <2> QED  BY <1>6, <2>1, <2>2, NumberedWhenNew
<1> QED  BY <1>6, <1>10, <1>11 DEF e, t, q

\* The entry at the head of the outbox is answered.
LEMMA OutboxHeadDrops ==
  ASSUME NEW p \in Seq(Mutation), NEW o \in Seq(Mutation), NEW c \in Seq(Mutation),
         NEW base \in Int, Layered(p, o, c), Numbered(p, o, c, base), o # <<>>
  PROVE  /\ DroppedFrom(p, Head(o).id) \in Seq(Mutation)
         /\ Layered(DroppedFrom(p, Head(o).id), Tail(o), c)
         /\ Numbered(DroppedFrom(p, Head(o).id), Tail(o), c, base)
         /\ Entries(DroppedFrom(p, Head(o).id)) = Entries(p) \ {Head(o)}
<1> DEFINE e == Head(o)
           t == Tail(o)
           q == DroppedFrom(p, e.id)
<1>1. /\ t \in Seq(Mutation) /\ Len(t) = Len(o) - 1 /\ e \in Entries(o) /\ e = o[1]
      /\ Entries(o) = Entries(t) \cup {e} /\ Distinct(t)
      /\ \A x \in Entries(t) : x.write # e.write
      /\ \A i \in 1..Len(t) : t[i] = o[i + 1]
  BY EntriesTail DEF Layered
<1>2. e \in Entries(p)  BY <1>1 DEF Layered
<1>3. /\ e.write \in Nat /\ Len(o) \in Nat \ {0} /\ Len(p) \in Nat /\ Len(t) \in Nat
      /\ DOMAIN o = 1..Len(o) /\ DOMAIN p = 1..Len(p) /\ DOMAIN t = 1..Len(t)
  <2>1. e \in Mutation  BY <1>2, EntriesTyped
  <2>2. e.write \in Nat  BY <2>1, OutboxAssumption DEF Mutation
  <2>3. Len(o) \in Nat \ {0} /\ Len(p) \in Nat /\ DOMAIN o = 1..Len(o) /\ DOMAIN p = 1..Len(p)
    OBVIOUS
  <2> HIDE DEF t
  <2>4. Len(t) \in Nat /\ DOMAIN t = 1..Len(t)  BY <1>1
  <2> QED  BY <2>2, <2>3, <2>4
<1> HIDE DEF e, t
<1>4. \E k \in 1..Len(p) : /\ p[k] = e /\ q = RemoveAt(p, k)
                           /\ e.write <= base => k = 1
                           /\ e.write > base => \A x \in Entries(p) : x.write > base
  <2>1. CASE e.write <= base
    <3>1. 1 \in DOMAIN o /\ o[1].write <= base  BY <1>1, <1>3, <2>1
    <3>2. 1 \in 1..Len(p) /\ p[1] = e  BY <1>1, <1>3, <3>1 DEF Numbered
    <3>3. p # <<>>  BY <1>3, <3>2
    <3>4. q = RemoveAt(p, 1)  BY <3>2, <3>3, DropsTheFirst
    <3>5. ~ (e.write > base)  BY <1>3, <2>1
    <3> HIDE DEF q
    <3> QED  BY <3>2, <3>4, <3>5
  <2>2. CASE e.write > base
    <3>1. ASSUME NEW x \in Entries(p)  PROVE x.write > base
      <4>1. x.write \in Nat
        <5>1. x \in Mutation  BY EntriesTyped
        <5> QED  BY <5>1, OutboxAssumption DEF Mutation
      <4>2. PICK i \in 1..Len(p) : x = p[i]  BY <1>3 DEF Entries
      <4>3. ASSUME x.write <= base  PROVE FALSE
        <5>1. i \in DOMAIN o /\ o[i].write <= base  BY <1>3, <4>2, <4>3 DEF Numbered
        <5>2. o[1].write <= base  BY <1>3, <5>1 DEF Numbered
        <5> QED  BY <1>1, <1>3, <2>2, <5>2
      <4> QED  BY <4>1, <4>3
    <3>2. \A x \in Entries(p) : x.id = e.id => x.write = e.write
      BY <1>2, <3>1, NewIdsDiffer DEF Numbered
    <3>3. PICK k \in 1..Len(p) : p[k] = e /\ q = RemoveAt(p, k)
      BY <1>2, <3>2, DropsTheOnlyOne DEF Layered
    <3>4. ~ (e.write <= base)  BY <1>3, <2>2
    <3> HIDE DEF q
    <3> QED  BY <3>1, <3>3, <3>4
  <2> QED  BY <1>3, <2>1, <2>2
<1> HIDE DEF q
<1>5. PICK k \in 1..Len(p) : /\ p[k] = e /\ q = RemoveAt(p, k)
                             /\ e.write <= base => k = 1
                             /\ e.write > base => \A x \in Entries(p) : x.write > base
  BY <1>4
<1>6. /\ q \in Seq(Mutation) /\ Len(q) = Len(p) - 1
      /\ Distinct(q) /\ Entries(q) = Entries(p) \ {e}
      /\ \A i \in 1..(Len(p) - 1) : q[i] = IF i < k THEN p[i] ELSE p[i + 1]
  <2>1. Distinct(p)  BY DEF Layered
  <2>2. /\ RemoveAt(p, k) \in Seq(Mutation) /\ Len(RemoveAt(p, k)) = Len(p) - 1
        /\ Distinct(RemoveAt(p, k)) /\ Entries(RemoveAt(p, k)) = Entries(p) \ {p[k]}
        /\ \A i \in 1..(Len(p) - 1) : RemoveAt(p, k)[i] = IF i < k THEN p[i] ELSE p[i + 1]
    BY <2>1, EntriesRemoveAt
  <2> QED  BY <1>5, <2>2
<1>7. Apart(t, c) /\ e \notin Entries(c) /\ e \notin Entries(t)
  BY <1>1 DEF Layered, Apart
<1>8. Entries(t) \cup Entries(c) \subseteq Entries(q)
  BY <1>1, <1>6, <1>7 DEF Layered
<1>10. Layered(q, t, c)  BY <1>1, <1>6, <1>7, <1>8 DEF Layered
<1>11. Numbered(q, t, c, base)
  <2>1. CASE e.write > base
    <3>1. \A x \in Entries(q) : x.write > base /\ x.write = x.id + base
      BY <1>5, <1>6, <2>1 DEF Numbered
    <3>2. Entries(t) \subseteq Entries(q)  BY <1>8
    <3> QED  BY <1>1, <1>6, <3>1, <3>2, NumberedWhenNew
  <2>2. CASE e.write <= base
    <3>1. DOMAIN q = 1..(Len(p) - 1) /\ \A i \in 1..(Len(p) - 1) : q[i] = p[i + 1]
      BY <1>3, <1>5, <1>6, <2>2
    <3>2. DOMAIN t = 1..(Len(o) - 1) /\ \A i \in 1..(Len(o) - 1) : t[i] = o[i + 1]
      BY <1>1, <1>3
    <3>3. ASSUME NEW i \in DOMAIN t, t[i].write <= base
          PROVE  /\ i \in DOMAIN q /\ q[i] = t[i]
                 /\ \A j \in 1..i : t[j].write <= base
      <4>1. i + 1 \in DOMAIN o /\ o[i + 1].write <= base  BY <1>3, <3>2, <3>3
      <4>2. i + 1 \in DOMAIN p /\ p[i + 1] = o[i + 1]
            /\ \A j \in 1..(i + 1) : o[j].write <= base
        BY <4>1 DEF Numbered
      <4>3. i \in 1..(Len(p) - 1)  BY <1>3, <3>2, <4>2
      <4>4. \A j \in 1..i : j + 1 \in 1..(i + 1) /\ t[j] = o[j + 1]  BY <1>3, <3>2
      <4> QED  BY <3>1, <3>2, <4>2, <4>3, <4>4
    <3>4. ASSUME NEW i \in DOMAIN q, q[i].write <= base
          PROVE  i \in DOMAIN t /\ t[i] = q[i]
      <4>1. i + 1 \in DOMAIN p /\ p[i + 1].write <= base  BY <1>3, <3>1, <3>4
      <4>2. i + 1 \in DOMAIN o /\ o[i + 1] = p[i + 1]  BY <4>1 DEF Numbered
      <4>3. i \in 1..(Len(o) - 1)  BY <1>3, <3>1, <4>2
      <4> QED  BY <3>1, <3>2, <4>2, <4>3
    <3>5. c # <<>> => \A x \in Entries(q) : x.write > base  BY <1>6 DEF Numbered
    <3>6. \A x \in Entries(q) : x.write > base => x.write = x.id + base
      BY <1>6 DEF Numbered
    <3> QED  BY <3>3, <3>4, <3>5, <3>6 DEF Numbered
  <2> QED  BY <1>3, <2>1, <2>2
<1> QED  BY <1>6, <1>10, <1>11 DEF e, t, q

\* A call behind a queue joins the queue.
LEMMA JoinsOutbox ==
  ASSUME NEW p \in Seq(Mutation), NEW o \in Seq(Mutation), NEW c \in Seq(Mutation),
         NEW base \in Int, Layered(p, o, c), Numbered(p, o, c, base),
         NEW m \in Mutation, m.write > base, m.write = m.id + base,
         \A e \in Entries(p) : e.write < m.write
  PROVE  Layered(Append(p, m), Append(o, m), c) /\ Numbered(Append(p, m), Append(o, m), c, base)
<1> DEFINE p2 == Append(p, m)
           o2 == Append(o, m)
<1>0. \A e \in Entries(p) : e.write # m.write
  <2>1. Entries(p) \subseteq Mutation  BY EntriesTyped
  <2> QED  BY <2>1, OutboxAssumption DEF Mutation
<1>1. /\ p2 \in Seq(Mutation) /\ Len(p2) = Len(p) + 1 /\ Entries(p2) = Entries(p) \cup {m}
      /\ Distinct(p2)
  BY <1>0, EntriesAppend DEF Layered
<1>2. /\ o2 \in Seq(Mutation) /\ Len(o2) = Len(o) + 1 /\ Entries(o2) = Entries(o) \cup {m}
      /\ Distinct(o2)
  BY <1>0, EntriesAppend DEF Layered
<1>3. /\ Len(p) \in Nat /\ Len(o) \in Nat
      /\ DOMAIN p = 1..Len(p) /\ DOMAIN o = 1..Len(o)
      /\ DOMAIN p2 = 1..(Len(p) + 1) /\ DOMAIN o2 = 1..(Len(o) + 1)
      /\ \A i \in 1..Len(p) : p2[i] = p[i]
      /\ \A i \in 1..Len(o) : o2[i] = o[i]
      /\ p2[Len(p) + 1] = m /\ o2[Len(o) + 1] = m
  BY AppendProperties DEF Layered
<1>4. ~ (m.write <= base)  BY OutboxAssumption DEF Mutation
<1> HIDE DEF p2, o2
<1>5. Apart(o2, c)  BY <1>0, <1>2 DEF Layered, Apart
<1>6. Layered(p2, o2, c)
  <2>1. Entries(o2) \cup Entries(c) \subseteq Entries(p2)  BY <1>1, <1>2 DEF Layered
  <2> QED  BY <1>1, <1>2, <1>5, <2>1 DEF Layered
<1>7. Numbered(p2, o2, c, base)
  <2>1. ASSUME NEW i \in DOMAIN o2, o2[i].write <= base
        PROVE  i \in DOMAIN p2 /\ p2[i] = o2[i] /\ \A j \in 1..i : o2[j].write <= base
    <3>1. i \in 1..Len(o) /\ o[i].write <= base  BY <1>3, <1>4, <2>1
    <3>2. i \in 1..Len(p) /\ p[i] = o[i] /\ \A j \in 1..i : o[j].write <= base
      BY <1>3, <3>1 DEF Numbered
    <3>3. \A j \in 1..i : j \in 1..Len(o)  BY <1>3, <3>1
    <3> QED  BY <1>3, <3>1, <3>2, <3>3
  <2>2. ASSUME NEW i \in DOMAIN p2, p2[i].write <= base
        PROVE  i \in DOMAIN o2 /\ o2[i] = p2[i]
    <3>1. i \in 1..Len(p) /\ p[i].write <= base  BY <1>3, <1>4, <2>2
    <3>2. i \in 1..Len(o) /\ o[i] = p[i]  BY <1>3, <3>1 DEF Numbered
    <3> QED  BY <1>3, <3>1, <3>2
  <2>3. \A e \in Entries(p2) : e.write > base => e.write = e.id + base
    BY <1>1 DEF Numbered
  <2>4. c # <<>> => \A e \in Entries(p2) : e.write > base  BY <1>1 DEF Numbered
  <2> QED  BY <2>1, <2>2, <2>3, <2>4 DEF Numbered
<1> QED  BY <1>6, <1>7 DEF p2, o2

\* A call with no queue joins the chain; nothing of earlier pages is left then.
LEMMA JoinsChain ==
  ASSUME NEW p \in Seq(Mutation), NEW c \in Seq(Mutation),
         NEW base \in Int, Layered(p, <<>>, c), Numbered(p, <<>>, c, base),
         NEW m \in Mutation, m.write > base, m.write = m.id + base,
         \A e \in Entries(p) : e.write < m.write
  PROVE  Layered(Append(p, m), <<>>, Append(c, m)) /\ Numbered(Append(p, m), <<>>, Append(c, m), base)
<1> DEFINE p2 == Append(p, m)
           c2 == Append(c, m)
<1>0. Entries(p) \subseteq Mutation /\ \A e \in Entries(p) : e.write # m.write /\ e.write \in Nat
  <2>1. Entries(p) \subseteq Mutation  BY EntriesTyped
  <2> QED  BY <2>1, OutboxAssumption DEF Mutation
<1>1. /\ p2 \in Seq(Mutation) /\ Len(p2) = Len(p) + 1 /\ Entries(p2) = Entries(p) \cup {m}
      /\ Distinct(p2)
  BY <1>0, EntriesAppend DEF Layered
<1>2. /\ Len(c2) = Len(c) + 1 /\ Entries(c2) = Entries(c) \cup {m} /\ Distinct(c2)
  BY <1>0, EntriesAppend DEF Layered
<1>3. \A e \in Entries(p) : e.write > base /\ e.write = e.id + base
  <2> TAKE e \in Entries(p)
  <2>1. PICK i \in DOMAIN p : p[i] = e  BY DEF Entries
  <2>2. ~ (e.write <= base)  BY <2>1 DEF Numbered
  <2> QED  BY <1>0, <2>2 DEF Numbered
<1> HIDE DEF p2, c2
<1>4. Layered(p2, <<>>, c2)
  <2>1. Entries(<<>>) = {} /\ Distinct(<<>>)  BY EmptyEntries
  <2> QED  BY <1>1, <1>2, <2>1 DEF Layered, Apart
<1>5. Numbered(p2, <<>>, c2, base)
  <2>1. \A e \in Entries(p2) : e.write > base /\ e.write = e.id + base  BY <1>1, <1>3
  <2>2. Entries(<<>>) \subseteq Entries(p2) /\ <<>> \in Seq(Mutation)  BY EmptyEntries
  <2> QED  BY <1>1, <2>1, <2>2, NumberedWhenNew
<1> QED  BY <1>4, <1>5 DEF p2, c2

\* A send that the network failed moves from the chain to the queue.
LEMMA MovesOver ==
  ASSUME NEW p \in Seq(Mutation), NEW o \in Seq(Mutation), NEW c \in Seq(Mutation),
         NEW base \in Int, Layered(p, o, c), Numbered(p, o, c, base), c # <<>>
  PROVE  /\ Append(o, Head(c)) \in Seq(Mutation) /\ Tail(c) \in Seq(Mutation)
         /\ Layered(p, Append(o, Head(c)), Tail(c))
         /\ Numbered(p, Append(o, Head(c)), Tail(c), base)
<1> DEFINE e == Head(c)
           t == Tail(c)
           o2 == Append(o, e)
<1>1. /\ t \in Seq(Mutation) /\ Len(t) = Len(c) - 1 /\ e \in Entries(c) /\ e \in Mutation
      /\ Entries(c) = Entries(t) \cup {e} /\ Distinct(t)
      /\ \A x \in Entries(t) : x.write # e.write
  BY EntriesTail DEF Layered
<1> HIDE DEF e, t
<1>2. \A x \in Entries(o) : x.write # e.write  BY <1>1 DEF Layered, Apart
<1>3. /\ o2 \in Seq(Mutation) /\ Len(o2) = Len(o) + 1 /\ Entries(o2) = Entries(o) \cup {e}
      /\ Distinct(o2)
  BY <1>1, <1>2, EntriesAppend DEF Layered
<1> HIDE DEF o2
<1>4. Apart(o2, t)  BY <1>1, <1>3 DEF Layered, Apart
<1>5. Entries(o2) \cup Entries(t) \subseteq Entries(p)  BY <1>1, <1>3 DEF Layered
<1>7. Layered(p, o2, t)  BY <1>1, <1>3, <1>4, <1>5 DEF Layered
<1>8. Numbered(p, o2, t, base)
  <2>1. \A x \in Entries(p) : x.write > base /\ x.write = x.id + base  BY DEF Numbered
  <2>2. Entries(o2) \subseteq Entries(p)  BY <1>5
  <2> QED  BY <1>3, <2>1, <2>2, NumberedWhenNew
<1> QED  BY <1>1, <1>3, <1>7, <1>8 DEF e, t, o2

\* An outdated page takes the head off the chain and leaves its layer.
LEMMA ChainHeadStays ==
  ASSUME NEW p \in Seq(Mutation), NEW o \in Seq(Mutation), NEW c \in Seq(Mutation),
         NEW base \in Int, Layered(p, o, c), Numbered(p, o, c, base), c # <<>>
  PROVE  Layered(p, o, Tail(c)) /\ Numbered(p, o, Tail(c), base)
<1>1. Entries(Tail(c)) \subseteq Entries(c) /\ Distinct(Tail(c))
  BY EntriesTail DEF Layered
<1>2. Layered(p, o, Tail(c))  BY <1>1 DEF Layered, Apart
<1>3. \A x \in Entries(p) : x.write > base /\ x.write = x.id + base  BY DEF Numbered
<1>4. Numbered(p, o, Tail(c), base)  BY <1>3, NumberedWhenNew DEF Layered
<1> QED  BY <1>2, <1>4

\* It takes the head off the outbox and leaves its layer: one of this page's own, or
\* one of an earlier page, with nothing in the chain.
LEMMA OutboxHeadStays ==
  ASSUME NEW p \in Seq(Mutation), NEW o \in Seq(Mutation), NEW c \in Seq(Mutation),
         NEW base \in Int, Layered(p, o, c), Numbered(p, o, c, base), o # <<>>
  PROVE  /\ Layered(p, Tail(o), c)
         /\ c = <<>> \/ Numbered(p, Tail(o), c, base)
<1>1. Entries(Tail(o)) \subseteq Entries(o) /\ Distinct(Tail(o)) /\ Tail(o) \in Seq(Mutation)
  BY EntriesTail DEF Layered
<1>2. Layered(p, Tail(o), c)  BY <1>1 DEF Layered, Apart
<1>3. ASSUME c # <<>>  PROVE Numbered(p, Tail(o), c, base)
  <2>1. \A x \in Entries(p) : x.write > base /\ x.write = x.id + base
    BY <1>3 DEF Numbered
  <2>2. Entries(Tail(o)) \subseteq Entries(p)  BY <1>2 DEF Layered
  <2> QED  BY <1>1, <2>1, <2>2, NumberedWhenNew
<1> QED  BY <1>2, <1>3

\* The layers of a new page are the outbox it hydrated.
LEMMA HydratesAlike ==
  ASSUME NEW s \in Seq(Mutation), Distinct(s), NEW base \in Int,
         \A e \in Entries(s) : e.write <= base
  PROVE  Layered(s, s, <<>>) /\ Numbered(s, s, <<>>, base)
<1>1. Entries(<<>>) = {} /\ Distinct(<<>>)  BY EmptyEntries
<1>3. DOMAIN s = 1..Len(s) /\ Len(s) \in Nat  OBVIOUS
<1>4. Entries(s) \subseteq Mutation  BY EntriesTyped
<1>5. \A e \in Entries(s) : ~ (e.write > base)
  BY <1>4, OutboxAssumption DEF Mutation
<1>6. \A i \in DOMAIN s : s[i].write <= base  BY DEF Entries
<1>7. Layered(s, s, <<>>)  BY <1>1 DEF Layered, Apart
<1>8. Numbered(s, s, <<>>, base)
  <2>1. \A i \in DOMAIN s : \A j \in 1..i : j \in DOMAIN s  BY <1>3
  <2> QED  BY <1>5, <1>6, <2>1 DEF Numbered
<1> QED  BY <1>7, <1>8

----------------------------------------------------------------------------
\* The inductive invariant

Base == made - counter

Types ==
  /\ made \in 0..MaxWrites /\ counter \in 0..made
  /\ pending \in Seq(Mutation) /\ chain \in Seq(Mutation) /\ outbox \in Seq(Mutation)
  /\ saved.outbox \in Seq(Mutation) /\ saved.generation \in 0..MaxDeploys
  /\ draining \in BOOLEAN /\ drainTimer \in BOOLEAN /\ saveTimer \in BOOLEAN
  /\ online \in BOOLEAN /\ outdated \in BOOLEAN
  /\ generation \in 0..MaxDeploys /\ deployed \in 0..MaxDeploys
  /\ wire \subseteq Message
  /\ applied \in Seq(1..MaxWrites)

\* An outdated page that kept the layer of an answered write of an earlier page: it
\* has nothing left to drop, to send or to call.
Over == outdated /\ ~ draining /\ chain = <<>>

\* The layers, in memory and on disk, are of calls that were made.
LayerInv ==
  /\ Layered(pending, outbox, chain)
  /\ Numbered(pending, outbox, chain, Base) \/ Over
  /\ Distinct(saved.outbox)
  /\ \A e \in Entries(pending) \cup Entries(saved.outbox) : e.write <= made

\* The chain and the drain each wait for one answer, to what is at their head; what a
\* page left behind it is of a write whose end that page did not learn.
WireInv ==
  /\ \A m \in wire :
       /\ m.via = "chain" => chain # <<>> /\ m.mutation = Head(chain)
       /\ m.via = "drain" => outbox # <<>> /\ m.mutation = Head(outbox)
       /\ m.via = "gone" => m.stage = "request" /\ m.mutation.write \in unsure
       /\ m.mutation.write <= made
  /\ \A m, n \in wire : m.via = n.via /\ m.via # "gone" => m = n
  /\ draining <=> \E m \in wire : m.via = "drain"

\* The key of the dirty check is that of the present layers, or of a page that has not
\* changed any.
SaveInv == savedKey \in {<<>>, KeyOf(outbox, pending)} /\ SavedWhenQuiet

\* Nothing that reached the disk is lost in memory or on the disk.
LostInv == NothingSilentlyLost /\ durable \subseteq WritesOf(saved.outbox) \cup settled

Committed(w) == w \in {applied[i] : i \in DOMAIN applied}
Told(w)      == w \in settled /\ w \notin WritesOf(outbox) \cup WritesOf(chain)
AckComing(w) == \E m \in wire : m.stage = "ack" /\ m.mutation.write = w
NotAsked(w)  == \A m \in wire : m.mutation.write = w => m.stage # "request"

\* A committed write that is not in doubt is nowhere to be sent again: its caller was
\* told, or its ack is under way.
Once(w) ==
  /\ \A i, j \in DOMAIN applied : applied[i] = w /\ applied[j] = w => i = j
  /\ Committed(w) => NotAsked(w) /\ (Told(w) \/ AckComing(w))

OnceInv ==
  /\ \A i \in DOMAIN applied : applied[i] <= made
  /\ \A w \in 1..MaxWrites : w \in unsure \/ Once(w)

\* A layer that outlived its write is an outdated page's, and the write committed.
LeftInv ==
  /\ \A e \in Entries(pending) \ (Entries(outbox) \cup Entries(chain)) :
       outdated /\ Committed(e.write)
  /\ \A m \in wire : m.stage = "ack" => Committed(m.mutation.write)

OutboxInv == Types /\ LayerInv /\ WireInv /\ SaveInv /\ LostInv /\ OnceInv /\ LeftInv

----------------------------------------------------------------------------
\* The effects of the steps

\* The ends of a send: the caller is told, and the layer dropped unless an outdated
\* page's queries throw.
ChainEnds(m) == ChainAnswer(m) \/ ChainAckThrows(m) \/ ChainMismatch(m)

LEMMA ChainEndsEffect ==
  ASSUME NEW m \in wire, ChainEnds(m)
  PROVE  /\ m.via = "chain" /\ m.stage \in {"ack", "reject", "mismatch"}
         /\ wire' = wire \ {m}
         /\ chain' = Tail(chain)
         /\ \/ pending' = DroppedFrom(pending, m.mutation.id)
            \/ pending' = pending /\ outdated /\ m.stage = "ack"
         /\ settled' = settled \cup {m.mutation.write}
         /\ UNCHANGED outbox
         /\ Persist
         /\ UNCHANGED <<made, counter, draining, drainTimer, saved, generation, serverVars,
                        durable, unsure>>
         /\ online' = online \/ online' = (online /\ outdated)
         /\ outdated' = outdated \/ outdated' = TRUE
BY DroppedIsDroppedFrom
DEF ChainEnds, ChainAnswer, ChainAckThrows, ChainMismatch, Outdate, Waiting, pageVars, timerVars

\* The ends of an entry of the drain, which goes on with the next one or stops.
DrainEnds(m) == DrainAnswer(m) \/ DrainAnswerThrows(m)

\* Steps that leave the layers, what is saved of them and who was told alone.
Quiet ==
  \/ SendHead
  \/ DrainFires
  \/ \E m \in wire : DrainFailure(m) \/ DrainMismatch(m)
  \/ Connect \/ HelloMismatch \/ Deploy
  \/ \E m \in wire : ServeCommit(m) \/ ServeReject(m) \/ ServeMismatch(m) \/ Lose(m)

LEMMA QuietEffect ==
  ASSUME Quiet
  PROVE  UNCHANGED <<made, counter, pending, outbox, chain, saved, saveTimer, savedKey, durable,
                     settled, generation>>
BY DEF Quiet, SendHead, DrainFires, DrainFailure, DrainMismatch, Connect, HelloMismatch, Deploy,
       ServeCommit, ServeReject, ServeMismatch, Lose, Outdate, saveVars, pageVars

\* What is over stays over until the page is loaded again.
LEMMA QuietStaysOver ==
  ASSUME Quiet, outdated
  PROVE  outdated' /\ (~ draining => ~ draining')
<1> USE DEF timerVars, pageVars
<1>1. ASSUME NEW m \in wire, DrainFailure(m) \/ DrainMismatch(m)
      PROVE  outdated' /\ ~ draining'
  BY <1>1 DEF DrainFailure, DrainMismatch, Outdate
<1>2. ASSUME NEW m \in wire, ServeCommit(m) \/ ServeReject(m) \/ ServeMismatch(m) \/ Lose(m)
      PROVE  UNCHANGED <<outdated, draining>>
  BY <1>2 DEF ServeCommit, ServeReject, ServeMismatch, Lose
<1>3. CASE SendHead \/ Connect \/ HelloMismatch \/ Deploy
  <2>1. UNCHANGED <<outdated, draining>> \/ HelloMismatch
    BY <1>3, Zenon DEF SendHead, Connect, Deploy, ScheduleDrain
  <2> QED  BY <2>1 DEF HelloMismatch
<1>4. CASE DrainFires
  BY <1>4 DEF DrainFires
<1> QED  BY <1>1, <1>2, <1>3, <1>4 DEF Quiet

LEMMA NextCases ==
  Next => \/ Transact
          \/ \E m \in wire : ChainEnds(m)
          \/ \E m \in wire : ChainFailure(m)
          \/ \E m \in wire : DrainEnds(m)
          \/ SaveFires
          \/ \E g \in 0..MaxDeploys : Reload(g)
          \/ Quiet
BY Zenon DEF Next, Quiet, ChainEnds, DrainEnds

\* What a server's answer or a fault does to a message.
Restaged(m, stage) == [m EXCEPT !.stage = stage]
Abandoned(m)       == [m EXCEPT !.via = "gone"]

LEMMA RestagedTyped ==
  ASSUME NEW m \in Message, NEW stage \in Stage
  PROVE  /\ Restaged(m, stage) \in Message
         /\ Restaged(m, stage).via = m.via /\ Restaged(m, stage).mutation = m.mutation
         /\ Restaged(m, stage).stage = stage
BY DEF Restaged, Message

LEMMA AbandonedTyped ==
  ASSUME NEW m \in Message
  PROVE  /\ Abandoned(m) \in Message
         /\ Abandoned(m).via = "gone" /\ Abandoned(m).mutation = m.mutation
         /\ Abandoned(m).stage = m.stage
BY DEF Abandoned, Message

LEMMA RequestTyped ==
  ASSUME generation \in 0..MaxDeploys, NEW e \in Mutation, NEW via \in {"chain", "drain"}
  PROVE  /\ Request(e, via) \in Message
         /\ Request(e, via).via = via /\ Request(e, via).mutation = e
         /\ Request(e, via).stage = "request"
BY DEF Request, Message, Stage

\* Every step on the wire that is not the client's own.
LEMMA AnsweredEffect ==
  ASSUME NEW m \in wire,
         ServeCommit(m) \/ ServeReject(m) \/ ServeMismatch(m) \/ Lose(m)
  PROVE  \E stage \in Stage :
           /\ stage # "request"
           /\ wire' = (wire \ {m}) \cup (IF m.via = "gone" THEN {} ELSE {Restaged(m, stage)})
           /\ \/ /\ m.stage = "request" /\ stage = "ack"
                 /\ applied' = Append(applied, m.mutation.write)
                 /\ UNCHANGED unsure
              \/ /\ UNCHANGED applied /\ stage # "ack"
                 /\ unsure' = unsure \cup (IF m.stage = "ack" THEN {m.mutation.write} ELSE {})
           /\ UNCHANGED <<draining, drainTimer, online, outdated, deployed>>
<1> USE DEF Stage, Answered, Restaged, pageVars, timerVars, serverVars
<1>1. CASE ServeCommit(m)  BY <1>1 DEF ServeCommit
<1>2. CASE ServeReject(m)
  <2>1. m.stage = "request" /\ Answered(m, "reject") /\ UNCHANGED <<applied, unsure>>
    BY <1>2 DEF ServeReject
  <2>2. unsure' = unsure \cup (IF m.stage = "ack" THEN {m.mutation.write} ELSE {})  BY <2>1
  <2> QED  BY <1>2, <2>1, <2>2 DEF ServeReject
<1>3. CASE ServeMismatch(m)
  <2>1. m.stage = "request" /\ Answered(m, "mismatch") /\ UNCHANGED <<applied, unsure>>
    BY <1>3 DEF ServeMismatch
  <2>2. unsure' = unsure \cup (IF m.stage = "ack" THEN {m.mutation.write} ELSE {})  BY <2>1
  <2> QED  BY <1>3, <2>1, <2>2 DEF ServeMismatch
<1>4. CASE Lose(m)  BY <1>4 DEF Lose
<1> QED  BY <1>1, <1>2, <1>3, <1>4

\* A page takes over entries of the saved outbox, each at most once.
LEMMA CarriedTyped ==
  ASSUME Types, Distinct(saved.outbox), NEW g
  PROVE  /\ Carried(g) \in Seq(Mutation)
         /\ Distinct(Carried(g))
         /\ Entries(Carried(g)) \subseteq Entries(saved.outbox)
         /\ g = saved.generation => Carried(g) = saved.outbox
<1> DEFINE s == saved.outbox
           K == {i \in DOMAIN s : s[i].write \in Carriable}
           n == Cardinality(K)
           q == Increasing(K)
           t == [i \in 1..n |-> s[q[i]]]
<1>1. CASE g = saved.generation
  <2>1. Carried(g) = saved.outbox  BY <1>1 DEF Carried
  <2> QED  BY <2>1 DEF Types
<1>2. CASE g # saved.generation
  <2>1. s \in Seq(Mutation) /\ DOMAIN s = 1..Len(s) /\ Len(s) \in Nat
        /\ \A i \in 1..Len(s) : s[i] \in Mutation
    BY DEF Types
  <2>2. K \in SUBSET (1..Len(s))  BY <2>1
  <2>3. Enumerates(q, K)  BY <2>1, <2>2, IncreasingEnumerates
  <2>4. n \in Nat
    <3>1. IsFiniteSet(1..Len(s))  BY <2>1, FS_Interval
    <3>2. IsFiniteSet(K)  BY <2>2, <3>1, FS_Subset
    <3> QED  BY <3>2, FS_CardinalityType
  <2>5. Carried(g) = t  BY <1>2 DEF Carried
  <2> HIDE DEF K, s
  <2>6. /\ \A i \in 1..n : q[i] \in 1..Len(s)
        /\ \A i, j \in 1..n : i < j => q[i] < q[j]
    BY <2>2, <2>3 DEF Enumerates
  <2> HIDE DEF n, q
  <2>7. \A i, j \in 1..n : q[i] = q[j] => i = j
    <3> TAKE i, j \in 1..n
    <3>1. i < j => q[i] < q[j]  BY <2>6
    <3>2. j < i => q[j] < q[i]  BY <2>6
    <3>3. q[i] \in Nat /\ q[j] \in Nat /\ i \in Nat /\ j \in Nat  BY <2>1, <2>4, <2>6
    <3> QED  BY <3>1, <3>2, <3>3
  <2>8. t \in [1..n -> Mutation] /\ \A i \in 1..n : t[i] = s[q[i]]  BY <2>1, <2>6
  <2> HIDE DEF t
  <2>9. t \in Seq(Mutation) /\ DOMAIN t = 1..n  BY <2>4, <2>8
  <2>10. Distinct(t)
    <3>1. \A i, j \in 1..Len(s) : s[i].write = s[j].write => i = j  BY <2>1 DEF Distinct, s
    <3> QED  BY <2>6, <2>7, <2>8, <2>9, <3>1 DEF Distinct
  <2>11. Entries(t) \subseteq Entries(s)  BY <2>1, <2>6, <2>8, <2>9 DEF Entries
  <2> QED  BY <1>2, <2>5, <2>9, <2>10, <2>11 DEF s
<1> QED  BY <1>1, <1>2

----------------------------------------------------------------------------
\* Typing

\* The call's mutation.
Called == [write |-> made + 1, id |-> counter + 1]

LEMMA CalledTyped ==
  ASSUME Types, made < MaxWrites
  PROVE  /\ Called \in Mutation /\ Called.write = made + 1 /\ Called.id = counter + 1
         /\ made + 1 \in 0..MaxWrites /\ counter + 1 \in 0..(made + 1)
         /\ Base \in Int /\ Base <= made /\ Called.write > Base /\ Called.write = Called.id + Base
         /\ (made + 1) - (counter + 1) = Base
<1>1. made \in Nat /\ counter \in Nat /\ counter <= made /\ made + 1 <= MaxWrites
  BY OutboxAssumption DEF Types
<1>2. Called \in Mutation  BY <1>1, OutboxAssumption DEF Called, Mutation
<1> QED  BY <1>1, <1>2, OutboxAssumption DEF Called, Base

\* A call: the layer shows, and the write joins the queue or the chain.
LEMMA TransactEffect ==
  ASSUME Transact
  PROVE  /\ made < MaxWrites /\ ~ outdated
         /\ made' = made + 1 /\ counter' = counter + 1
         /\ pending' = Append(pending, Called)
         /\ \/ outbox # <<>> /\ outbox' = Append(outbox, Called) /\ chain' = chain
            \/ outbox = <<>> /\ outbox' = outbox /\ chain' = Append(chain, Called)
         /\ Persist
         /\ draining' = draining
         /\ drainTimer' = drainTimer \/ drainTimer' = (drainTimer \/ ~ draining)
         /\ UNCHANGED <<saved, online, generation, outdated, wire, deployed, applied, durable,
                        settled, unsure>>
BY DEF Transact, Called, ScheduleDrain, timerVars, serverVars

\* A failed send moves to the queue.
LEMMA ChainFailureEffect ==
  ASSUME NEW m \in wire, ChainFailure(m)
  PROVE  /\ m.via = "chain" /\ m.stage = "failed"
         /\ wire' = wire \ {m}
         /\ chain' = Tail(chain)
         /\ outbox' = Append(outbox, m.mutation)
         /\ Persist
         /\ draining' = draining
         /\ drainTimer' = (drainTimer \/ ~ draining)
         /\ UNCHANGED <<made, counter, pending, saved, online, generation, outdated, deployed,
                        applied, durable, settled, unsure>>
BY DEF ChainFailure, Waiting, ScheduleDrain, pageVars, serverVars

LEMMA DrainEndsEffect ==
  ASSUME NEW m \in wire, DrainEnds(m)
  PROVE  /\ m.via = "drain" /\ m.stage \in {"ack", "reject"}
         /\ outbox' = Tail(outbox)
         /\ \/ pending' = DroppedFrom(pending, m.mutation.id)
            \/ pending' = pending /\ outdated /\ m.stage = "ack" /\ ~ draining'
         /\ settled' = settled \cup {m.mutation.write}
         /\ \/ /\ outbox' # <<>> /\ draining' = TRUE
               /\ wire' = (wire \ {m}) \cup {Request(Head(outbox'), "drain")}
            \/ draining' = FALSE /\ wire' = wire \ {m}
         /\ Persist
         /\ UNCHANGED <<made, counter, chain, drainTimer, saved, online, generation, outdated,
                        deployed, applied, durable, unsure>>
<1> USE DroppedIsDroppedFrom DEF Waiting, pageVars, serverVars
<1>1. CASE DrainAnswer(m)
  <2>1. CASE outbox' = <<>>  BY <1>1, <2>1 DEF DrainAnswer
  <2>2. CASE outbox' # <<>>  BY <1>1, <2>2 DEF DrainAnswer
  <2> QED  BY <2>1, <2>2
<1>2. CASE DrainAnswerThrows(m)
  <2>1. CASE m.stage = "ack"  BY <1>2, <2>1 DEF DrainAnswerThrows
  <2>2. CASE m.stage # "ack"  BY <1>2, <2>2 DEF DrainAnswerThrows
  <2> QED  BY <2>1, <2>2
<1> QED  BY <1>1, <1>2 DEF DrainEnds

LEMMA PersistTyped ==
  ASSUME saveTimer \in BOOLEAN, Persist  PROVE saveTimer' \in BOOLEAN
BY Zenon DEF Persist

LEMMA LayersTyped ==
  ASSUME OutboxInv
  PROVE  /\ pending \in Seq(Mutation) /\ outbox \in Seq(Mutation) /\ chain \in Seq(Mutation)
         /\ Base \in Int /\ made \in Nat /\ counter \in Nat
         /\ Layered(pending, outbox, chain)
         /\ ~ Over => Numbered(pending, outbox, chain, Base)
<1>1. made \in Nat /\ counter \in Nat  BY OutboxAssumption DEF OutboxInv, Types
<1> QED  BY <1>1 DEF OutboxInv, Types, LayerInv, Base

\* Who waits for an answer to what.
LEMMA ChainWaits ==
  ASSUME OutboxInv, NEW m \in wire, m.via = "chain"
  PROVE  /\ chain # <<>> /\ m.mutation = Head(chain) /\ m.mutation \in Mutation
         /\ Numbered(pending, outbox, chain, Base)
<1>1. m.mutation \in Mutation  BY DEF OutboxInv, Types, Message
<1>2. chain # <<>> /\ m.mutation = Head(chain)  BY DEF OutboxInv, WireInv
<1> QED  BY <1>1, <1>2, LayersTyped DEF Over

LEMMA DrainWaits ==
  ASSUME OutboxInv, NEW m \in wire, m.via = "drain"
  PROVE  /\ outbox # <<>> /\ m.mutation = Head(outbox) /\ m.mutation \in Mutation
         /\ Numbered(pending, outbox, chain, Base)
<1>1. m.mutation \in Mutation  BY DEF OutboxInv, Types, Message
<1>2. outbox # <<>> /\ m.mutation = Head(outbox) /\ draining  BY DEF OutboxInv, WireInv
<1> QED  BY <1>1, <1>2, LayersTyped DEF Over

LEMMA TypesPreserved ==
  ASSUME OutboxInv, Next  PROVE Types'
<1>0. Types  BY DEF OutboxInv
<1>1. CASE Transact
  <2>1. made < MaxWrites /\ made' = made + 1 /\ counter' = counter + 1
        /\ pending' = Append(pending, Called)
        /\ (outbox' = Append(outbox, Called) \/ outbox' = outbox)
        /\ (chain' = Append(chain, Called) \/ chain' = chain)
        /\ Persist
    BY <1>1, TransactEffect
  <2>2. Called \in Mutation /\ made + 1 \in 0..MaxWrites /\ counter + 1 \in 0..(made + 1)
    BY <1>0, <2>1, CalledTyped
  <2>3. pending' \in Seq(Mutation) /\ outbox' \in Seq(Mutation) /\ chain' \in Seq(Mutation)
    BY <1>0, <2>1, <2>2, EntriesAppend DEF Types
  <2>4. saveTimer' \in BOOLEAN  BY <1>0, <2>1, PersistTyped DEF Types
  <2>5. drainTimer' \in BOOLEAN
    <3>1. drainTimer \in BOOLEAN /\ draining \in BOOLEAN  BY <1>0 DEF Types
    <3>2. drainTimer' = drainTimer \/ drainTimer' = (drainTimer \/ ~ draining)
      BY <1>1, TransactEffect
    <3> QED  BY <3>1, <3>2, Zenon
  <2>6. UNCHANGED <<saved, online, generation, outdated, wire, deployed, applied, draining>>
    BY <1>1, TransactEffect
  <2> QED  BY <1>0, <2>1, <2>2, <2>3, <2>4, <2>5, <2>6 DEF Types
<1>2. ASSUME NEW m \in wire, ChainEnds(m)  PROVE Types'
  <2>1. /\ m.via = "chain" /\ wire' = wire \ {m} /\ chain' = Tail(chain)
        /\ pending' = DroppedFrom(pending, m.mutation.id) \/ pending' = pending
        /\ UNCHANGED outbox /\ Persist
        /\ UNCHANGED <<made, counter, draining, drainTimer, saved, generation, serverVars>>
        /\ online' = online \/ online' = (online /\ outdated)
        /\ outdated' = outdated \/ outdated' = TRUE
    BY <1>2, ChainEndsEffect
  <2>2. /\ chain # <<>> /\ m.mutation = Head(chain)
        /\ Numbered(pending, outbox, chain, Base)
    BY <2>1, ChainWaits
  <2>3. pending' \in Seq(Mutation)  BY <2>1, <2>2, LayersTyped, ChainHeadDrops
  <2>4. chain' \in Seq(Mutation)  BY <1>0, <2>1, <2>2, EntriesTail DEF Types
  <2>5. saveTimer' \in BOOLEAN  BY <1>0, <2>1, PersistTyped DEF Types
  <2>6. online' \in BOOLEAN /\ outdated' \in BOOLEAN
    <3>1. online \in BOOLEAN /\ outdated \in BOOLEAN  BY <1>0 DEF Types
    <3> QED  BY <2>1, <3>1, Zenon
  <2> QED  BY <1>0, <2>1, <2>3, <2>4, <2>5, <2>6 DEF Types, serverVars
<1>3. ASSUME NEW m \in wire, ChainFailure(m)  PROVE Types'
  <2>1. /\ m.via = "chain" /\ wire' = wire \ {m} /\ chain' = Tail(chain)
        /\ outbox' = Append(outbox, m.mutation) /\ Persist
        /\ draining' = draining /\ drainTimer' = (drainTimer \/ ~ draining)
        /\ UNCHANGED <<made, counter, pending, saved, online, generation, outdated, deployed,
                       applied>>
    BY <1>3, ChainFailureEffect
  <2>2. /\ chain # <<>> /\ m.mutation = Head(chain)
        /\ Numbered(pending, outbox, chain, Base)
    BY <2>1, ChainWaits
  <2>3. outbox' \in Seq(Mutation) /\ chain' \in Seq(Mutation)
    BY <2>1, <2>2, LayersTyped, MovesOver
  <2>4. saveTimer' \in BOOLEAN  BY <1>0, <2>1, PersistTyped DEF Types
  <2>5. drainTimer' \in BOOLEAN  BY <2>1, Zenon
  <2> QED  BY <1>0, <2>1, <2>3, <2>4, <2>5 DEF Types
<1>4. ASSUME NEW m \in wire, DrainEnds(m)  PROVE Types'
  <2>1. /\ m.via = "drain" /\ outbox' = Tail(outbox)
        /\ pending' = DroppedFrom(pending, m.mutation.id) \/ pending' = pending
        /\ \/ /\ outbox' # <<>> /\ draining' = TRUE
              /\ wire' = (wire \ {m}) \cup {Request(Head(outbox'), "drain")}
           \/ draining' = FALSE /\ wire' = wire \ {m}
        /\ Persist
        /\ UNCHANGED <<made, counter, chain, drainTimer, saved, online, generation, outdated,
                       deployed, applied>>
    BY <1>4, DrainEndsEffect
  <2>2. /\ outbox # <<>> /\ m.mutation = Head(outbox)
        /\ Numbered(pending, outbox, chain, Base)
    BY <2>1, DrainWaits
  <2>3. pending' \in Seq(Mutation)  BY <2>1, <2>2, LayersTyped, OutboxHeadDrops
  <2>4. outbox' \in Seq(Mutation)  BY <1>0, <2>1, <2>2, EntriesTail DEF Types
  <2>5. saveTimer' \in BOOLEAN  BY <1>0, <2>1, PersistTyped DEF Types
  <2>6. draining' \in BOOLEAN  BY <2>1, Zenon
  <2>7. outbox' # <<>> => Request(Head(outbox'), "drain") \in Message
    BY <1>0, <2>4, EntriesTail, RequestTyped DEF Types
  <2>8. wire' \subseteq Message  BY <1>0, <2>1, <2>7 DEF Types
  <2> QED  BY <1>0, <2>1, <2>3, <2>4, <2>5, <2>6, <2>8 DEF Types
<1>5. CASE SaveFires
  BY <1>0, <1>5 DEF SaveFires, Types, timerVars, pageVars, serverVars
<1>6. ASSUME NEW g \in 0..MaxDeploys, Reload(g)  PROVE Types'
  <2>1. Carried(g) \in Seq(Mutation)
    BY <1>0, CarriedTyped DEF OutboxInv, LayerInv
  <2>2. outbox' = Carried(g) /\ pending' = Carried(g) /\ chain' = <<>>
    BY <1>6 DEF Reload, Hydrate
  <2>3. wire' \subseteq Message
    <3>1. wire' = {Abandoned(n) : n \in {n \in wire : n.stage = "request"}}
      BY <1>6 DEF Reload, Abandoned
    <3> QED  BY <1>0, <3>1, AbandonedTyped DEF Types
  <2>4. /\ generation' = g /\ counter' = 0 /\ online' = FALSE /\ outdated' = FALSE
        /\ draining' = FALSE /\ drainTimer' = FALSE /\ saveTimer' = FALSE
        /\ UNCHANGED <<made, saved, deployed, applied>>
    BY <1>6 DEF Reload, serverVars
  <2>5. made' \in 0..MaxWrites /\ counter' \in 0..made'
    BY <1>0, <2>4, OutboxAssumption DEF Types
  <2>6. /\ draining' \in BOOLEAN /\ drainTimer' \in BOOLEAN /\ saveTimer' \in BOOLEAN
        /\ online' \in BOOLEAN /\ outdated' \in BOOLEAN
    BY <2>4, Zenon
  <2>7. pending' \in Seq(Mutation) /\ chain' \in Seq(Mutation) /\ outbox' \in Seq(Mutation)
    BY <2>1, <2>2
  <2> QED  BY <1>0, <2>3, <2>4, <2>5, <2>6, <2>7 DEF Types
<1>7. CASE Quiet
  <2>1. UNCHANGED <<made, counter, pending, outbox, chain, saved, saveTimer, generation>>
    BY <1>7, QuietEffect
  <2>2. CASE SendHead
    <3>1. chain # <<>> /\ wire' = wire \cup {Request(Head(chain), "chain")}
          /\ UNCHANGED <<draining, drainTimer, online, outdated, deployed, applied>>
      BY <2>2 DEF SendHead, timerVars, pageVars, serverVars
    <3>2. Request(Head(chain), "chain") \in Message
      BY <1>0, <3>1, EntriesTail, RequestTyped DEF Types
    <3> QED  BY <1>0, <2>1, <3>1, <3>2 DEF Types
  <2>3. CASE DrainFires
    <3>1. drainTimer' = FALSE /\ UNCHANGED <<online, outdated, deployed, applied>>
      BY <2>3 DEF DrainFires, pageVars, serverVars
    <3>2. \/ UNCHANGED <<draining, wire>>
          \/ outbox # <<>> /\ draining' = TRUE /\ wire' = wire \cup {Request(Head(outbox), "drain")}
      BY <2>3 DEF DrainFires
    <3>3. outbox # <<>> => Request(Head(outbox), "drain") \in Message
      BY <1>0, EntriesTail, RequestTyped DEF Types
    <3> QED  BY <1>0, <2>1, <3>1, <3>2, <3>3 DEF Types
  <2>4. ASSUME NEW m \in wire, DrainFailure(m) \/ DrainMismatch(m)  PROVE Types'
    <3>1. /\ wire' = wire \ {m} /\ draining' = FALSE
          /\ UNCHANGED <<deployed, applied>>
          /\ online' = online \/ online' = (online /\ outdated)
          /\ outdated' = outdated \/ outdated' = TRUE
      BY <2>4 DEF DrainFailure, DrainMismatch, Outdate, pageVars, serverVars
    <3>2. drainTimer' = drainTimer \/ drainTimer' = (drainTimer \/ ~ draining)
      BY <2>4 DEF DrainFailure, DrainMismatch
    <3>3. drainTimer' \in BOOLEAN
      <4>1. drainTimer \in BOOLEAN  BY <1>0 DEF Types
      <4> QED  BY <3>2, <4>1, Zenon
    <3>4. online' \in BOOLEAN /\ outdated' \in BOOLEAN
      <4>1. online \in BOOLEAN /\ outdated \in BOOLEAN  BY <1>0 DEF Types
      <4> QED  BY <3>1, <4>1, Zenon
    <3> QED  BY <1>0, <2>1, <3>1, <3>3, <3>4 DEF Types
  <2>5. CASE Connect
    <3>1. /\ online' = TRUE /\ draining' = draining /\ drainTimer' = (drainTimer \/ ~ draining)
          /\ UNCHANGED <<outdated, wire, deployed, applied>>
      BY <2>5 DEF Connect, ScheduleDrain, serverVars
    <3>2. drainTimer' \in BOOLEAN  BY <3>1, Zenon
    <3> QED  BY <1>0, <2>1, <3>1, <3>2 DEF Types
  <2>6. CASE HelloMismatch
    <3>1. /\ online' = (online /\ outdated) /\ outdated' = TRUE
          /\ UNCHANGED <<draining, drainTimer, wire, deployed, applied>>
      BY <2>6 DEF HelloMismatch, Outdate, timerVars, serverVars
    <3>2. online' \in BOOLEAN  BY <3>1, Zenon
    <3> QED  BY <1>0, <2>1, <3>1, <3>2 DEF Types
  <2>7. CASE Deploy
    <3>1. deployed' \in 0..MaxDeploys  BY <1>0, <2>7, OutboxAssumption DEF Deploy, Types
    <3> QED  BY <1>0, <2>1, <2>7, <3>1 DEF Deploy, Types, timerVars, pageVars
  <2>8. ASSUME NEW m \in wire,
               ServeCommit(m) \/ ServeReject(m) \/ ServeMismatch(m) \/ Lose(m)
        PROVE  Types'
    <3>1. PICK stage \in Stage :
            /\ wire' = (wire \ {m}) \cup (IF m.via = "gone" THEN {} ELSE {Restaged(m, stage)})
            /\ applied' = Append(applied, m.mutation.write) \/ UNCHANGED applied
            /\ UNCHANGED <<draining, drainTimer, online, outdated, deployed>>
      BY <2>8, AnsweredEffect
    <3>2. m \in Message /\ m.mutation \in Mutation /\ m.mutation.write \in 1..MaxWrites
      BY <1>0 DEF Types, Message, Mutation
    <3>3. wire' \subseteq Message  BY <1>0, <3>1, <3>2, RestagedTyped DEF Types
    <3>4. applied' \in Seq(1..MaxWrites)
      <4> DEFINE S == 1..MaxWrites
      <4>1. applied \in Seq(S) /\ m.mutation.write \in S  BY <1>0, <3>2 DEF Types
      <4> HIDE DEF S
      <4>2. Append(applied, m.mutation.write) \in Seq(S)  BY <4>1, AppendProperties
      <4>3. applied' \in Seq(S)  BY <3>1, <4>1, <4>2
      <4> QED  BY <4>3 DEF S
    <3> QED  BY <1>0, <2>1, <3>1, <3>3, <3>4 DEF Types
  <2> QED  BY <1>7, <2>2, <2>3, <2>4, <2>5, <2>6, <2>7, <2>8 DEF Quiet
<1> QED  BY <1>1, <1>2, <1>3, <1>4, <1>5, <1>6, <1>7, NextCases

----------------------------------------------------------------------------
\* Layers

LEMMA LayersUnchanged ==
  ASSUME LayerInv, UNCHANGED <<made, counter, pending, outbox, chain, saved>>,
         outdated => outdated' /\ (~ draining => ~ draining')
  PROVE  LayerInv'
BY DEF LayerInv, Base, Over

LEMMA LayerPreserved ==
  ASSUME OutboxInv, Next  PROVE LayerInv'
<1>0. Types /\ LayerInv  BY DEF OutboxInv
<1>1. CASE Transact
  <2>1. /\ made < MaxWrites /\ ~ outdated /\ made' = made + 1 /\ counter' = counter + 1
        /\ pending' = Append(pending, Called)
        /\ \/ outbox # <<>> /\ outbox' = Append(outbox, Called) /\ chain' = chain
           \/ outbox = <<>> /\ outbox' = outbox /\ chain' = Append(chain, Called)
        /\ saved' = saved
    BY <1>1, TransactEffect
  <2>2. /\ Called \in Mutation /\ Called.write = made + 1
        /\ Base \in Int /\ Called.write > Base /\ Called.write = Called.id + Base
        /\ Base' = Base /\ made \in Nat
    BY <1>0, <2>1, CalledTyped, OutboxAssumption DEF Base, Types
  <2>3. \A e \in Entries(pending) \cup Entries(saved.outbox) : e.write < Called.write /\ e.write <= made'
    <3>1. Entries(pending) \subseteq Mutation /\ Entries(saved.outbox) \subseteq Mutation
      BY <1>0, EntriesTyped DEF Types
    <3>2. ASSUME NEW e \in Entries(pending) \cup Entries(saved.outbox)
          PROVE  e.write < made + 1 /\ e.write <= made + 1
      <4>1. e \in Mutation /\ e.write <= made  BY <1>0, <3>1 DEF LayerInv
      <4>2. e.write \in Nat  BY <4>1, OutboxAssumption DEF Mutation
      <4> QED  BY <2>2, <4>1, <4>2
    <3> QED  BY <2>1, <2>2, <3>2
  <2>4. Layered(pending', outbox', chain') /\ Numbered(pending', outbox', chain', Base')
    <3>0. Numbered(pending, outbox, chain, Base)  BY <2>1, LayersTyped DEF Over
    <3>1. CASE outbox # <<>> /\ outbox' = Append(outbox, Called) /\ chain' = chain
      BY <2>1, <2>2, <2>3, <3>0, <3>1, LayersTyped, JoinsOutbox
    <3>2. CASE outbox = <<>> /\ outbox' = outbox /\ chain' = Append(chain, Called)
      BY <2>1, <2>2, <2>3, <3>0, <3>2, LayersTyped, JoinsChain
    <3> QED  BY <2>1, <3>1, <3>2
  <2>5. Entries(pending') = Entries(pending) \cup {Called}
    BY <1>0, <2>1, <2>2, EntriesAppend DEF Types
  <2>6. \A e \in Entries(pending') \cup Entries(saved'.outbox) : e.write <= made'
    BY <2>1, <2>2, <2>3, <2>5
  <2> QED  BY <1>0, <2>1, <2>4, <2>6 DEF LayerInv
<1>2. ASSUME NEW m \in wire, ChainEnds(m)  PROVE LayerInv'
  <2>1. /\ m.via = "chain" /\ chain' = Tail(chain)
        /\ pending' = DroppedFrom(pending, m.mutation.id) \/ pending' = pending
        /\ UNCHANGED <<made, counter, outbox, saved>>
    BY <1>2, ChainEndsEffect
  <2>2. /\ chain # <<>> /\ m.mutation = Head(chain)
        /\ Numbered(pending, outbox, chain, Base)
    BY <2>1, ChainWaits
  <2>3. /\ Layered(pending', outbox', chain') /\ Numbered(pending', outbox', chain', Base)
        /\ Entries(pending') \subseteq Entries(pending)
    BY <2>1, <2>2, LayersTyped, ChainHeadDrops, ChainHeadStays
  <2> QED  BY <1>0, <2>1, <2>3 DEF LayerInv, Base
<1>3. ASSUME NEW m \in wire, ChainFailure(m)  PROVE LayerInv'
  <2>1. /\ m.via = "chain" /\ chain' = Tail(chain) /\ outbox' = Append(outbox, m.mutation)
        /\ UNCHANGED <<made, counter, pending, saved>>
    BY <1>3, ChainFailureEffect
  <2>2. /\ chain # <<>> /\ m.mutation = Head(chain)
        /\ Numbered(pending, outbox, chain, Base)
    BY <2>1, ChainWaits
  <2>3. Layered(pending', outbox', chain') /\ Numbered(pending', outbox', chain', Base)
    BY <2>1, <2>2, LayersTyped, MovesOver
  <2> QED  BY <1>0, <2>1, <2>3 DEF LayerInv, Base
<1>4. ASSUME NEW m \in wire, DrainEnds(m)  PROVE LayerInv'
  <2>1. /\ m.via = "drain" /\ outbox' = Tail(outbox)
        /\ \/ pending' = DroppedFrom(pending, m.mutation.id)
           \/ pending' = pending /\ outdated /\ ~ draining'
        /\ UNCHANGED <<made, counter, chain, saved, outdated>>
    BY <1>4, DrainEndsEffect
  <2>2. /\ outbox # <<>> /\ m.mutation = Head(outbox)
        /\ Numbered(pending, outbox, chain, Base)
    BY <2>1, DrainWaits
  <2>3. CASE pending' = DroppedFrom(pending, m.mutation.id)
    <3>1. /\ Layered(pending', outbox', chain') /\ Numbered(pending', outbox', chain', Base)
          /\ Entries(pending') \subseteq Entries(pending)
      BY <2>1, <2>2, <2>3, LayersTyped, OutboxHeadDrops
    <3> QED  BY <1>0, <2>1, <3>1 DEF LayerInv, Base
  <2>4. CASE pending' = pending /\ outdated /\ ~ draining'
    <3>1. /\ Layered(pending', outbox', chain')
          /\ chain = <<>> \/ Numbered(pending', outbox', chain', Base)
      BY <2>1, <2>2, <2>4, LayersTyped, OutboxHeadStays
    <3> QED  BY <1>0, <2>1, <2>4, <3>1 DEF LayerInv, Base, Over
  <2> QED  BY <2>1, <2>3, <2>4
<1>5. CASE SaveFires
  <2>1. /\ saved'.outbox = outbox
        /\ UNCHANGED <<made, counter, pending, outbox, chain, outdated, draining>>
    BY <1>5 DEF SaveFires, pageVars, timerVars
  <2>2. Distinct(outbox) /\ Entries(outbox) \subseteq Entries(pending)
    BY <1>0 DEF LayerInv, Layered
  <2> QED  BY <1>0, <2>1, <2>2 DEF LayerInv, Base, Over
<1>6. ASSUME NEW g \in 0..MaxDeploys, Reload(g)  PROVE LayerInv'
  <2>1. /\ Carried(g) \in Seq(Mutation) /\ Distinct(Carried(g))
        /\ Entries(Carried(g)) \subseteq Entries(saved.outbox)
    BY <1>0, CarriedTyped DEF LayerInv
  <2>2. /\ outbox' = Carried(g) /\ pending' = Carried(g) /\ chain' = <<>> /\ counter' = 0
        /\ made' = made /\ saved' = saved
    BY <1>6 DEF Reload, Hydrate
  <2>3. Base' = made /\ made \in Int  BY <1>0, <2>2, OutboxAssumption DEF Base, Types
  <2>4. \A e \in Entries(Carried(g)) : e.write <= made  BY <1>0, <2>1 DEF LayerInv
  <2>5. Layered(pending', outbox', chain') /\ Numbered(pending', outbox', chain', Base')
    BY <2>1, <2>2, <2>3, <2>4, HydratesAlike
  <2> QED  BY <1>0, <2>1, <2>2, <2>5 DEF LayerInv
<1>7. CASE Quiet
  BY <1>0, <1>7, QuietEffect, QuietStaysOver, LayersUnchanged
<1> QED  BY <1>1, <1>2, <1>3, <1>4, <1>5, <1>6, <1>7, NextCases

\* What is committed stays so.
LEMMA CommittedGrows ==
  ASSUME Types, NEW x \in 1..MaxWrites, applied' = Append(applied, x)
  PROVE  Committed(x)' /\ \A w : Committed(w) => Committed(w)'
<1> DEFINE S == 1..MaxWrites
<1>1. applied \in Seq(S) /\ x \in S  BY DEF Types
<1> HIDE DEF S
<1>2. /\ Len(applied) \in Nat
      /\ DOMAIN applied = 1..Len(applied) /\ DOMAIN applied' = 1..(Len(applied) + 1)
      /\ \A i \in 1..Len(applied) : applied'[i] = applied[i]
      /\ applied'[Len(applied) + 1] = x
  BY <1>1, AppendProperties
<1> QED  BY <1>2 DEF Committed

\* Steps after which no layer has newly outlived its write.
LEMMA LeftKept ==
  ASSUME LeftInv, applied' = applied, outdated => outdated',
         Entries(pending') \ (Entries(outbox') \cup Entries(chain'))
           \subseteq Entries(pending) \ (Entries(outbox) \cup Entries(chain)),
         \A n \in wire' : n \in wire \/ n.stage # "ack"
  PROVE  LeftInv'
BY DEF LeftInv, Committed

LEMMA LeftPreserved ==
  ASSUME OutboxInv, Next  PROVE LeftInv'
<1>0. Types /\ LeftInv  BY DEF OutboxInv
<1>1. CASE Transact
  <2>1. /\ made < MaxWrites /\ pending' = Append(pending, Called)
        /\ \/ outbox' = Append(outbox, Called) /\ chain' = chain
           \/ outbox' = outbox /\ chain' = Append(chain, Called)
        /\ UNCHANGED <<outdated, wire, applied>>
    BY <1>1, TransactEffect
  <2>2. Called \in Mutation  BY <1>0, <2>1, CalledTyped
  <2>3. Entries(pending') = Entries(pending) \cup {Called}
    BY <2>1, <2>2, LayersTyped, EntriesAppend
  <2>4. Entries(outbox') \cup Entries(chain') = Entries(outbox) \cup Entries(chain) \cup {Called}
    BY <2>1, <2>2, LayersTyped, EntriesAppend
  <2> QED  BY <1>0, <2>1, <2>3, <2>4, LeftKept
<1>2. ASSUME NEW m \in wire, ChainEnds(m)  PROVE LeftInv'
  <2>1. /\ m.via = "chain" /\ wire' = wire \ {m} /\ chain' = Tail(chain)
        /\ \/ pending' = DroppedFrom(pending, m.mutation.id)
           \/ pending' = pending /\ outdated /\ m.stage = "ack"
        /\ UNCHANGED <<outbox, applied>>
        /\ outdated => outdated'
    BY <1>2, ChainEndsEffect DEF serverVars
  <2>2. /\ chain # <<>> /\ m.mutation = Head(chain)
        /\ Numbered(pending, outbox, chain, Base)
    BY <2>1, ChainWaits
  <2>3. Entries(chain) = Entries(chain') \cup {m.mutation}
    BY <2>1, <2>2, LayersTyped, EntriesTail
  <2>4. CASE pending' = DroppedFrom(pending, m.mutation.id)
    <3>1. Entries(pending') = Entries(pending) \ {m.mutation}
      BY <2>2, <2>4, LayersTyped, ChainHeadDrops
    <3> QED  BY <1>0, <2>1, <2>3, <3>1, LeftKept
  <2>5. CASE pending' = pending /\ outdated /\ m.stage = "ack"
    <3>1. Committed(m.mutation.write)  BY <1>0, <2>5 DEF LeftInv
    <3> QED  BY <1>0, <2>1, <2>3, <2>5, <3>1 DEF LeftInv, Committed
  <2> QED  BY <2>1, <2>4, <2>5
<1>3. ASSUME NEW m \in wire, ChainFailure(m)  PROVE LeftInv'
  <2>1. /\ m.via = "chain" /\ wire' = wire \ {m} /\ chain' = Tail(chain)
        /\ outbox' = Append(outbox, m.mutation)
        /\ UNCHANGED <<pending, outdated, applied>>
    BY <1>3, ChainFailureEffect
  <2>2. chain # <<>> /\ m.mutation = Head(chain) /\ m.mutation \in Mutation
    BY <2>1, ChainWaits
  <2>3. /\ Entries(chain) = Entries(chain') \cup {m.mutation}
        /\ Entries(outbox') = Entries(outbox) \cup {m.mutation}
    BY <2>1, <2>2, LayersTyped, EntriesTail, EntriesAppend
  <2> QED  BY <1>0, <2>1, <2>3, LeftKept
<1>4. ASSUME NEW m \in wire, DrainEnds(m)  PROVE LeftInv'
  <2>1. /\ m.via = "drain" /\ outbox' = Tail(outbox)
        /\ \/ pending' = DroppedFrom(pending, m.mutation.id)
           \/ pending' = pending /\ outdated /\ m.stage = "ack"
        /\ \/ wire' = (wire \ {m}) \cup {Request(Head(outbox'), "drain")}
           \/ wire' = wire \ {m}
        /\ UNCHANGED <<chain, applied, outdated>>
    BY <1>4, DrainEndsEffect
  <2>2. /\ outbox # <<>> /\ m.mutation = Head(outbox)
        /\ Numbered(pending, outbox, chain, Base)
    BY <2>1, DrainWaits
  <2>3. Entries(outbox) = Entries(outbox') \cup {m.mutation}
    BY <2>1, <2>2, LayersTyped, EntriesTail
  <2>4. \A n \in wire' : n \in wire \/ n.stage # "ack"  BY <2>1 DEF Request
  <2>5. CASE pending' = DroppedFrom(pending, m.mutation.id)
    <3>1. Entries(pending') = Entries(pending) \ {m.mutation}
      BY <2>2, <2>5, LayersTyped, OutboxHeadDrops
    <3> QED  BY <1>0, <2>1, <2>3, <2>4, <3>1, LeftKept
  <2>6. CASE pending' = pending /\ outdated /\ m.stage = "ack"
    <3>1. Committed(m.mutation.write)  BY <1>0, <2>6 DEF LeftInv
    <3> QED  BY <1>0, <2>1, <2>3, <2>4, <2>6, <3>1 DEF LeftInv, Committed
  <2> QED  BY <2>1, <2>5, <2>6
<1>5. CASE SaveFires
  <2>1. UNCHANGED <<pending, outbox, chain, applied, outdated, wire>>
    BY <1>5 DEF SaveFires, pageVars, serverVars
  <2> QED  BY <1>0, <2>1, LeftKept
<1>6. ASSUME NEW g \in 0..MaxDeploys, Reload(g)  PROVE LeftInv'
  <2>1. /\ pending' = outbox'
        /\ wire' = {Abandoned(n) : n \in {n \in wire : n.stage = "request"}}
    BY <1>6 DEF Reload, Hydrate, Abandoned
  <2>2. \A n \in wire : Abandoned(n).stage = n.stage  BY <1>0, AbandonedTyped DEF Types
  <2>3. \A n \in wire' : n.stage # "ack"  BY <2>1, <2>2
  <2> QED  BY <2>1, <2>3 DEF LeftInv
<1>7. CASE Quiet
  <2>1. UNCHANGED <<pending, outbox, chain>> /\ (outdated => outdated')
    BY <1>7, QuietEffect, QuietStaysOver
  <2>2. ASSUME NEW m \in wire,
               ServeCommit(m) \/ ServeReject(m) \/ ServeMismatch(m) \/ Lose(m)
        PROVE  LeftInv'
    <3>1. PICK stage \in Stage :
            /\ wire' = (wire \ {m}) \cup (IF m.via = "gone" THEN {} ELSE {Restaged(m, stage)})
            /\ \/ applied' = Append(applied, m.mutation.write)
               \/ UNCHANGED applied /\ stage # "ack"
      BY <2>2, AnsweredEffect
    <3>2. /\ m.mutation.write \in 1..MaxWrites
          /\ Restaged(m, stage).mutation = m.mutation /\ Restaged(m, stage).stage = stage
      BY <1>0, RestagedTyped DEF Types, Message, Mutation
    <3>3. CASE UNCHANGED applied /\ stage # "ack"
      BY <1>0, <2>1, <3>1, <3>2, <3>3, LeftKept
    <3>4. CASE applied' = Append(applied, m.mutation.write)
      <4>1. Committed(m.mutation.write)' /\ \A w : Committed(w) => Committed(w)'
        BY <1>0, <3>2, <3>4, CommittedGrows
      <4> QED  BY <1>0, <2>1, <3>1, <3>2, <4>1 DEF LeftInv
    <3> QED  BY <3>1, <3>3, <3>4
  <2>3. ASSUME NEW m \in wire, DrainFailure(m) \/ DrainMismatch(m)  PROVE LeftInv'
    <3>1. wire' = wire \ {m} /\ applied' = applied
      BY <2>3 DEF DrainFailure, DrainMismatch, serverVars
    <3> QED  BY <1>0, <2>1, <3>1, LeftKept
  <2>4. CASE SendHead \/ DrainFires \/ Connect \/ HelloMismatch \/ Deploy
    <3>1. applied' = applied /\ \A n \in wire' : n \in wire \/ n.stage # "ack"
      BY <2>4 DEF SendHead, DrainFires, Connect, HelloMismatch, Deploy, Request, serverVars
    <3> QED  BY <1>0, <2>1, <3>1, LeftKept
  <2> QED  BY <1>7, <2>2, <2>3, <2>4 DEF Quiet
<1> QED  BY <1>1, <1>2, <1>3, <1>4, <1>5, <1>6, <1>7, NextCases

----------------------------------------------------------------------------
\* What is saved and what is lost

LEMMA KeyChanges ==
  ASSUME NEW o, NEW p, NEW o2, NEW p2,
         Len(o2) # Len(o) \/ Len(p2) # Len(p)
  PROVE  KeyOf(o2, p2) # KeyOf(o, p)
BY DEF KeyOf

\* A change of the outbox is a change of its length, so the dirty check sees it.
LEMMA PersistSaves ==
  ASSUME OutboxInv, Persist, UNCHANGED <<saved, generation>>,
         outbox' = outbox \/ Len(outbox') # Len(outbox)
  PROVE  SaveInv'
<1>1. savedKey' = KeyOf(outbox', pending')  BY DEF Persist
<1>2. ASSUME ~ saveTimer', generation = saved.generation  PROVE saved.outbox = outbox'
  <2>1. ~ saveTimer /\ KeyOf(outbox', pending') = savedKey  BY <1>2 DEF Persist
  <2>2. savedKey # <<>>  BY <2>1 DEF KeyOf
  <2>3. KeyOf(outbox', pending') = KeyOf(outbox, pending)
    BY <2>1, <2>2 DEF OutboxInv, SaveInv
  <2>4. outbox' = outbox  BY <2>3, KeyChanges
  <2> QED  BY <1>2, <2>1, <2>4 DEF OutboxInv, SaveInv, SavedWhenQuiet
<1> QED  BY <1>1, <1>2 DEF SaveInv, SavedWhenQuiet

LEMMA SavePreserved ==
  ASSUME OutboxInv, Next  PROVE SaveInv'
<1>0. Types /\ LayerInv /\ SaveInv  BY DEF OutboxInv
<1>1. CASE Transact
  <2>1. /\ made < MaxWrites /\ Persist /\ UNCHANGED <<saved, generation>>
        /\ outbox' = outbox \/ outbox' = Append(outbox, Called)
    BY <1>1, TransactEffect
  <2>2. Called \in Mutation  BY <1>0, <2>1, CalledTyped
  <2>3. Len(Append(outbox, Called)) = Len(outbox) + 1 /\ Len(outbox) \in Nat
    BY <1>0, <2>2, EntriesAppend DEF Types
  <2>4. outbox' = outbox \/ Len(outbox') # Len(outbox)  BY <2>1, <2>3
  <2> QED  BY <2>1, <2>4, PersistSaves
<1>2. ASSUME NEW m \in wire, ChainEnds(m)  PROVE SaveInv'
  BY <1>2, ChainEndsEffect, PersistSaves
<1>3. ASSUME NEW m \in wire, ChainFailure(m)  PROVE SaveInv'
  <2>1. /\ m.via = "chain" /\ Persist /\ UNCHANGED <<saved, generation>>
        /\ outbox' = Append(outbox, m.mutation)
    BY <1>3, ChainFailureEffect
  <2>2. m.mutation \in Mutation  BY <2>1, ChainWaits
  <2>3. Len(outbox') = Len(outbox) + 1 /\ Len(outbox) \in Nat
    BY <1>0, <2>1, <2>2, EntriesAppend DEF Types
  <2>4. Len(outbox') # Len(outbox)  BY <2>3
  <2> QED  BY <2>1, <2>4, PersistSaves
<1>4. ASSUME NEW m \in wire, DrainEnds(m)  PROVE SaveInv'
  <2>1. m.via = "drain" /\ Persist /\ outbox' = Tail(outbox) /\ UNCHANGED <<saved, generation>>
    BY <1>4, DrainEndsEffect
  <2>2. outbox # <<>>  BY <2>1, DrainWaits
  <2>3. Len(outbox') = Len(outbox) - 1 /\ Len(outbox) \in Nat
    BY <1>0, <2>1, <2>2, EntriesTail DEF Types
  <2>4. Len(outbox') # Len(outbox)  BY <2>3
  <2> QED  BY <2>1, <2>4, PersistSaves
<1>5. CASE SaveFires
  BY <1>0, <1>5 DEF SaveFires, SaveInv, SavedWhenQuiet
<1>6. ASSUME NEW g \in 0..MaxDeploys, Reload(g)  PROVE SaveInv'
  <2>1. g = saved.generation => Carried(g) = saved.outbox
    BY <1>0, CarriedTyped DEF LayerInv
  <2>2. savedKey' = <<>> /\ outbox' = Carried(g) /\ generation' = g /\ saved' = saved
    BY <1>6 DEF Reload, Hydrate
  <2> QED  BY <2>1, <2>2 DEF SaveInv, SavedWhenQuiet
<1>7. CASE Quiet
  <2>1. UNCHANGED <<pending, outbox, saved, saveTimer, savedKey, generation>>
    BY <1>7, QuietEffect
  <2> QED  BY <1>0, <2>1 DEF SaveInv, SavedWhenQuiet
<1> QED  BY <1>1, <1>2, <1>3, <1>4, <1>5, <1>6, <1>7, NextCases

\* The writes of the outbox after a step.
LEMMA WritesAppend ==
  ASSUME NEW s \in Seq(Mutation), NEW e \in Mutation
  PROVE  WritesOf(Append(s, e)) = WritesOf(s) \cup {e.write}
<1>1. Entries(Append(s, e)) = Entries(s) \cup {e}  BY EntriesAppend
<1> QED  BY <1>1, WritesOfEntries

LEMMA WritesTail ==
  ASSUME NEW s \in Seq(Mutation), s # <<>>
  PROVE  /\ WritesOf(s) = WritesOf(Tail(s)) \cup {Head(s).write}
         /\ Distinct(s) => Head(s).write \notin WritesOf(Tail(s))
<1>1. Entries(s) = Entries(Tail(s)) \cup {Head(s)}  BY EntriesTail
<1>2. Distinct(s) => \A x \in Entries(Tail(s)) : x.write # Head(s).write  BY EntriesTail
<1> QED  BY <1>1, <1>2, WritesOfEntries

LEMMA LostPreserved ==
  ASSUME OutboxInv, Next  PROVE LostInv'
<1> USE DEF LostInv, NothingSilentlyLost
<1>0. Types /\ LayerInv /\ LostInv  BY DEF OutboxInv
<1>1. CASE Transact
  <2>1. /\ made < MaxWrites /\ UNCHANGED <<saved, durable, settled>>
        /\ outbox' = outbox \/ outbox' = Append(outbox, Called)
    BY <1>1, TransactEffect
  <2>2. Called \in Mutation  BY <1>0, <2>1, CalledTyped
  <2>3. WritesOf(outbox) \subseteq WritesOf(outbox')
    BY <1>0, <2>1, <2>2, WritesAppend DEF Types
  <2> QED  BY <1>0, <2>1, <2>3
<1>2. ASSUME NEW m \in wire, ChainEnds(m)  PROVE LostInv'
  <2>1. settled \subseteq settled' /\ UNCHANGED <<outbox, saved, durable>>
    BY <1>2, ChainEndsEffect
  <2> QED  BY <1>0, <2>1
<1>3. ASSUME NEW m \in wire, ChainFailure(m)  PROVE LostInv'
  <2>1. /\ m.via = "chain" /\ outbox' = Append(outbox, m.mutation)
        /\ UNCHANGED <<saved, durable, settled>>
    BY <1>3, ChainFailureEffect
  <2>2. m.mutation \in Mutation  BY <2>1, ChainWaits
  <2>3. WritesOf(outbox) \subseteq WritesOf(outbox')
    BY <1>0, <2>1, <2>2, WritesAppend DEF Types
  <2> QED  BY <1>0, <2>1, <2>3
<1>4. ASSUME NEW m \in wire, DrainEnds(m)  PROVE LostInv'
  <2>1. /\ m.via = "drain" /\ outbox' = Tail(outbox)
        /\ settled' = settled \cup {m.mutation.write}
        /\ UNCHANGED <<saved, durable>>
    BY <1>4, DrainEndsEffect
  <2>2. outbox # <<>> /\ m.mutation = Head(outbox)  BY <2>1, DrainWaits
  <2>3. WritesOf(outbox) = WritesOf(outbox') \cup {m.mutation.write}
    BY <1>0, <2>1, <2>2, WritesTail DEF Types
  <2> QED  BY <1>0, <2>1, <2>3
<1>5. CASE SaveFires
  BY <1>0, <1>5 DEF SaveFires
<1>6. ASSUME NEW g \in 0..MaxDeploys, Reload(g)  PROVE LostInv'
  <2>1. /\ outbox' = Carried(g)
        /\ settled' = settled \cup (WritesOf(saved.outbox) \ WritesOf(Carried(g)))
        /\ UNCHANGED <<saved, durable>>
    BY <1>6 DEF Reload, Hydrate
  <2> QED  BY <1>0, <2>1
<1>7. CASE Quiet
  <2>1. UNCHANGED <<outbox, saved, durable, settled>>  BY <1>7, QuietEffect
  <2> QED  BY <1>0, <2>1
<1> QED  BY <1>1, <1>2, <1>3, <1>4, <1>5, <1>6, <1>7, NextCases

----------------------------------------------------------------------------
\* What is under way

\* What the next send or the next entry of the drain carries was called.
LEMMA HeadsCalled ==
  ASSUME OutboxInv
  PROVE  /\ chain # <<>> => Head(chain) \in Mutation /\ Head(chain).write <= made
         /\ \A e \in Entries(outbox) : e \in Mutation /\ e.write <= made
<1>1. /\ Entries(outbox) \cup Entries(chain) \subseteq Entries(pending)
      /\ \A e \in Entries(pending) : e.write <= made
  BY LayersTyped DEF OutboxInv, LayerInv, Layered
<1>2. chain # <<>> => Head(chain) \in Entries(chain) /\ Head(chain) \in Mutation
  BY LayersTyped, EntriesTail
<1>3. Entries(outbox) \subseteq Mutation  BY LayersTyped, EntriesTyped
<1> QED  BY <1>1, <1>2, <1>3

\* The chain's answer goes; what waits for the drain stays.
LEMMA ChainAnswerLeaves ==
  ASSUME OutboxInv, NEW m \in wire, m.via = "chain",
         wire' = wire \ {m}, UNCHANGED <<made, unsure, draining>>,
         outbox # <<>> => outbox' # <<>> /\ Head(outbox') = Head(outbox)
  PROVE  WireInv'
<1>1. WireInv  BY DEF OutboxInv
<1>2. \A n \in wire' : n \in wire /\ n.via # "chain"  BY <1>1 DEF WireInv
<1>3. \A n \in wire : n.via = "drain" => n \in wire'  OBVIOUS
<1>4. draining' <=> \E n \in wire' : n.via = "drain"  BY <1>1, <1>2, <1>3 DEF WireInv
<1> QED  BY <1>1, <1>2, <1>4 DEF WireInv

LEMMA WirePreserved ==
  ASSUME OutboxInv, Next  PROVE WireInv'
<1>0. Types /\ WireInv  BY DEF OutboxInv
<1>1. CASE Transact
  <2>1. /\ made < MaxWrites /\ made' = made + 1
        /\ \/ outbox # <<>> /\ outbox' = Append(outbox, Called) /\ chain' = chain
           \/ outbox = <<>> /\ outbox' = outbox /\ chain' = Append(chain, Called)
        /\ UNCHANGED <<draining, wire, unsure>>
    BY <1>1, TransactEffect
  <2>2. Called \in Mutation  BY <1>0, <2>1, CalledTyped
  <2>3. /\ outbox # <<>> => outbox' # <<>> /\ Head(outbox') = Head(outbox)
        /\ chain # <<>> => chain' # <<>> /\ Head(chain') = Head(chain)
    BY <1>0, <2>1, <2>2, EntriesAppend DEF Types
  <2>4. ASSUME NEW n \in wire  PROVE n.mutation.write <= made'
    <3>1. n.mutation.write \in Nat /\ n.mutation.write <= made /\ made \in Nat
      BY <1>0, OutboxAssumption DEF WireInv, Types, Message, Mutation
    <3> QED  BY <2>1, <3>1
  <2> QED  BY <1>0, <2>1, <2>3, <2>4 DEF WireInv
<1>2. ASSUME NEW m \in wire, ChainEnds(m)  PROVE WireInv'
  BY <1>2, ChainEndsEffect, ChainAnswerLeaves
<1>3. ASSUME NEW m \in wire, ChainFailure(m)  PROVE WireInv'
  <2>1. /\ m.via = "chain" /\ wire' = wire \ {m} /\ outbox' = Append(outbox, m.mutation)
        /\ UNCHANGED <<made, unsure, draining>>
    BY <1>3, ChainFailureEffect
  <2>2. m.mutation \in Mutation  BY <2>1, ChainWaits
  <2>3. outbox # <<>> => outbox' # <<>> /\ Head(outbox') = Head(outbox)
    BY <1>0, <2>1, <2>2, EntriesAppend DEF Types
  <2> QED  BY <2>1, <2>3, ChainAnswerLeaves
<1>4. ASSUME NEW m \in wire, DrainEnds(m)  PROVE WireInv'
  <2>1. /\ m.via = "drain" /\ outbox' = Tail(outbox)
        /\ \/ /\ outbox' # <<>> /\ draining' = TRUE
              /\ wire' = (wire \ {m}) \cup {Request(Head(outbox'), "drain")}
           \/ draining' = FALSE /\ wire' = wire \ {m}
        /\ UNCHANGED <<made, chain, unsure>>
    BY <1>4, DrainEndsEffect
  <2>2. outbox # <<>> /\ outbox \in Seq(Mutation)  BY <1>0, <2>1, DrainWaits DEF Types
  <2>3. outbox' \in Seq(Mutation) /\ Entries(outbox') \subseteq Entries(outbox)
    BY <2>1, <2>2, EntriesTail
  <2>4. ASSUME outbox' # <<>>
        PROVE  LET r == Request(Head(outbox'), "drain")
               IN  r.via = "drain" /\ r.mutation = Head(outbox') /\ r.mutation.write <= made
    <3>1. Head(outbox') \in Entries(outbox')  BY <2>3, <2>4, EntriesTail
    <3>2. Head(outbox').write <= made /\ Head(outbox') \in Mutation
      BY <2>3, <3>1, HeadsCalled
    <3> QED  BY <3>2 DEF Request
  <2>5. \A n \in wire \ {m} : n.via # "drain"  BY <1>0, <2>1 DEF WireInv
  <2>6. CASE draining' = FALSE /\ wire' = wire \ {m}
    BY <1>0, <2>1, <2>5, <2>6 DEF WireInv
  <2>7. CASE /\ outbox' # <<>> /\ draining' = TRUE
             /\ wire' = (wire \ {m}) \cup {Request(Head(outbox'), "drain")}
    <3> DEFINE r == Request(Head(outbox'), "drain")
    <3>1. wire' = (wire \ {m}) \cup {r} /\ draining'  BY <2>7
    <3>2. r.via = "drain" /\ r.mutation = Head(outbox') /\ r.mutation.write <= made
      BY <2>4, <2>7
    <3> HIDE DEF r
    <3> QED  BY <1>0, <2>1, <2>5, <2>7, <3>1, <3>2 DEF WireInv
  <2> QED  BY <2>1, <2>6, <2>7
<1>5. CASE SaveFires
  BY <1>0, <1>5 DEF SaveFires, WireInv, timerVars
<1>6. ASSUME NEW g \in 0..MaxDeploys, Reload(g)  PROVE WireInv'
  <2>1. /\ wire' = {Abandoned(n) : n \in {n \in wire : n.stage = "request"}}
        /\ ~ draining' /\ made' = made
        /\ {n.mutation.write : n \in wire} \subseteq unsure'
    BY <1>6 DEF Reload, Abandoned
  <2>2. ASSUME NEW n \in wire'
        PROVE  n.via = "gone" /\ n.stage = "request" /\ n.mutation.write \in unsure'
               /\ n.mutation.write <= made
    <3>1. PICK k \in wire : k.stage = "request" /\ n = Abandoned(k)  BY <2>1
    <3>2. n.via = "gone" /\ n.mutation = k.mutation /\ n.stage = k.stage
      BY <1>0, <3>1, AbandonedTyped DEF Types
    <3> QED  BY <1>0, <2>1, <3>1, <3>2 DEF WireInv
  <2> QED  BY <2>1, <2>2 DEF WireInv
<1>7. CASE Quiet
  <2>1. UNCHANGED <<made, outbox, chain>>  BY <1>7, QuietEffect
  <2>2. CASE SendHead
    <3> DEFINE r == Request(Head(chain), "chain")
    <3>1. chain # <<>> /\ wire' = wire \cup {r} /\ UNCHANGED <<draining, unsure>>
          /\ \A n \in wire : n.via # "chain"
      BY <2>2 DEF SendHead, timerVars, Waiting
    <3>2. r.via = "chain" /\ r.mutation = Head(chain) /\ r.mutation.write <= made
      BY <3>1, HeadsCalled DEF Request
    <3> HIDE DEF r
    <3> QED  BY <1>0, <2>1, <3>1, <3>2 DEF WireInv
  <2>3. CASE DrainFires
    <3> DEFINE r == Request(Head(outbox), "drain")
    <3>1. unsure' = unsure  BY <2>3 DEF DrainFires
    <3>2. \/ UNCHANGED <<draining, wire>>
          \/ ~ draining /\ outbox # <<>> /\ draining' /\ wire' = wire \cup {r}
      BY <2>3 DEF DrainFires
    <3>3. ASSUME outbox # <<>>
          PROVE  r.via = "drain" /\ r.mutation = Head(outbox) /\ r.mutation.write <= made
      <4>1. Head(outbox) \in Entries(outbox)  BY <1>0, <3>3, EntriesTail DEF Types
      <4> QED  BY <4>1, HeadsCalled DEF Request
    <3> HIDE DEF r
    <3>4. CASE UNCHANGED <<draining, wire>>  BY <1>0, <2>1, <3>1, <3>4 DEF WireInv
    <3>5. CASE ~ draining /\ outbox # <<>> /\ draining' /\ wire' = wire \cup {r}
      BY <1>0, <2>1, <3>1, <3>3, <3>5 DEF WireInv
    <3> QED  BY <3>2, <3>4, <3>5
  <2>4. ASSUME NEW m \in wire, DrainFailure(m) \/ DrainMismatch(m)  PROVE WireInv'
    <3>1. m.via = "drain" /\ wire' = wire \ {m} /\ ~ draining' /\ unsure' = unsure
      BY <2>4 DEF DrainFailure, DrainMismatch, Waiting
    <3>2. \A n \in wire' : n.via # "drain"  BY <1>0, <3>1 DEF WireInv
    <3> QED  BY <1>0, <2>1, <3>1, <3>2 DEF WireInv
  <2>5. CASE Connect \/ HelloMismatch \/ Deploy
    <3>1. UNCHANGED <<wire, draining, unsure>>
      BY <2>5 DEF Connect, HelloMismatch, Deploy, ScheduleDrain, timerVars
    <3> QED  BY <1>0, <2>1, <3>1 DEF WireInv
  <2>6. ASSUME NEW m \in wire,
               ServeCommit(m) \/ ServeReject(m) \/ ServeMismatch(m) \/ Lose(m)
        PROVE  WireInv'
    <3>1. PICK stage \in Stage :
            /\ wire' = (wire \ {m}) \cup (IF m.via = "gone" THEN {} ELSE {Restaged(m, stage)})
            /\ unsure \subseteq unsure'
            /\ UNCHANGED draining
      BY <2>6, AnsweredEffect
    <3>2. m \in Message  BY <1>0 DEF Types
    <3> DEFINE r == Restaged(m, stage)
    <3>3. r.via = m.via /\ r.mutation = m.mutation  BY <3>2, RestagedTyped
    <3> HIDE DEF r
    <3>4. CASE m.via = "gone"
      <4>1. wire' = wire \ {m}  BY <3>1, <3>4
      <4> QED  BY <1>0, <2>1, <3>1, <3>4, <4>1 DEF WireInv
    <3>5. CASE m.via # "gone"
      <4>1. wire' = (wire \ {m}) \cup {r}  BY <3>1, <3>5 DEF r
      <4>2. \A n \in wire \ {m} : n.via # m.via  BY <1>0, <3>5 DEF WireInv
      <4>3. ASSUME NEW n \in wire'
            PROVE  /\ n.via = "chain" => chain # <<>> /\ n.mutation = Head(chain)
                   /\ n.via = "drain" => outbox # <<>> /\ n.mutation = Head(outbox)
                   /\ n.via = "gone" => n.stage = "request" /\ n.mutation.write \in unsure'
                   /\ n.mutation.write <= made
        BY <1>0, <3>1, <3>3, <3>5, <4>1 DEF WireInv
      <4>4. \A k, n \in wire' : k.via = n.via /\ k.via # "gone" => k = n
        BY <1>0, <3>3, <4>1, <4>2 DEF WireInv
      <4>5. (\E n \in wire' : n.via = "drain") <=> \E n \in wire : n.via = "drain"
        BY <3>3, <4>1
      <4> QED  BY <1>0, <2>1, <3>1, <4>3, <4>4, <4>5 DEF WireInv
    <3> QED  BY <3>4, <3>5
  <2> QED  BY <1>7, <2>2, <2>3, <2>4, <2>5, <2>6 DEF Quiet
<1> QED  BY <1>1, <1>2, <1>3, <1>4, <1>5, <1>6, <1>7, NextCases

----------------------------------------------------------------------------
\* Commits

\* No write is both queued and in the chain, nor twice in either.
LEMMA OnePlace ==
  ASSUME OutboxInv
  PROVE  /\ WritesOf(outbox) \cap WritesOf(chain) = {}
         /\ chain # <<>> => /\ WritesOf(chain) = WritesOf(Tail(chain)) \cup {Head(chain).write}
                            /\ Head(chain).write \notin WritesOf(Tail(chain))
         /\ outbox # <<>> => /\ WritesOf(outbox) = WritesOf(Tail(outbox)) \cup {Head(outbox).write}
                             /\ Head(outbox).write \notin WritesOf(Tail(outbox))
<1>1. Layered(pending, outbox, chain)  BY LayersTyped
<1>2. WritesOf(outbox) \cap WritesOf(chain) = {}
  BY <1>1, WritesOfEntries DEF Layered, Apart
<1> QED  BY <1>1, <1>2, LayersTyped, WritesTail DEF Layered

\* Who carries a write that is not in doubt.
LEMMA Carrier ==
  ASSUME OutboxInv, NEW m \in wire, m.mutation.write \notin unsure
  PROVE  \/ /\ m.via = "chain" /\ chain # <<>> /\ m.mutation = Head(chain)
            /\ m.mutation.write \in WritesOf(chain)
         \/ /\ m.via = "drain" /\ outbox # <<>> /\ m.mutation = Head(outbox)
            /\ m.mutation.write \in WritesOf(outbox)
<1>1. m.via \in {"chain", "drain", "gone"}  BY DEF OutboxInv, Types, Message
<1>2. m.via # "gone"  BY DEF OutboxInv, WireInv
<1>3. CASE m.via = "chain"
  <2>1. chain # <<>> /\ m.mutation = Head(chain)  BY <1>3, ChainWaits
  <2> QED  BY <1>3, <2>1, OnePlace
<1>4. CASE m.via = "drain"
  <2>1. outbox # <<>> /\ m.mutation = Head(outbox)  BY <1>4, DrainWaits
  <2> QED  BY <1>4, <2>1, OnePlace
<1> QED  BY <1>1, <1>2, <1>3, <1>4

LEMMA OneCarrier ==
  ASSUME OutboxInv, NEW m \in wire, NEW n \in wire, m.mutation.write \notin unsure,
         n.mutation.write = m.mutation.write
  PROVE  m = n
<1>1. m.via = n.via /\ m.via # "gone"  BY Carrier, OnePlace
<1> QED  BY <1>1 DEF OutboxInv, WireInv

\* A committed write that the chain still holds has its answer on the way to the chain,
\* and one that is queued to the drain.
LEMMA AckIsForItsHolder ==
  ASSUME OutboxInv, NEW w, w \notin unsure, Once(w), Committed(w)
  PROVE  /\ w \in WritesOf(chain) =>
              \E a \in wire : a.via = "chain" /\ a.stage = "ack" /\ a.mutation.write = w
         /\ w \in WritesOf(outbox) =>
              \E a \in wire : a.via = "drain" /\ a.stage = "ack" /\ a.mutation.write = w
<1>1. Told(w) \/ AckComing(w)  BY DEF Once
<1>2. CASE Told(w)  BY <1>2 DEF Told
<1>3. CASE AckComing(w)
  <2>1. PICK a \in wire : a.stage = "ack" /\ a.mutation.write = w  BY <1>3 DEF AckComing
  <2> QED  BY <2>1, Carrier, OnePlace
<1> QED  BY <1>1, <1>2, <1>3

LEMMA DoubtStays == ASSUME Next  PROVE unsure \subseteq unsure'
<1>1. ASSUME NEW m \in wire, ServeCommit(m) \/ ServeReject(m) \/ ServeMismatch(m) \/ Lose(m)
      PROVE  unsure \subseteq unsure'
  BY <1>1, AnsweredEffect
<1>2. ASSUME NEW m \in wire, DrainFailure(m) \/ DrainMismatch(m)  PROVE unsure' = unsure
  BY <1>2 DEF DrainFailure, DrainMismatch
<1>3. CASE Quiet
  BY <1>1, <1>2, <1>3 DEF Quiet, SendHead, DrainFires, Connect, HelloMismatch, Deploy
<1>4. ASSUME NEW m \in wire, ChainEnds(m) \/ ChainFailure(m) \/ DrainEnds(m)
      PROVE  unsure' = unsure
  BY <1>4, ChainEndsEffect, ChainFailureEffect, DrainEndsEffect
<1>5. CASE Transact  BY <1>5, TransactEffect
<1>6. CASE SaveFires  BY <1>6 DEF SaveFires
<1>7. ASSUME NEW g \in 0..MaxDeploys, Reload(g)  PROVE unsure \subseteq unsure'
  BY <1>7 DEF Reload
<1> QED  BY <1>3, <1>4, <1>5, <1>6, <1>7, NextCases

\* Steps that commit nothing and ask for nothing.
LEMMA OnceKept ==
  ASSUME NEW w, Once(w), applied' = applied,
         Committed(w) => NotAsked(w)' /\ (Told(w)' \/ AckComing(w)')
  PROVE  Once(w)'
BY DEF Once, Committed

\* The steps that only the page takes: nothing is committed.
LEMMA OnceAtThePage ==
  ASSUME OutboxInv, Next, ~ Quiet, NEW w \in 1..MaxWrites, w \notin unsure'
  PROVE  Once(w)'
<1>0. /\ w \notin unsure /\ Once(w) /\ \A i \in DOMAIN applied : applied[i] <= made
      /\ made \in Nat /\ w \in Nat
  BY DoubtStays, OutboxAssumption DEF OutboxInv, OnceInv, Types
<1>1. CASE Transact
  <2>1. /\ made < MaxWrites
        /\ \/ outbox' = Append(outbox, Called) /\ chain' = chain
           \/ outbox' = outbox /\ chain' = Append(chain, Called)
        /\ UNCHANGED <<applied, wire, settled>>
    BY <1>1, TransactEffect
  <2>2. Called \in Mutation /\ Called.write = made + 1  BY <2>1, CalledTyped DEF OutboxInv
  <2>3. WritesOf(outbox') \cup WritesOf(chain')
          = (WritesOf(outbox) \cup WritesOf(chain)) \cup {made + 1}
    BY <2>1, <2>2, LayersTyped, WritesAppend
  <2>4. Committed(w) => w # made + 1  BY <1>0 DEF Committed
  <2>5. Committed(w) /\ Told(w) => Told(w)'  BY <2>1, <2>3, <2>4 DEF Told
  <2>6. (NotAsked(w) => NotAsked(w)') /\ (AckComing(w) => AckComing(w)')
    BY <2>1 DEF NotAsked, AckComing
  <2> QED  BY <1>0, <2>1, <2>5, <2>6, OnceKept DEF Once
<1>2. ASSUME NEW m \in wire, ChainEnds(m)  PROVE Once(w)'
  <2>1. /\ m.via = "chain" /\ wire' = wire \ {m} /\ chain' = Tail(chain)
        /\ settled' = settled \cup {m.mutation.write}
        /\ UNCHANGED <<outbox, applied>>
    BY <1>2, ChainEndsEffect DEF serverVars
  <2>2. chain # <<>> /\ m.mutation = Head(chain)  BY <2>1, ChainWaits
  <2>3. /\ m.mutation.write \notin WritesOf(outbox') \cup WritesOf(chain')
        /\ WritesOf(chain') \subseteq WritesOf(chain)
    BY <2>1, <2>2, OnePlace
  <2>4. m.mutation.write = w => Told(w)'  BY <2>1, <2>3 DEF Told
  <2>5. m.mutation.write # w /\ AckComing(w) => AckComing(w)'  BY <2>1 DEF AckComing
  <2>6. Told(w) => Told(w)'  BY <2>1, <2>3 DEF Told
  <2>7. NotAsked(w) => NotAsked(w)'  BY <2>1 DEF NotAsked
  <2> QED  BY <1>0, <2>1, <2>4, <2>5, <2>6, <2>7, OnceKept DEF Once
<1>3. ASSUME NEW m \in wire, ChainFailure(m)  PROVE Once(w)'
  <2>1. /\ m.via = "chain" /\ m.stage = "failed" /\ wire' = wire \ {m}
        /\ chain' = Tail(chain) /\ outbox' = Append(outbox, m.mutation)
        /\ UNCHANGED <<applied, settled>>
    BY <1>3, ChainFailureEffect
  <2>2. chain # <<>> /\ m.mutation = Head(chain) /\ m.mutation \in Mutation
    BY <2>1, ChainWaits
  <2>3. WritesOf(outbox') \cup WritesOf(chain') = WritesOf(outbox) \cup WritesOf(chain)
    BY <2>1, <2>2, LayersTyped, WritesAppend, OnePlace
  <2>4. (Told(w) => Told(w)') /\ (NotAsked(w) => NotAsked(w)')
    BY <2>1, <2>3 DEF Told, NotAsked
  <2>5. AckComing(w) => AckComing(w)'  BY <2>1 DEF AckComing
  <2> QED  BY <1>0, <2>1, <2>4, <2>5, OnceKept DEF Once
<1>4. ASSUME NEW m \in wire, DrainEnds(m)  PROVE Once(w)'
  <2>1. /\ m.via = "drain" /\ outbox' = Tail(outbox)
        /\ settled' = settled \cup {m.mutation.write}
        /\ \/ outbox' # <<>> /\ wire' = (wire \ {m}) \cup {Request(Head(outbox'), "drain")}
           \/ wire' = wire \ {m}
        /\ UNCHANGED <<chain, applied>>
    BY <1>4, DrainEndsEffect
  <2>2. outbox # <<>> /\ m.mutation = Head(outbox)  BY <2>1, DrainWaits
  <2>3. /\ m.mutation.write \notin WritesOf(outbox') \cup WritesOf(chain')
        /\ WritesOf(outbox) = WritesOf(outbox') \cup {m.mutation.write}
    BY <2>1, <2>2, OnePlace
  <2>4. m.mutation.write = w => Told(w)'  BY <2>1, <2>3 DEF Told
  <2>5. m.mutation.write # w /\ AckComing(w) => AckComing(w)'  BY <2>1 DEF AckComing
  <2>6. Told(w) => Told(w)'  BY <2>1, <2>3 DEF Told
  <2>7. ASSUME Committed(w), outbox' # <<>>  PROVE Head(outbox').write # w
    <3>1. outbox' \in Seq(Mutation)  BY <2>1, <2>2, LayersTyped, EntriesTail
    <3>2. Head(outbox').write \in WritesOf(outbox')  BY <2>7, <3>1, WritesTail
    <3> SUFFICES ASSUME Head(outbox').write = w  PROVE FALSE
      OBVIOUS
    <3>3. PICK a \in wire : a.via = "drain" /\ a.mutation.write = w
      BY <1>0, <2>3, <2>7, <3>2, AckIsForItsHolder
    <3>4. a.mutation = m.mutation  BY <2>2, <3>3, DrainWaits
    <3> QED  BY <2>3, <3>2, <3>3, <3>4
  <2>8. Committed(w) /\ NotAsked(w) => NotAsked(w)'
    BY <2>1, <2>7 DEF NotAsked, Request
  <2> QED  BY <1>0, <2>1, <2>4, <2>5, <2>6, <2>8, OnceKept DEF Once
<1>5. CASE SaveFires
  <2>1. UNCHANGED <<applied, settled, outbox, chain, wire>>  BY <1>5 DEF SaveFires, serverVars
  <2> QED  BY <1>0, <2>1 DEF Once, Committed, NotAsked, Told, AckComing
<1>6. ASSUME NEW g \in 0..MaxDeploys, Reload(g)  PROVE Once(w)'
  <2>1. /\ wire' = {Abandoned(n) : n \in {n \in wire : n.stage = "request"}}
        /\ outbox' = Carried(g) /\ chain' = <<>> /\ settled \subseteq settled'
        /\ applied' = applied
        /\ \A m \in wire : m.mutation.write # w
        /\ w \in settled => w \notin WritesOf(saved.outbox)
    BY <1>6 DEF Reload, Hydrate, Abandoned, serverVars
  <2>2. WritesOf(outbox') \subseteq WritesOf(saved.outbox) /\ WritesOf(chain') = {}
    <3>1. Entries(Carried(g)) \subseteq Entries(saved.outbox)
      BY CarriedTyped DEF OutboxInv, LayerInv
    <3> QED  BY <2>1, <3>1, WritesOfEntries, EmptyEntries
  <2>3. NotAsked(w)'
    <3>1. \A n \in wire : Abandoned(n).mutation = n.mutation
      BY AbandonedTyped DEF OutboxInv, Types
    <3> QED  BY <2>1, <3>1 DEF NotAsked
  <2>4. ~ AckComing(w)  BY <2>1 DEF AckComing
  <2>5. Told(w) => Told(w)'  BY <2>1, <2>2 DEF Told
  <2> QED  BY <1>0, <2>1, <2>3, <2>4, <2>5, OnceKept DEF Once
<1> QED  BY <1>1, <1>2, <1>3, <1>4, <1>5, <1>6, NextCases

\* The steps of the network, of the drain's timer and of the server.
LEMMA OnceOnTheWire ==
  ASSUME OutboxInv, Next, Quiet, NEW w \in 1..MaxWrites, w \notin unsure'
  PROVE  Once(w)'
<1>0. w \notin unsure /\ Once(w)
  BY DoubtStays DEF OutboxInv, OnceInv
<1>1. UNCHANGED <<outbox, chain, settled>>  BY QuietEffect
<1>2. Told(w) => Told(w)'  BY <1>1 DEF Told
<1>3. CASE SendHead
  <2>1. /\ chain # <<>> /\ wire' = wire \cup {Request(Head(chain), "chain")}
        /\ applied' = applied /\ \A n \in wire : n.via # "chain"
    BY <1>3 DEF SendHead, serverVars, Waiting
  <2>2. AckComing(w) => AckComing(w)'  BY <2>1 DEF AckComing
  <2>3. Committed(w) => Head(chain).write # w
    BY <1>0, <2>1, AckIsForItsHolder, OnePlace
  <2>4. Committed(w) /\ NotAsked(w) => NotAsked(w)'
    BY <2>1, <2>3 DEF NotAsked, Request
  <2> QED  BY <1>0, <1>2, <2>1, <2>2, <2>4, OnceKept DEF Once
<1>4. CASE DrainFires
  <2>1. /\ applied' = applied
        /\ \/ wire' = wire
           \/ /\ ~ draining /\ outbox # <<>>
              /\ wire' = wire \cup {Request(Head(outbox), "drain")}
    BY <1>4 DEF DrainFires, serverVars
  <2>2. AckComing(w) => AckComing(w)'  BY <2>1 DEF AckComing
  <2>3. Committed(w) /\ ~ draining /\ outbox # <<>> => Head(outbox).write # w
    BY <1>0, AckIsForItsHolder, OnePlace DEF OutboxInv, WireInv
  <2>4. Committed(w) /\ NotAsked(w) => NotAsked(w)'
    BY <2>1, <2>3 DEF NotAsked, Request
  <2> QED  BY <1>0, <1>2, <2>1, <2>2, <2>4, OnceKept DEF Once
<1>5. ASSUME NEW m \in wire, DrainFailure(m) \/ DrainMismatch(m)  PROVE Once(w)'
  <2>1. wire' = wire \ {m} /\ m.stage # "ack" /\ applied' = applied
    BY <1>5 DEF DrainFailure, DrainMismatch, serverVars
  <2>2. AckComing(w) => AckComing(w)'  BY <2>1 DEF AckComing
  <2>3. NotAsked(w) => NotAsked(w)'  BY <2>1 DEF NotAsked
  <2> QED  BY <1>0, <1>2, <2>1, <2>2, <2>3, OnceKept DEF Once
<1>6. CASE Connect \/ HelloMismatch \/ Deploy
  <2>1. wire' = wire /\ applied' = applied
    BY <1>6 DEF Connect, HelloMismatch, Deploy, serverVars
  <2> QED  BY <1>0, <1>1, <2>1 DEF Once, Committed, NotAsked, Told, AckComing
<1>7. ASSUME NEW m \in wire, ServeCommit(m) \/ ServeReject(m) \/ ServeMismatch(m) \/ Lose(m)
      PROVE  Once(w)'
  <2>1. PICK stage \in Stage :
          /\ stage # "request"
          /\ wire' = (wire \ {m}) \cup (IF m.via = "gone" THEN {} ELSE {Restaged(m, stage)})
          /\ \/ /\ m.stage = "request" /\ stage = "ack"
                /\ applied' = Append(applied, m.mutation.write)
                /\ UNCHANGED unsure
             \/ /\ UNCHANGED applied /\ stage # "ack"
                /\ unsure' = unsure \cup (IF m.stage = "ack" THEN {m.mutation.write} ELSE {})
    BY <1>7, AnsweredEffect
  <2>2. m \in Message  BY DEF OutboxInv, Types
  <2>3. Restaged(m, stage).mutation = m.mutation /\ Restaged(m, stage).stage = stage
    BY <2>2, RestagedTyped
  <2>4. NotAsked(w) => NotAsked(w)'  BY <2>1, <2>3 DEF NotAsked
  <2>5. m.mutation.write # w /\ AckComing(w) => AckComing(w)'  BY <2>1 DEF AckComing
  <2>6. CASE UNCHANGED applied
    <3>1. m.mutation.write = w => m.stage # "ack"
      BY <2>1, <2>6, AppendProperties DEF OutboxInv, Types
    <3>2. AckComing(w) => AckComing(w)'  BY <2>1, <3>1 DEF AckComing
    <3> QED  BY <1>0, <1>2, <2>4, <2>6, <3>2, OnceKept DEF Once
  <2>7. CASE /\ m.stage = "request" /\ stage = "ack"
             /\ applied' = Append(applied, m.mutation.write)
    <3> DEFINE x == m.mutation.write
               S == 1..MaxWrites
    <3>1. applied \in Seq(S) /\ x \in S
      <4>1. m.mutation \in Mutation  BY <2>2 DEF Message
      <4> QED  BY <4>1 DEF Mutation, OutboxInv, Types
    <3> HIDE DEF S
    <3>2. /\ Len(applied) \in Nat
          /\ DOMAIN applied = 1..Len(applied) /\ DOMAIN applied' = 1..(Len(applied) + 1)
          /\ \A i \in 1..Len(applied) : applied'[i] = applied[i]
          /\ applied'[Len(applied) + 1] = x
      BY <2>7, <3>1, AppendProperties
    <3>3. CASE x = w
      <4>1. m.via # "gone"  BY <1>0, <2>2, <3>3, Carrier
      <4>2. ~ Committed(w)  BY <1>0, <2>7, <3>3 DEF Once, NotAsked
      <4>3. \A i, j \in DOMAIN applied' : applied'[i] = w /\ applied'[j] = w => i = j
        BY <3>2, <4>2 DEF Committed
      <4>4. AckComing(w)'
        <5>1. Restaged(m, stage) \in wire'  BY <2>1, <4>1
        <5> QED  BY <2>3, <2>7, <3>3, <5>1 DEF AckComing
      <4>5. NotAsked(w)'
        <5>1. \A n \in wire \ {m} : n.mutation.write # w
          BY <1>0, <3>3, OneCarrier
        <5> QED  BY <2>1, <2>3, <5>1 DEF NotAsked
      <4> QED  BY <4>3, <4>4, <4>5 DEF Once
    <3>4. CASE x # w
      <4>1. Committed(w)' => Committed(w)
        <5>1. ASSUME NEW i \in DOMAIN applied', applied'[i] = w  PROVE Committed(w)
          <6>1. i \in 1..Len(applied) /\ applied[i] = w  BY <3>2, <3>4, <5>1
          <6> QED  BY <3>2, <6>1 DEF Committed
        <5> QED  BY <5>1 DEF Committed
      <4>2. \A i, j \in DOMAIN applied' : applied'[i] = w /\ applied'[j] = w => i = j
        <5>1. \A i \in 1..(Len(applied) + 1) : applied'[i] = w => i \in 1..Len(applied)
          BY <3>2, <3>4
        <5> QED  BY <1>0, <3>2, <5>1 DEF Once
      <4> QED  BY <1>0, <1>2, <2>4, <2>5, <3>4, <4>1, <4>2 DEF Once
    <3> QED  BY <3>3, <3>4
  <2> QED  BY <2>1, <2>6, <2>7
<1> QED  BY <1>3, <1>4, <1>5, <1>6, <1>7 DEF Quiet

\* Only what was called is committed.
LEMMA CommitsCalled ==
  ASSUME OutboxInv, Next  PROVE \A i \in DOMAIN applied' : applied'[i] <= made'
<1>0. \A i \in DOMAIN applied : applied[i] <= made  BY DEF OutboxInv, OnceInv
<1>1. CASE Transact
  <2>1. made' = made + 1 /\ applied' = applied  BY <1>1, TransactEffect
  <2>2. made \in Nat /\ applied \in Seq(1..MaxWrites)  BY LayersTyped DEF OutboxInv, Types
  <2>3. \A i \in DOMAIN applied : applied[i] \in 1..MaxWrites
    <3> DEFINE S == 1..MaxWrites
    <3>1. applied \in Seq(S)  BY <2>2
    <3> HIDE DEF S
    <3>2. \A i \in DOMAIN applied : applied[i] \in S  BY <3>1
    <3> QED  BY <3>2 DEF S
  <2>4. \A i \in DOMAIN applied : applied[i] <= made + 1
    BY <1>0, <2>2, <2>3, OutboxAssumption
  <2> QED  BY <2>1, <2>4
<1>2. CASE Quiet
  <2>1. made' = made  BY <1>2, QuietEffect
  <2>2. ASSUME NEW m \in wire, ServeCommit(m)  PROVE \A i \in DOMAIN applied' : applied'[i] <= made'
    <3> DEFINE x == m.mutation.write
               S == 1..MaxWrites
    <3>1. applied' = Append(applied, x) /\ x <= made
      BY <2>2 DEF ServeCommit, OutboxInv, WireInv
    <3>2. applied \in Seq(S) /\ x \in S
      <4>1. m.mutation \in Mutation  BY DEF OutboxInv, Types, Message
      <4> QED  BY <4>1 DEF Mutation, OutboxInv, Types
    <3> HIDE DEF S, x
    <3>3. /\ Len(applied) \in Nat
          /\ DOMAIN applied = 1..Len(applied) /\ DOMAIN applied' = 1..(Len(applied) + 1)
          /\ \A i \in 1..Len(applied) : applied'[i] = applied[i]
          /\ applied'[Len(applied) + 1] = x
      BY <3>1, <3>2, AppendProperties
    <3>4. ASSUME NEW i \in 1..(Len(applied) + 1)  PROVE applied'[i] <= made
      BY <1>0, <3>1, <3>3
    <3> QED  BY <2>1, <3>3, <3>4
  <2>3. (\E m \in wire : ServeCommit(m)) \/ applied' = applied
    BY <1>2 DEF Quiet, SendHead, DrainFires, DrainFailure, DrainMismatch, Connect, HelloMismatch,
                Deploy, ServeReject, ServeMismatch, Lose, serverVars
  <2> QED  BY <1>0, <2>1, <2>2, <2>3
<1>3. ASSUME NEW m \in wire, ChainEnds(m) \/ ChainFailure(m) \/ DrainEnds(m)
      PROVE  applied' = applied /\ made' = made
  BY <1>3, ChainEndsEffect, ChainFailureEffect, DrainEndsEffect DEF serverVars
<1>4. ASSUME NEW g \in 0..MaxDeploys, SaveFires \/ Reload(g)
      PROVE  applied' = applied /\ made' = made
  BY <1>4 DEF SaveFires, Reload, serverVars
<1>5. CASE SaveFires
  <2>1. 0 \in 0..MaxDeploys  BY OutboxAssumption
  <2> QED  BY <1>0, <1>4, <1>5, <2>1
<1> QED  BY <1>0, <1>1, <1>2, <1>3, <1>4, <1>5, NextCases

----------------------------------------------------------------------------
\* The invariant holds from the first page on.

LEMMA OutboxInit == Init => OutboxInv
<1> SUFFICES ASSUME Init  PROVE OutboxInv
  OBVIOUS
<1>1. Entries(<<>>) = {} /\ Distinct(<<>>)  BY EmptyEntries
<1>2. DOMAIN <<>> = {} /\ Len(<<>>) = 0 /\ <<>> \in Seq(Mutation) /\ <<>> \in Seq(1..MaxWrites)
  OBVIOUS
<1>3. Types
  <2>1. 0 \in 0..MaxWrites /\ 0 \in 0..MaxDeploys /\ 0 \in 0..0  BY OutboxAssumption
  <2>2. saved.generation = 0 /\ saved.outbox = <<>>  BY DEF Init
  <2>3. /\ draining \in BOOLEAN /\ drainTimer \in BOOLEAN /\ saveTimer \in BOOLEAN
        /\ online \in BOOLEAN /\ outdated \in BOOLEAN
    BY Zenon DEF Init
  <2> QED  BY <1>2, <2>1, <2>2, <2>3 DEF Init, Types
<1>4. LayerInv
  BY <1>1, <1>2 DEF Init, LayerInv, Layered, Numbered, Apart, Base
<1>5. WireInv  BY DEF Init, WireInv
<1>6. SaveInv  BY DEF Init, SaveInv, SavedWhenQuiet
<1>7. LostInv  BY DEF Init, LostInv, NothingSilentlyLost
<1>8. OnceInv  BY <1>2 DEF Init, OnceInv, Once, Committed
<1>9. LeftInv  BY <1>1 DEF Init, LeftInv
<1> QED  BY <1>3, <1>4, <1>5, <1>6, <1>7, <1>8, <1>9 DEF OutboxInv

LEMMA OutboxNext == OutboxInv /\ [Next]_vars => OutboxInv'
<1> SUFFICES ASSUME OutboxInv, [Next]_vars  PROVE OutboxInv'
  OBVIOUS
<1>1. CASE Next
  <2>1. OnceInv'
    <3>1. \A w \in 1..MaxWrites : w \in unsure' \/ Once(w)'
      BY <1>1, OnceAtThePage, OnceOnTheWire
    <3> QED  BY <1>1, <3>1, CommitsCalled DEF OnceInv
  <2> QED
    BY <1>1, <2>1, TypesPreserved, LayerPreserved, WirePreserved, SavePreserved, LostPreserved,
       LeftPreserved
    DEF OutboxInv
<1>2. CASE UNCHANGED vars
  <2>1. Types'  BY <1>2 DEF OutboxInv, Types, vars, timerVars, saveVars, pageVars, serverVars
  <2>2. LayerInv'
    BY <1>2, LayersUnchanged DEF OutboxInv, vars, timerVars, saveVars, pageVars, serverVars
  <2>3. WireInv'  BY <1>2 DEF OutboxInv, WireInv, vars, timerVars, saveVars, pageVars, serverVars
  <2>4. SaveInv'
    BY <1>2 DEF OutboxInv, SaveInv, SavedWhenQuiet, vars, timerVars, saveVars, pageVars, serverVars
  <2>5. LostInv'
    BY <1>2 DEF OutboxInv, LostInv, NothingSilentlyLost, vars, timerVars, saveVars, pageVars,
                serverVars
  <2>6. OnceInv'
    BY <1>2 DEF OutboxInv, OnceInv, Once, Committed, NotAsked, Told, AckComing, vars, timerVars,
                saveVars, pageVars, serverVars
  <2>7. LeftInv'
    BY <1>2 DEF OutboxInv, LeftInv, Committed, vars, timerVars, saveVars, pageVars, serverVars
  <2> QED  BY <2>1, <2>2, <2>3, <2>4, <2>5, <2>6, <2>7 DEF OutboxInv
<1> QED  BY <1>1, <1>2

LEMMA OutboxInvAlways == Spec => []OutboxInv
BY OutboxInit, OutboxNext, PTL DEF Spec

----------------------------------------------------------------------------
\* What follows

LEMMA AtMostOne ==
  ASSUME NEW S, \A x, y \in S : x = y
  PROVE  Cardinality(S) <= 1 /\ IsFiniteSet(S)
<1>1. CASE S = {}  BY <1>1, FS_EmptySet
<1>2. CASE S # {}
  <2>1. PICK x \in S : TRUE  BY <1>2
  <2>2. S = {x}  BY <2>1
  <2> QED  BY <2>2, FS_Singleton
<1> QED  BY <1>1, <1>2

\* A list in which no write comes twice has as many writes as entries.
LEMMA DistinctCounts ==
  ASSUME NEW s \in Seq(Mutation), Distinct(s)
  PROVE  Cardinality(WritesOf(s)) = Len(s) /\ IsFiniteSet(WritesOf(s))
<1> DEFINE f == [i \in 1..Len(s) |-> s[i].write]
<1>1. Len(s) \in Nat /\ DOMAIN s = 1..Len(s)  OBVIOUS
<1>2. IsFiniteSet(1..Len(s)) /\ Cardinality(1..Len(s)) = Len(s)
  BY <1>1, FS_Interval
<1>3. ExistsBijection(1..Len(s), WritesOf(s))
  <2>1. f \in [1..Len(s) -> WritesOf(s)]  BY <1>1 DEF WritesOf
  <2>2. \A i, j \in 1..Len(s) : f[i] = f[j] => i = j  BY <1>1 DEF Distinct
  <2>3. \A w \in WritesOf(s) : \E i \in 1..Len(s) : f[i] = w  BY <1>1 DEF WritesOf
  <2> HIDE DEF f
  <2>4. f \in Bijection(1..Len(s), WritesOf(s))
    BY <2>1, <2>2, <2>3 DEF Bijection, Injection, Surjection, IsInjective
  <2> QED  BY <2>4 DEF ExistsBijection
<1> QED  BY <1>2, <1>3, FS_Bijection

\* Every variable keeps its type, the chain and the drain wait for one answer each, and
\* the drain runs exactly while one of its requests is out (client.ts #drain, #sendChain).
THEOREM OutboxTypeCorrect == Spec => []OutboxTypeOK
<1>1. OutboxInv => OutboxTypeOK
  <2> SUFFICES ASSUME OutboxInv  PROVE OutboxTypeOK
    OBVIOUS
  <2>1. Types /\ WireInv  BY DEF OutboxInv
  <2>2. Cardinality(Waiting("chain")) <= 1 /\ Cardinality(Waiting("drain")) <= 1
    <3>1. \A x, y \in Waiting("chain") : x = y  BY <2>1 DEF WireInv, Waiting
    <3>2. \A x, y \in Waiting("drain") : x = y  BY <2>1 DEF WireInv, Waiting
    <3> QED  BY <3>1, <3>2, AtMostOne
  <2>3. draining <=> Waiting("drain") # {}  BY <2>1 DEF WireInv, Waiting
  <2>4. {draining, drainTimer, saveTimer, online, outdated} \subseteq BOOLEAN
    BY <2>1, Zenon DEF Types
  <2>5. /\ \A s \in {pending, chain, outbox, saved.outbox} : s \in Seq(Mutation)
        /\ {generation, deployed, saved.generation} \subseteq 0..MaxDeploys
    BY <2>1 DEF Types
  <2> QED  BY <2>1, <2>2, <2>3, <2>4, <2>5 DEF Types, OutboxTypeOK
<1> QED  BY <1>1, OutboxInvAlways, PTL

\* The optimistic layer is the writes not yet answered, each once, whatever mutationIds
\* earlier pages used; only an outdated page keeps more, and of committed writes
\* (client.ts #drop, #notify).
THEOREM LayersAreTheUnanswered == Spec => []PendingIsUnanswered
<1>1. OutboxInv => PendingIsUnanswered
  <2> SUFFICES ASSUME OutboxInv  PROVE PendingIsUnanswered
    OBVIOUS
  <2> DEFINE o == WritesOf(outbox)
             c == WritesOf(chain)
  <2>1. Layered(pending, outbox, chain) /\ pending \in Seq(Mutation)  BY LayersTyped
  <2>2. o \cup c \subseteq WritesOf(pending)
    BY <2>1, WritesOfEntries DEF Layered
  <2>3. Cardinality(WritesOf(pending)) = Len(pending)
    BY <2>1, DistinctCounts DEF Layered
  <2>4. ASSUME NEW w \in WritesOf(pending) \ (o \cup c)
        PROVE  outdated /\ w \in ToSet(applied)
    <3>1. PICK e \in Entries(pending) : e.write = w  BY WritesOfEntries
    <3>2. e \notin Entries(outbox) /\ e \notin Entries(chain)  BY <3>1, WritesOfEntries
    <3> QED  BY <3>1, <3>2 DEF OutboxInv, LeftInv, Committed, ToSet
  <2>5. Cardinality(o \cup c) = Len(outbox) + Len(chain)
    <3>1. /\ Cardinality(o) = Len(outbox) /\ Cardinality(c) = Len(chain)
          /\ IsFiniteSet(o) /\ IsFiniteSet(c)
      BY LayersTyped, DistinctCounts DEF Layered
    <3>2. o \cap c = {}  BY OnePlace
    <3>3. Cardinality(o \cup c) = Cardinality(o) + Cardinality(c) - Cardinality(o \cap c)
      BY <3>1, FS_Union
    <3>4. Cardinality(o \cap c) = 0  BY <3>2, FS_EmptySet
    <3>5. Len(outbox) \in Nat /\ Len(chain) \in Nat  BY LayersTyped
    <3> HIDE DEF o, c
    <3> QED  BY <3>1, <3>3, <3>4, <3>5
  <2> QED  BY <2>2, <2>3, <2>4, <2>5 DEF PendingIsUnanswered
<1> QED  BY <1>1, OutboxInvAlways, PTL

\* When no save is due, a page of the same schema would hydrate the present outbox: the
\* dirty check skips no change that matters (client.ts #persist).
THEOREM QuietMeansSaved == Spec => []SavedWhenQuiet
<1>1. OutboxInv => SavedWhenQuiet  BY DEF OutboxInv, SaveInv
<1> QED  BY <1>1, OutboxInvAlways, PTL

\* A write that reached the disk is queued or was answered or surfaced, through reloads,
\* failed drains and deploys (client.ts #hydrate, #drain).
THEOREM NoSavedWriteIsLost == Spec => []NothingSilentlyLost
<1>1. OutboxInv => NothingSilentlyLost  BY DEF OutboxInv, LostInv
<1> QED  BY <1>1, OutboxInvAlways, PTL

\* The server commits a write twice only when an answer to it, or the page that waited
\* for one, was lost (client.ts #send, #drain).
THEOREM DoublesOnlyWhenUnsure == Spec => []AppliedTwiceOnlyIfUnsure
<1>1. OutboxInv => AppliedTwiceOnlyIfUnsure
  <2> SUFFICES ASSUME OutboxInv, NEW w \in 1..MaxWrites, w \notin unsure
               PROVE  ~ (Applications(w) > 1)
    BY DEF AppliedTwiceOnlyIfUnsure
  <2> DEFINE S == {i \in DOMAIN applied : applied[i] = w}
  <2>1. \A i, j \in S : i = j  BY DEF OutboxInv, OnceInv, Once
  <2>2. Applications(w) = Cardinality(S)  BY DEF Applications
  <2> HIDE DEF S
  <2>3. Cardinality(S) <= 1 /\ Cardinality(S) \in Nat  BY <2>1, AtMostOne, FS_CardinalityType
  <2> QED  BY <2>2, <2>3
<1> QED  BY <1>1, OutboxInvAlways, PTL
=============================================================================
