--------------------------- MODULE Storage_proof ---------------------------
(***************************************************************************)
(* The storage adapters.  First the array log, for every set of triples    *)
(* and every number of commits: it keeps its versions dense, folds to the  *)
(* store, and implements Storage.  Then the three adapters together, for   *)
(* every retainLog and every place at which a write of SQLite may stop:    *)
(* they always agree, and the tables implement Storage.                    *)
(***************************************************************************)
EXTENDS Adapters, SequenceTheorems, TLAPS

\* An entry's place in the array is its distance from the floor, and the
\* entries take the states of the history from one to the next.
Inv == MemTypeOK /\ LogIsDense /\ StateIsFold

\* The same of any state of the adapter and any history, so that a handler may
\* make several operations in one step.
Typed(m, h) ==
  /\ m \in [store : SUBSET Triple, log : Seq(Entry), floor : Nat]
  /\ h \in Seq(SUBSET Triple)

Dense(m, h) ==
  /\ \A i \in DOMAIN m.log : m.log[i].version = m.floor + i
  /\ Len(h) = VersionOf(m) + 1

Folds(m, h) ==
  /\ m.store = h[Len(h)]
  /\ \A i \in DOMAIN m.log :
        h[m.floor + i + 1] = Applied(h[m.floor + i], m.log[i].delta)

Good(m, h) == Typed(m, h) /\ Dense(m, h) /\ Folds(m, h)

\* What a compaction past the floor leaves.
Suffix(m, to) == [m EXCEPT !.log = SubSeq(@, to - m.floor + 1, Len(@)), !.floor = to]

LEMMA InvIsGood == (Inv <=> Good(mem, history)) /\ (Inv' <=> Good(mem', history'))
  BY DEF Inv, Good, MemTypeOK, LogIsDense, StateIsFold, Typed, Dense, Folds, VersionOf

----------------------------------------------------------------------------
\* What one operation of the adapter does (storage.ts apply and compact).

\* A commit that changes something is one more entry, at the next version.
LEMMA GoodAppended ==
  ASSUME NEW m, NEW h, NEW m2, NEW h2, Good(m, h),
         NEW d \in Delta, ~ IsEmptyDelta(Effective(m.store, d)),
         m2 = Appended(m, d), h2 = Append(h, Applied(m.store, d))
  PROVE  /\ m2.store = Applied(m.store, d)
         /\ m2.log = Append(m.log, [version |-> VersionOf(m) + 1,
                                        delta   |-> Effective(m.store, d)])
         /\ m2.floor = m.floor
         /\ VersionOf(m2) = VersionOf(m) + 1
         /\ Typed(m2, h2)
<1> DEFINE e == [version |-> VersionOf(m) + 1, delta |-> Effective(m.store, d)]
           S == Applied(m.store, d)
<1>1. m2 = [m EXCEPT !.store = S, !.log = Append(@, e)]
  BY DEF Appended
<1>2. /\ m2.store = S
      /\ m2.log = Append(m.log, e)
      /\ m2.floor = m.floor
      /\ m2 = [store |-> S, log |-> Append(m.log, e), floor |-> m.floor]
  BY <1>1 DEF Good, Typed
<1>3. VersionOf(m) \in Nat /\ S \in SUBSET Triple
  BY DEF Good, Typed, VersionOf, Applied, Delta
<1>4. e \in Entry
  BY <1>3 DEF Entry, Effective, Delta, Good, Typed
<1>5. VersionOf(m2) = VersionOf(m) + 1
  BY <1>2, <1>4 DEF VersionOf, Good, Typed
<1>6. h2 = Append(h, S)
  OBVIOUS
<1>7. Typed(m2, h2)
  <2>1. Append(m.log, e) \in Seq(Entry) /\ m.floor \in Nat
    BY <1>4 DEF Good, Typed
  <2>2. h2 \in Seq(SUBSET Triple)
    BY <1>3, <1>6 DEF Good, Typed
  <2> QED BY <1>2, <1>3, <2>1, <2>2 DEF Typed
<1> QED BY <1>2, <1>5, <1>6, <1>7

LEMMA AppendedIsOneMore ==
  ASSUME Inv, NEW d \in Delta, ~ IsEmptyDelta(Effective(mem.store, d)),
         mem' = Appended(mem, d), history' = Record(Appended(mem, d))
  PROVE  /\ mem'.store = Applied(mem.store, d)
         /\ mem'.log = Append(mem.log, [version |-> VersionOf(mem) + 1,
                                        delta   |-> Effective(mem.store, d)])
         /\ mem'.floor = mem.floor
         /\ history' = Append(history, Applied(mem.store, d))
         /\ VersionOf(mem)' = VersionOf(mem) + 1
         /\ MemTypeOK'
<1>1. Good(mem, history)
  BY InvIsGood
<1>2. mem'.store = Applied(mem.store, d) /\ VersionOf(mem') = VersionOf(mem) + 1
  BY <1>1, GoodAppended
<1>3. history' = Append(history, Applied(mem.store, d))
  <2>1. Len(history) = VersionOf(mem) + 1 /\ VersionOf(mem) \in Nat
    BY DEF Inv, LogIsDense, MemTypeOK, VersionOf
  <2> QED BY <1>2, <2>1 DEF Record
<1>4. VersionOf(mem') = VersionOf(mem)' /\ (Typed(mem', history') => MemTypeOK')
  BY DEF VersionOf, MemTypeOK, Typed
<1> QED BY <1>1, <1>3, <1>4, GoodAppended

\* Compaction past the floor drops a prefix and moves the floor by its length.
LEMMA GoodSuffix ==
  ASSUME NEW m, NEW h, Good(m, h),
         NEW to \in Nat, m.floor < to, to <= VersionOf(m)
  PROVE  /\ Suffix(m, to).store = m.store /\ Suffix(m, to).floor = to
         /\ VersionOf(Suffix(m, to)) = VersionOf(m)
         /\ DOMAIN Suffix(m, to).log = 1..(VersionOf(m) - to)
         /\ \A i \in DOMAIN Suffix(m, to).log :
               /\ i + (to - m.floor) \in DOMAIN m.log
               /\ Suffix(m, to).log[i] = m.log[i + (to - m.floor)]
         /\ Suffix(m, to) \in [store : SUBSET Triple, log : Seq(Entry), floor : Nat]
<1> DEFINE n == Len(m.log)
           k == to - m.floor
           m2 == Suffix(m, to)
           l == SubSeq(m.log, k + 1, n)
<1>1. m2 = [store |-> m.store, log |-> l, floor |-> to]
  <2>1. m \in [store : SUBSET Triple, log : Seq(Entry), floor : Nat]
    BY DEF Good, Typed
  <2>2. m2 = [m EXCEPT !.log = l, !.floor = to]
    BY DEF Suffix
  <2> HIDE DEF m2, l
  <2> QED BY <2>1, <2>2
<1>9. m2.store = m.store /\ m2.floor = to /\ m2.log = l
  <2> HIDE DEF m2, l
  <2> QED BY <1>1
<1>2. m.log \in Seq(Entry) /\ m.floor \in Nat /\ m.store \in SUBSET Triple
  BY DEF Good, Typed
<1>3. n \in Nat /\ DOMAIN m.log = 1..n
  BY <1>2
<1>4. k \in Nat /\ k <= n
  BY <1>2, <1>3 DEF VersionOf
<1>5. l \in Seq(Entry) /\ Len(l) = n - k /\ \A i \in 1..(n - k) : l[i] = m.log[i + k]
  <2> HIDE DEF k, n
  <2>1. \A i \in (k + 1)..n : m.log[i] \in Entry
    BY <1>2, <1>3, <1>4, ElementOfSeq
  <2>2. l \in Seq(Entry) /\ Len(l) = n - k
    BY <1>2, <1>3, <1>4, <2>1, SubSeqProperties
  <2>3. \A i \in 1..(n - k) : l[i] = m.log[k + 1 + i - 1]
    BY <1>2, <1>3, <1>4, <2>1, SubSeqProperties
  <2>4. \A i \in 1..(n - k) : k + 1 + i - 1 = i + k
    BY <1>3, <1>4
  <2> QED BY <2>2, <2>3, <2>4
<1>6. DOMAIN l = 1..(n - k) /\ \A i \in 1..(n - k) : i + k \in 1..n
  BY <1>3, <1>4, <1>5
<1>7. VersionOf(m2) = VersionOf(m) /\ n - k = VersionOf(m) - to
  <2>1. VersionOf(m) = m.floor + n /\ VersionOf(m2) = to + Len(l)
    <3> HIDE DEF m2, l, n
    <3> QED BY <1>9 DEF VersionOf, n
  <2>2. Len(l) = n - k /\ m.floor \in Nat
    BY <1>2, <1>5
  <2> HIDE DEF l, n
  <2> QED BY <1>3, <2>1, <2>2
<1>8. m2 \in [store : SUBSET Triple, log : Seq(Entry), floor : Nat]
  <2> HIDE DEF m2, l
  <2> QED BY <1>1, <1>2, <1>5
<1> HIDE DEF m2, l
<1> QED BY <1>3, <1>5, <1>6, <1>7, <1>8, <1>9 DEF m2

LEMMA CompactedIsSuffix ==
  ASSUME Inv, NEW to \in Nat, mem.floor < to, to <= VersionOf(mem),
         mem' = [mem EXCEPT !.log = SubSeq(@, to - mem.floor + 1, Len(@)), !.floor = to]
  PROVE  /\ mem'.store = mem.store /\ mem'.floor = to
         /\ VersionOf(mem)' = VersionOf(mem)
         /\ DOMAIN mem'.log = 1..(VersionOf(mem) - to)
         /\ \A i \in DOMAIN mem'.log : /\ i + (to - mem.floor) \in DOMAIN mem.log
                                       /\ mem'.log[i] = mem.log[i + (to - mem.floor)]
         /\ mem' \in [store : SUBSET Triple, log : Seq(Entry), floor : Nat]
<1>1. Good(mem, history)
  BY InvIsGood
<1>2. mem' = Suffix(mem, to)
  BY DEF Suffix
<1>3. VersionOf(mem') = VersionOf(mem)'
  BY DEF VersionOf
<1>4. /\ Suffix(mem, to).store = mem.store /\ Suffix(mem, to).floor = to
      /\ VersionOf(Suffix(mem, to)) = VersionOf(mem)
      /\ DOMAIN Suffix(mem, to).log = 1..(VersionOf(mem) - to)
      /\ \A i \in DOMAIN Suffix(mem, to).log :
            /\ i + (to - mem.floor) \in DOMAIN mem.log
            /\ Suffix(mem, to).log[i] = mem.log[i + (to - mem.floor)]
      /\ Suffix(mem, to) \in [store : SUBSET Triple, log : Seq(Entry), floor : Nat]
  BY <1>1, GoodSuffix, Zenon
<1> QED BY <1>2, <1>3, <1>4, Zenon

\* The step of compact: nothing, or the suffix above a version it may forget.
LEMMA CompactCases ==
  ASSUME Inv, NEW upTo \in 0..(VersionOf(mem) + 1), Compact(upTo)
  PROVE  \/ UNCHANGED memVars
         \/ \E to \in Nat :
              /\ mem.floor < to /\ to <= VersionOf(mem)
              /\ mem' = [mem EXCEPT !.log = SubSeq(@, to - mem.floor + 1, Len(@)),
                                    !.floor = to]
              /\ history' = history
<1> DEFINE to == IF upTo < VersionOf(mem) THEN upTo ELSE VersionOf(mem)
<1>1. to \in Nat /\ to <= VersionOf(mem) /\ mem.floor \in Nat
  BY DEF Inv, MemTypeOK, VersionOf
<1>2. CASE to <= mem.floor
  BY <1>2 DEF Compact, Compacted, memVars
<1>3. CASE ~ (to <= mem.floor)
  <2>1. mem' = [mem EXCEPT !.log = SubSeq(@, to - mem.floor + 1, Len(@)), !.floor = to]
    BY <1>3 DEF Compact, Compacted
  <2>2. mem.floor < to /\ history' = history
    BY <1>1, <1>3 DEF Compact
  <2> HIDE DEF to
  <2> QED BY <1>1, <2>1, <2>2
<1> QED BY <1>2, <1>3

----------------------------------------------------------------------------
\* The invariant is inductive.

LEMMA InvInit == MemInit => Inv
  BY DEF MemInit, EmptyStorage, Inv, MemTypeOK, LogIsDense, StateIsFold, VersionOf

LEMMA AppendKeepsGood ==
  ASSUME NEW m, NEW h, NEW m2, NEW h2, Good(m, h),
         NEW d \in Delta, ~ IsEmptyDelta(Effective(m.store, d)),
         m2 = Appended(m, d), h2 = Append(h, Applied(m.store, d))
  PROVE  Good(m2, h2)
<1> DEFINE e == [version |-> VersionOf(m) + 1, delta |-> Effective(m.store, d)]
           S == Applied(m.store, d)
<1>1. /\ m2.store = S /\ m2.log = Append(m.log, e) /\ m2.floor = m.floor
      /\ h2 = Append(h, S) /\ VersionOf(m2) = VersionOf(m) + 1
      /\ Typed(m2, h2)
  BY GoodAppended
<1>2. /\ m.log \in Seq(Entry) /\ h \in Seq(SUBSET Triple) /\ m.floor \in Nat
      /\ Len(h) = VersionOf(m) + 1 /\ VersionOf(m) = m.floor + Len(m.log)
  BY DEF Good, Typed, Dense, VersionOf
<1> DEFINE n == Len(m.log)
<1>3. /\ n \in Nat /\ m.floor \in Nat
      /\ Len(h) = m.floor + n + 1 /\ VersionOf(m) = m.floor + n
  BY <1>2
<1>4. /\ DOMAIN m2.log = 1..(n + 1)
      /\ m2.log[n + 1] = e
      /\ \A i \in 1..n : m2.log[i] = m.log[i]
      /\ DOMAIN m.log = 1..n
  BY <1>1, <1>2
<1>5. /\ Len(h2) = Len(h) + 1
      /\ h2[Len(h) + 1] = S
      /\ \A i \in 1..Len(h) : h2[i] = h[i]
  BY <1>1, <1>2
<1>6. S = Applied(m.store, e.delta)
  BY DEF Applied, Effective, Good, Typed, Delta
<1> HIDE DEF n, e, S
<1>7. \A i \in DOMAIN m2.log : i \in 1..n \/ i = n + 1
  BY <1>3, <1>4
<1>8. Dense(m2, h2)
  <2>1. \A i \in DOMAIN m2.log : m2.log[i].version = m2.floor + i
    <3> TAKE i \in DOMAIN m2.log
    <3>1. ASSUME i \in 1..n PROVE m2.log[i].version = m2.floor + i
      BY <1>1, <1>4, <3>1 DEF Good, Dense
    <3>2. ASSUME i = n + 1 PROVE m2.log[i].version = m2.floor + i
      <4>1. e.version = m.floor + i
        BY <1>3, <3>2 DEF e
      <4> QED BY <1>1, <1>4, <3>2, <4>1
    <3> QED BY <1>7, <3>1, <3>2
  <2>2. Len(h2) = VersionOf(m2) + 1
    BY <1>1, <1>3, <1>5
  <2> QED BY <2>1, <2>2 DEF Dense
<1>9. Folds(m2, h2)
  <2>1. m2.store = h2[Len(h2)]
    BY <1>1, <1>5
  <2>2. \A i \in DOMAIN m2.log :
          h2[m2.floor + i + 1] = Applied(h2[m2.floor + i], m2.log[i].delta)
    <3> TAKE i \in DOMAIN m2.log
    <3> DEFINE Goal == h2[m2.floor + i + 1]
                         = Applied(h2[m2.floor + i], m2.log[i].delta)
    <3>1. ASSUME i \in 1..n PROVE Goal
      <4>1. m.floor + i \in 1..Len(h) /\ m.floor + i + 1 \in 1..Len(h)
        BY <1>3, <3>1
      <4>2. h[m.floor + i + 1] = Applied(h[m.floor + i], m.log[i].delta)
        BY <1>4, <3>1 DEF Good, Folds
      <4> QED BY <1>1, <1>4, <1>5, <3>1, <4>1, <4>2
    <3>2. ASSUME i = n + 1 PROVE Goal
      <4>1. m.floor + i = Len(h) /\ Len(h) \in 1..Len(h)
        BY <1>3, <3>2
      <4>2. h2[m.floor + i] = m.store /\ h2[m.floor + i + 1] = S
        BY <1>5, <4>1 DEF Good, Folds
      <4> QED BY <1>1, <1>4, <1>6, <3>2, <4>2
    <3> QED BY <1>7, <3>1, <3>2
  <2> QED BY <2>1, <2>2 DEF Folds
<1> QED BY <1>1, <1>8, <1>9 DEF Good

LEMMA ApplyKeepsInv ==
  ASSUME Inv, NEW d \in Delta, ~ IsEmptyDelta(Effective(mem.store, d)),
         mem' = Appended(mem, d), history' = Record(Appended(mem, d))
  PROVE  Inv'
<1>1. Good(mem, history)
  BY InvIsGood
<1>2. history' = Append(history, Applied(mem.store, d))
  BY AppendedIsOneMore
<1> QED BY <1>1, <1>2, AppendKeepsGood, InvIsGood

LEMMA SuffixKeepsGood ==
  ASSUME NEW m, NEW h, NEW m2, NEW h2, Good(m, h),
         NEW to \in Nat, m.floor < to, to <= VersionOf(m),
         m2 = Suffix(m, to),
         h2 = h
  PROVE  Good(m2, h2)
<1> DEFINE gap == to - m.floor
<1>1. /\ m2.store = m.store /\ m2.floor = to
      /\ VersionOf(m2) = VersionOf(m)
      /\ \A i \in DOMAIN m2.log : /\ i + gap \in DOMAIN m.log
                                    /\ m2.log[i] = m.log[i + gap]
      /\ m2 \in [store : SUBSET Triple, log : Seq(Entry), floor : Nat]
  <2> HIDE DEF gap
  <2>1. /\ m2.store = m.store /\ m2.floor = to /\ VersionOf(m2) = VersionOf(m)
        /\ \A i \in DOMAIN m2.log : /\ i + (to - m.floor) \in DOMAIN m.log
                                    /\ m2.log[i] = m.log[i + (to - m.floor)]
        /\ m2 \in [store : SUBSET Triple, log : Seq(Entry), floor : Nat]
    BY GoodSuffix
  <2> QED BY <2>1 DEF gap
<1>2. Typed(m2, h2)
  BY <1>1 DEF Typed, Good
<1>3. m.floor \in Nat /\ \A i \in DOMAIN m2.log : i \in Nat
  BY <1>1 DEF Good, Typed
<1>4. \A i \in DOMAIN m2.log : /\ m.floor + (i + gap) = to + i
                                 /\ m.floor + (i + gap) + 1 = to + i + 1
  BY <1>3
<1>5. Dense(m2, h2)
  <2> HIDE DEF gap
  <2>1. \A i \in DOMAIN m2.log : m2.log[i].version = m.floor + (i + gap)
    BY <1>1 DEF Good, Dense
  <2>2. Len(h2) = VersionOf(m2) + 1
    BY <1>1 DEF Good, Dense
  <2> QED BY <1>1, <1>4, <2>1, <2>2 DEF Dense
<1>6. Folds(m2, h2)
  <2> HIDE DEF gap
  <2>1. \A i \in DOMAIN m2.log :
          h[to + i + 1] = Applied(h[to + i], m2.log[i].delta)
    BY <1>1, <1>4 DEF Good, Folds
  <2> QED BY <1>1, <2>1 DEF Folds, Good
<1> QED BY <1>2, <1>5, <1>6 DEF Good

LEMMA CompactKeepsInv ==
  ASSUME Inv, NEW to \in Nat, mem.floor < to, to <= VersionOf(mem),
         mem' = [mem EXCEPT !.log = SubSeq(@, to - mem.floor + 1, Len(@)), !.floor = to],
         history' = history
  PROVE  Inv'
<1>1. Good(mem, history)
  BY InvIsGood
<1>2. mem' = Suffix(mem, to)
  BY DEF Suffix
<1> QED BY <1>1, <1>2, SuffixKeepsGood, InvIsGood

LEMMA InvStep == Inv /\ [MemNext]_memVars => Inv'
<1> SUFFICES ASSUME Inv, [MemNext]_memVars PROVE Inv'
  OBVIOUS
<1>1. ASSUME UNCHANGED memVars PROVE Inv'
  BY <1>1 DEF memVars, Inv, MemTypeOK, LogIsDense, StateIsFold, VersionOf
<1>2. ASSUME NEW d \in Delta, Apply(d) PROVE Inv'
  <2>1. CASE IsEmptyDelta(Effective(mem.store, d))
    <3>1. mem' = mem
      BY <1>2, <2>1 DEF Apply, Appended
    <3>2. history' = history
      BY <1>2, <2>1 DEF Apply, Appended, Record, Inv, LogIsDense, VersionOf, MemTypeOK
    <3> QED BY <1>1, <3>1, <3>2 DEF memVars
  <2>2. CASE ~ IsEmptyDelta(Effective(mem.store, d))
    BY <1>2, <2>2, ApplyKeepsInv DEF Apply
  <2> QED BY <2>1, <2>2
<1>3. ASSUME NEW upTo \in 0..(VersionOf(mem) + 1), Compact(upTo) PROVE Inv'
  BY <1>1, <1>3, CompactCases, CompactKeepsInv
<1> QED BY <1>1, <1>2, <1>3 DEF MemNext

LEMMA InvAlways == MemSpec => []Inv
<1>1. Inv /\ [MemNext]_memVars => Inv'
  BY InvStep
<1> QED BY InvInit, <1>1, PTL DEF MemSpec

----------------------------------------------------------------------------
\* The adapter's own promises.

\* The adapter's three fields and its entries keep their types, whatever is
\* committed and compacted.
THEOREM TypeCorrect == MemSpec => []MemTypeOK
<1>1. Inv => MemTypeOK
  BY DEF Inv
<1> QED BY <1>1, InvAlways, PTL

\* SPEC 3: the log has no gap above the retention floor, so that the array index
\* of an entry gives its version.
THEOREM LogAlwaysDense == MemSpec => []LogIsDense
<1>1. Inv => LogIsDense
  BY DEF Inv
<1> QED BY <1>1, InvAlways, PTL

\* The store is the fold of the log, also when only a suffix of it is left.
THEOREM StateAlwaysFold == MemSpec => []StateIsFold
<1>1. Inv => StateIsFold
  BY DEF Inv
<1> QED BY <1>1, InvAlways, PTL

\* entriesSince: from the invariant alone, the slice after a retained cursor is
\* the versions after it, each once and in order.
LEMMA SliceIsExact ==
  ASSUME Inv, NEW since \in 0..VersionOf(mem), Retains(mem, since)
  PROVE  /\ Len(EntriesSince(mem, since)) = VersionOf(mem) - since
         /\ \A i \in DOMAIN EntriesSince(mem, since) :
               EntriesSince(mem, since)[i].version = since + i
<1> DEFINE n == Len(mem.log)
           k == since - mem.floor
           l == SubSeq(mem.log, k + 1, n)
<1>1. mem.log \in Seq(Entry) /\ mem.floor \in Nat
  BY DEF Inv, MemTypeOK
<1>2. n \in Nat /\ DOMAIN mem.log = 1..n
  BY <1>1
<1>3. VersionOf(mem) = mem.floor + n /\ mem.floor <= since /\ since \in Int
  BY DEF VersionOf, Retains
<1>4. k \in Nat /\ k <= n
  <2> HIDE DEF n
  <2> QED BY <1>1, <1>2, <1>3
<1>5. l \in Seq(Entry) /\ Len(l) = n - k /\ \A i \in 1..(n - k) : l[i] = mem.log[i + k]
  <2> HIDE DEF k, n
  <2>1. \A i \in (k + 1)..n : mem.log[i] \in Entry
    BY <1>1, <1>2, <1>4, ElementOfSeq
  <2>2. l \in Seq(Entry) /\ Len(l) = n - k
    BY <1>1, <1>2, <1>4, <2>1, SubSeqProperties
  <2>3. \A i \in 1..(n - k) : l[i] = mem.log[k + 1 + i - 1]
    BY <1>1, <1>2, <1>4, <2>1, SubSeqProperties
  <2>4. \A i \in 1..(n - k) : k + 1 + i - 1 = i + k
    BY <1>2, <1>4
  <2> QED BY <2>2, <2>3, <2>4
<1>6. DOMAIN l = 1..(n - k) /\ \A i \in 1..(n - k) : i + k \in 1..n
  BY <1>2, <1>4, <1>5
<1>7. \A i \in 1..(n - k) : mem.floor + (i + k) = since + i
  BY <1>1, <1>2, <1>3, <1>4
<1>8. n - k = VersionOf(mem) - since
  <2> HIDE DEF n
  <2> QED BY <1>1, <1>2, <1>3
<1>9. \A i \in 1..(n - k) : l[i].version = since + i
  <2> HIDE DEF k, n, l
  <2> QED BY <1>2, <1>5, <1>6, <1>7 DEF Inv, LogIsDense
<1>10. EntriesSince(mem, since) = l
  BY DEF EntriesSince
<1> QED BY <1>5, <1>6, <1>8, <1>9, <1>10

\* A client's catch-up gets exactly the versions it lacks, from any cursor that
\* the log retains.
THEOREM CatchUpAlwaysExact == MemSpec => []CatchUpIsExact
<1>1. Inv => CatchUpIsExact
  BY SliceIsExact DEF CatchUpIsExact
<1> QED BY <1>1, InvAlways, PTL

----------------------------------------------------------------------------
\* The array log implements the contract of a storage adapter.

LEMMA ContractInit == MemInit => Contract!Init
<1> SUFFICES ASSUME MemInit PROVE Contract!Init
  OBVIOUS
<1>1. mem.floor = 0 /\ VersionOf(mem) = 0 /\ history = <<{}>>
  BY DEF MemInit, EmptyStorage, VersionOf
<1>2. (mem.floor + 1)..VersionOf(mem) = {}
  BY <1>1
<1>3. [v \in (mem.floor + 1)..VersionOf(mem) |-> mem.log[v - mem.floor].delta]
        = [v \in {} |-> Contract!NoDelta]
  BY <1>2
<1> QED BY <1>1, <1>3 DEF Contract!Init

\* The same operators of Triples, seen through the contract.
LEMMA SameTriples ==
  /\ Contract!Delta = Delta
  /\ \A S, d : /\ Contract!Applied(S, d) = Applied(S, d)
               /\ Contract!Effective(S, d) = Effective(S, d)
               /\ Contract!IsEmptyDelta(d) = IsEmptyDelta(d)
  BY DEF Contract!Delta, Delta, Contract!Applied, Applied, Contract!Effective, Effective,
         Contract!IsEmptyDelta, IsEmptyDelta

\* A commit that changes something is the contract's Apply.
LEMMA ApplyIsApply ==
  ASSUME Inv, NEW d \in Delta, ~ IsEmptyDelta(Effective(mem.store, d)),
         mem' = Appended(mem, d), history' = Record(Appended(mem, d))
  PROVE  Contract!Apply(d)
<1> DEFINE e == [version |-> VersionOf(mem) + 1, delta |-> Effective(mem.store, d)]
           n == Len(mem.log)
<1>1. /\ mem'.log = Append(mem.log, e) /\ mem'.floor = mem.floor
      /\ history' = Append(history, Applied(mem.store, d))
      /\ VersionOf(mem)' = VersionOf(mem) + 1
  BY AppendedIsOneMore
<1>2. /\ mem.log \in Seq(Entry) /\ mem.floor \in Nat /\ n \in Nat
      /\ DOMAIN mem.log = 1..n /\ VersionOf(mem) = mem.floor + n
  BY DEF Inv, MemTypeOK, VersionOf
<1>3. mem'.log[n + 1] = e /\ \A i \in 1..n : mem'.log[i] = mem.log[i]
  BY <1>1, <1>2
<1>4. Contract!Version = VersionOf(mem) /\ Contract!Store = mem.store
  <2>1. Len(history) \in Nat /\ Len(history) = VersionOf(mem) + 1
    BY DEF Inv, MemTypeOK, LogIsDense
  <2>2. Len(history) - 1 = VersionOf(mem)
    BY <1>2, <2>1
  <2> QED BY <2>2 DEF Contract!Version, Contract!Store, Inv, StateIsFold
<1>5. ASSUME NEW v \in (mem.floor + 1)..(VersionOf(mem) + 1)
      PROVE  mem'.log[v - mem'.floor].delta
               = IF v = VersionOf(mem) + 1 THEN Effective(mem.store, d)
                 ELSE [w \in (mem.floor + 1)..VersionOf(mem) |->
                          mem.log[w - mem.floor].delta][v]
  <2> HIDE DEF n
  <2>1. CASE v = VersionOf(mem) + 1
    <3>1. v - mem.floor = n + 1
      BY <1>2, <2>1
    <3>2. mem'.log[v - mem'.floor] = e
      BY <1>1, <1>3, <3>1
    <3>3. e.delta = Effective(mem.store, d)
      OBVIOUS
    <3> HIDE DEF e
    <3>4. mem'.log[v - mem'.floor].delta = Effective(mem.store, d)
      BY <3>2, <3>3
    <3> QED BY <2>1, <3>4
  <2>2. CASE v # VersionOf(mem) + 1
    <3>1. v - mem.floor \in 1..n /\ v \in (mem.floor + 1)..VersionOf(mem)
      BY <1>2, <2>2
    <3> QED BY <1>1, <1>3, <2>2, <3>1
  <2> QED BY <2>1, <2>2
<1>6. [v \in (mem'.floor + 1)..VersionOf(mem)' |-> mem'.log[v - mem'.floor].delta]
        = [v \in (mem.floor + 1)..(VersionOf(mem) + 1) |->
             IF v = VersionOf(mem) + 1 THEN Effective(mem.store, d)
             ELSE [w \in (mem.floor + 1)..VersionOf(mem) |->
                      mem.log[w - mem.floor].delta][v]]
  BY <1>1, <1>5
<1> QED BY <1>1, <1>4, <1>6, SameTriples DEF Contract!Apply

\* A compaction that moves the floor is the contract's Compact.
LEMMA CompactIsCompact ==
  ASSUME Inv, NEW to \in Nat, mem.floor < to, to <= VersionOf(mem),
         mem' = [mem EXCEPT !.log = SubSeq(@, to - mem.floor + 1, Len(@)), !.floor = to],
         history' = history
  PROVE  Contract!Compact(to) /\ to \in 1..Contract!Version
<1> DEFINE gap == to - mem.floor
<1>1. /\ mem'.floor = to /\ VersionOf(mem)' = VersionOf(mem)
      /\ DOMAIN mem'.log = 1..(VersionOf(mem) - to)
      /\ \A i \in DOMAIN mem'.log : /\ i + gap \in DOMAIN mem.log
                                    /\ mem'.log[i] = mem.log[i + gap]
  BY CompactedIsSuffix
<1>2. mem.floor \in Nat /\ VersionOf(mem) \in Nat
  BY DEF Inv, MemTypeOK, VersionOf
<1>3. Contract!Version = VersionOf(mem)
  <2>1. Len(history) = VersionOf(mem) + 1
    BY DEF Inv, LogIsDense
  <2> QED BY <1>2, <2>1 DEF Contract!Version
<1>4. ASSUME NEW v \in (to + 1)..VersionOf(mem)
      PROVE  mem'.log[v - to].delta
               = [w \in (mem.floor + 1)..VersionOf(mem) |-> mem.log[w - mem.floor].delta][v]
  <2>1. /\ v - to \in 1..(VersionOf(mem) - to) /\ v - to + gap = v - mem.floor
        /\ v \in (mem.floor + 1)..VersionOf(mem)
    BY <1>2
  <2> HIDE DEF gap
  <2>2. mem'.log[v - to] = mem.log[v - mem.floor]
    BY <1>1, <2>1
  <2>3. [w \in (mem.floor + 1)..VersionOf(mem) |-> mem.log[w - mem.floor].delta][v]
          = mem.log[v - mem.floor].delta
    BY <2>1, Zenon
  <2> QED BY <2>2, <2>3
<1>5. [v \in (mem'.floor + 1)..VersionOf(mem)' |-> mem'.log[v - mem'.floor].delta]
        = [v \in (to + 1)..VersionOf(mem) |->
             [w \in (mem.floor + 1)..VersionOf(mem) |-> mem.log[w - mem.floor].delta][v]]
  BY <1>1, <1>4
<1>6. Contract!Compact(to)
  BY <1>1, <1>3, <1>5 DEF Contract!Compact
<1> QED BY <1>2, <1>3, <1>6

LEMMA ContractStep == Inv /\ [MemNext]_memVars => [Contract!Next]_(Contract!vars)
<1> SUFFICES ASSUME Inv, [MemNext]_memVars PROVE [Contract!Next]_(Contract!vars)
  OBVIOUS
<1>1. ASSUME UNCHANGED memVars PROVE UNCHANGED Contract!vars
  BY <1>1 DEF memVars, Contract!vars, VersionOf
<1>2. ASSUME NEW d \in Delta, Apply(d) PROVE [Contract!Next]_(Contract!vars)
  <2>1. CASE IsEmptyDelta(Effective(mem.store, d))
    <3>1. mem' = mem
      BY <1>2, <2>1 DEF Apply, Appended
    <3>2. history' = history
      BY <1>2, <2>1 DEF Apply, Appended, Record, Inv, LogIsDense, VersionOf, MemTypeOK
    <3> QED BY <1>1, <3>1, <3>2 DEF memVars
  <2>2. CASE ~ IsEmptyDelta(Effective(mem.store, d))
    <3>1. Contract!Apply(d)
      BY <1>2, <2>2, ApplyIsApply DEF Apply
    <3> QED BY <3>1, SameTriples DEF Contract!Next
  <2> QED BY <2>1, <2>2
<1>3. ASSUME NEW upTo \in 0..(VersionOf(mem) + 1), Compact(upTo)
      PROVE  [Contract!Next]_(Contract!vars)
  BY <1>1, <1>3, CompactCases, CompactIsCompact DEF Contract!Next
<1> QED BY <1>1, <1>2, <1>3 DEF MemNext

\* What a server may rely on whichever adapter it is given: every step of the
\* array log is a step of the contract, or changes nothing of it.
THEOREM ArrayLogImplements == MemSpec => Implements
<1>1. Inv /\ [MemNext]_memVars => [Contract!Next]_(Contract!vars)
  BY ContractStep
<1> QED BY <1>1, ContractInit, InvAlways, PTL DEF MemSpec, Implements, Contract!Spec

----------------------------------------------------------------------------
\* The three adapters

\* The tables that hold what the array log does.
TablesOf(m) ==
  [triples |-> m.store, log |-> {m.log[i] : i \in DOMAIN m.log}, floor |-> m.floor]

\* Between calls the adapters hold the same.
Same ==
  /\ db = TablesOf(mem)
  /\ object = db
  /\ sqlHistory = history

\* What the open transaction has done, statement by statement.
InProgress ==
  /\ pending \in Delta /\ effective \in Delta
  /\ step \in {"idle", "removes", "inserts", "append", "compact", "setFloor"}
  /\ step \in {"idle", "removes", "compact"} => work = db
  /\ step \in {"idle", "removes"} => effective = NoDelta
  /\ step = "inserts" =>
       /\ work = [db EXCEPT !.triples = @ \ pending.removed]
       /\ effective = [added |-> {}, removed |-> pending.removed \cap db.triples]
  /\ step = "append" =>
       /\ work = [db EXCEPT !.triples = Applied(@, pending)]
       /\ effective = Effective(db.triples, pending)
  /\ step = "setFloor" =>
       /\ Sql!UpTo > db.floor
       /\ work = [db EXCEPT !.log = {row \in @ : row.version > Sql!UpTo}]

\* Inv is the array log's own invariant.
AdaptersInv == Inv /\ Same /\ InProgress

----------------------------------------------------------------------------
\* Versions of tables

\* The greatest of the versions above a floor is the last.
LEMMA MaxOfInterval ==
  ASSUME NEW a \in Nat, NEW b \in Nat, a < b
  PROVE  (CHOOSE x \in (a + 1)..b : \A y \in (a + 1)..b : x >= y) = b
<1>1. b \in (a + 1)..b /\ \A y \in (a + 1)..b : b >= y
  OBVIOUS
<1>2. \A x \in (a + 1)..b : (\A y \in (a + 1)..b : x >= y) => x = b
  OBVIOUS
<1> QED BY <1>1, <1>2

\* The versions of the rows are those of the dense array.
LEMMA VersionsOfRows ==
  ASSUME Inv
  PROVE  /\ {row.version : row \in TablesOf(mem).log} = (mem.floor + 1)..VersionOf(mem)
         /\ VersionOf(mem) \in Nat /\ mem.floor \in Nat /\ mem.floor <= VersionOf(mem)
         /\ TablesOf(mem).log = {} <=> mem.floor = VersionOf(mem)
<1> DEFINE n == Len(mem.log)
<1>1. /\ n \in Nat /\ DOMAIN mem.log = 1..n /\ mem.floor \in Nat
      /\ VersionOf(mem) = mem.floor + n
  BY DEF Inv, MemTypeOK, VersionOf
<1>2. \A i \in 1..n : mem.log[i].version = mem.floor + i
  BY <1>1 DEF Inv, LogIsDense
<1> HIDE DEF n
<1>3. TablesOf(mem).log = {mem.log[i] : i \in 1..n}
  BY <1>1 DEF TablesOf
<1>4. {row.version : row \in TablesOf(mem).log} = {mem.floor + i : i \in 1..n}
  BY <1>2, <1>3
<1>5. {mem.floor + i : i \in 1..n} = (mem.floor + 1)..(mem.floor + n)
  <2>1. \A v \in (mem.floor + 1)..(mem.floor + n) : v - mem.floor \in 1..n /\ v = mem.floor + (v - mem.floor)
    BY <1>1
  <2>2. \A i \in 1..n : mem.floor + i \in (mem.floor + 1)..(mem.floor + n)
    BY <1>1
  <2> QED BY <2>1, <2>2
<1>6. TablesOf(mem).log = {} <=> n = 0
  <2>1. n = 0 => 1..n = {}
    OBVIOUS
  <2>2. n # 0 => 1 \in 1..n
    BY <1>1
  <2> QED BY <1>3, <2>1, <2>2
<1>7. VersionOf(mem) \in Nat /\ mem.floor <= VersionOf(mem) /\ (n = 0 <=> mem.floor = VersionOf(mem))
  BY <1>1
<1> HIDE DEF TablesOf
<1> QED BY <1>1, <1>4, <1>5, <1>6, <1>7

\* SELECT MAX(version) gives the version of the array log, to both adapters, and
\* on every view of the log that is not yet compacted.
LEMMA SameVersion ==
  ASSUME Inv, NEW t, t.log = TablesOf(mem).log, t.floor = mem.floor
  PROVE  Sql!VersionOf(t) = VersionOf(mem) /\ Durable!VersionOf(t) = VersionOf(mem)
<1>1. /\ {row.version : row \in t.log} = (mem.floor + 1)..VersionOf(mem)
      /\ VersionOf(mem) \in Nat /\ mem.floor \in Nat /\ mem.floor <= VersionOf(mem)
      /\ t.log = {} <=> mem.floor = VersionOf(mem)
  BY VersionsOfRows
<1>2. CASE t.log = {}
  BY <1>1, <1>2 DEF Sql!VersionOf, Durable!VersionOf
<1>3. CASE t.log # {}
  <2>1. mem.floor < VersionOf(mem)
    BY <1>1, <1>3
  <2> QED BY <1>1, <1>3, <2>1, MaxOfInterval
          DEF Sql!VersionOf, Durable!VersionOf, Sql!Max, Durable!Max
<1> QED BY <1>2, <1>3

----------------------------------------------------------------------------
\* The steps

LEMMA AdaptersInvInit == AdaptersInit => AdaptersInv
<1> SUFFICES ASSUME AdaptersInit PROVE AdaptersInv
  OBVIOUS
<1>1. Inv
  BY InvInit DEF AdaptersInit
<1>2. {mem.log[i] : i \in DOMAIN mem.log} = {}
  BY DEF AdaptersInit, MemInit, EmptyStorage
<1>3. Same
  BY <1>2 DEF AdaptersInit, MemInit, EmptyStorage, Same, TablesOf, Sql!SqlInit, Sql!EmptyTables,
              Durable!EmptyTables
<1>4. InProgress
  BY DEF AdaptersInit, InProgress, Sql!SqlInit, NoDelta, Sql!NoDelta, Delta
<1> QED BY <1>1, <1>3, <1>4 DEF AdaptersInv

\* Statements, and the loss of all of them, leave what is committed alone.
LEMMA StatementKeepsInv ==
  ASSUME AdaptersInv, Statement, UNCHANGED <<memVars, object>>
  PROVE  AdaptersInv' /\ UNCHANGED <<mem, history, sqlHistory, db, object>>
<1> USE DEF Sql!Delta, Delta, Sql!NoDelta, NoDelta
<1>1. UNCHANGED <<mem, history, sqlHistory, db, object>>
  BY DEF Statement, memVars, Sql!BeginApply, Sql!RunRemoves, Sql!RunInserts, Sql!ForgetRows,
         Sql!Abandon
<1>2. Inv' /\ Same'
  BY <1>1 DEF AdaptersInv, Same, TablesOf, Inv, MemTypeOK, LogIsDense, StateIsFold, VersionOf
<1>3. Sql!UpTo' = Sql!UpTo
  BY <1>1 DEF Sql!UpTo, Sql!VersionOf
<1>4. db.triples \in SUBSET Triple /\ db = [triples |-> db.triples, log |-> db.log, floor |-> db.floor]
  BY DEF AdaptersInv, Same, TablesOf, Inv, MemTypeOK
<1>5. InProgress'
  <2>1. ASSUME NEW d \in Sql!Delta, Sql!BeginApply(d) PROVE InProgress'
    BY <1>1, <2>1 DEF Sql!BeginApply, AdaptersInv, InProgress
  <2>2. ASSUME Sql!RunRemoves PROVE InProgress'
    <3>1. step = "removes" /\ work = db /\ effective = NoDelta /\ pending \in Delta
      BY <2>2 DEF Sql!RunRemoves, AdaptersInv, InProgress
    <3>2. step' = "inserts" /\ pending' = pending
      BY <2>2 DEF Sql!RunRemoves
    <3>3. work' = [db' EXCEPT !.triples = @ \ pending.removed]
      BY <1>1, <2>2, <3>1 DEF Sql!RunRemoves
    <3>4. effective' = [added |-> {}, removed |-> pending.removed \cap db'.triples]
      BY <1>1, <2>2, <3>1 DEF Sql!RunRemoves
    <3>5. effective' \in Delta
      BY <1>1, <1>4, <3>4
    <3> QED BY <3>1, <3>2, <3>3, <3>4, <3>5 DEF InProgress
  <2>3. ASSUME Sql!RunInserts PROVE InProgress'
    <3>1. /\ step = "inserts" /\ pending \in Delta
          /\ work = [db EXCEPT !.triples = @ \ pending.removed]
          /\ effective = [added |-> {}, removed |-> pending.removed \cap db.triples]
      BY <2>3 DEF Sql!RunInserts, AdaptersInv, InProgress
    <3>2. step' = "append" /\ pending' = pending
      BY <2>3 DEF Sql!RunInserts
    <3>3. work' = [db' EXCEPT !.triples = Applied(@, pending)]
      BY <1>1, <1>4, <2>3, <3>1 DEF Sql!RunInserts, Applied
    <3>4. effective' = Effective(db'.triples, pending)
      BY <1>1, <1>4, <2>3, <3>1 DEF Sql!RunInserts, Effective
    <3>5. effective' \in Delta
      BY <1>1, <1>4, <3>1, <3>4 DEF Effective
    <3> QED BY <3>1, <3>2, <3>3, <3>4, <3>5 DEF InProgress
  <2>4. ASSUME Sql!ForgetRows PROVE InProgress'
    <3>1. /\ step = "compact" /\ work = db /\ pending \in Delta /\ effective' \in Delta
          /\ Sql!UpTo > db.floor
      BY <2>4 DEF Sql!ForgetRows, AdaptersInv, InProgress
    <3>2. /\ step' = "setFloor" /\ pending' = pending
          /\ work' = [db EXCEPT !.log = {row \in @ : row.version > Sql!UpTo}]
      BY <2>4, <3>1 DEF Sql!ForgetRows
    <3> HIDE DEF Sql!UpTo
    <3> QED BY <1>1, <1>3, <3>1, <3>2 DEF InProgress
  <2>5. ASSUME Sql!Abandon PROVE InProgress'
    BY <2>5 DEF Sql!Abandon, Sql!Finish, InProgress
  <2> QED BY <2>1, <2>2, <2>3, <2>4, <2>5 DEF Statement
<1> QED BY <1>1, <1>2, <1>5 DEF AdaptersInv

\* A write that changed nothing is null to all three.
LEMMA CommitNothingKeepsInv ==
  ASSUME AdaptersInv, Sql!CommitNothing, ApplyOthers
  PROVE  AdaptersInv' /\ UNCHANGED <<mem, history, sqlHistory, db, object>>
<1>1. /\ step = "append" /\ pending \in Delta /\ effective = Effective(db.triples, pending)
      /\ IsEmptyDelta(effective)
  BY DEF Sql!CommitNothing, AdaptersInv, InProgress, Sql!IsEmptyDelta, IsEmptyDelta
<1>2. IsEmptyDelta(Effective(mem.store, pending))
  BY <1>1 DEF AdaptersInv, Same, TablesOf
<1>3. mem' = mem
  BY <1>2 DEF ApplyOthers, Apply, Appended
<1>4. history' = history
  BY <1>2 DEF ApplyOthers, Apply, Appended, Record, AdaptersInv, Inv, LogIsDense, VersionOf,
              MemTypeOK
<1>5. object' = object
  BY <1>1 DEF ApplyOthers, Durable!AppliedTo, AdaptersInv, Same, Durable!Effective, Effective,
              Durable!IsEmptyDelta, IsEmptyDelta
<1>6. db' = db /\ sqlHistory' = sqlHistory
  BY DEF Sql!CommitNothing
<1>7. Inv' /\ Same'
  BY <1>3, <1>4, <1>5, <1>6
     DEF AdaptersInv, Same, TablesOf, Inv, MemTypeOK, LogIsDense, StateIsFold, VersionOf
<1>8. InProgress'
  BY <1>6 DEF Sql!CommitNothing, Sql!Finish, InProgress, Sql!NoDelta, NoDelta, Delta
<1> QED BY <1>3, <1>4, <1>5, <1>6, <1>7, <1>8 DEF AdaptersInv

\* COMMIT: the row inserted is the entry appended.
LEMMA CommitKeepsInv ==
  ASSUME AdaptersInv, Sql!AppendAndCommit, ApplyOthers
  PROVE  /\ AdaptersInv'
         /\ ~ IsEmptyDelta(Effective(mem.store, pending))
         /\ mem' = Appended(mem, pending) /\ history' = Record(Appended(mem, pending))
<1> DEFINE e == [version |-> VersionOf(mem) + 1, delta |-> Effective(mem.store, pending)]
           S == Applied(mem.store, pending)
<1>1. /\ step = "append" /\ pending \in Delta
      /\ effective = Effective(db.triples, pending) /\ ~ IsEmptyDelta(effective)
      /\ work = [db EXCEPT !.triples = Applied(@, pending)]
  BY DEF Sql!AppendAndCommit, AdaptersInv, InProgress, Sql!IsEmptyDelta, IsEmptyDelta
<1>2. /\ db = TablesOf(mem) /\ object = db /\ sqlHistory = history /\ Inv
  BY DEF AdaptersInv, Same
<1>3. ~ IsEmptyDelta(Effective(mem.store, pending)) /\ effective = Effective(mem.store, pending)
  BY <1>1, <1>2 DEF TablesOf
<1>4. mem' = Appended(mem, pending) /\ history' = Record(Appended(mem, pending))
  BY DEF ApplyOthers, Apply
<1>5. /\ mem'.store = S /\ mem'.log = Append(mem.log, e) /\ mem'.floor = mem.floor
      /\ history' = Append(history, S)
  BY <1>1, <1>2, <1>3, <1>4, AppendedIsOneMore
<1>6. Inv'
  BY <1>1, <1>2, <1>3, <1>4, ApplyKeepsInv
<1>7. {mem'.log[i] : i \in DOMAIN mem'.log} = {mem.log[i] : i \in DOMAIN mem.log} \cup {e}
  <2>1. mem.log \in Seq(Entry)
    BY <1>2 DEF Inv, MemTypeOK
  <2> DEFINE n == Len(mem.log)
  <2>2. n \in Nat /\ DOMAIN mem.log = 1..n /\ DOMAIN mem'.log = 1..(n + 1)
    BY <1>5, <2>1
  <2>3. mem'.log[n + 1] = e /\ \A i \in 1..n : mem'.log[i] = mem.log[i]
    BY <1>5, <2>1
  <2> HIDE DEF e, n
  <2>4. \A i \in 1..(n + 1) : i \in 1..n \/ i = n + 1
    BY <2>2
  <2>5. n + 1 \in 1..(n + 1) /\ \A i \in 1..n : i \in 1..(n + 1)
    BY <2>2
  <2> QED BY <2>2, <2>3, <2>4, <2>5
<1>8. Sql!VersionOf(work) = VersionOf(mem) /\ Durable!VersionOf(object) = VersionOf(mem)
  <2>1. /\ work.log = TablesOf(mem).log /\ work.floor = mem.floor
        /\ object.log = TablesOf(mem).log /\ object.floor = mem.floor
    BY <1>1, <1>2 DEF TablesOf
  <2> QED BY <1>2, <2>1, SameVersion
<1>9. db' = [triples |-> S, log |-> {mem.log[i] : i \in DOMAIN mem.log} \cup {e}, floor |-> mem.floor]
  BY <1>1, <1>2, <1>3, <1>8 DEF Sql!AppendAndCommit, TablesOf
<1>10. object' = [triples |-> S, log |-> {mem.log[i] : i \in DOMAIN mem.log} \cup {e}, floor |-> mem.floor]
  <2>1. Durable!Effective(object.triples, pending) = Effective(mem.store, pending)
    BY <1>2 DEF TablesOf, Durable!Effective, Effective
  <2>2. Durable!Applied(object.triples, pending) = S
    BY <1>2 DEF TablesOf, Durable!Applied, Applied
  <2>3. ~ Durable!IsEmptyDelta(Durable!Effective(object.triples, pending))
    BY <1>3, <2>1 DEF Durable!IsEmptyDelta, IsEmptyDelta
  <2>4. object' = [object EXCEPT !.triples = S, !.log = @ \cup {e}]
    BY <1>8, <2>1, <2>2, <2>3 DEF ApplyOthers, Durable!AppliedTo
  <2> HIDE DEF e, S
  <2> QED BY <1>2, <2>4 DEF TablesOf
<1>11. sqlHistory' = history'
  <2>1. work.triples = S
    BY <1>1, <1>2 DEF TablesOf
  <2> QED BY <1>2, <1>5, <2>1 DEF Sql!AppendAndCommit
<1>12. Same'
  <2> HIDE DEF e, S
  <2> QED BY <1>5, <1>7, <1>9, <1>10, <1>11 DEF Same, TablesOf
<1>13. InProgress'
  <2>1. effective \in Delta
    BY DEF AdaptersInv, InProgress
  <2>2. CASE step' = "compact" /\ work' = db' /\ UNCHANGED <<pending, effective>>
    BY <1>1, <2>1, <2>2 DEF InProgress
  <2>3. CASE Sql!Finish
    BY <2>3 DEF Sql!Finish, InProgress, Sql!NoDelta, NoDelta, Delta
  <2> QED BY <2>2, <2>3 DEF Sql!AppendAndCommit
<1> QED BY <1>3, <1>4, <1>6, <1>12, <1>13 DEF AdaptersInv

----------------------------------------------------------------------------
\* Compaction

\* The server asks for a version it has.
LEMMA UpToIsBelow ==
  ASSUME Inv, Same
  PROVE  Sql!UpTo \in Int /\ Sql!UpTo <= VersionOf(mem) /\ mem.floor \in Nat /\ VersionOf(mem) \in Nat
<1>1. db.log = TablesOf(mem).log /\ db.floor = mem.floor
  BY DEF Same, TablesOf
<1>2. Sql!VersionOf(db) = VersionOf(mem)
  BY <1>1, SameVersion
<1>3. VersionOf(mem) \in Nat /\ mem.floor \in Nat
  BY VersionsOfRows
<1> QED BY <1>2, <1>3, StorageAssumption DEF Sql!UpTo

LEMMA MinOfTwo ==
  ASSUME NEW a \in Int, NEW b \in Int, a <= b
  PROVE  (CHOOSE x \in {a, b} : \A y \in {a, b} : x =< y) = a
  OBVIOUS

\* Of a compaction that is not due, or passes over versions already forgotten,
\* nothing is left.
LEMMA SkipKeepsInv ==
  ASSUME AdaptersInv, Sql!SkipCompact, CompactOthers
  PROVE  AdaptersInv' /\ UNCHANGED <<mem, history, sqlHistory, db, object>>
<1> DEFINE to == Sql!UpTo
<1>1. /\ to \in Int /\ to <= VersionOf(mem) /\ mem.floor \in Nat /\ VersionOf(mem) \in Nat
      /\ Inv /\ db = TablesOf(mem) /\ object = db
  BY UpToIsBelow DEF AdaptersInv, Same
<1>2. to <= mem.floor
  BY <1>1 DEF Sql!SkipCompact, TablesOf
<1> HIDE DEF to
<1>3. mem' = mem /\ history' = history
  <2>1. CompactOthers => Compact(to)
    BY DEF CompactOthers, to
  <2> QED BY <1>1, <1>2, <2>1 DEF Compact, Compacted
<1>4. object' = object
  <2>1. object' = Durable!CompactedTo(object, to)
    BY DEF CompactOthers, to
  <2>2. Durable!VersionOf(object) = VersionOf(mem) /\ object.floor = mem.floor
    BY <1>1, SameVersion DEF TablesOf
  <2>3. Durable!Min({to, Durable!VersionOf(object)}) = to
    BY <1>1, <2>2, MinOfTwo DEF Durable!Min
  <2> QED BY <1>2, <2>1, <2>2, <2>3 DEF Durable!CompactedTo
<1>5. db' = db /\ sqlHistory' = sqlHistory
  BY DEF Sql!SkipCompact
<1>6. Inv' /\ Same'
  BY <1>3, <1>4, <1>5
     DEF AdaptersInv, Same, TablesOf, Inv, MemTypeOK, LogIsDense, StateIsFold, VersionOf
<1>7. InProgress'
  BY DEF Sql!SkipCompact, Sql!Finish, InProgress, Sql!NoDelta, NoDelta, Delta
<1> QED BY <1>3, <1>4, <1>5, <1>6, <1>7 DEF AdaptersInv

\* COMMIT of a compaction: the rows deleted are the entries sliced off.
LEMMA ForgetKeepsInv ==
  ASSUME AdaptersInv, Sql!SetFloorAndCommit, CompactOthers
  PROVE  /\ AdaptersInv'
         /\ Sql!UpTo \in Nat /\ mem.floor < Sql!UpTo /\ Sql!UpTo <= VersionOf(mem)
         /\ mem' = [mem EXCEPT !.log = SubSeq(@, Sql!UpTo - mem.floor + 1, Len(@)),
                               !.floor = Sql!UpTo]
         /\ history' = history
<1> DEFINE to == Sql!UpTo
           gap == to - mem.floor
           n == Len(mem.log)
<1>1. /\ to \in Int /\ to <= VersionOf(mem) /\ mem.floor \in Nat /\ VersionOf(mem) \in Nat
      /\ Inv /\ db = TablesOf(mem) /\ object = db /\ sqlHistory = history
  BY UpToIsBelow DEF AdaptersInv, Same
<1>2. /\ step = "setFloor" /\ pending \in Delta /\ to > db.floor
      /\ work = [db EXCEPT !.log = {row \in @ : row.version > to}]
  BY DEF Sql!SetFloorAndCommit, AdaptersInv, InProgress
<1> HIDE DEF to
<1>3. to \in Nat /\ mem.floor < to
  BY <1>1, <1>2 DEF TablesOf
<1>4. /\ mem' = [mem EXCEPT !.log = SubSeq(@, to - mem.floor + 1, Len(@)), !.floor = to]
      /\ history' = history
  <2>1. CompactOthers => Compact(to)
    BY DEF CompactOthers, to
  <2>2. CASE to < VersionOf(mem)
    BY <1>1, <1>3, <2>1, <2>2 DEF Compact, Compacted
  <2>3. CASE to = VersionOf(mem)
    BY <1>1, <1>3, <2>1, <2>3 DEF Compact, Compacted
  <2> QED BY <1>1, <2>2, <2>3
<1>5. /\ mem'.store = mem.store /\ mem'.floor = to
      /\ DOMAIN mem'.log = 1..(VersionOf(mem) - to)
      /\ \A i \in DOMAIN mem'.log : /\ i + gap \in DOMAIN mem.log
                                    /\ mem'.log[i] = mem.log[i + gap]
  BY <1>1, <1>3, <1>4, CompactedIsSuffix
<1>6. Inv'
  BY <1>1, <1>3, <1>4, CompactKeepsInv
<1>7. /\ n \in Nat /\ DOMAIN mem.log = 1..n /\ VersionOf(mem) = mem.floor + n
      /\ \A i \in 1..n : mem.log[i].version = mem.floor + i
  BY <1>1 DEF Inv, MemTypeOK, VersionOf, LogIsDense
<1>8. {mem'.log[i] : i \in DOMAIN mem'.log}
        = {row \in {mem.log[i] : i \in DOMAIN mem.log} : row.version > to}
  <2> HIDE DEF n
  <2>1. ASSUME NEW i \in DOMAIN mem'.log
        PROVE  i + gap \in 1..n /\ mem'.log[i] = mem.log[i + gap] /\ mem.log[i + gap].version > to
    <3>1. i + gap \in 1..n /\ mem'.log[i] = mem.log[i + gap] /\ i \in 1..(VersionOf(mem) - to)
      BY <1>5, <1>7
    <3>2. mem.floor + (i + gap) > to
      BY <1>1, <1>3, <1>7, <3>1
    <3> HIDE DEF gap
    <3> QED BY <1>7, <3>1, <3>2
  <2>2. ASSUME NEW i \in 1..n, mem.log[i].version > to
        PROVE  i - gap \in DOMAIN mem'.log /\ mem'.log[i - gap] = mem.log[i]
    <3>1. mem.floor + i > to
      BY <1>7, <2>2
    <3>2. i - gap \in 1..(VersionOf(mem) - to) /\ (i - gap) + gap = i
      BY <1>1, <1>3, <1>7, <3>1
    <3> HIDE DEF gap
    <3> QED BY <1>5, <3>2
  <2> HIDE DEF gap
  <2> QED BY <1>7, <2>1, <2>2
<1>9. db' = [triples |-> mem.store,
             log |-> {row \in {mem.log[i] : i \in DOMAIN mem.log} : row.version > to},
             floor |-> to]
  <2>1. db' = [work EXCEPT !.floor = to]
    BY DEF Sql!SetFloorAndCommit, to
  <2> QED BY <1>1, <1>2, <2>1 DEF TablesOf
<1>10. object' = [triples |-> mem.store,
                  log |-> {row \in {mem.log[i] : i \in DOMAIN mem.log} : row.version > to},
                  floor |-> to]
  <2>1. object' = Durable!CompactedTo(object, to)
    BY DEF CompactOthers, to
  <2>2. Durable!VersionOf(object) = VersionOf(mem) /\ object.floor = mem.floor
    BY <1>1, SameVersion DEF TablesOf
  <2>3. Durable!Min({to, Durable!VersionOf(object)}) = to
    BY <1>1, <2>2, MinOfTwo DEF Durable!Min
  <2>4. ~ (to <= object.floor)
    BY <1>1, <1>3, <2>2
  <2>5. object' = [object EXCEPT !.log = {row \in @ : row.version > to}, !.floor = to]
    BY <2>1, <2>3, <2>4, Zenon DEF Durable!CompactedTo
  <2> QED BY <1>1, <2>5 DEF TablesOf
<1>11. Same'
  <2>1. sqlHistory' = history'
    BY <1>1, <1>4 DEF Sql!SetFloorAndCommit
  <2> QED BY <1>5, <1>8, <1>9, <1>10, <2>1 DEF Same, TablesOf
<1>12. InProgress'
  BY DEF Sql!SetFloorAndCommit, Sql!Finish, InProgress, Sql!NoDelta, NoDelta, Delta
<1> QED BY <1>1, <1>3, <1>4, <1>6, <1>11, <1>12 DEF AdaptersInv, to

\* Every step is a step of the array log, or leaves the committed tables alone.
LEMMA AdaptersInvStep == AdaptersInv /\ [AdaptersNext]_adaptersVars => AdaptersInv'
<1> SUFFICES ASSUME AdaptersInv, [AdaptersNext]_adaptersVars PROVE AdaptersInv'
  OBVIOUS
<1>1. ASSUME UNCHANGED adaptersVars PROVE AdaptersInv'
  <2>1. UNCHANGED <<mem, history, db, work, step, pending, effective, sqlHistory, object>>
    BY <1>1 DEF adaptersVars, memVars
  <2>2. Inv' /\ Same'
    BY <2>1
       DEF AdaptersInv, Inv, MemTypeOK, LogIsDense, StateIsFold, VersionOf, Same, TablesOf
  <2>3. Sql!UpTo' = Sql!UpTo
    BY <2>1 DEF Sql!UpTo, Sql!VersionOf
  <2>4. InProgress'
    BY <2>1, <2>3 DEF AdaptersInv, InProgress
  <2> QED BY <2>2, <2>4 DEF AdaptersInv
<1>2. ASSUME Statement, UNCHANGED <<memVars, object>> PROVE AdaptersInv'
  BY <1>2, StatementKeepsInv
<1> QED BY <1>1, <1>2, CommitNothingKeepsInv, CommitKeepsInv, SkipKeepsInv, ForgetKeepsInv DEF AdaptersNext

LEMMA AdaptersInvAlways == AdaptersSpec => []AdaptersInv
<1>1. AdaptersInv /\ [AdaptersNext]_adaptersVars => AdaptersInv'
  BY AdaptersInvStep
<1> QED BY AdaptersInvInit, <1>1, PTL DEF AdaptersSpec

----------------------------------------------------------------------------
\* What a server sees

\* Replay: the rows above a retained cursor are the entries of the slice.
LEMMA SameReplay ==
  ASSUME AdaptersInv, NEW since \in mem.floor..VersionOf(mem)
  PROVE  Durable!RowsSince(object, since) = Range(EntriesSince(mem, since))
<1> DEFINE n == Len(mem.log)
           k == since - mem.floor
           l == SubSeq(mem.log, k + 1, n)
<1>1. /\ mem.log \in Seq(Entry) /\ mem.floor \in Nat
      /\ object.log = {mem.log[i] : i \in DOMAIN mem.log}
  BY DEF AdaptersInv, Same, TablesOf, Inv, MemTypeOK
<1>2. /\ n \in Nat /\ DOMAIN mem.log = 1..n /\ VersionOf(mem) = mem.floor + n
      /\ \A i \in 1..n : mem.log[i].version = mem.floor + i
  BY <1>1 DEF AdaptersInv, Inv, VersionOf, LogIsDense
<1> HIDE DEF n
<1>3. since \in Int /\ k \in Nat /\ k <= n /\ since = mem.floor + k
  BY <1>1, <1>2
<1> HIDE DEF k
<1>4. l \in Seq(Entry) /\ Len(l) = n - k /\ \A i \in 1..(n - k) : l[i] = mem.log[i + k]
  <2>1. \A i \in (k + 1)..n : mem.log[i] \in Entry
    BY <1>1, <1>2, <1>3, ElementOfSeq DEF n
  <2>2. l \in Seq(Entry) /\ Len(l) = n - k
    BY <1>2, <1>3, <2>1, SubSeqProperties
  <2>3. \A i \in 1..(n - k) : l[i] = mem.log[k + 1 + i - 1]
    BY <1>2, <1>3, <2>1, SubSeqProperties
  <2>4. \A i \in 1..(n - k) : k + 1 + i - 1 = i + k
    BY <1>2, <1>3
  <2> QED BY <2>2, <2>3, <2>4
<1>5. DOMAIN l = 1..(n - k)
  BY <1>4
<1> HIDE DEF l
<1>6. Range(l) = {mem.log[i + k] : i \in 1..(n - k)}
  BY <1>4, <1>5 DEF Range
<1>7. \A i \in 1..(n - k) : i + k \in 1..n /\ mem.log[i + k].version > since
  BY <1>1, <1>2, <1>3
<1>8. \A i \in 1..n : mem.log[i].version > since => i - k \in 1..(n - k) /\ (i - k) + k = i
  BY <1>1, <1>2, <1>3
<1>9. {row \in {mem.log[i] : i \in 1..n} : row.version > since}
        = {mem.log[i + k] : i \in 1..(n - k)}
  BY <1>7, <1>8
<1>10. EntriesSince(mem, since) = l
  BY DEF EntriesSince, l, n, k
<1> QED BY <1>1, <1>2, <1>6, <1>9, <1>10 DEF Durable!RowsSince

\* SPEC 5: whatever is committed, compacted or interrupted, and whatever retainLog
\* is, the server cannot tell from triples, version, floor or replay which of the
\* adapters it was given.
THEOREM AdaptersAlwaysAgree == AdaptersSpec => []AdaptersAgree
<1>1. ASSUME AdaptersInv PROVE AdaptersAgree
  <2>1. object = db /\ db.triples = mem.store /\ db.floor = mem.floor
    BY <1>1 DEF AdaptersInv, Same, TablesOf
  <2>2. Durable!VersionOf(object) = VersionOf(mem)
    BY <1>1, SameVersion DEF AdaptersInv, Same, TablesOf
  <2> QED BY <1>1, <2>1, <2>2, SameReplay DEF AdaptersAgree
<1> QED BY <1>1, AdaptersInvAlways, PTL

\* Committed tables and those of an open transaction keep their types at every statement;
\* the effective delta that is to be the log's row is one of triples (sqlite.ts apply).
THEOREM TablesTypeCorrect == AdaptersSpec => []Sql!SqlTypeOK
<1>1. ASSUME AdaptersInv PROVE Sql!SqlTypeOK
  <2>1. db = TablesOf(mem) /\ sqlHistory = history /\ MemTypeOK /\ InProgress
    BY <1>1 DEF AdaptersInv, Same, Inv
  <2>2. db \in Sql!Tables
    <3>1. \A i \in DOMAIN mem.log : mem.log[i] \in Entry
      BY <2>1 DEF MemTypeOK
    <3>2. Entry = Sql!Row
      BY DEF Entry, Sql!Row, Delta, Sql!Delta
    <3>3. TablesOf(mem).log \subseteq Sql!Row
      BY <3>1, <3>2 DEF TablesOf
    <3> QED BY <2>1, <3>3 DEF TablesOf, MemTypeOK, Sql!Tables
  <2>3. pending \in Sql!Delta /\ effective \in Sql!Delta
    BY <2>1 DEF InProgress, Delta, Sql!Delta
  <2>4. /\ db.triples \ pending.removed \in SUBSET Triple
        /\ Applied(db.triples, pending) \in SUBSET Triple
        /\ {row \in db.log : row.version > Sql!UpTo} \in SUBSET Sql!Row
    BY <2>2, <2>3 DEF Applied, Sql!Tables, Sql!Delta
  <2>5. work \in Sql!Tables
    <3>1. CASE step \in {"idle", "removes", "compact"}
      BY <2>1, <2>2, <3>1 DEF InProgress
    <3>2. CASE step = "inserts"
      BY <2>1, <2>2, <2>4, <3>2 DEF InProgress, Sql!Tables
    <3>3. CASE step = "append"
      BY <2>1, <2>2, <2>4, <3>3 DEF InProgress, Sql!Tables
    <3>4. CASE step = "setFloor"
      BY <2>1, <2>2, <2>4, <3>4 DEF InProgress, Sql!Tables
    <3> QED BY <2>1, <3>1, <3>2, <3>3, <3>4 DEF InProgress
  <2>6. sqlHistory \in Seq(SUBSET Triple)
    BY <2>1 DEF MemTypeOK
  <2>7. step \in {"idle", "removes", "inserts", "append", "compact", "setFloor"}
    BY <2>1 DEF InProgress
  <2> QED BY <2>2, <2>3, <2>5, <2>6, <2>7 DEF Sql!SqlTypeOK
<1> QED BY <1>1, AdaptersInvAlways, PTL

\* SPEC 3, on disk: the committed log has exactly one row for every version above
\* the floor, wherever a write or a compaction is interrupted.
THEOREM RowsAlwaysDense == AdaptersSpec => []Sql!RowsAreDense
<1>1. ASSUME AdaptersInv PROVE Sql!RowsAreDense
  <2>1. db = TablesOf(mem) /\ Inv
    BY <1>1 DEF AdaptersInv, Same
  <2>2. {row.version : row \in db.log} = (db.floor + 1)..Sql!VersionOf(db)
    BY <2>1, VersionsOfRows, SameVersion DEF TablesOf
  <2>3. \A r1, r2 \in db.log : r1.version = r2.version => r1 = r2
    <3>1. /\ mem.floor \in Nat /\ DOMAIN mem.log = 1..Len(mem.log) /\ Len(mem.log) \in Nat
          /\ \A i \in DOMAIN mem.log : mem.log[i].version = mem.floor + i
      BY <2>1 DEF Inv, MemTypeOK, LogIsDense
    <3>2. \A i, j \in DOMAIN mem.log : mem.log[i].version = mem.log[j].version => i = j
      BY <3>1
    <3> QED BY <2>1, <3>2 DEF TablesOf
  <2> QED BY <2>2, <2>3 DEF Sql!RowsAreDense
<1> QED BY <1>1, AdaptersInvAlways, PTL

----------------------------------------------------------------------------
\* The tables implement the contract

IndexedRows ==
  [v \in (db.floor + 1)..Sql!VersionOf(db) |->
     (CHOOSE row \in db.log : row.version = v).delta]

IndexedEntries ==
  [v \in (mem.floor + 1)..VersionOf(mem) |-> mem.log[v - mem.floor].delta]

\* The committed rows, indexed by version, are the array log so indexed.
LEMMA SameIndexedLog == AdaptersInv => IndexedRows = IndexedEntries
<1> SUFFICES ASSUME AdaptersInv PROVE IndexedRows = IndexedEntries
  OBVIOUS
<1> DEFINE n == Len(mem.log)
           Row(v) == CHOOSE row \in db.log : row.version = v
<1>1. /\ mem.floor \in Nat /\ n \in Nat /\ DOMAIN mem.log = 1..n
      /\ VersionOf(mem) = mem.floor + n
      /\ \A i \in 1..n : mem.log[i].version = mem.floor + i
  BY DEF AdaptersInv, Inv, MemTypeOK, LogIsDense, VersionOf
<1>2. /\ db.floor = mem.floor /\ Sql!VersionOf(db) = VersionOf(mem)
      /\ db.log = {mem.log[i] : i \in 1..n}
  BY <1>1, SameVersion DEF AdaptersInv, Same, TablesOf
<1> HIDE DEF n
<1>3. ASSUME NEW v \in (mem.floor + 1)..VersionOf(mem)
      PROVE  Row(v) = mem.log[v - mem.floor]
  <2>1. v - mem.floor \in 1..n /\ mem.log[v - mem.floor].version = v
    BY <1>1
  <2>2. \A i \in 1..n : mem.log[i].version = v => i = v - mem.floor
    BY <1>1
  <2>3. \A row \in db.log : row.version = v <=> row = mem.log[v - mem.floor]
    BY <1>2, <2>1, <2>2
  <2> QED BY <1>2, <2>1, <2>3
<1>4. IndexedRows = [v \in (mem.floor + 1)..VersionOf(mem) |-> Row(v).delta]
  BY <1>2 DEF IndexedRows
<1> HIDE DEF Row
<1> QED BY <1>3, <1>4 DEF IndexedEntries

\* Seen through the two mappings, the tables and the array log are the same log:
\* what is a step of the contract for one is so for the other.
LEMMA SameContractInit == AdaptersInv /\ Contract!Init => Sql!Contract!Init
<1> SUFFICES ASSUME AdaptersInv, Contract!Init PROVE Sql!Contract!Init
  OBVIOUS
<1>1. IndexedRows = IndexedEntries /\ db.floor = mem.floor /\ sqlHistory = history
  BY SameIndexedLog DEF AdaptersInv, Same, TablesOf
<1> QED BY <1>1 DEF Contract!Init, Sql!Contract!Init, IndexedRows, IndexedEntries,
                    Contract!NoDelta, Sql!Contract!NoDelta

LEMMA SameContractStep ==
  ASSUME AdaptersInv, AdaptersInv', [Contract!Next]_(Contract!vars)
  PROVE  [Sql!Contract!Next]_(Sql!Contract!vars)
<1>1. IndexedRows = IndexedEntries /\ db.floor = mem.floor /\ sqlHistory = history
  BY SameIndexedLog DEF AdaptersInv, Same, TablesOf
<1>2. IndexedRows' = IndexedEntries' /\ db.floor' = mem.floor' /\ sqlHistory' = history'
  <2>1. (IndexedRows = IndexedEntries)'
    BY SameIndexedLog, PTL
  <2> QED BY <2>1 DEF AdaptersInv, Same, TablesOf
<1>3. ASSUME UNCHANGED Contract!vars PROVE UNCHANGED Sql!Contract!vars
  BY <1>1, <1>2, <1>3 DEF Contract!vars, Sql!Contract!vars, IndexedRows, IndexedEntries
<1>4. /\ Sql!Contract!Delta = Contract!Delta
      /\ Sql!Contract!Version = Contract!Version /\ Sql!Contract!Store = Contract!Store
      /\ \A S, d : /\ Sql!Contract!Applied(S, d) = Contract!Applied(S, d)
                   /\ Sql!Contract!Effective(S, d) = Contract!Effective(S, d)
                   /\ Sql!Contract!IsEmptyDelta(d) = Contract!IsEmptyDelta(d)
  BY <1>1 DEF Sql!Contract!Delta, Contract!Delta, Sql!Contract!Version, Contract!Version,
         Sql!Contract!Store, Contract!Store, Sql!Contract!Applied, Contract!Applied,
         Sql!Contract!Effective, Contract!Effective, Sql!Contract!IsEmptyDelta,
         Contract!IsEmptyDelta
<1>5. ASSUME NEW d \in Contract!Delta, Contract!Apply(d) PROVE Sql!Contract!Apply(d)
  <2>1. IndexedEntries' = [v \in (mem.floor + 1)..(Contract!Version + 1) |->
                             IF v = Contract!Version + 1
                             THEN Contract!Effective(Contract!Store, d) ELSE IndexedEntries[v]]
    BY <1>5, Zenon DEF Contract!Apply, IndexedEntries
  <2>2. IndexedRows' = [v \in (db.floor + 1)..(Sql!Contract!Version + 1) |->
                             IF v = Sql!Contract!Version + 1
                             THEN Sql!Contract!Effective(Sql!Contract!Store, d) ELSE IndexedRows[v]]
    BY <1>1, <1>2, <1>4, <2>1
  <2>3. /\ ~ Sql!Contract!IsEmptyDelta(Sql!Contract!Effective(Sql!Contract!Store, d))
        /\ sqlHistory' = Append(sqlHistory, Sql!Contract!Applied(Sql!Contract!Store, d))
        /\ db.floor' = db.floor
    BY <1>1, <1>2, <1>4, <1>5 DEF Contract!Apply
  <2> QED BY <2>2, <2>3, Zenon DEF Sql!Contract!Apply, IndexedRows
<1>6. ASSUME NEW upTo \in 1..Contract!Version, Contract!Compact(upTo)
      PROVE  Sql!Contract!Compact(upTo)
  <2>1. IndexedEntries' = [v \in (upTo + 1)..Contract!Version |-> IndexedEntries[v]]
    BY <1>6, Zenon DEF Contract!Compact, IndexedEntries
  <2>2. IndexedRows' = [v \in (upTo + 1)..Sql!Contract!Version |-> IndexedRows[v]]
    BY <1>1, <1>2, <1>4, <2>1
  <2>3. /\ db.floor < upTo /\ upTo <= Sql!Contract!Version
        /\ db.floor' = upTo /\ sqlHistory' = sqlHistory
    BY <1>1, <1>2, <1>4, <1>6 DEF Contract!Compact
  <2> QED BY <2>2, <2>3, Zenon DEF Sql!Contract!Compact, IndexedRows
<1> QED BY <1>3, <1>4, <1>5, <1>6 DEF Contract!Next, Sql!Contract!Next

\* The committed tables of SQLite keep the contract of a storage adapter wherever
\* a statement fails or the process dies: a COMMIT is one step of the contract, and
\* every other statement none.
THEOREM TablesAlwaysImplement == AdaptersSpec => TablesImplement
<1>1. AdaptersInit => Sql!Contract!Init
  BY AdaptersInvInit, ContractInit, SameContractInit DEF AdaptersInit
<1>2. AdaptersInv /\ [AdaptersNext]_adaptersVars => [Sql!Contract!Next]_(Sql!Contract!vars)
  <2> SUFFICES ASSUME AdaptersInv, [AdaptersNext]_adaptersVars PROVE [Sql!Contract!Next]_(Sql!Contract!vars)
    OBVIOUS
  <2>1. AdaptersInv'
    BY AdaptersInvStep
  <2>2. [Contract!Next]_(Contract!vars)
    <3>1. ASSUME UNCHANGED <<mem, history>> PROVE UNCHANGED Contract!vars
      BY <3>1 DEF Contract!vars, VersionOf
    <3>2. ASSUME ~ IsEmptyDelta(Effective(mem.store, pending)), pending \in Delta,
                 mem' = Appended(mem, pending), history' = Record(Appended(mem, pending))
          PROVE  Contract!Next
      <4>1. PICK d \in Delta : d = pending
        BY <3>2
      <4>2. Contract!Apply(d)
        BY <3>2, <4>1, ApplyIsApply DEF AdaptersInv
      <4> QED BY <4>2, SameTriples DEF Contract!Next
    <3>3. ASSUME NEW to \in Nat, mem.floor < to, to <= VersionOf(mem),
                 mem' = [mem EXCEPT !.log = SubSeq(@, to - mem.floor + 1, Len(@)), !.floor = to],
                 history' = history
          PROVE  Contract!Next
      BY <3>3, CompactIsCompact DEF AdaptersInv, Contract!Next
    <3>4. pending \in Delta
      BY DEF AdaptersInv, InProgress
    <3>5. CASE UNCHANGED adaptersVars
      BY <3>1, <3>5 DEF adaptersVars, memVars
    <3>6. CASE Statement /\ UNCHANGED <<memVars, object>>
      BY <3>1, <3>6, StatementKeepsInv
    <3>7. CASE Sql!CommitNothing /\ ApplyOthers
      BY <3>1, <3>7, CommitNothingKeepsInv
    <3>8. CASE Sql!AppendAndCommit /\ ApplyOthers
      BY <3>2, <3>4, <3>8, CommitKeepsInv
    <3>9. CASE Sql!SkipCompact /\ CompactOthers
      BY <3>1, <3>9, SkipKeepsInv
    <3>10. CASE Sql!SetFloorAndCommit /\ CompactOthers
      BY <3>3, <3>10, ForgetKeepsInv
    <3> QED BY <3>5, <3>6, <3>7, <3>8, <3>9, <3>10 DEF AdaptersNext
  <2> QED BY <2>1, <2>2, SameContractStep
<1> QED BY <1>1, <1>2, AdaptersInvAlways, PTL DEF AdaptersSpec, TablesImplement, Sql!Implements, Sql!Contract!Spec
=============================================================================
