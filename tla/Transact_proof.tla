--------------------------- MODULE Transact_proof ---------------------------
(***************************************************************************)
(* For every schema and every number of operations: what Transact's run    *)
(* checks on one schema.                                                   *)
(***************************************************************************)
EXTENDS Writes, TLAPS

\* Without a blind operation the compiled delta is exactly what changes: its
\* adds are new and its removes hit.
Exact ==
  blind \/ /\ compiled.added \cap store = {}
           /\ compiled.removed \subseteq store

\* Even with one, an added single-valued triple is hidden in the store, if there.
AddedIsHidden ==
  \A t \in compiled.added : t.predicate \notin Multiple => t \notin store \ compiled.removed

Meaning == CompiledKeepsMeaning /\ Exact

Single == StaysSingleValued /\ AddedIsHidden

LEMMA CachesAreTriples == Caches \subseteq SUBSET Triple
  BY DraftAssumption

----------------------------------------------------------------------------
\* What a draft starts from satisfies every part.

LEMMA OpenKeeps ==
  ASSUME NEW S, S \subseteq Triple, S = store', NEW r \in SUBSET Triple,
         Open(S, r), SingleValued(S)
  PROVE  TransactTypeOK' /\ Meaning' /\ PreviewKeepsMeaning' /\ Single'
<1>1. TransactTypeOK'
  BY DEF Open, TransactTypeOK, NoDelta, Delta, IsNet
<1>2. Meaning'
  BY DEF Open, Meaning, CompiledKeepsMeaning, Exact, View, Applied, NoDelta
<1>3. PreviewKeepsMeaning'
  BY DEF Open, PreviewKeepsMeaning, Draft, Applied, NoDelta
<1>4. Single'
  <2>1. View' = S
    BY DEF Open, View, Applied, NoDelta
  <2>2. StaysSingleValued'
    BY <2>1 DEF StaysSingleValued, SingleValued
  <2>3. AddedIsHidden'
    BY DEF Open, AddedIsHidden, NoDelta
  <2> QED BY <2>2, <2>3 DEF Single
<1> QED BY <1>1, <1>2, <1>3, <1>4

----------------------------------------------------------------------------
\* Type correctness, the compiled delta being net (transaction.ts pushAdd and
\* pushRemove cancel).

LEMMA PushAddIsNet ==
  ASSUME NEW d \in Delta, IsNet(d), NEW t \in Triple
  PROVE  PushAdd(d, t) \in Delta /\ IsNet(PushAdd(d, t))
  BY DEF PushAdd, Delta, IsNet

LEMMA PushRemovesIsNet ==
  ASSUME NEW d \in Delta, IsNet(d), NEW T \in SUBSET Triple
  PROVE  PushRemoves(d, T) \in Delta /\ IsNet(PushRemoves(d, T))
  BY DEF PushRemoves, Delta, IsNet

LEMMA TypeStep == TransactTypeOK /\ StaysSingleValued /\ [Next]_vars => TransactTypeOK'
<1> SUFFICES ASSUME TransactTypeOK, StaysSingleValued, [Next]_vars
             PROVE  TransactTypeOK'
  OBVIOUS
<1> USE DEF TransactTypeOK
<1>0. View \subseteq Triple /\ Draft \subseteq Triple
  BY DEF View, Draft, Applied, Delta
<1>1. ASSUME NEW t \in Triple, Set(t) PROVE TransactTypeOK'
  <2>1. FieldOf(View, t) \in SUBSET Triple
    BY <1>0 DEF FieldOf
  <2>2. compiled' \in Delta /\ IsNet(compiled')
    BY <1>1, <2>1, PushRemovesIsNet, PushAddIsNet DEF Set, CompileSet
  <2>3. preview' \in Delta
    BY <1>1 DEF Set, PreviewSet, FieldOf, Delta
  <2> QED BY <1>1, <2>2, <2>3 DEF Set, Another
<1>2. ASSUME NEW t \in Triple, Add(t) PROVE TransactTypeOK'
  <2>1. compiled' \in Delta /\ IsNet(compiled')
    BY <1>2, PushAddIsNet DEF Add
  <2>2. preview' \in Delta
    BY <1>2 DEF Add, Delta
  <2>3. blind' \in BOOLEAN
    BY <1>2 DEF Add
  <2> QED BY <1>2, <2>1, <2>2, <2>3 DEF Add, Another
<1>3. ASSUME NEW T \in SUBSET Triple, RecordRemoves(T) PROVE TransactTypeOK'
  <2>1. compiled' \in Delta /\ IsNet(compiled')
    BY <1>3, PushRemovesIsNet DEF RecordRemoves
  <2>2. preview' \in Delta
    BY <1>3 DEF RecordRemoves, PreviewRemoves, Delta
  <2>3. blind' \in BOOLEAN /\ undone' \in BOOLEAN
    BY <1>3 DEF RecordRemoves
  <2> QED BY <1>3, <2>1, <2>2, <2>3 DEF RecordRemoves, Another
<1>4. ASSUME NEW t \in Triple, Remove(t) PROVE TransactTypeOK'
  BY <1>3, <1>4 DEF Remove
<1>5. ASSUME NEW t \in Triple, Clear(t) PROVE TransactTypeOK'
  <2>1. FieldOf(Draft, t) \in SUBSET Triple
    BY <1>0 DEF FieldOf
  <2> QED BY <1>3, <1>5, <2>1 DEF Clear
<1>6. ASSUME NEW s \in Subject, Delete(s) PROVE TransactTypeOK'
  <2>1. Own(View, s) \in SUBSET Triple /\ Inbound(View, s) \in SUBSET Triple
    BY <1>0 DEF Own, Inbound
  <2>2. compiled' \in Delta /\ IsNet(compiled')
    BY <1>6, <2>1, PushRemovesIsNet DEF Delete, CompileDelete
  <2>3. preview' \in Delta
    BY <1>6 DEF Delete, PreviewRemoves, Swept, Own, Inbound, Delta
  <2>4. undone' \in BOOLEAN /\ blind' \in BOOLEAN
    BY <1>6 DEF Delete
  <2> QED BY <1>6, <2>2, <2>3, <2>4 DEF Delete, Another
<1>7. ASSUME NEW r \in SUBSET Triple, Read(r) PROVE TransactTypeOK'
  BY <1>7, OpenKeeps DEF Read, StaysSingleValued
<1>8. CASE Commit
  BY <1>8, <1>0, OpenKeeps DEF Commit, StaysSingleValued, View
<1>9. CASE Reject
  BY <1>9, OpenKeeps DEF Reject, StaysSingleValued
<1>10. CASE UNCHANGED vars
  BY <1>10 DEF vars, draftVars
<1> QED
  BY <1>1, <1>2, <1>4, <1>5, <1>6, <1>7, <1>8, <1>9, <1>10, CachesAreTriples DEF Next

----------------------------------------------------------------------------
\* Removing and adding triples of the evolving view, one helper at a time.

\* Triples of the view leave it, and exactness survives.
LEMMA RemovesOfView ==
  ASSUME NEW d \in Delta, NEW S, S \subseteq Triple, NEW T, T \subseteq Applied(S, d),
         d.added \cap S = {}, d.removed \subseteq S
  PROVE  /\ Applied(S, PushRemoves(d, T)) = Applied(S, d) \ T
         /\ PushRemoves(d, T).added \cap S = {}
         /\ PushRemoves(d, T).removed \subseteq S
  BY DEF PushRemoves, Applied, Delta

\* The two groups of a delete leave it too, when no added triple is in both: the second
\* push then removes of the first group only what it finds removed already.
LEMMA SweepOfView ==
  ASSUME compiled \in Delta, store \subseteq Triple, NEW s, PushedTwice(s) = {},
         compiled.added \cap store = {}, compiled.removed \subseteq store
  PROVE  /\ Applied(store, CompileDelete(s)) = View \ Swept(View, s)
         /\ CompileDelete(s).added \cap store = {}
         /\ CompileDelete(s).removed \subseteq store
<1> DEFINE O == Own(View, s)
           I == Inbound(View, s)
<1>1. O \subseteq View /\ I \subseteq View
  BY DEF Own, Inbound
<1>2. compiled.added \cap O \cap I = {} /\ Swept(View, s) = O \cup I
  BY DEF PushedTwice, Swept
<1>3. CompileDelete(s) =
        [added   |-> (compiled.added \ O) \ I,
         removed |-> compiled.removed \cup (O \ compiled.added) \cup (I \ (compiled.added \ O))]
  BY DEF CompileDelete, PushRemoves
<1> HIDE DEF O, I
<1>4. Applied(store, CompileDelete(s)) = View \ Swept(View, s)
  <2>1. /\ CompileDelete(s).added = (compiled.added \ O) \ I
        /\ CompileDelete(s).removed
             = compiled.removed \cup (O \ compiled.added) \cup (I \ (compiled.added \ O))
    BY <1>3
  <2> QED BY <1>2, <2>1 DEF View, Applied
<1>5. CompileDelete(s).added \cap store = {}
  BY <1>3
<1>6. CompileDelete(s).removed \subseteq store
  <2>1. ASSUME NEW t \in O, t \notin compiled.added PROVE t \in store
    BY <1>1, <2>1 DEF View, Applied
  <2>2. ASSUME NEW t \in I, t \notin compiled.added \ O PROVE t \in store
    BY <1>1, <1>2, <2>2 DEF View, Applied
  <2> QED BY <1>3, <2>1, <2>2
<1> QED BY <1>4, <1>5, <1>6

\* A triple that is not in the view joins it, and exactness survives.
LEMMA AddToView ==
  ASSUME NEW d \in Delta, IsNet(d), NEW S, S \subseteq Triple,
         NEW t \in Triple, t \notin Applied(S, d),
         d.added \cap S = {}, d.removed \subseteq S
  PROVE  /\ Applied(S, PushAdd(d, t)) = Applied(S, d) \cup {t}
         /\ PushAdd(d, t).added \cap S = {}
         /\ PushAdd(d, t).removed \subseteq S
<1>1. CASE t \in d.removed
  <2>1. PushAdd(d, t) = [added |-> d.added, removed |-> d.removed \ {t}]
    BY <1>1 DEF PushAdd, Delta
  <2> QED BY <1>1, <2>1 DEF Applied
<1>2. CASE t \notin d.removed
  <2>1. PushAdd(d, t) = [added |-> d.added \cup {t}, removed |-> d.removed]
    BY <1>2 DEF PushAdd, Delta
  <2> QED BY <1>2, <2>1 DEF Applied
<1> QED BY <1>1, <1>2

----------------------------------------------------------------------------
\* Compiling keeps the meaning of the operations.

LEMMA MeaningStep == TransactTypeOK /\ StaysSingleValued /\ Meaning /\ [Next]_vars => Meaning'
<1> SUFFICES ASSUME TransactTypeOK, StaysSingleValued, Meaning, [Next]_vars
             PROVE  Meaning'
  OBVIOUS
<1> DEFINE Good == /\ View = serverMeaning
                   /\ compiled.added \cap store = {}
                   /\ compiled.removed \subseteq store
<1>0. /\ blind \/ Good
      /\ store \subseteq Triple /\ compiled \in Delta /\ IsNet(compiled)
      /\ blind' \/ Good' => Meaning'
  BY DEF Meaning, CompiledKeepsMeaning, Exact, TransactTypeOK
<1>1. ASSUME NEW t \in Triple, Set(t) PROVE Meaning'
  <2> SUFFICES ASSUME ~ blind PROVE Good'
    BY <1>0, <1>1 DEF Set
  <2> DEFINE F == FieldOf(View, t)
             d == PushRemoves(compiled, F)
  <2>1. F \subseteq View /\ F \in SUBSET Triple
    BY <1>0 DEF FieldOf, View, Applied, Delta
  <2>2. d \in Delta /\ IsNet(d)
    BY <1>0, <2>1, PushRemovesIsNet
  <2>3. /\ Applied(store, d) = View \ F
        /\ d.added \cap store = {}
        /\ d.removed \subseteq store
    BY <1>0, <2>1, RemovesOfView DEF View
  <2>4. t \notin View \ F
    BY DEF FieldOf, SameField
  <2>5. /\ Applied(store, PushAdd(d, t)) = (View \ F) \cup {t}
        /\ PushAdd(d, t).added \cap store = {}
        /\ PushAdd(d, t).removed \subseteq store
    <3> HIDE DEF F, d
    <3> QED BY <1>0, <2>2, <2>3, <2>4, AddToView
  <2>6. compiled' = PushAdd(d, t) /\ store' = store
    BY <1>1 DEF Set, CompileSet
  <2>7. serverMeaning' = (View \ F) \cup {t}
    BY <1>0, <1>1 DEF Set
  <2> QED BY <2>5, <2>6, <2>7 DEF View
<1>2. ASSUME NEW t \in Triple, Add(t) PROVE Meaning'
  <2> SUFFICES ASSUME ~ blind' PROVE Good'
    BY <1>0
  <2>1. ~ blind /\ t \notin View
    BY <1>2 DEF Add
  <2>2. compiled' = PushAdd(compiled, t) /\ store' = store
    BY <1>2 DEF Add
  <2>3. serverMeaning' = View \cup {t}
    BY <1>0, <1>2, <2>1 DEF Add
  <2> QED BY <1>0, <2>1, <2>2, <2>3, AddToView DEF View
<1>3. ASSUME NEW T, T \subseteq Triple, RecordRemoves(T) PROVE Meaning'
  <2> SUFFICES ASSUME ~ blind' PROVE Good'
    BY <1>0
  <2>1. ~ blind /\ T \subseteq View
    BY <1>3 DEF RecordRemoves
  <2>2. compiled' = PushRemoves(compiled, T) /\ store' = store
    BY <1>3 DEF RecordRemoves
  <2>3. serverMeaning' = View \ T
    BY <1>0, <1>3, <2>1 DEF RecordRemoves
  <2> QED BY <1>0, <2>1, <2>2, <2>3, RemovesOfView DEF View
<1>4. ASSUME NEW t \in Triple, Remove(t) PROVE Meaning'
  BY <1>3, <1>4 DEF Remove
<1>5. ASSUME NEW t \in Triple, Clear(t) PROVE Meaning'
  <2>1. FieldOf(Draft, t) \subseteq Triple
    BY DEF FieldOf, Draft, Applied, TransactTypeOK, Delta
  <2> QED BY <1>3, <1>5, <2>1 DEF Clear
<1>6. ASSUME NEW s \in Subject, Delete(s) PROVE Meaning'
  <2> SUFFICES ASSUME ~ blind' PROVE Good'
    BY <1>0
  <2>1. ~ blind /\ PushedTwice(s) = {}
    BY <1>6 DEF Delete
  <2>2. compiled' = CompileDelete(s) /\ store' = store
    BY <1>6 DEF Delete
  <2>3. serverMeaning' = View \ Swept(View, s)
    BY <1>0, <1>6, <2>1 DEF Delete
  <2>4. /\ Applied(store, CompileDelete(s)) = View \ Swept(View, s)
        /\ CompileDelete(s).added \cap store = {}
        /\ CompileDelete(s).removed \subseteq store
    BY <1>0, <2>1, SweepOfView
  <2> QED BY <2>2, <2>3, <2>4 DEF View
<1>7. ASSUME NEW r \in SUBSET Triple, Read(r) PROVE Meaning'
  BY <1>0, <1>7, OpenKeeps DEF Read, StaysSingleValued
<1>8. CASE Commit
  <2>1. View \subseteq Triple
    BY <1>0 DEF View, Applied, Delta
  <2> QED BY <1>8, <2>1, OpenKeeps DEF Commit, StaysSingleValued, View
<1>9. CASE Reject
  BY <1>0, <1>9, OpenKeeps DEF Reject, StaysSingleValued
<1>10. CASE UNCHANGED vars
  BY <1>0, <1>10 DEF vars, draftVars, View
<1> QED
  BY <1>1, <1>2, <1>4, <1>5, <1>6, <1>7, <1>8, <1>9, <1>10, CachesAreTriples DEF Next

----------------------------------------------------------------------------
\* The author's preview keeps the meaning of the operations.

LEMMA PreviewStep ==
  TransactTypeOK /\ StaysSingleValued /\ PreviewKeepsMeaning /\ [Next]_vars
    => PreviewKeepsMeaning'
<1> SUFFICES ASSUME TransactTypeOK, StaysSingleValued, PreviewKeepsMeaning, [Next]_vars
             PROVE  PreviewKeepsMeaning'
  OBVIOUS
<1>0. /\ undone \/ Draft = clientMeaning
      /\ reader \subseteq Triple /\ preview \in Delta
  BY DEF PreviewKeepsMeaning, TransactTypeOK
<1>1. ASSUME NEW t \in Triple, Set(t) PROVE PreviewKeepsMeaning'
  <2> SUFFICES ASSUME ~ undone PROVE Draft' = clientMeaning'
    BY <1>1 DEF Set, PreviewKeepsMeaning
  <2>1. Draft' = (reader \ (preview.removed \cup FieldOf(reader, t)))
                   \cup (preview.added \ FieldOf(preview.added, t)) \cup {t}
    BY <1>1 DEF Set, PreviewSet, Draft, Applied
  <2>2. clientMeaning' = (Draft \ FieldOf(Draft, t)) \cup {t}
    BY <1>0, <1>1 DEF Set
  <2> QED BY <2>1, <2>2 DEF Draft, Applied, FieldOf
<1>2. ASSUME NEW t \in Triple, Add(t) PROVE PreviewKeepsMeaning'
  <2> SUFFICES ASSUME ~ undone PROVE Draft' = clientMeaning'
    BY <1>2 DEF Add, PreviewKeepsMeaning
  <2>1. preview' = [added |-> preview.added \cup {t}, removed |-> preview.removed]
    BY <1>0, <1>2 DEF Add, Delta
  <2> QED BY <1>0, <1>2, <2>1 DEF Add, Draft, Applied
<1>3. ASSUME NEW T, RecordRemoves(T) PROVE PreviewKeepsMeaning'
  <2> SUFFICES ASSUME ~ undone' PROVE Draft' = clientMeaning'
    BY DEF PreviewKeepsMeaning
  <2>1. ~ undone /\ T \cap preview.added = {}
    BY <1>3 DEF RecordRemoves
  <2>2. preview' = [added |-> preview.added, removed |-> preview.removed \cup T]
    BY <1>0, <1>3 DEF RecordRemoves, PreviewRemoves, Delta
  <2> QED BY <1>0, <1>3, <2>1, <2>2 DEF RecordRemoves, Draft, Applied
<1>4. ASSUME NEW t \in Triple, Remove(t) PROVE PreviewKeepsMeaning'
  BY <1>3, <1>4 DEF Remove
<1>5. ASSUME NEW t \in Triple, Clear(t) PROVE PreviewKeepsMeaning'
  BY <1>3, <1>5 DEF Clear
<1>6. ASSUME NEW s \in Subject, Delete(s) PROVE PreviewKeepsMeaning'
  <2> SUFFICES ASSUME ~ undone' PROVE Draft' = clientMeaning'
    BY DEF PreviewKeepsMeaning
  <2> USE DEF Own, Inbound
  <2>1. ~ undone /\ Swept(preview.added, s) = {}
    BY <1>6 DEF Delete
  <2>2. preview' = [added |-> preview.added,
                    removed |-> preview.removed \cup Swept(reader, s)]
    BY <1>0, <1>6 DEF Delete, PreviewRemoves, Delta
  <2>3. clientMeaning' = Draft \ Swept(Draft, s)
    BY <1>0, <1>6, <2>1 DEF Delete
  <2>4. Draft' = (reader \ (preview.removed \cup Swept(reader, s))) \cup preview.added
    BY <1>6, <2>2 DEF Delete, Draft, Applied
  <2>5. \A t \in preview.added : t \notin Swept(Draft, s)
    BY <2>1 DEF Swept
  <2>6. \A t \in Draft : t \in Swept(Draft, s) => t \in Swept(reader, s)
    BY <2>5 DEF Swept, Draft, Applied
  <2>7. \A t \in Draft : t \in Swept(reader, s) => t \in Swept(Draft, s)
    BY DEF Swept
  <2> QED BY <2>3, <2>4, <2>5, <2>6, <2>7 DEF Draft, Applied
<1>7. ASSUME NEW r \in SUBSET Triple, Read(r) PROVE PreviewKeepsMeaning'
  BY <1>7, OpenKeeps DEF Read, StaysSingleValued, TransactTypeOK
<1>8. CASE Commit
  <2>1. View \subseteq Triple
    BY DEF View, Applied, Delta, TransactTypeOK
  <2> QED BY <1>8, <2>1, OpenKeeps DEF Commit, StaysSingleValued, View
<1>9. CASE Reject
  BY <1>9, OpenKeeps DEF Reject, StaysSingleValued, TransactTypeOK
<1>10. CASE UNCHANGED vars
  BY <1>0, <1>10 DEF vars, draftVars, PreviewKeepsMeaning, Draft
<1> QED
  BY <1>1, <1>2, <1>4, <1>5, <1>6, <1>7, <1>8, <1>9, <1>10, CachesAreTriples DEF Next

----------------------------------------------------------------------------
\* A single-valued field stays single-valued.

\* Removing anything shrinks the view, and an added triple stays hidden.
LEMMA RemovesStaySingle ==
  ASSUME TransactTypeOK, Single, NEW T, T \subseteq Triple,
         compiled' = PushRemoves(compiled, T), store' = store
  PROVE  Single' /\ View' \subseteq View
  BY DEF Single, StaysSingleValued, SingleValued, AddedIsHidden, View, Applied, PushRemoves

LEMMA SingleStep == TransactTypeOK /\ Single /\ [Next]_vars => Single'
<1> SUFFICES ASSUME TransactTypeOK, Single, [Next]_vars
             PROVE  Single'
  OBVIOUS
<1>0. /\ StaysSingleValued /\ AddedIsHidden
      /\ store \subseteq Triple /\ compiled \in Delta /\ IsNet(compiled)
      /\ View \subseteq Triple
  BY DEF Single, TransactTypeOK, View, Applied, Delta
<1>1. ASSUME NEW t \in Triple, Set(t) PROVE Single'
  <2> DEFINE F == FieldOf(View, t)
             d == PushRemoves(compiled, F)
             V == Applied(store, d)
  <2>1. d = [added |-> compiled.added \ F, removed |-> compiled.removed \cup (F \ compiled.added)]
    BY DEF PushRemoves
  <2>2. t.predicate \notin Multiple /\ store' = store /\ compiled' = PushAdd(d, t)
    BY <1>1 DEF Set, CompileSet
  <2>3. V \subseteq View /\ \A u \in V : ~ SameField(u, t)
    <3>1. V \subseteq View
      BY <2>1 DEF View, Applied
    <3>2. ASSUME NEW u \in V, SameField(u, t) PROVE FALSE
      <4>1. u \in F
        BY <3>1, <3>2 DEF FieldOf
      <4>2. u \in compiled.added
        BY <2>1, <4>1 DEF Applied
      <4>3. u \in store \ compiled.removed
        BY <2>1, <4>1, <4>2 DEF Applied
      <4>4. u.predicate \notin Multiple
        BY <2>2, <3>2 DEF SameField
      <4> QED BY <1>0, <4>2, <4>3, <4>4 DEF AddedIsHidden
    <3> QED BY <3>1, <3>2
  <2>4. t \notin V /\ t \notin d.added
    BY <2>3 DEF Applied, SameField
  <2>5. \A u \in d.added : u.predicate \notin Multiple => u \notin store \ d.removed
    BY <1>0, <2>1 DEF AddedIsHidden
  <2>6. SingleValued(V \cup {t})
    BY <1>0, <2>3 DEF StaysSingleValued, SingleValued, SameField
  <2>7. CASE t \in d.removed
    <3>1. PushAdd(d, t) = [added |-> d.added, removed |-> d.removed \ {t}]
      BY <2>1, <2>7 DEF PushAdd
    <3>2. View' \subseteq V \cup {t}
      BY <2>2, <3>1 DEF View, Applied
    <3>3. SingleValued(View')
      BY <2>6, <3>2 DEF SingleValued
    <3>4. AddedIsHidden'
      <4> HIDE DEF d
      <4> QED BY <2>2, <2>4, <2>5, <3>1 DEF AddedIsHidden
    <3> QED BY <1>0, <2>2, <3>3, <3>4 DEF Single, StaysSingleValued
  <2>8. CASE t \notin d.removed
    <3>1. PushAdd(d, t) = [added |-> d.added \cup {t}, removed |-> d.removed]
      BY <2>1, <2>8 DEF PushAdd
    <3>2. View' = V \cup {t}
      BY <2>2, <3>1 DEF View, Applied
    <3>3. SingleValued(View')
      BY <2>6, <3>2 DEF SingleValued
    <3>4. AddedIsHidden'
      <4>1. t \notin store \ d.removed
        BY <2>4 DEF Applied
      <4> HIDE DEF d
      <4> QED BY <2>2, <2>5, <3>1, <4>1 DEF AddedIsHidden
    <3> QED BY <1>0, <2>2, <3>3, <3>4 DEF Single, StaysSingleValued
  <2> QED BY <2>7, <2>8
<1>2. ASSUME NEW t \in Triple, Add(t) PROVE Single'
  <2>1. t.predicate \in Multiple /\ store' = store /\ compiled' = PushAdd(compiled, t)
    BY <1>2 DEF Add
  <2>2. View' \subseteq View \cup {t}
    BY <1>0, <2>1 DEF View, Applied, PushAdd, Delta
  <2>3. SingleValued(View')
    BY <1>0, <2>1, <2>2 DEF StaysSingleValued, SingleValued, SameField
  <2>4. AddedIsHidden'
    BY <1>0, <2>1 DEF AddedIsHidden, PushAdd, Delta
  <2> QED BY <1>0, <2>1, <2>3, <2>4 DEF Single, StaysSingleValued
<1>4. ASSUME NEW t \in Triple, Remove(t) PROVE Single'
  BY <1>4, RemovesStaySingle DEF Remove, RecordRemoves
<1>5. ASSUME NEW t \in Triple, Clear(t) PROVE Single'
  <2>1. FieldOf(Draft, t) \subseteq Triple
    BY DEF FieldOf, Draft, Applied, TransactTypeOK, Delta
  <2> QED BY <1>5, <2>1, RemovesStaySingle DEF Clear, RecordRemoves
<1>6. ASSUME NEW s \in Subject, Delete(s) PROVE Single'
  <2> DEFINE O == Own(View, s)
             I == Inbound(View, s)
  <2>1. store' = store /\ compiled' = PushRemoves(PushRemoves(compiled, O), I)
    BY <1>6 DEF Delete, CompileDelete
  <2>2. compiled' = [added |-> compiled.added \ (O \cup I),
                     removed |-> compiled.removed \cup (O \ compiled.added)
                                   \cup (I \ (compiled.added \ O))]
    BY <2>1 DEF PushRemoves
  <2> HIDE DEF O, I
  <2>3. AddedIsHidden'
    BY <1>0, <2>1, <2>2 DEF AddedIsHidden
  <2>4. View' \subseteq View
    BY <2>1, <2>2 DEF View, Applied
  <2> QED BY <1>0, <2>1, <2>3, <2>4 DEF Single, StaysSingleValued, SingleValued
<1>7. ASSUME NEW r \in SUBSET Triple, Read(r) PROVE Single'
  BY <1>0, <1>7, OpenKeeps DEF Read, StaysSingleValued
<1>8. CASE Commit
  BY <1>0, <1>8, OpenKeeps DEF Commit, StaysSingleValued, View
<1>9. CASE Reject
  BY <1>0, <1>9, OpenKeeps DEF Reject, StaysSingleValued
<1>10. CASE UNCHANGED vars
  BY <1>0, <1>10 DEF vars, draftVars, Single, StaysSingleValued, AddedIsHidden, View
<1> QED
  BY <1>1, <1>2, <1>4, <1>5, <1>6, <1>7, <1>8, <1>9, <1>10, CachesAreTriples DEF Next

----------------------------------------------------------------------------
\* No subject loses a required field and lives: a subject the delta does not
\* touch keeps its triples, and one it touches was checked.

LEMMA CompleteStep == TransactTypeOK /\ StoreIsComplete /\ [Next]_vars => StoreIsComplete'
<1> SUFFICES ASSUME TransactTypeOK, StoreIsComplete, [Next]_vars
             PROVE  StoreIsComplete'
  OBVIOUS
<1>1. CASE Commit
  <2> SUFFICES ASSUME NEW s \in Subject PROVE Complete(View, s)
    BY <1>1 DEF StoreIsComplete, Commit, View
  <2>1. CASE \E t \in compiled.added \cup compiled.removed : t.subject = s
    BY <1>1, <2>1 DEF Commit, CheckRequired, View
  <2>2. CASE ~ \E t \in compiled.added \cup compiled.removed : t.subject = s
    <3>1. {t \in View : t.subject = s} = {t \in store : t.subject = s}
      BY <2>2 DEF View, Applied
    <3>2. Complete(store, s)
      BY DEF StoreIsComplete
    <3> QED BY <3>1, <3>2 DEF Complete
  <2> QED BY <2>1, <2>2
<1>2. CASE store' = store
  BY <1>2 DEF StoreIsComplete
<1>3. Commit \/ store' = store
  BY DEF Next, Set, Add, Remove, Clear, RecordRemoves, Delete, Read, Reject, vars
<1> QED BY <1>1, <1>2, <1>3

----------------------------------------------------------------------------
Inv ==
  /\ TransactTypeOK
  /\ Single
  /\ Meaning
  /\ PreviewKeepsMeaning
  /\ StoreIsComplete

LEMMA InvInit == Init => Inv
<1> SUFFICES ASSUME Init PROVE Inv
  OBVIOUS
<1>1. View = Seed /\ Draft = {}
  BY DEF Init, View, Draft, Applied, NoDelta
<1>2. TransactTypeOK
  BY DraftAssumption DEF Init, TransactTypeOK, NoDelta, Delta, IsNet
<1>3. Single
  <2>1. StaysSingleValued
    BY <1>1, DraftAssumption DEF Init, StaysSingleValued
  <2>2. AddedIsHidden
    BY DEF Init, AddedIsHidden, NoDelta
  <2> QED BY <2>1, <2>2 DEF Single
<1>4. Meaning
  BY <1>1 DEF Init, Meaning, CompiledKeepsMeaning, Exact, NoDelta
<1>5. PreviewKeepsMeaning
  BY <1>1 DEF Init, PreviewKeepsMeaning
<1>6. StoreIsComplete
  BY DraftAssumption DEF Init, StoreIsComplete
<1> QED BY <1>2, <1>3, <1>4, <1>5, <1>6 DEF Inv

LEMMA InvStep == Inv /\ [Next]_vars => Inv'
  BY TypeStep, SingleStep, MeaningStep, PreviewStep, CompleteStep DEF Inv, Single

\* The compiled delta is a net set of schema triples at every step of every
\* transaction (transaction.ts pushAdd and pushRemove).
THEOREM TypeCorrect == Spec => []TransactTypeOK
<1>1. Inv => TransactTypeOK
  BY DEF Inv
<1> QED BY <1>1, InvInit, InvStep, PTL DEF Spec

\* Single-valued fields stay single-valued in the store and in every transaction
\* in progress (compileOperations, the set case).
THEOREM SingleValuedAlways == Spec => []StaysSingleValued
<1>1. Inv => StaysSingleValued
  BY DEF Inv, Single
<1> QED BY <1>1, InvInit, InvStep, PTL DEF Spec

\* Compiling keeps the meaning of every transaction without a blind operation
\* (compileOperations against its evolving view).
THEOREM MeaningKept == Spec => []CompiledKeepsMeaning
<1>1. Inv => CompiledKeepsMeaning
  BY DEF Inv, Meaning
<1> QED BY <1>1, InvInit, InvStep, PTL DEF Spec

\* The optimistic preview keeps the meaning of every transaction that does not
\* take back its own adds (class Transaction).
THEOREM PreviewMeaningKept == Spec => []PreviewKeepsMeaning
<1>1. Inv => PreviewKeepsMeaning
  BY DEF Inv
<1> QED BY <1>1, InvInit, InvStep, PTL DEF Spec

\* No commit leaves a live subject without a required field (#checkRequired).
THEOREM StoreAlwaysComplete == Spec => []StoreIsComplete
<1>1. Inv => StoreIsComplete
  BY DEF Inv
<1> QED BY <1>1, InvInit, InvStep, PTL DEF Spec

----------------------------------------------------------------------------
\* Whatever the operations of a transaction, each field that it changes is judged by
\* its own rule, on the author as they were before.

LEMMA CheckedChange ==
  ASSUME NEW a \in Author, NEW S \in SUBSET Triple, NEW d \in Delta, NEW gone,
         CheckWrite(a, S, d, gone),
         NEW t \in (S \ Applied(S, d)) \cup (Applied(S, d) \ S), t.predicate \in Sealed
  PROVE  S \cap Credential # {}
<1> DEFINE T == Applied(S, d)
           verb == Verb(S, gone, t.subject)
<1>1. t \in d.added \cup d.removed
  BY DEF Applied
<1>2. T \in SUBSET Triple
  BY DEF Applied, Delta
<1>3. verb \in {"create", "update", "delete"}
  BY DEF Verb
<1>4. Allows(RuleFor(t.predicate, verb), Context(a, S, S, T, verb, t.subject, EntityOf[t.predicate]))
  BY <1>1 DEF CheckWrite, ActorRecord
<1>5. t \in {u \in (S \ T) \cup (T \ S) : u.predicate \in Sealed}
  OBVIOUS
<1> HIDE DEF T, verb
<1> QED BY <1>2, <1>3, <1>4, <1>5, SealedAssumption

\* SPEC 10.4, for every schema, every rules that keep the promise of SealedAssumption
\* and every number of operations, where the policy is checkWrite as it is in
\* Transact's run: no transaction, in whatever order it says things, changes a sealed
\* field of a store in which nobody holds a credential.
THEOREM SealedAlways ==
  ASSUME \A a \in Author : \A S, d, gone : Authorized(a, S, d, gone) => CheckWrite(a, S, d, gone)
  PROVE  Spec => SealedNeedsCredential
<1>1. Inv /\ [Next]_vars =>
        [(\E t \in (store \ store') \cup (store' \ store) : t.predicate \in Sealed)
           => store \cap Credential # {}]_store
  <2> SUFFICES ASSUME Inv, [Next]_vars, store' # store,
                      NEW t \in (store \ store') \cup (store' \ store), t.predicate \in Sealed
               PROVE  store \cap Credential # {}
    OBVIOUS
  <2>1. Commit
    BY DEF Next, vars, Set, Add, Remove, Clear, RecordRemoves, Delete, Read, Reject
  <2>2. store \in SUBSET Triple /\ compiled \in Delta
    BY DEF Inv, TransactTypeOK
  <2>3. PICK a \in Author : Authorized(a, store, compiled, deleted)
    BY <2>1 DEF Commit
  <2>4. CheckWrite(a, store, compiled, deleted)
    BY <2>3
  <2>5. store' = Applied(store, compiled)
    BY <2>1 DEF Commit
  <2> QED BY <2>2, <2>4, <2>5, CheckedChange
<1> QED BY <1>1, InvInit, InvStep, PTL DEF Spec, SealedNeedsCredential
=============================================================================
