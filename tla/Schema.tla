------------------------------- MODULE Schema -------------------------------
(***************************************************************************)
(* What the query engine and its clients read of the schema and of a set   *)
(* of triples.  Single-valued or not, a field is the set of its values.    *)
(***************************************************************************)
EXTENDS Naturals, Sequences, Triples, SequencesExt

CONSTANT Fields   \* of each entity, its fields in order: [predicate, required]

Required == {f.predicate : f \in {f \in UNION {ToSet(Fields[e]) : e \in DOMAIN Fields} : f.required}}

\* The triples of one field of a subject.
Of(R, s, p) == {t \in R : t.subject = s /\ t.predicate = p}
=============================================================================
