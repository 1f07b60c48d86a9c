---------------------------- MODULE MCGenerations ----------------------------
(***************************************************************************)
(* An instance of Generations: one entity with fields f and g over two     *)
(* kinds, and the declarations between which every kind of migration is    *)
(* possible: add a field, drop it, retype it, loosen it, require it,       *)
(* change rules alone.                                                     *)
(***************************************************************************)
EXTENDS Generations

CONSTANTS f, g, text, number, open, closed

A(kind, required) == [kind |-> kind, required |-> required]

OnlyF(kind, required) == [x \in {f} |-> A(kind, required)]

Both(requiredF, requiredG) ==
  [x \in {f, g} |-> A(text, IF x = f THEN requiredF ELSE requiredG)]

MCDeclarations ==
  { [fields |-> OnlyF(text, TRUE),          rules |-> open],
    [fields |-> OnlyF(text, TRUE),          rules |-> closed],
    [fields |-> OnlyF(number, TRUE),        rules |-> open],
    [fields |-> Both(TRUE, FALSE),          rules |-> open],
    [fields |-> Both(FALSE, TRUE),          rules |-> open],
    [fields |-> [x \in {g} |-> A(text, FALSE)], rules |-> open] }
=============================================================================
