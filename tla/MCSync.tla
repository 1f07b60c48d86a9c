------------------------------- MODULE MCSync -------------------------------
(***************************************************************************)
(* x is readable, hidden is not; both are in the scope of the one query.   *)
(***************************************************************************)
EXTENDS Sync

CONSTANTS x, hidden

Put(t)   == [added |-> {t}, removed |-> {}]
Drops(t) == [added |-> {}, removed |-> {t}]

MCQuery  == {{x, hidden}}
MCWrites == {Put(x), Drops(x), Put(hidden)}

=============================================================================
