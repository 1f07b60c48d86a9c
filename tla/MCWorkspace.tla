----------------------------- MODULE MCWorkspace -----------------------------
(***************************************************************************)
(* A founder and one other, who is invited, promoted or removed; one app   *)
(* of one file.                                                            *)
(***************************************************************************)
EXTENDS Workspace, TLC

CONSTANTS ada, bob

MCEmail == [a \in Actor |-> a]

Actors == Permutations(Actor)
=============================================================================
