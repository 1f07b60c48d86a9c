------------------------------- MODULE Actors -------------------------------
(***************************************************************************)
(* Who works in a workspace, and the roles the directory of workspaces     *)
(* (WorkOS) gives (worker/auth.ts).                                        *)
(***************************************************************************)
CONSTANT Actor

Role == {"admin", "member"}

None == "none"    \* not in the directory; in the cell, no row
=============================================================================
