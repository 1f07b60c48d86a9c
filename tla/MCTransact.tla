----------------------------- MODULE MCTransact -----------------------------
(***************************************************************************)
(* A todo with a required single title, an optional single due date, a    *)
(* list of tags and a ref to the next one, itself even, and a comment with *)
(* a required ref to it and an optional text: the shapes a compile tells   *)
(* apart.  Due dates and roles are for admins, comments for todos that     *)
(* have a tag.                                                             *)
(***************************************************************************)
EXTENDS RuleLanguage

T(s, p, o) == [subject |-> s, predicate |-> p, object |-> o]

MCTriple ==
  { T("todo", "todo/title", "a"), T("todo", "todo/due", "a"),
    T("todo", "todo/due", "b"), T("todo", "todo/tags", "a"),
    T("todo", "todo/next", "todo"),
    T("comment", "comment/on", "todo"), T("comment", "comment/text", "a"),
    T("ann", "user/role", "admin") }

MCSeed == {T("ann", "user/role", "admin")}

\* A client has cached a todo and what comments on it, or the role.
MCCaches ==
  SUBSET {t \in MCTriple : t.predicate \notin {"comment/text", "todo/next", "user/role"}} \cup {MCSeed}

MCMultiple == {"todo/tags"}
MCRequired == {"todo/title", "comment/on"}
MCRefPredicate == {"comment/on", "todo/next"}

MCEntityOf ==
  [p \in {t.predicate : t \in MCTriple} |->
     CASE p = "user/role" -> "user"
       [] p \in {"comment/on", "comment/text"} -> "comment"
       [] OTHER -> "todo"]

Always  == [op |-> "always"]
Never   == [op |-> "never"]
IsAdmin == [op    |-> "equals",
            left  |-> [op |-> "actor", path |-> <<"user/role">>],
            right |-> [op |-> "literal", value |-> "admin"]]

\* A role is given and taken by admins; whoever has one may lay it down.
LaysDown == [op |-> "allOf",
             of |-> {[op |-> "equals", left |-> [op |-> "subject"], right |-> [op |-> "actor", path |-> <<>>]],
                     [op |-> "not",
                      of |-> [op    |-> "equals",
                              left  |-> [op |-> "after", path |-> <<"user/role">>],
                              right |-> [op |-> "literal", value |-> "admin"]]]}]

\* The todo is tagged "a"; it stays the same one.
IsTagged == [op    |-> "in",
             left  |-> [op |-> "literal", value |-> "a"],
             right |-> [op |-> "fields", path |-> <<"comment/on", "todo/tags">>]]
StaysOn  == [op    |-> "equals",
             left  |-> [op |-> "fields", path |-> <<"comment/on">>],
             right |-> [op |-> "after", path |-> <<"comment/on">>]]

MCRules ==
  [user    |-> [create |-> Never, update |-> Never, delete |-> Never,
                write  |-> [p \in {"user/role"} |-> [op |-> "anyOf", of |-> {IsAdmin, LaysDown}]]],
   todo    |-> [create |-> Always, update |-> Always, delete |-> IsAdmin,
                write  |-> [p \in {"todo/due"} |-> IsAdmin]],
   comment |-> [create |-> IsTagged, delete |-> Always,
                update |-> [op |-> "anyOf", of |-> {StaysOn, [op |-> "not", of |-> IsTagged]}],
                write  |-> <<>>]]

MCSealed == {"user/role", "todo/due"}
=============================================================================
