------------------------------ MODULE MCFanOut ------------------------------
(***************************************************************************)
(* The demo's policy, with a note on a todo that only its owner may read:  *)
(* a todo is readable by its owner and by the members of its team, a team  *)
(* by its members, and a user by everyone; an admin reads every team.      *)
(***************************************************************************)
EXTENDS FanOut

T(s, p, o) == [subject |-> s, predicate |-> p, object |-> o]

Owner  == T("todo", "todo/owner", "ann")
Text   == T("todo", "todo/text", "a")
Note   == T("todo", "todo/note", "a")
Team   == T("todo", "todo/team", "team")
Member == T("team", "team/member", "ann")
Role   == T("ann", "user/role", "admin")

MCTriple == {Owner, Text, Note, Team, Member, Role}
MCActor  == {"ann"}
MCSeed   == {Text, Note, Team, Member}

MCEntity == [s \in {"todo", "team", "ann"} |-> IF s = "ann" THEN "user" ELSE s]
MCFields ==
  [todo |-> {<<"todo/owner">>, <<"todo/team">>, <<"todo/team", "team/member">>},
   team |-> {<<"team/member">>},
   user |-> {}]
MCOverridden == {"todo/note"}

Ends(chains, n, a) == \E w \in chains : w[n].object = a

MCGrants(rule, a, me, s, fields) ==
  CASE rule = "todo" -> \/ Ends(fields[<<"todo/owner">>], 1, a)
                        \/ Ends(fields[<<"todo/team", "team/member">>], 2, a)
    [] rule = "team" -> \/ Ends(fields[<<"team/member">>], 1, a)
                        \/ \E t \in me : t.predicate = "user/role"
    [] rule = "todo/note" -> Ends(fields[<<"todo/owner">>], 1, a)
    [] OTHER -> TRUE

Put(S)  == [added |-> S, removed |-> {}]
Take(S) == [added |-> {}, removed |-> S]

\* Each fact on its own, the creation of a todo and its deletion.
MCWrites ==
  UNION {{Put({t}), Take({t})} : t \in MCTriple}
    \cup {Put({Owner, Text}), Take({Owner, Text, Note, Team})}
=============================================================================
