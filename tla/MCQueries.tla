------------------------------ MODULE MCQueries ------------------------------
(***************************************************************************)
(* Todos with a title, a place in a list, a flag and an owner, and the     *)
(* shapes of query the demo and the documentation use.                     *)
(***************************************************************************)
EXTENDS Queries

T(s, p, o) == [subject |-> s, predicate |-> p, object |-> o]

Todos == {"todo_1", "todo_2", "todo_3"}

MCTriple ==
  {T(s, "todo/title", "x") : s \in Todos}
    \cup {T(s, "todo/place", v) : s \in Todos, v \in {"a", "b"}}
    \cup {T(s, "todo/owner", "user_1") : s \in {"todo_1", "todo_2"}}
    \cup {T(s, "todo/done", "yes") : s \in {"todo_1"}}
    \cup {T("user_1", "user/name", "x")}

Field(p, required) == [predicate |-> p, required |-> required]

MCFields ==
  [todo |-> <<Field("todo/title", TRUE), Field("todo/place", FALSE),
              Field("todo/done", FALSE), Field("todo/owner", FALSE)>>,
   user |-> <<Field("user/name", TRUE)>>]

MCRank ==
  LET order == <<"", "a", "b", "todo_1", "todo_2", "todo_3", "user_1", "x", "yes">>
  IN  [v \in ToSet(order) |-> CHOOSE i \in DOMAIN order : order[i] = v]

Title == <<"todo/title">>
Owner == <<"todo/owner">>
Name  == <<"todo/owner", "user/name">>

MCPlain ==
  LET all == Select(From("todo"), {Title}) IN
  {WhereId(Select(From("todo"), {Title, Owner, Name}), "todo_1"),
   WhereId(Select(From("todo"), {<<"todo/done">>}), "todo_1"),
   Where(Select(From("todo"), {Title}), "todo/place", {"a", "b"}),
   WhereNot(all, "todo/place", {"a"}),
   WhereAbsent(Where(all, "todo/owner", {"user_1"}), "todo/done"),
   WhereRange(all, "todo/place", "a", None, TRUE),
   WhereEither(all, {WhereAbsent(From("todo"), "todo/owner"),
                     Where(From("todo"), "todo/done", {"yes"})}),
   Beside(Select(From("user"), {<<"user/name">>}), "todos", <<>>,
          Select(WhereRow(From("todo"), "todo/owner"), {Title})),
   Beside(Select(From("todo"), {Title, Owner}), "open", Owner,
          Select(WhereAbsent(WhereRow(From("todo"), "todo/owner"), "todo/done"), {Title}))}

MCWindows ==
  LET page == Limit(Select(From("todo"), {Title, <<"todo/place">>}), 1) IN
  {OrderBy(page, "todo/place", FALSE),
   OrderBy(Where(page, "todo/owner", {"user_1"}), "todo/place", TRUE),
   OrderBy(WhereAbsent(page, "todo/done"), "todo/place", FALSE)}

MCVeils ==
  {{}, {<<"todo_1", "todo/place">>}, {<<"todo_2", "todo/title">>},
   {<<"todo_1", "todo/done">>, <<"todo_2", "todo/owner">>}}
=============================================================================
