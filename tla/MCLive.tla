------------------------------- MODULE MCLive -------------------------------
(***************************************************************************)
(* The first placed todo, and the titles of all todos.  One todo is        *)
(* created, deleted and moved back in the list; another one, which the     *)
(* client may not have seen before, is moved to the front.                 *)
(***************************************************************************)
EXTENDS Live, Query

T(s, p, o) == [subject |-> s, predicate |-> p, object |-> o]

Todo(s, place) == {T(s, "todo/title", "x"), T(s, "todo/place", place)}

MCSeed   == Todo("todo_1", "b") \cup Todo("todo_2", "c")
MCTriple == MCSeed \cup Todo("todo_1", "d") \cup Todo("todo_2", "a")

Field(p, required) == [predicate |-> p, required |-> required]

MCFields == [todo |-> <<Field("todo/title", TRUE), Field("todo/place", FALSE)>>]

MCRank ==
  LET order == <<"", "a", "b", "c", "d", "todo_1", "todo_2", "x">>
  IN  [v \in ToSet(order) |-> CHOOSE i \in DOMAIN order : order[i] = v]

Titles == Select(From("todo"), {<<"todo/title">>})

MCPayload ==
  [first |-> ToPayload(OrderBy(Limit(Select(
               Where(From("todo"), "todo/place", {"a", "b", "c", "d"}),
               {<<"todo/title">>, <<"todo/place">>}), 1), "todo/place", FALSE)),
   all   |-> ToPayload(Titles)]

MCCollect(S, q, ranked) == Collected(S, S, q, ranked)

Both(s) == {<<s, "todo/title">>, <<s, "todo/place">>}

Moved(s, place) == [clears |-> {<<s, "todo/place">>}, puts |-> {T(s, "todo/place", place)}]

MCWrites ==
  {[clears |-> Both("todo_1"), puts |-> {}],
   [clears |-> Both("todo_1"), puts |-> Todo("todo_1", "b")],
   Moved("todo_1", "d"), Moved("todo_2", "a")}
=============================================================================
