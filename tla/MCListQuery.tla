----------------------------- MODULE MCListQuery ------------------------------
(***************************************************************************)
(* A small instance of ListQuery: four documents of two users, two of them *)
(* equal in name and time, and the query strings that matter.              *)
(***************************************************************************)
EXTENDS ListQuery, TLC

MCDocument == {
  [id |-> "id1", owner |-> "alice", name |-> "a", mime |-> "text", file |-> TRUE,
   public |-> TRUE, created |-> 1, grants |-> {}],
  [id |-> "id2", owner |-> "alice", name |-> "a", mime |-> "json", file |-> FALSE,
   public |-> FALSE, created |-> 1, grants |-> {"bob"}],
  [id |-> "id3", owner |-> "alice", name |-> "a", mime |-> "json", file |-> FALSE,
   public |-> FALSE, created |-> 0, grants |-> {}],
  [id |-> "id4", owner |-> "bob", name |-> "b", mime |-> "text", file |-> TRUE,
   public |-> TRUE, created |-> 2, grants |-> {}]}

MCRank == [x \in {"a", "b", "id1", "id2", "id3", "id4"} |->
  CASE x \in {"a", "id1"} -> 1 [] x \in {"b", "id2"} -> 2 [] x = "id3" -> 3 [] x = "id4" -> 4]

Query(login, key, value, limit) ==
  [login |-> login, key |-> key, value |-> value, limit |-> limit]

Filters == {<<"id", "ID2">>, <<"id", "x">>, <<"name", "a">>, <<"mime", "text">>,
            <<"file", "1">>, <<"public", "F">>, <<"file", "x">>, <<"size", "1">>,
            <<"", "x">>, <<Absent, "a">>, <<"name", Absent>>, <<Absent, Absent>>}

MCParams ==
  {Query(login, Absent, Absent, limit) :
     login \in {Absent, "", "alice"}, limit \in {Absent, "1", "02", "0", "9", "x"}}
  \cup {Query("alice", f[1], f[2], limit) : f \in Filters, limit \in {Absent, "1"}}

\* Texts of ids in capitals spell the same ids, as 02 spells 2.
MCSpelling == [x \in {"ID2", "x", "a", "text", "1", "F"} |-> IF x = "ID2" THEN "id2" ELSE Bad]
MCNumber == [x \in {"1", "02", "0", "9", "x"} |->
  CASE x = "1" -> 1 [] x = "02" -> 2 [] x = "0" -> 0 [] x = "9" -> 9 [] x = "x" -> Bad]
=============================================================================
