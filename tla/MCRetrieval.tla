---------------------------- MODULE MCRetrieval ----------------------------
(***************************************************************************)
(* Retrieval over a corpus of three works: a long argument (a0 .. a3), a   *)
(* second work (b0 .. b2), and a third that holds a copy of a passage of   *)
(* the first and one passage of its own.                                   *)
(***************************************************************************)
EXTENDS Retrieval

Work(s, n, t) == [source |-> s, seq |-> n, text |-> t, prose |-> TRUE]
MCChunk == [a0 |-> Work("a", 0, "a0"), a1 |-> Work("a", 1, "a1"), a2 |-> Work("a", 2, "a2"),
            a3 |-> Work("a", 3, "a3"), b0 |-> Work("b", 0, "b0"), b1 |-> Work("b", 1, "b1"),
            b2 |-> [Work("b", 2, "b2") EXCEPT !.prose = FALSE],
            c0 |-> Work("c", 0, "a1"), c2 |-> Work("c", 2, "c2")]

MCPlans == {[subqueries |-> <<"first", "second">>, fallback |-> <<"broader", "nearer">>, broad |-> TRUE],
            [subqueries |-> <<"first", "first">>, fallback |-> <<>>, broad |-> FALSE]}

MCFound(q) ==
  CASE q = "why"    -> {<<"a1", "a2", "b1">>}
    [] q = "first"  -> {<<"a1", "a3">>}
    [] q = "second" -> {<<"b1", "b0">>, <<"c0", "a3">>, <<>>}
    [] OTHER        -> {<<"a2", "c2">>}

MCRoutes == {<<"c0", "c2">>, <<"b2", "b0">>}

\* Scores that matter to the thresholds: under the floor, weak, and strong.
Graded == Init /\ \A c \in {"a0", "b2"} : rel[c] = 3
MCSpec == Graded /\ [][Next]_vars
=============================================================================
