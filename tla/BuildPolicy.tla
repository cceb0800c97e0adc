----------------------------- MODULE BuildPolicy -----------------------------
(* experts/build/policy.py: what a build may spend and what it fetches first.  *)
(* Scores are in tenths of a point, money in whole units.                      *)
EXTENDS Integers, Sequences, FiniteSets, SequencesExt

(* Python's sorted(), of the members of s at the places I: "before" holds the  *)
(* pairs of places in their order, all of which differ.  And those members in  *)
(* the order they are in.                                                      *)
Nth(I, before, k) == CHOOSE i \in I : Cardinality({j \in I : <<j, i>> \in before}) = k - 1

Sorted(s, I, before) == [k \in 1..Cardinality(I) |-> s[Nth(I, before, k)]]

Places(s, I) == Sorted(s, I, {p \in I \X I : p[1] < p[2]})

-----------------------------------------------------------------------------
CeilDiv(a, b) == (a + b - 1) \div b

(* resolve_execution: a build that did not say runs live when the expert has   *)
(* never had a persona, which is to say never finished a build.                *)
ResolveExecution(configured, personaNamed) ==
    IF configured \in {"interactive", "background"} THEN configured
    ELSE IF personaNamed THEN "background" ELSE "interactive"

(* discovery_loop_enabled: by setting, else only for live builds.              *)
LoopEnabled(configured, execution) ==
    CASE configured = "on"  -> TRUE
      [] configured = "off" -> FALSE
      [] OTHER              -> execution # "background"

-----------------------------------------------------------------------------
(* Python's round(): to the nearest whole point, halves to the even one.       *)
RoundHalfEven(tenths) ==
    LET whole == tenths \div 10
        rest  == tenths % 10
    IN  IF rest > 5 \/ (rest = 5 /\ whole % 2 = 1) THEN whole + 1 ELSE whole

(* _fetch_sort_key of a ranked candidate: priority ones first, by their rank;  *)
(* then whole points of score, the best first; then the cheaper.               *)
FetchSortKey(t) ==
    IF "priority" \in t.marks THEN <<0, t.stamps.rank, 0>>
    ELSE <<1, 0 - RoundHalfEven(t.score), t.cost>>

KeyBefore(j, k) ==
    \E i \in 1..3 : j[i] < k[i] /\ \A h \in 1..(i - 1) : j[h] = k[h]

(* sorted() is stable: equal keys keep their triage order.                     *)
FetchOrder(ranked) ==
    LET Key(i) == FetchSortKey(ranked[i])
        before == {p \in (DOMAIN ranked) \X (DOMAIN ranked) :
                     KeyBefore(Key(p[1]), Key(p[2])) \/ (Key(p[1]) = Key(p[2]) /\ p[1] < p[2])}
    IN  Sorted(ranked, DOMAIN ranked, before)

(* _priority_reservation: a resolved work's ceiling is the honest bound,       *)
(* anything else its type's typical length (prices as units of cost).          *)
PriorityReservation(t) == IF t.stamps.ceiling > 0 THEN t.stamps.ceiling ELSE t.cost

(* _type_caps: headroom times the planned share of the budget, with a floor.   *)
TypeCaps(quota, total, budget, headroom, floor) ==
    [s \in DOMAIN quota |->
        LET cap == CeilDiv(budget * quota[s] * headroom, IF total = 0 THEN 1 ELSE total)
        IN  IF cap > floor THEN cap ELSE floor]

(* _search_breadth: results asked of each query.                               *)
SearchBreadth(quota, queries, overfetch, least) ==
    LET wanted == CeilDiv(quota * overfetch, IF queries > 1 THEN queries ELSE 1)
    IN  IF wanted > least THEN wanted ELSE least
=============================================================================
