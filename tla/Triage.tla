-------------------------------- MODULE Triage --------------------------------
(* sources/triage.py: how search hits are scored and ranked.  Scores and       *)
(* priors are in tenths of a point, from 0 to 100.                             *)
EXTENDS BuildPolicy, Functions

Unscored == -1
MaxScore == 100
MinTriageScore == 30        \* MIN_TRIAGE_SCORE
MustHaveScore == 90

Clamp(x) == IF x < 0 THEN 0 ELSE IF x > MaxScore THEN MaxScore ELSE x

(* _parse_triage_response: scores go by the id an entry names.  An entry with  *)
(* no readable id (0), an id outside the batch, one already scored, or no      *)
(* number scores nobody.                                                       *)
ParseScores(entries, size) ==
    LET Read(i) == entries[i].id \in 1..size /\ entries[i].value # Unscored
        First(i) == \A j \in 1..(i - 1) : ~(Read(j) /\ entries[j].id = entries[i].id)
        read == {i \in DOMAIN entries : Read(i) /\ First(i)}
    IN  [id \in 1..size |->
            IF \E i \in read : entries[i].id = id
            THEN Clamp(entries[CHOOSE i \in read : entries[i].id = id].value)
            ELSE Unscored]

(* triage_candidates, for one candidate: the model's score with its priors, or *)
(* nothing if the model never scored it; a must-have work is lifted last, so   *)
(* that neither a prior nor a missing score can lose it.                       *)
TriageScore(model, prior, must) ==
    LET judged == IF model = Unscored THEN 0 ELSE Clamp(model + prior)
    IN  IF must /\ judged < MustHaveScore THEN MustHaveScore ELSE judged

TriageStatus(model, reasked, must, priority) ==
    CASE must             -> "must_have"
      [] ~must /\ priority -> "priority"
      [] OTHER            -> IF model = Unscored THEN "unscored"
                             ELSE IF reasked THEN "reasked" ELSE "scored"

(* A hit whose title is a must-have work's is marked as that work.             *)
Triaged(c, model, prior, boosted) ==
    LET must == c.names # 0 /\ c.names \in boosted
        marks == IF must THEN c.marks \cup {"priority", "must"} ELSE c.marks
    IN  [id |-> c.id, model |-> model, score |-> TriageScore(model, prior, must),
         status |-> TriageStatus(model, FALSE, must, "priority" \in c.marks),
         marks |-> marks, stamps |-> c.stamps, cost |-> c.cost,
         work |-> IF "must" \in marks THEN c.names ELSE 0,
         title |-> c.title, part |-> c.part]

-----------------------------------------------------------------------------
(* _near_duplicate: titles are numbers, alike when they differ by at most one  *)
(* (likeness of titles is not transitive).  Titles are compared among hits for *)
(* one must-have work, where parts that differ are never duplicates, and among *)
(* all the other hits.                                                         *)
NearDuplicate(t, u) ==
    /\ t.work = u.work
    /\ t.work # 0 => t.part = u.part
    /\ t.title - u.title \in {-1, 0, 1}

(* rank_candidates: best score first (a stable sort), junk dropped unless it   *)
(* is a priority, then whatever is near a title already kept.                  *)
RankCandidates(triaged) ==
    LET better == {p \in (DOMAIN triaged) \X (DOMAIN triaged) :
                     \/ triaged[p[1]].score > triaged[p[2]].score
                     \/ triaged[p[1]].score = triaged[p[2]].score /\ p[1] < p[2]}
        order == Sorted(triaged, DOMAIN triaged, better)
        Worth(t) == t.score >= MinTriageScore \/ "priority" \in t.marks
        kept[k \in 0..Len(order)] ==
            IF k = 0 THEN {}
            ELSE kept[k - 1] \cup {i \in {k} : /\ Worth(order[i])
                                              /\ \A j \in kept[k - 1] :
                                                    ~NearDuplicate(order[i], order[j])}
    IN  Places(order, {k \in DOMAIN order : k \in kept[k]})

(* The floor a round fetches from: relaxed in round 0 when too few reach it.   *)
Reaches(t, floor) == t.score >= floor \/ "priority" \in t.marks

RoundFloor(ranked, n, floor, relaxed, needed) ==
    LET reaching == Len(SelectSeq(ranked, LAMBDA t : Reaches(t, floor)))
    IN  IF n = 0 /\ reaching < needed /\ floor > relaxed THEN relaxed ELSE floor
=============================================================================
