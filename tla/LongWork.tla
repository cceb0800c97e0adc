-------------------------------- MODULE LongWork -------------------------------
(* A work too long to be read closely: the sections the plan asked for are cut *)
(* out of it (sources/sections.py) and chunked, as much of the rest as the     *)
(* budget allows is held embed-only (ingestion/structural.py), the graph is    *)
(* read from the chunks, and the sections are summarised for routing           *)
(* (ingestion/summaries.py).  Lengths are counted in passages, and a passage   *)
(* becomes a chunk.  Positions in the work are 0..len-1; spans are <<from, to>>*)
(* without `to'.                                                               *)
EXTENDS Integers, Sequences, FiniteSets, SequencesExt, Functions

CONSTANTS Works,            \* [len, heads: sequence of [kind, num, at]]
          Hints,            \* what a plan may ask for: kind -> numbers
          Junks,            \* which passages the prose gate may drop
          Focuses,          \* concept -> the position nearest to it
          Concepts,         \* sequence of concepts
          Containers,       \* _CONTAINER_KINDS
          SegmentKinds,     \* _SEGMENT_KINDS
          Cap, FrontMatter, MinSection,         \* of select_sections
          Budget, MinSegment, MaxSegment, Window,   \* of the tails
          GraphLimit, MinRun, MaxRun

VARIABLES
    work, hint, junk, focus,    \* chosen at the start
    pc,
    spans,      \* close_spans
    tails,      \* the segments held
    chunks,     \* source_chunks: [seq, at, held]
    graphed,    \* the chunks the graph was read from
    sections    \* corpus_sections: [from, to]

vars == <<work, hint, junk, focus, pc, spans, tails, chunks, graphed, sections>>
given == <<work, hint, junk, focus>>

Init ==
    /\ work \in Works /\ hint \in Hints /\ junk \in Junks /\ focus \in Focuses
    /\ pc = "cut"
    /\ spans = <<>> /\ tails = <<>> /\ chunks = {} /\ graphed = {} /\ sections = {}

-----------------------------------------------------------------------------
Least(S) == CHOOSE x \in S : \A y \in S : x <= y
Most(S) == CHOOSE x \in S : \A y \in S : y <= x
Lesser(x, y) == IF x < y THEN x ELSE y
Ordered(S, Key(_)) ==
    [i \in 1..Cardinality(S) |->
        CHOOSE s \in S : Cardinality({t \in S : Key(t) < Key(s)}) = i - 1]
Start(s) == s.start
Size(s) == s.end - s.start

(* find_sections, in a part of the text: a section runs to the next heading of *)
(* its kind.                                                                   *)
SectionsIn(kind, from, to) ==
    LET heads == {h \in Range(work.heads) : h.kind = kind /\ from <= h.at /\ h.at < to}
        End(h) == Least({to} \cup {g.at : g \in {g \in heads : g.at > h.at}})
    IN  {[kind |-> kind, num |-> h.num, start |-> h.at, end |-> End(h)] : h \in heads}

(* select_sections: what the hint names, inside a container it names.          *)
Matching(kind) == {s \in SectionsIn(kind, 0, work.len) : Size(s) >= MinSection /\ s.num \in hint[kind]}
Matched(kinds) == UNION {Matching(k) : k \in kinds}
Chosen ==
    LET named == DOMAIN hint
        outer == Matched(named \cap Containers)
        inner == named \ Containers
        inside == {s \in Matched(inner) :
                      \E c \in outer : c.start <= s.start /\ s.start < c.end}
    IN  IF outer = {} \/ inner = {} THEN Matched(named)
        ELSE IF inside = {} THEN outer ELSE inside

(* Of a number that appears more than once, the longest section.               *)
LongestOfEach(S) ==
    {s \in S : \A t \in S \ {s} : t.kind = s.kind /\ t.num = s.num
                  => Size(t) < Size(s) \/ (Size(t) = Size(s) /\ s.start < t.start)}

(* The opening, then the sections in order as far as they fit; else a prefix.  *)
Selected ==
    LET ordered == Ordered(LongestOfEach(Chosen), Start)
        opening == Least({FrontMatter, ordered[1].start} \cup {h.at : h \in Range(work.heads)})
        Step(acc, s) ==
            LET room == Cap - acc.used
            IN  IF acc.full \/ room <= MinSection THEN [acc EXCEPT !.full = TRUE]
                ELSE [acc EXCEPT !.used = @ + Lesser(Size(s), room),
                                 !.spans = Append(@, <<s.start, Lesser(s.end, s.start + room)>>)]
    IN  IF Chosen = {} THEN <<<<0, Lesser(work.len, Cap)>>>>
        ELSE FoldLeft(Step, [used |-> opening, spans |-> <<<<0, opening>>>>, full |-> FALSE],
                      ordered).spans

Cut ==
    /\ pc = "cut"
    /\ spans' = IF DOMAIN hint = {} THEN <<<<0, Lesser(work.len, Cap)>>>> ELSE Selected
    /\ pc' = "close"
    /\ UNCHANGED <<given, tails, chunks, graphed, sections>>

-----------------------------------------------------------------------------
Positions(span) == [i \in 1..(span[2] - span[1]) |-> span[1] + i - 1]

(* chunk_text and prepare_chunks: the text that was cut out is chunked as one; *)
(* a chunk that is dropped keeps its place.                                    *)
ReadClosely ==
    LET kept == FoldLeft(LAMBDA ps, span : ps \o Positions(span), <<>>, spans)
    IN  /\ pc = "close"
        /\ chunks' = {[seq |-> i - 1, at |-> kept[i], held |-> FALSE] :
                         i \in {i \in DOMAIN kept : kept[i] \notin junk}}
        /\ pc' = IF chunks' = {} THEN "failed" ELSE "tails"
        /\ UNCHANGED <<given, spans, tails, graphed, sections>>

(* uncovered_spans *)
Covered == UNION {span[1]..(span[2] - 1) : span \in Range(spans)}
Uncovered ==
    {<<a, b>> \in (0..work.len) \X (0..work.len) :
        /\ b - a >= MinSegment
        /\ \A p \in a..(b - 1) : p \notin Covered
        /\ a = 0 \/ a - 1 \in Covered
        /\ b = work.len \/ b \in Covered}

(* segments_of: by the first kind of heading there are three of, else windows; *)
(* a short remainder joins the segment before it.                              *)
SegmentsOf(a, b) ==
    LET Fit(kind) == Cardinality({s \in SectionsIn(kind, a, b) : Size(s) >= MinSegment}) >= 3
        kinds == SelectSeq(SegmentKinds, Fit)
        found == IF kinds = <<>> THEN {[start |-> a, end |-> b]}
                 ELSE {[start |-> s.start, end |-> s.end] : s \in SectionsIn(kinds[1], a, b)}
        first == Least({s.start : s \in found})
        lead == IF first - a >= MinSegment THEN {[start |-> a, end |-> first]} ELSE {}
        Windows(s) ==
            LET n == IF Size(s) <= MaxSegment THEN 0
                     ELSE (Size(s) - MaxSegment + Window - 1) \div Window
            IN  [k \in 1..(n + 1) |->
                    [start |-> s.start + (k - 1) * Window,
                     end |-> IF k > n THEN s.end ELSE s.start + k * Window]]
        Add(acc, s) == IF Size(s) >= MinSegment \/ acc = <<>> THEN Append(acc, s)
                       ELSE [acc EXCEPT ![Len(acc)].end = s.end]
    IN  FoldLeft(Add, <<>>,
                 FoldLeft(LAMBDA ss, s : ss \o Windows(s), <<>>, Ordered(lead \cup found, Start)))

Segments ==
    UNION {Range(SegmentsOf(span[1], span[2])) : span \in Uncovered}
ProseSegments == {s \in Segments : s.start \notin junk}

(* How near a segment is to a concept: the greater the nearer.                 *)
Score(s, c) == IF s.start <= focus[c] THEN s.start - focus[c] ELSE focus[c] - s.start
Better(s, t, c) == Score(s, c) > Score(t, c) \/ (Score(s, c) = Score(t, c) /\ s.start < t.start)
BestFor(S, c) == CHOOSE s \in S : \A t \in S \ {s} : Better(s, t, c)
Spent(S) == FoldFunction(+, 0, [s \in S |-> Size(s)])

(* Mutant: the first concept takes all the budget it can use.                  *)
FirstConceptTakes(turn) == Concepts[1]

(* choose_segments: each concept in turn takes its best that is affordable.    *)
TurnOf(turn) == Concepts[((turn - 1) % Len(Concepts)) + 1]
ChosenSegments ==
    LET Step(taken, turn) ==
            LET open == {s \in ProseSegments \ taken : Size(s) <= Budget - Spent(taken)}
            IN  IF open = {} THEN taken ELSE taken \cup {BestFor(open, TurnOf(turn))}
    IN  FoldLeft(Step, {}, [k \in 1..(Len(Concepts) * Cardinality(ProseSegments)) |-> k])

ChooseTails ==
    /\ pc = "tails"
    /\ tails' = IF Budget <= 0 THEN <<>> ELSE Ordered(ChosenSegments, Start)
    /\ pc' = "hold"
    /\ UNCHANGED <<given, spans, chunks, graphed, sections>>

(* ingest_tails: the work's segments, in order, after the last chunk; a gap in *)
(* the text is a gap in the sequence.  A failure is logged and nothing more.   *)
Hold ==
    LET next == Most({c.seq : c \in chunks}) + 1
        Step(acc, s) ==
            LET from == IF s.start # acc.end THEN acc.seq + 1 ELSE acc.seq
            IN  [seq |-> from + Size(s), end |-> s.end,
                 new |-> acc.new \cup {[seq |-> from + k, at |-> s.start + k, held |-> TRUE] :
                                          k \in 0..(Size(s) - 1)}]
        all == FoldLeft(Step, [seq |-> next, end |-> Most({span[2] : span \in Range(spans)}),
                               new |-> {}], tails).new
    IN  /\ pc = "hold"
        /\ \/ chunks' = chunks \cup {c \in all : c.at \notin junk}
           \/ UNCHANGED chunks
        /\ pc' = "graph"
        /\ UNCHANGED <<given, spans, tails, graphed, sections>>

-----------------------------------------------------------------------------
(* The graph stage of the first attempt reads what was read closely; that of a *)
(* resumed one what is stored, in both up to a limit.                          *)
FirstOf(S) == {c \in S : Cardinality({d \in S : d.seq < c.seq}) < GraphLimit}
Graph(resumed) ==
    /\ pc = IF resumed THEN "resumed" ELSE "graph"
    /\ graphed' = FirstOf(IF resumed THEN chunks ELSE {c \in chunks : ~c.held})
    /\ pc' = "index"
    /\ UNCHANGED <<given, spans, tails, chunks, sections>>

(* The attempt dies after the corpus became searchable; the next one resumes.  *)
Dies ==
    /\ pc \in {"graph", "resumed", "index"}
    /\ pc' = "resumed" /\ graphed' = {}
    /\ UNCHANGED <<given, spans, tails, chunks, sections>>

(* section_key: a tail's chunks have their segment's heading, the others that  *)
(* of the section they are in.                                                 *)
Heading(c) ==
    IF c.held THEN Most({s.start : s \in {s \in Range(tails) : s.start <= c.at}})
    ELSE Most({-1} \cup {h.at : h \in {h \in Range(work.heads) : h.at <= c.at}})

(* section_runs: a run ends at another heading, a gap or MaxRun; a short one   *)
(* joins the one before it if no more than one chunk is missing between them.  *)
Broken ==
    LET Step(runs, c) ==
            LET r == Last(runs)
            IN  IF runs # <<>> /\ r.key = Heading(c) /\ r.to + 1 = c.seq /\ r.n < MaxRun
                THEN [runs EXCEPT ![Len(runs)].to = c.seq, ![Len(runs)].n = @ + 1]
                ELSE Append(runs, [key |-> Heading(c), from |-> c.seq, to |-> c.seq, n |-> 1])
    IN  FoldLeft(Step, <<>>, Ordered(chunks, LAMBDA c : c.seq))

Joinable(r, s) == s.from - r.to <= 2 /\ (r.n < MinRun \/ s.n < MinRun)

Runs ==
    LET Step(runs, s) ==
            IF runs # <<>> /\ Joinable(Last(runs), s)
            THEN [runs EXCEPT ![Len(runs)].to = s.to, ![Len(runs)].n = @ + s.n]
            ELSE Append(runs, s)
    IN  FoldLeft(Step, <<>>, Broken)

(* build_section_index, of a source with no section yet; a call may fail, and  *)
(* the index may.                                                              *)
Index(lost) ==
    LET written == {[from |-> r.from, to |-> r.to] : r \in Range(Runs) \ lost}
    IN  /\ pc = "index"
        /\ lost \subseteq Range(Runs)
        /\ sections' = IF sections # {} THEN sections ELSE written
        /\ \/ pc' = "done" \/ pc' = "resumed"
        /\ graphed' = IF pc' = "resumed" THEN {} ELSE graphed
        /\ UNCHANGED <<given, spans, tails, chunks>>

Next ==
    \/ Cut \/ ReadClosely \/ ChooseTails \/ Hold \/ Dies
    \/ \E resumed \in BOOLEAN : Graph(resumed)
    \/ \E lost \in {{}} \cup {{r} : r \in Range(Runs)} : Index(lost)

Spec == Init /\ [][Next]_vars

-----------------------------------------------------------------------------
(* What is read closely is what was asked for and no more: the opening and     *)
(* named sections, within the cap; or, if none was found, the beginning.       *)
CloseIsAsked ==
    spans # <<>> /\ Chosen # {} =>
        /\ \A i \in 2..Len(spans) : \E s \in Chosen :
              /\ s.start = spans[i][1] /\ spans[i][2] <= s.end
              /\ \A t \in Chosen : t.kind = s.kind /\ t.num = s.num => Size(t) <= Size(s)
        /\ Cardinality(Covered) <= Cap

(* What is held is new, once, within the budget, and of every concept what is  *)
(* nearest to it if all of that fits.                                          *)
TailsAreSpread ==
    LET best == {BestFor(ProseSegments, c) : c \in Range(Concepts)}
    IN  /\ \A c, d \in chunks : c.at = d.at /\ c # d => ~c.held /\ ~d.held
        /\ Spent(Range(tails)) <= Budget
        /\ pc \notin {"cut", "close", "tails", "failed"} /\ ProseSegments # {}
           /\ Cardinality(best) = Len(Concepts) /\ Spent(best) <= Budget
           => best \subseteq Range(tails)

(* Each chunk has a place of its own, and two held ones that are neighbours in *)
(* the sequence are neighbours in the text.                                    *)
PlacesHold ==
    \A c, d \in chunks :
        /\ c.seq = d.seq => c = d
        /\ c.held /\ d.held /\ d.seq = c.seq + 1 => d.at = c.at + 1

(* The sections of the index overlap nowhere and leave out no more than was    *)
(* lost, and none stretches over more than one missing chunk at a joint.       *)
SectionsHold ==
    /\ \A s, t \in sections : s = t \/ s.to < t.from \/ t.to < s.from
    /\ \A s \in sections : \A q \in s.from..s.to :
          (\E c \in chunks : c.seq = q) \/ (\E c \in chunks : c.seq = q + 1)
    /\ pc = "index" /\ sections = {} =>
          \A c \in chunks : \E r \in Range(Runs) : r.from <= c.seq /\ c.seq <= r.to

LongWorkHolds == CloseIsAsked /\ TailsAreSpread /\ PlacesHold /\ SectionsHold

(* What the docstring of prepare_chunks says of a gap: "a neighbour on the far *)
(* side of it is not a continuation".                                          *)
NeighboursContinue == \A c, d \in chunks : d.seq = c.seq + 1 => d.at = c.at + 1

(* What the header of structural.py says of the tails: "never contextualised   *)
(* or sent to graph extraction".                                               *)
TailsAreNotGraphed == \A c \in graphed : ~c.held

(* What summaries.py says of a section: "a run of consecutive chunks of one    *)
(* source sharing a heading, at most MAX_RUN chunks".                          *)
RunsAreBounded == \A s \in sections : s.to - s.from < MaxRun

(* What the docstring of build_section_index says: "a resumed build or a       *)
(* backfill adds only what is missing".                                        *)
MissingIsAdded ==
    [][Index({}) => \A r \in Range(Runs) : [from |-> r.from, to |-> r.to] \in sections']_vars
=============================================================================
