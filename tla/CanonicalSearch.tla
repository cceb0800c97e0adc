--------------------------- MODULE CanonicalSearch ---------------------------
(* The run of it: round 0 looks for every work of the plan, and for the        *)
(* substitutes of what cannot be had; triage ranks some of what was found, and *)
(* some of that is fetched and accepted; round 1 looks again for what failed.  *)
EXTENDS Canonical

VARIABLES
    phase,      \* "look", "choose" or "over"
    round,      \* 0 or 1
    open,       \* the lookups under way: [work, routes still to try, found, errors]
    canonical,  \* builder._canonical: a work's key -> its resolution
    queued,     \* builder._queued_substitutes
    proposed,   \* the round's candidates so far
    ranked,     \* builder._ranked_urls
    accepted,   \* the sources that passed validation
    asked,      \* (history) <<title, route>> of every route call made
    broken,     \* (history) works (title, sections) with a route that failed
    fails

vars == <<phase, round, open, canonical, queued, proposed, ranked, accepted,
          asked, broken, fails>>

Lookups(works) ==
    LET merged == MergeWorks(works)
    IN  [i \in 1..Len(merged) |-> [work |-> merged[i], routes |-> RoutesFor(merged[i]),
                                   found |-> <<>>, errors |-> {}]]

Init ==
    /\ phase = "look"
    /\ round = 0
    /\ open = Lookups(Works)
    /\ canonical = <<>>
    /\ queued = <<>>
    /\ proposed = <<>>
    /\ ranked = {}
    /\ accepted = {}
    /\ asked = {}
    /\ broken = {}
    /\ fails = 0

(* The lookups run side by side and share nothing before Resolve, so the order *)
(* of their calls is immaterial: each is finished before the next is begun.    *)
Turn(i) ==
    /\ phase = "look"
    /\ open[i].routes # <<>>
    /\ \A j \in 1..(i - 1) : open[j].routes = <<>>

(* One route of one lookup answers (_resolve_one); enough found, the rest of   *)
(* its routes are not tried.                                                   *)
RouteAnswers(i, hits) ==
    LET l == open[i]
        found == Joined(l.found, hits, l.work, l.routes[1])
        rest == IF Sufficient(l.work, found) THEN <<>> ELSE Tail(l.routes)
    IN  /\ Turn(i)
        /\ open' = [open EXCEPT ![i].found = found, ![i].routes = rest]
        /\ asked' = asked \cup {<<l.work.title, l.routes[1]>>}
        /\ UNCHANGED <<phase, round, canonical, queued, proposed, ranked, accepted,
                       broken, fails>>

(* A route raises: recorded, and the next one is tried.                        *)
RouteFails(i) ==
    LET l == open[i]
    IN  /\ Turn(i)
        /\ fails < MaxFails
        /\ fails' = fails + 1
        /\ open' = [open EXCEPT ![i].routes = Tail(@), ![i].errors = @ \cup {l.routes[1]}]
        /\ asked' = asked \cup {<<l.work.title, l.routes[1]>>}
        /\ broken' = broken \cup {<<l.work.title, l.work.sections>>}
        /\ UNCHANGED <<phase, round, canonical, queued, proposed, ranked, accepted>>

(* The end of resolve_works and _resolve_canonical: resolutions are kept by    *)
(* the work's key, and the substitutes of works that cannot be had, and were   *)
(* not found whole, are looked for in their turn.                              *)
Resolve ==
    LET resolved == [i \in 1..Len(open) |->
                        [work |-> open[i].work, errors |-> open[i].errors,
                         found |-> MarkPriority(open[i].work, open[i].found)]]
        Latest(k) == CHOOSE i \in DOMAIN resolved :
                         /\ Key(resolved[i].work) = k
                         /\ \A j \in (i + 1)..Len(resolved) : Key(resolved[j].work) # k
        keys == {Key(r.work) : r \in Range(resolved)}
        candidates == FlattenSeq([i \in 1..Len(resolved) |-> resolved[i].found])
        Wanted(r) == /\ r.work.sub # 0
                     /\ ~Obtainable(r.work)
                     /\ ~Whole(r.found)
                     /\ \A q \in Range(queued) : Key(q) # Key(Substitutes[r.work.sub])
        wanted == SelectSeq(resolved, Wanted)
        substitutes == [i \in 1..Len(wanted) |-> Substitutes[wanted[i].work.sub]]
    IN  /\ phase = "look"
        /\ \A i \in DOMAIN open : open[i].routes = <<>>
        /\ canonical' = [k \in DOMAIN canonical \cup keys |->
                            IF k \in keys THEN resolved[Latest(k)] ELSE canonical[k]]
        /\ queued' = queued \o substitutes
        /\ proposed' = MergeSameVolume(proposed \o candidates)
        /\ open' = Lookups(substitutes)
        /\ phase' = IF substitutes = <<>> THEN "choose" ELSE "look"
        /\ UNCHANGED <<round, ranked, accepted, asked, broken, fails>>

(* Triage ranks some of the candidates; of those, any may be fetched and pass  *)
(* validation, as whatever the validator takes it for.                         *)
Rank(urls) ==
    /\ phase = "choose"
    /\ ranked' = ranked \cup urls
    /\ phase' = "fetch"
    /\ UNCHANGED <<round, open, canonical, queued, proposed, accepted, asked, broken, fails>>

AcceptedAs(c, tier, cut, truncated) ==
    [url |-> c.url, title |-> c.title, author |-> c.author, whole |-> c.whole,
     concepts |-> c.concepts, figure |-> c.figure, tier |-> tier, cut |-> cut,
     truncated |-> truncated]

Accept(c, tier, cut, truncated) ==
    /\ phase = "fetch"
    /\ c.url \in ranked
    /\ c.url \notin {s.url : s \in accepted}
    /\ Cardinality(accepted) < MaxAccepted
    /\ cut => c.sections # {}
    /\ ~(cut /\ truncated)
    /\ accepted' = accepted \cup {AcceptedAs(c, tier, cut, truncated)}
    /\ UNCHANGED <<phase, round, open, canonical, queued, proposed, ranked, asked,
                   broken, fails>>

(* _retry_canonical, as round 1 begins: the plan's entries (not the substitutes)*)
(* whose title had a failing route, or hits of which triage ranked none, and   *)
(* that are not yet found.                                                     *)
AllWorks == Works \o queued
Failed == {r.work.title : r \in {r \in Range(canonical) :
              \/ r.errors # {}
              \/ r.found # <<>> /\ \A c \in Range(r.found) : c.url \notin ranked}}
Found == {o[1].title : o \in {o \in Outcomes(Works, accepted) : o[2] \in {"whole", "sections"}}}
Retries == SelectSeq(Works, LAMBDA w : w.title \in Failed /\ w.title \notin Found)

NextRound ==
    /\ phase = "fetch"
    /\ round = 0
    /\ round' = 1
    /\ open' = Lookups(Retries)
    /\ proposed' = <<>>
    /\ phase' = IF Retries = <<>> THEN "choose" ELSE "look"
    /\ UNCHANGED <<canonical, queued, ranked, accepted, asked, broken, fails>>

Stop ==
    /\ phase = "fetch"
    /\ phase' = "over"
    /\ UNCHANGED <<round, open, canonical, queued, proposed, ranked, accepted, asked,
                   broken, fails>>

Next ==
    \/ \E i \in {i \in DOMAIN open : open[i].routes # <<>>} :
           \E hits \in Hits(open[i].routes[1]) : RouteAnswers(i, hits)
    \/ \E i \in DOMAIN open : RouteFails(i)
    \/ Resolve
    \/ \E urls \in SUBSET {c.url : c \in Range(proposed)} : Rank(urls)
    \/ \E c \in Range(proposed), tier \in Tiers,
          cut, truncated \in BOOLEAN : Accept(c, tier, cut, truncated)
    \/ NextRound
    \/ Stop

Spec == Init /\ [][Next]_vars

-----------------------------------------------------------------------------
(* The best that was found for a work goes to the front of the fetch queue,    *)
(* whichever lookup's candidate its volume was merged into.                    *)
BestIsQueued ==
    phase = "choose" /\ round = 0 =>
        \A r \in Range(canonical) :
            LET best == {c \in Range(r.found) : c.priority}
                now == Range(proposed)
            IN  /\ r.found # <<>> <=> best # {}
                /\ Whole(r.found) => \A c \in best : c.whole /\ ~c.bare
                /\ \A b \in best, c \in now :
                       b.url = c.url => c.priority /\ c.rank <= b.rank
                                        /\ b.concepts \subseteq c.concepts
                                        /\ b.sections \subseteq c.sections

(* The build's two reports of its works, work by work and concept by concept,  *)
(* do not contradict each other: a concept has its named text only through a   *)
(* work that is reported found, at least in part.                              *)
ReportsAgree ==
    LET named == NamedTexts(AllWorks, accepted)
        outcomes == Outcomes(AllWorks, accepted)
    IN  \A c \in DOMAIN named : named[c] > 1 =>
            \E o \in outcomes : /\ c \in o[1].concepts
                                /\ o[2] \in {"whole", "sections", "partial"}

WorksAccounted == BestIsQueued /\ ReportsAgree

(* What coverage is told of a concept's named text never gets worse as rounds  *)
(* go on, whatever is looked for besides.                                      *)
TextsImprove ==
    LET now == NamedTexts(AllWorks, accepted)
        then == NamedTexts(AllWorks', accepted')
    IN  \A c \in DOMAIN now : c \in DOMAIN then /\ now[c] <= then[c]
NamedTextsOnlyImprove == [][TextsImprove]_vars

(* MustHaveWork.key says that a work is its title and its author; what is      *)
(* reported found should then be by that author.                               *)
FoundIsTheWork ==
    \A o \in Outcomes(AllWorks, accepted) : o[2] \in {"whole", "sections", "partial"} =>
        \E s \in accepted : s.title = o[1].title /\ s.author = o[1].author

(* What the comment on NOT_OBTAINABLE says of not_found: "a search failed to   *)
(* find something that can be had".                                            *)
NotFoundWasLookedFor ==
    phase = "over" =>
        \A o \in Outcomes(AllWorks, accepted) :
            o[2] = "not_found" /\ o[1].kind = "text" /\ o[1].pd =>
                <<o[1].title, "gutenberg">> \in asked

(* What the docstring of _retry_canonical says: a work with "a route that timed*)
(* out or errored" is looked for again, unless it was found.                   *)
FailuresAreRetried ==
    phase = "fetch" /\ round = 0 =>
        \A b \in broken :
            b[1] \in {w.title : w \in Range(Works)} => b[1] \in Failed \cup Found
=============================================================================
