------------------------------- MODULE Pictures -------------------------------
(* An expert's picture.  First experts/picture.py over                         *)
(* infrastructure/wikimedia.py: which article's lead image, of those the       *)
(* searches bring up, is its picture.  Then the build's two looks for one      *)
(* (builder.py), the owner's refresh and delete (experts/service.py,           *)
(* api/routes/experts.py), and the row they share                              *)
(* (experts/picture_repository.py).  Wikipedia is a set of pages, by title:    *)
(*   image (it has a free lead image), mark, small, disambiguation, human,     *)
(*   dead, licence ("free", "refused", "none" or "restricted"), jpeg, area     *)
EXTENDS Integers, Sequences, FiniteSets, SequencesExt, Functions, TLC

CONSTANTS Topic,            \* the expert's topic: a query like any other
          Pages,            \* title -> page
          Redirects,        \* title -> the title of the page it leads to
          Search(_),        \* query -> titles, best first: at most three
          Related,          \* <<title, query>>: they share a substantial word
          Concepts,         \* the expert's key concepts
          Hints,            \* its own Wikipedia sources' titles
          Suggestions,      \* what suggest_subjects may answer
          Broken,           \* the pages whose images cannot be downloaded, at a time
          MaxOwner          \* bound on what the owner does

MaxQueries == 6
MaxTitles == 8
MaxShortlist == 6

Upto(s, n) == SubSeq(s, 1, IF n < Len(s) THEN n ELSE Len(s))
Listed(s) == SubSeq(s, 1, Len(s))
Once(seq) == FoldLeft(LAMBDA out, x : IF x \in Range(out) THEN out ELSE Append(out, x),
                      <<>>, seq)
Sorted(seq, Before(_, _)) ==
    LET at == SortSeq([i \in 1..Len(seq) |-> i],
                  LAMBDA i, j : \/ Before(seq[i], seq[j])
                                \/ ~Before(seq[j], seq[i]) /\ i < j)
    IN  Listed([i \in 1..Len(seq) |-> seq[at[i]]])

(* build_queries: the topic, the corpus's own articles, four of the concepts.  *)
BuildQueries(concepts, hints) == Upto(Once(<<Topic>> \o hints \o Upto(concepts, 4)), MaxQueries)

(* Every query's best hit before any query's second.                           *)
Interleaved(perQuery) ==
    LET At(depth) == SelectSeq(perQuery, LAMBDA hits : Len(hits) >= depth)
        Row(depth) == LET long == At(depth) IN [i \in 1..Len(long) |-> long[i][depth]]
    IN  Upto(Once(Row(1) \o Row(2) \o Row(3)), MaxTitles)

(* title_query: the query whose hit a title was, first in that order; a page   *)
(* that answers under another title than it was asked by is the topic's.       *)
QueryOf(title, queries, perQuery) ==
    LET Depths(k) == {d \in DOMAIN perQuery[k] : perQuery[k][d] = title}
        found == {<<d, k>> \in (1..3) \X (DOMAIN queries) : d \in Depths(k)}
        first == CHOOSE f \in found : \A g \in found :
                     f[1] < g[1] \/ (f[1] = g[1] /\ f[2] <= g[2])
    IN  IF found = {} THEN Topic ELSE queries[first[2]]

(* _positions: the depth in the last query that has the title; for suggestions *)
(* the place of the first.                                                     *)
Position(title, perQuery, suggested) ==
    LET found == {<<k, d>> \in (DOMAIN perQuery) \X (1..3) :
                      d <= Len(perQuery[k]) /\ perQuery[k][d] = title}
        k == CHOOSE k \in {f[1] : f \in found} : \A f \in found :
                 IF suggested THEN k <= f[1] ELSE k >= f[1]
        depth == CHOOSE d \in 1..3 : <<k, d>> \in found /\ \A e \in 1..3 :
                     <<k, e>> \in found => (IF suggested THEN d <= e ELSE d >= e)
    IN  IF found = {} THEN 99
        ELSE IF suggested THEN 10 * (k - 1) + depth - 1 ELSE depth - 1

(* is_on_topic, is_living_human, is_free_license and the page's own gates.     *)
OnTopic(title, query) == query = Topic \/ <<title, query>> \in Related
                         \/ <<title, Topic>> \in Related
Living(page) == page.human /\ ~page.dead
Shows(title, query) ==
    LET page == Pages[title]
    IN  /\ page.image /\ ~page.disambiguation /\ ~page.small /\ ~page.mark
        /\ OnTopic(title, query)
Licensed(title) == Pages[title].licence = "free"

(* Mutant: what is not known to be a person is not asked whether it is alive,  *)
(* and what is known is let through.                                           *)
AcceptableAlive(title, query) == Shows(title, query) /\ Licensed(title)

Acceptable(title, query) ==
    Shows(title, query) /\ ~Living(Pages[title]) /\ Licensed(title)

(* rank *)
Ranked(candidates) ==
    LET Bit(b) == IF b THEN 0 ELSE 1
        Less(a, b) == \E i \in DOMAIN a : a[i] < b[i] /\ \A j \in 1..(i - 1) : a[j] = b[j]
        RankKey(c) == <<Bit(c.title = Topic), Bit(c.title = c.query), c.rank,
                        Bit(Pages[c.title].jpeg), -Pages[c.title].area>>
    IN  Sorted(candidates, LAMBDA c, d : Less(RankKey(c), RankKey(d)))

(* _find, up to the downloads: the shortlist.  page_images follows redirects   *)
(* and answers with the pages it ends at.                                      *)
Shortlist(queries, perQuery, suggested) ==
    LET titles == Interleaved(perQuery)
        pages == Once([i \in 1..Len(titles) |-> Redirects[titles[i]]])
        Candidate(title) == [title |-> title, query |-> QueryOf(title, queries, perQuery),
                             rank |-> Position(title, perQuery, suggested)]
        known == SelectSeq(pages, LAMBDA t : t \in DOMAIN Pages)
        kept == SelectSeq(known, LAMBDA t : Acceptable(t, Candidate(t).query))
    IN  Upto(Ranked(Listed([i \in 1..Len(kept) |-> Candidate(kept[i])])), MaxShortlist)

Direct(concepts, hints) ==
    LET queries == BuildQueries(concepts, hints)
    IN  Shortlist(queries, Listed([i \in 1..Len(queries) |-> Search(queries[i])]), FALSE)
Widened(subjects) ==
    LET queries == Upto(subjects, MaxQueries)
    IN  Shortlist(queries, Listed([i \in 1..Len(queries) |-> <<queries[i]>>]), TRUE)

(* The first of a shortlist whose bytes can be had, are an image and are under *)
(* the cap (WikimediaClient.download, sniff).                                  *)
Downloaded(shortlist, broken) ==
    LET good == SelectSeq(shortlist, LAMBDA c : c.title \notin broken)
    IN  IF good = <<>> THEN "none" ELSE good[1].title

(* find_picture: widened only by what the direct search could not find.        *)
FindPicture(concepts, hints, broken, subjects) ==
    LET direct == Downloaded(Direct(concepts, hints), broken)
    IN  IF direct # "none" \/ subjects = <<>> THEN direct
        ELSE Downloaded(Widened(subjects), broken)

-----------------------------------------------------------------------------
Lookers == {"first", "retry", "owner"}
NoLook == [at |-> "off", found |-> "none", hints |-> <<>>]

VARIABLES
    build,      \* "building", "retrying", "done" or "torn" (failed, cancelled)
    look,       \* looker -> [at: "off", "check", "search", "write", "tell"]
    row,        \* expert_pictures: [title, by]; title "none": no row
    events,     \* the build log's picture events, in order
    owner       \* what the owner has done so far

vars == <<build, look, row, events, owner>>

NoRow == [title |-> "none", by |-> "none"]

Init ==
    /\ build = "building"
    /\ look = [l \in Lookers |-> IF l = "first" THEN [NoLook EXCEPT !.at = "check"] ELSE NoLook]
    /\ row = NoRow
    /\ events = <<>>
    /\ owner = <<>>

Skip(l, reason) ==
    /\ look' = [look EXCEPT ![l] = NoLook]
    /\ events' = IF l = "owner" THEN events ELSE Append(events, <<"picture_skipped", reason>>)

(* _find_and_store_picture and _retry_picture: an expert that has a picture is *)
(* left as it is.  A refresh does not ask.                                     *)
Check(l) ==
    /\ look[l].at = "check"
    /\ look' = [look EXCEPT ![l].at = IF row # NoRow /\ l # "owner" THEN "off" ELSE "search"]
    /\ UNCHANGED <<build, row, events, owner>>

(* find_picture finds one, runs into its deadline, or is refused.              *)
Found(l, broken, subjects) ==
    LET title == FindPicture(IF l = "first" THEN <<>> ELSE Concepts, look[l].hints,
                             broken, subjects)
    IN  /\ look[l].at = "search"
        /\ IF title = "none" THEN Skip(l, "no_candidate")
           ELSE /\ look' = [look EXCEPT ![l].at = "write", ![l].found = title]
                /\ UNCHANGED events
        /\ UNCHANGED <<build, row, owner>>

FindFails(l) ==
    /\ look[l].at = "search"
    /\ \E reason \in {"timeout", "provider_unavailable"} : Skip(l, reason)
    /\ UNCHANGED <<build, row, owner>>

(* upsert: the row is the expert's, whoever writes it.                         *)
Upsert(l) ==
    /\ look[l].at = "write"
    /\ row' = [title |-> look[l].found, by |-> l]
    /\ look' = [look EXCEPT ![l].at = IF l = "owner" THEN "off" ELSE "tell"]
    /\ UNCHANGED <<build, events, owner>>

UpsertFails(l) ==
    /\ look[l].at = "write"
    /\ Skip(l, "provider_unavailable")
    /\ UNCHANGED <<build, row, owner>>

Tell(l) ==
    /\ look[l].at = "tell"
    /\ look' = [look EXCEPT ![l] = NoLook]
    /\ events' = Append(events, <<"picture_ready", look[l].found>>)
    /\ UNCHANGED <<build, row, owner>>

(* _await_picture, which gives up on the first look after a while, and then    *)
(* _retry_picture; its hints may not be readable.                              *)
AwaitPicture(hints) ==
    /\ build = "building"
    /\ build' = "retrying"
    /\ look' = [look EXCEPT !["retry"] = [NoLook EXCEPT !.at = "check", !.hints = hints]]
    /\ UNCHANGED <<row, events, owner>>

(* build's finally: the first look, if it is still at it, is cancelled.        *)
Ends ==
    /\ build = "retrying" /\ look["retry"].at = "off"
    /\ build' = "done"
    /\ look' = [look EXCEPT !["first"] = NoLook]
    /\ UNCHANGED <<row, events, owner>>

(* The build fails, or is cancelled.                                           *)
Torn ==
    /\ build \in {"building", "retrying"}
    /\ build' = "torn"
    /\ look' = [l \in Lookers |-> IF l = "owner" THEN look[l] ELSE NoLook]
    /\ UNCHANGED <<row, events, owner>>

(* The owner's routes.                                                         *)
Refresh ==
    /\ Len(owner) < MaxOwner
    /\ look["owner"].at = "off"
    /\ look' = [look EXCEPT !["owner"] = [NoLook EXCEPT !.at = "search", !.hints = Hints]]
    /\ owner' = Append(owner, "refresh")
    /\ UNCHANGED <<build, row, events>>

Delete ==
    /\ Len(owner) < MaxOwner
    /\ row' = NoRow
    /\ owner' = Append(owner, "delete")
    /\ UNCHANGED <<build, look, events>>

(* A rebuild begins with a first look of its own.                              *)
Rebuild ==
    /\ build \in {"done", "torn"}
    /\ Len(owner) < MaxOwner
    /\ build' = "building"
    /\ look' = [look EXCEPT !["first"] = [NoLook EXCEPT !.at = "check"]]
    /\ events' = <<>>
    /\ owner' = Append(owner, "rebuild")
    /\ UNCHANGED row

Next ==
    \/ \E l \in Lookers :
        \/ Check(l) \/ FindFails(l) \/ Upsert(l) \/ UpsertFails(l) \/ Tell(l)
        \/ \E broken \in Broken, subjects \in Suggestions :
               Found(l, broken, subjects)
    \/ \E hints \in {<<>>, Hints} : AwaitPicture(hints)
    \/ Ends \/ Torn \/ Refresh \/ Delete \/ Rebuild

Spec == Init /\ [][Next]_vars

-----------------------------------------------------------------------------
(* What is stored passed every gate, by whichever search it came: it may be    *)
(* shown, its licence allows it, and it is nobody's who is alive               *)
(* (suggest_subjects: "a bad suggestion ... cannot produce a bad picture").    *)
PictureIsFit ==
    row # NoRow => LET page == Pages[row.title]
                   IN  /\ page.image /\ ~page.mark /\ ~page.disambiguation
                       /\ page.licence = "free" /\ ~Living(page)

(* A build's log says what came of its looks.  Of a picture that a look of the *)
(* build put there the log tells, or that look is about to tell: only the end  *)
(* of the build can cut it off in between, the first look's at that, for the   *)
(* retry's is waited for.  And each look says at most one thing.               *)
LogTellsOfIt ==
    /\ Len(events) <= 2
    /\ build # "torn" /\ row.by \in {"first", "retry"} /\ "rebuild" \notin Range(owner)
        => \/ <<"picture_ready", row.title>> \in Range(events)
           \/ build = "done" /\ row.by = "first"
           \/ look[row.by].at = "tell" /\ look[row.by].found = row.title

PictureHolds == PictureIsFit /\ LogTellsOfIt

(* What the docstring of delete_expert_picture says: it is "how an owner says  *)
(* not this, and not any".                                                     *)
DeletedStays ==
    [][owner' = owner /\ owner # <<>> /\ Last(owner) = "delete" /\ look["owner"].at = "off"
           => row' = row]_vars

(* What the comment in _find_and_store_picture says: the owner "may have chosen*)
(* this one", and a build leaves it.                                           *)
OwnersChoiceStands ==
    [][row.by = "owner" /\ row' # row => row'.by \in {"owner", "none"}]_vars

(* What the comment in _find says of a title: its "Position within the query   *)
(* that found it".                                                             *)
PlacedByItsQuery ==
    LET queries == BuildQueries(Concepts, Hints)
        perQuery == [i \in DOMAIN queries |-> Search(queries[i])]
    IN  \A c \in Range(Direct(Concepts, Hints)) :
            \E k \in DOMAIN queries : queries[k] = c.query
                /\ c.rank + 1 <= Len(perQuery[k]) /\ perQuery[k][c.rank + 1] = c.title

(* What the comment in _find says of suggestions: they "arrive best first — an *)
(* order worth keeping".                                                       *)
SuggestionsKeepTheirOrder ==
    \A subjects \in Suggestions :
        LET list == Widened(subjects)
            At(title) == CHOOSE i \in DOMAIN subjects : Redirects[subjects[i]] = title
        IN  \A i, j \in DOMAIN list :
                i < j /\ list[i].title # Topic => At(list[i].title) <= At(list[j].title)
=============================================================================
