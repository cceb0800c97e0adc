----------------------------- MODULE MCDiscovery -----------------------------
(* A canonical work found whole by the resolver (1) and again by a search that *)
(* gives it an identifier (2); two renderings of one article (3, 4) and a      *)
(* cited work (5).                                                             *)
EXTENDS Discovery

Rec(id, ids, url, fetcher, marks, names, title, type, ceiling, text) ==
    [id |-> id, ids |-> ids, url |-> url, fetcher |-> fetcher, route |-> FALSE, marks |-> marks,
     names |-> names, title |-> title, part |-> 0, prior |-> 0, cost |-> fetcher, type |-> type,
     stamps |-> [rank |-> IF marks = {} THEN 2 ELSE 0, ceiling |-> ceiling], text |-> text]

Ids2(doi, arxiv) == [k \in {"doi", "arxiv"} |-> IF k = "doi" THEN doi ELSE arxiv]
Text(length, print, price, within) ==
    [length |-> length, print |-> print, price |-> price, within |-> within,
     short |-> FALSE, english |-> 100]

MCRecord ==
    << Rec(1, Ids2(1, 0), 1, 3, {"priority", "must"}, 1, 10, "book", 1, Text(5, 10, 3, {})),
       Rec(2, Ids2(1, 2), 2, 1, {}, 0, 12, "paper", 0, Text(4, 20, 3, {})),
       Rec(3, Ids2(0, 3), 3, 1, {}, 0, 20, "paper", 0, Text(3, 30, 3, {})),
       Rec(4, Ids2(0, 0), 4, 4, {}, 0, 30, "paper", 0, Text(2, 31, 3, {})),
       Rec(5, Ids2(5, 0), 5, 1, {"priority"}, 0, 40, "paper", 0, [Text(3, 50, 3, {}) EXCEPT !.short = TRUE]) >>

(* The canonical copy without an identifier, at the address of the plain hit. *)
MCSameUrl == [MCRecord EXCEPT ![1].ids = Ids2(0, 0), ![1].url = 2]

MCScores == {Unscored, 55, 80}
MCHits == [ch \in {"exa", "arxiv"} |-> IF ch = "exa" THEN <<4, 3>> ELSE <<2, 3>>]
MCCanonical == <<1>>
MCTwoWorks == <<1, 5>>
MCSnowball == <<5, 4>>
MCTypeCap == [t \in {"book", "paper"} |-> IF t = "paper" THEN 2 ELSE 1]
=============================================================================
