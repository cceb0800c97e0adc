------------------------------- MODULE MCParts --------------------------------
(* Small instances of the parts of the system that share no state with one     *)
(* another.  `part' says which one a behaviour is of; its variables are kept in*)
(* x1, x2, ... and the rest of them stay empty.                                *)
EXTENDS Integers, Sequences, FiniteSets, TLC

VARIABLES part, x1, x2, x3, x4, x5, x6, x7, x8, x9, x10, x11, x12, x13, x14, x15, x16, x17

slots == <<x1, x2, x3, x4, x5, x6, x7, x8, x9, x10, x11, x12, x13, x14, x15, x16, x17>>

-----------------------------------------------------------------------------
(* validation: three sources in two batches, marks on either side of the bar   *)
(* and inside the band that is asked about again.                              *)
MCBatches == <<<<"a", "b">>, <<"c">>>>
Marks(q, r, whole) == [q |-> q, r |-> r, whole |-> whole]
MCEntries == {Marks(9, 9, TRUE), Marks(4, 9, TRUE), Marks(1, 9, TRUE), Marks(9, 9, FALSE)}

(* curation *)
Source(id, tags, tier, type, content, substance, year, text, refs, q) ==
    [id |-> id, tags |-> tags, cut |-> {}, tier |-> tier, type |-> type,
     content |-> content, substance |-> substance, year |-> year, review |-> FALSE,
     named |-> FALSE, abstract |-> 0, text |-> text, refs |-> refs, q |-> q, r |-> q]

Survey == Source(1, <<<<1, 2>>, <<2, 2>>, <<3, 2>>, <<4, 1>>>>, "secondary", "web",
                 "textbook", "full", 0, 30, 0, 8)
Treatment == Source(2, <<<<1, 2>>, <<2, 1>>>>, "primary", "gutenberg", "reference", "full",
                  0, 40, 0, 9)
Paper == Source(3, <<<<4, 1>>>>, "primary", "arxiv", "paper", "full", 2020, 60, 50, 7)
Preprint == Source(4, <<<<3, 3>>, <<4, 2>>>>, "secondary", "pdf", "paper", "partial",
                   1980, 25, 0, 6)
Overview == Source(5, <<<<3, 1>>>>, "tertiary", "wikipedia", "reference", "full", 0, 20, 0, 7)
Guide == Source(6, <<<<1, 1>>, <<3, 2>>>>, "tertiary", "web", "tutorial", "full", 0, 25, 0, 6)
Blurb == [Source(7, <<<<2, 1>>>>, "secondary", "openalex", "paper", "abstract", 2021, 2, 0, 8)
             EXCEPT !.abstract = 9]
Stub == Source(8, <<<<2, 1>>>>, "secondary", "openalex", "paper", "abstract", 2021, 1, 0, 8)
Abstract == [Blurb EXCEPT !.id = 9, !.q = 5]

MCOffers == {<<Survey, Preprint>>, <<Treatment>>,
                  <<[Paper EXCEPT !.refs = 0], Overview, Guide>>, <<Blurb, Stub, Abstract>>}
MCSyllabus == <<1, 2, 3, 4>>
MCFacets == <<<<1, 2, 3>>, <<3, 4>>>>
MCTarget == [sources |-> 2, types |-> 2, evidence |-> TRUE, primary |-> TRUE,
             kind |-> "research_front", today |-> 2026]

(* canonical *)
Entry(title, author, kind, pd, sections, scope, concepts, sub) ==
    [title |-> title, author |-> author, kind |-> kind, pd |-> pd, open |-> FALSE,
     sections |-> sections, scope |-> scope, concepts |-> concepts, figure |-> 0,
     sub |-> sub]

(* A long work named for the topic and for two concepts, by two of its parts;  *)
(* and a book in copyright, with something that may stand in for it.           *)
MCNamedWorks == <<Entry(1, 1, "text", TRUE, 0, "overall", {}, 0),
             Entry(1, 1, "text", TRUE, 1, "concept", {1}, 0),
             Entry(1, 1, "text", TRUE, 2, "concept", {2}, 0),
             Entry(2, 2, "text", FALSE, 0, "concept", {2}, 1)>>
MCSubstitutes == <<Entry(3, 3, "paper", FALSE, 0, "concept", {2}, 0)>>

(* Two authors' works of one title.                                            *)
MCNamesakes == <<Entry(1, 1, "text", TRUE, 0, "overall", {}, 0),
                 Entry(1, 2, "text", TRUE, 0, "overall", {}, 0)>>

(* A work known to be free by its overall entry only.                          *)
MCHalfKnown == <<Entry(1, 1, "text", TRUE, 0, "overall", {}, 0),
                 Entry(1, 1, "text", FALSE, 1, "concept", {1}, 0)>>

Hit(url, whole, bare, expected) ==
    [url |-> url, whole |-> whole, bare |-> bare, expected |-> expected]
MCHits(route) ==
    CASE route = "gutenberg" -> {<<Hit("g1", FALSE, FALSE, TRUE)>>}
      [] route = "archive"   -> {<<Hit("a1", TRUE, FALSE, FALSE)>>}
      [] route = "openalex"  -> {<<Hit("o1", TRUE, TRUE, FALSE)>>}
      [] route = "exa"       -> {<<Hit("x1", FALSE, FALSE, FALSE)>>}
      [] OTHER               -> {<<>>}

(* follow-up *)
MCRawPlans == {[facets |-> <<<<"a", "b">>, <<"b", "c">>>>, concepts |-> <<"d">>],
               [facets |-> <<<<"a">>, <<"b", "c", "d">>, <<"e">>>>, concepts |-> <<"a">>],
               [facets |-> <<>>, concepts |-> <<"a", "b", "a">>]}
MCSearchQueries == {<<>>, <<<<"a", "q">>, <<"x", "q">>, <<"a", "r">>>>}
MCTexts == {<<>>, <<<<"a", "T">>, <<"a", "T">>, <<"a", "U">>, <<"x", "V">>>>}
MCCites ==
    [s1 |-> [backward |-> {"p", "q"}, forward |-> {"r"}],
     s2 |-> [backward |-> {"q", "r"}, forward |-> {"p", "s1"}]]
MCCitations == [p |-> 9, q |-> 2, r |-> 4, s1 |-> 1]
MCReadable == [p |-> TRUE, q |-> TRUE, r |-> TRUE, s1 |-> TRUE]

(* chunker: chunks of at most 20 characters, of at least 6. *)
MCParagraphs == {<<2>>, <<2, 2>>, <<5>>, <<9>>, <<14, 4>>, <<6, 3>>, <<15>>, <<20>>, <<12, 7, 3>>, <<43, 2>>}

(* long work: up to sixteen passages: questions with articles in them, a table *)
(* of contents before the chapters, books with chapters, no headings at all.     *)
At(kind, num, at) == [kind |-> kind, num |-> num, at |-> at]
Treatise == [len |-> 16, heads |-> <<At("question", 1, 2), At("question", 2, 5),
                                     At("article", 1, 7), At("question", 3, 9),
                                     At("question", 4, 13)>>]
ContentsFirst == [len |-> 14, heads |-> <<At("chapter", 1, 0), At("chapter", 2, 1),
                                   At("chapter", 1, 2), At("chapter", 2, 7),
                                   At("chapter", 3, 11)>>]
Books == [len |-> 15, heads |-> <<At("book", 1, 1), At("chapter", 1, 2),
                                  At("chapter", 2, 5), At("book", 2, 8),
                                  At("chapter", 1, 9), At("chapter", 2, 13)>>]
Plain == [len |-> 13, heads |-> <<>>]

MCLongWorks == {Treatise, ContentsFirst, Books, Plain}
MCHints == {<<>>, "question" :> {2, 4}, "chapter" :> {2}, "book" :> {2} @@ "chapter" :> {1},
            "question" :> {2} @@ "article" :> {1}}
MCJunks == {{}, {3}, {7, 8}, {12}}
MCFocuses == {"a" :> 10 @@ "b" :> 3, "a" :> 12 @@ "b" :> 11, "a" :> 0 @@ "b" :> 14}

(* graph: two spellings of a concept, two claims that say much the same, and   *)
(* answers with the faults the parser allows for: a field missing, a type out  *)
(* of the vocabulary, a chunk out of range, a label under the other type.      *)
node(label, type, indices) == [label |-> label, node_type |-> type, chunk_indices |-> indices]
edge(from, to, type)       == [from |-> from, to |-> to, type |-> type, stated |-> FALSE]

Spellings ==
    [nodes |-> <<node("mite", "concept", {0}), node("mites", "concept", {1}),
                 node("kills", "claim", {0}), node("slays", "claim", {1, 7})>>,
     edges |-> <<edge("kills", "mite", "about"), edge("mite", "mites", "part_of"),
                 edge("slays", "", "about")>>]

BothWays ==
    [nodes |-> <<node("mite", "concept", {0}), node("mites", "concept", {0}),
                 node("hive", "place", {0}), node("kills", "", {0})>>,
     edges |-> <<edge("mite", "mites", "part_of"), edge("mites", "mite", "part_of")>>]

OtherType ==
    [nodes |-> <<node("kills", "concept", {0}), node("slays", "claim", {0})>>,
     edges |-> <<edge("slays", "kills", "about")>>]

MCExtractions == {Spellings, BothWays, OtherType}
MCRelations == {{}, {[type |-> "contradicts", from |-> 0, to |-> 1, stated |-> TRUE],
                     [type |-> "qualifies", from |-> 1, to |-> 0, stated |-> FALSE]}}
MCCanonicalClass == [k \in {"mite", "mites", "kills", "slays"} |-> IF k = "mites" THEN "mite" ELSE k]

(* funnel *)
Sh(a, b, flaky, cited, pooled, ranked, fetched, copies, passed) ==
    [hits |-> ("web" :> a @@ "papers" :> b), flaky |-> flaky, cited |-> cited,
     pooled |-> pooled, ranked |-> ranked, fetched |-> fetched, copies |-> copies,
     passed |-> passed]
MCShapes == {Sh(0, 0, {"web"}, 0, 0, 0, 0, 0, 0), Sh(2, 1, {"papers"}, 0, 2, 2, 1, 0, 1),
             Sh(3, 2, {}, 0, 4, 3, 2, 1, 1), Sh(1, 1, {}, 2, 3, 2, 2, 0, 0)}

(* outline *)
K(h, g, held, skip, opens, nodes) == [heading |-> h, group |-> g, held |-> held, skip |-> skip, opens |-> opens, nodes |-> nodes]
MCKinds == {K(1, 0, FALSE, 0, TRUE, 1), K(2, 1, FALSE, 0, FALSE, 2), K(0, 1, FALSE, 1, TRUE, 0),
            K(0, 2, FALSE, 0, FALSE, 1), K(0, 0, TRUE, 0, FALSE, 0), K(1, 1, TRUE, 1, FALSE, 0)}

(* map *)
MCMentions == 1 :> {1, 2} @@ 2 :> {2, 3, 4} @@ 3 :> {2, 4, 5}
MCAbout == "p" :> {1, 2} @@ "q" :> {2} @@ "r" :> {3, 4}
MCPlans == {[named |-> <<<<1, "missing", "A">>, <<2, "found", "B">>>>,
             must |-> <<<<"A", "not_found">>, <<"C", "not_found">>, <<"C", "not_found">>>>]}
MCPlans2 == {[named |-> <<<<1, "missing", "A">>, <<2, "missing", "A">>>>, must |-> <<>>]}

(* report: a corpus of an earlier build, rows from before scores and rubrics   *)
(* among it, two sources of one title, a re-search for a concept with a colon  *)
(* in its name; one whose graph names a deleted source; one just ingested; and *)
(* one before its claims were compared.                                        *)
Considered(passed, q, r, type, title, reason, via, judged, tags) ==
    [passed |-> passed, q |-> q, r |-> r, type |-> type, title |-> title, reason |-> reason,
     via |-> via, judged |-> judged, tagged |-> tags # {}, tags |-> tags \ {<<>>}]
Unjudged == <<"none", "none">>
MCCatalog ==
    <<Considered(TRUE, 8, 9, 1, 2, 0, <<"plan">>, <<"v5", "fast">>, {<<"mite">>}),
      Considered(FALSE, 3, 9, 2, 1, 1, <<"snowball", "backward">>, <<"v5", "strong">>, {}),
      Considered(FALSE, -1, 4, 1, 4, 0, <<>>, Unjudged, {}),
      Considered(TRUE, 10, 7, 1, 3, 0, <<"gapfill", "hive">>, <<"v3", "fast">>,
                 {<<"mite">>, <<"wax">>}),
      Considered(TRUE, -1, -1, 2, 5, 0, <<"upload">>, Unjudged, {<<>>, <<"mite">>}),
      Considered(FALSE, 9, 9, 1, 6, 2, <<"gapfill", "queen", "rearing">>, <<"v3", "fast">>, {}),
      Considered(TRUE, 5, 6, 2, 3, 0, <<"plan">>, <<"v3", "fast">>, {}),
      Considered(TRUE, -1, -1, 1, 7, 0, <<"upload">>, Unjudged, {<<>>})>>
MCPassages == <<<<11>>, <<>>, <<>>, <<41, 42, 43>>, <<51>>, <<>>, <<71>>, <<81>>>>
MCClaims == <<<<41, 42, 43>>, <<42, 51>>, <<71>>, <<43, 71>>>>
Relation(id, from, to, type, evidence) ==
    [id |-> id, from |-> from, to |-> to, type |-> type, evidence |-> evidence]
MCEdges == {Relation(1, 1, 2, "contradicts", 2), Relation(2, 3, 4, "contradicts", 1),
            Relation(3, 1, 3, "supports", 1), Relation(4, 2, 3, "contradicts", 2)}
MCPlanned == <<<<"mite">>, <<"hive">>, <<"queen", "rearing">>>>
Began(rows, gone, graph, ready) ==
    [rows |-> rows, gone |-> gone, graph |-> graph, ready |-> ready]
MCStarts == {Began({3, 4, 5, 6, 7}, {}, TRUE, TRUE), Began({4, 6, 8}, {5, 7}, TRUE, TRUE),
             Began({1, 2, 5}, {}, FALSE, FALSE), Began({3, 6, 7}, {}, TRUE, FALSE)}
AskFor(kind, decision, sort) == [kind |-> kind, decision |-> decision, sort |-> sort]
MCAsks == {AskFor("report", "all", "decision"), AskFor("report", "rejected", "quality"),
           AskFor("report", "accepted", "title"), AskFor("export", "all", "decision"),
           AskFor("export", "rejected", "decision")}
          \cup {AskFor(kind, "all", "decision") :
                    kind \in {"screening", "coverage", "contradictions", "graph"}}

(* pictures *)
Page(image, mark, human, dead, licence, jpeg) ==
    [image |-> image, mark |-> mark, small |-> FALSE, disambiguation |-> FALSE,
     human |-> human, dead |-> dead, licence |-> licence, jpeg |-> jpeg, area |-> 1]

MCPages == [ethics  |-> Page(FALSE, FALSE, FALSE, FALSE, "free", TRUE),
            zeno    |-> Page(TRUE, FALSE, TRUE, TRUE, "free", TRUE),
            scholar |-> Page(TRUE, FALSE, TRUE, FALSE, "free", TRUE),
            jacket  |-> Page(TRUE, FALSE, FALSE, FALSE, "refused", TRUE),
            bust    |-> Page(TRUE, FALSE, FALSE, FALSE, "free", FALSE)]
MCRedirects == [t \in {"ethics", "zeno", "scholar", "jacket", "bust", "sculpture"} |->
                   IF t = "sculpture" THEN "bust" ELSE t]
MCSearch(query) ==
    CASE query = "ethics" -> <<"ethics", "scholar">>
      [] query = "virtue" -> <<"zeno", "jacket">>
      [] query = "zeno"   -> <<"zeno">>
      [] OTHER            -> <<"jacket", "zeno", "bust">>
MCRelated == {<<"zeno", "zeno">>, <<"zeno", "virtue">>, <<"zeno", "logic">>, <<"bust", "logic">>,
              <<"jacket", "logic">>, <<"jacket", "virtue">>}

-----------------------------------------------------------------------------
Judge == INSTANCE Validation WITH
    Batches <- MCBatches, Entries <- MCEntries, SecondOpinion <- TRUE, phase <- x1,
    asked <- x2, verdicts <- x3, reviews <- x4, told <- x5, answers <- x6
Curate == INSTANCE Curation WITH
    Concepts <- MCSyllabus, Facets <- MCFacets, Target <- MCTarget,
    Offers <- MCOffers, AbstractCap <- 2, TertiaryCap <- 4, Paragraph <- 1,
    SearchWidth <- 2, MinAbstract <- 8, MinChars <- 10, ShareCap <- 4, corpus <- x1,
    dropped <- x2, named <- x3, coverage <- x4, over <- x5
Named == INSTANCE CanonicalSearch WITH
    Works <- MCNamedWorks, Substitutes <- MCSubstitutes, HasExa <- TRUE,
    Hits <- MCHits, Tiers <- {"primary", "secondary"}, MaxFails <- 1,
    MaxAccepted <- 2, phase <- x1, round <- x2, open <- x3, canonical <- x4,
    queued <- x5, proposed <- x6, ranked <- x7, accepted <- x8, asked <- x9,
    broken <- x10, fails <- x11
Follow == INSTANCE FollowUp WITH
    RawPlans <- MCRawPlans, MaxFacets <- 2, FacetSize <- 2, MaxConcepts <- 3,
    Answers <- MCSearchQueries, Suggestions <- MCTexts,
    Channels <- {"web", "gutenberg"}, LoopChannels <- {"web"},
    PlanChannels <- {"gutenberg"}, Seeds <- {"s1", "s2"}, Cites <- MCCites,
    Citations <- MCCitations, Readable <- MCReadable, Floor <- <<1, 2>>,
    CoCited <- 2, MaxProposed <- 2, MaxRounds <- 1, plan <- x1, syllabus <- x2,
    round <- x3, pc <- x4, weak <- x5, failing <- x6, queries <- x7, searched <- x8,
    tried <- x9, texts <- x10, accepted <- x11, toAsk <- x12, got <- x13,
    pool <- x14, proposed <- x15, seen <- x16, offered <- x17
Calls == INSTANCE ProviderCalls WITH
    Calls <- 2, Stages <- {"triage", "validation"}, Cap <- 4, MaxErrors <- 3,
    MaxBadFlushes <- 1, TornFlushes <- FALSE, way <- x1, results <- x2, set <- x3,
    asked <- x4, attempts <- x5, answers <- x6, reported <- x7, terminal <- x8,
    spending <- x9, flushing <- x10, paid <- x11, faults <- x12
Chunks == INSTANCE Chunker WITH
    Paragraphs <- MCParagraphs, MaxChars <- 20, MinChars <- 6, Overlap <- 5,
    MaxParagraphs <- 3, text <- x1, chunks <- x2
Long == INSTANCE LongWork WITH
    Works <- MCLongWorks, Hints <- MCHints, Junks <- MCJunks, Focuses <- MCFocuses,
    Concepts <- <<"a", "b">>, Containers <- {"book"},
    SegmentKinds <- <<"question", "chapter", "book">>, Cap <- 6, FrontMatter <- 2,
    MinSection <- 1, Budget <- 7, MinSegment <- 2, MaxSegment <- 4, Window <- 3,
    GraphLimit <- 8, MinRun <- 2, MaxRun <- 4, work <- x1, hint <- x2, junk <- x3,
    focus <- x4, pc <- x5, spans <- x6, tails <- x7, chunks <- x8, graphed <- x9,
    sections <- x10
Graph == INSTANCE ConceptGraph WITH
    Upload <- {"u1"}, Answers <- MCExtractions, Relations <- MCRelations,
    CanonicalClass <- MCCanonicalClass,
    Near <- {{"kills", "slays"}, {"mite", "kills"}},
    BuildSources <- <<"web1", "web2">>, MaxNodes <- 6, MaxFailures <- 1,
    MaxInferredAbout <- 1, MaxClaims <- 3, MinSources <- 2, MaxConcepts <- 2,
    nodes <- x1, evidence <- x2, lastId <- x3, task <- x4, failures <- x5
Funnel == INSTANCE AuditFunnel WITH
    Fetchers <- {"web", "papers"}, Shapes <- MCShapes,
    Budget <- [r \in 0..1 |-> 2 - r], MaxRounds <- 1, MaxAttempts <- 2, pc <- x1,
    n <- x2, shape <- x3, toSearch <- x4, attempt <- x5, log <- x6, ready <- x7,
    rows <- x8, did <- x9
Outlined == INSTANCE Outline WITH
    Kinds <- MCKinds, MinPart <- 2, MaxPassages <- 6, read <- x1, parts <- x2
Map == INSTANCE ExpertMap WITH
    SourceIds <- 1..3, Mentions <- MCMentions, Degree <- <<3, 2, 5, 1, 2>>,
    Sector <- <<0, 0, 0, 1, 7>>, PartOf <- {<<1, 2>>, <<3, 2>>, <<4, 5>>},
    About <- MCAbout, Disputes <- {<<"p", "q">>, <<"q", "r">>}, Plans <- MCPlans,
    KeyConcepts <- 2, SharedMin <- 2, TopUp <- 2, MaxShown <- 3, MaxExpanded <- 4,
    MaxChanges <- 4, plan <- x1, sources <- x2, nodes <- x3, against <- x4,
    ready <- x5, request <- x6, changes <- x7, torn <- x8
Reported == INSTANCE CorpusReport WITH
    Catalog <- MCCatalog, New <- {1, 2}, Uploads <- {5, 8}, Passages <- MCPassages,
    Claims <- MCClaims, Edges <- MCEdges, KeyConcepts <- MCPlanned, Starts <- MCStarts,
    Asks <- MCAsks, PageLimit <- 2, MaxReasons <- 2, MaxExport <- 3, PerSide <- 2,
    MaxNodes <- 3, QFloor <- 5, RFloor <- 6, ThinMean <- 6, StrongMean <- 7,
    StrongSources <- 2, StrongTypes <- 2, MaxChanges <- 2, rows <- x1, stored <- x2,
    graph <- x3, edges <- x4, ready <- x5, wiped <- x6, request <- x7, changes <- x8,
    touched <- x9
Portrait == INSTANCE Pictures WITH
    Topic <- "ethics", Pages <- MCPages, Redirects <- MCRedirects,
    Search <- MCSearch, Related <- MCRelated, Concepts <- <<"virtue", "logic">>,
    Hints <- <<"zeno">>, Suggestions <- {<<>>, <<"scholar", "sculpture", "zeno">>},
    Broken <- {{}, {"zeno"}, {"zeno", "bust"}}, MaxOwner <- 2, build <- x1,
    look <- x2, row <- x3, events <- x4, owner <- x5
Owned == INSTANCE Accounts WITH
    Users <- {"ann", "bob"}, Experts <- {1}, Tabs <- {"a1", "b"},
    Of <- [a1 |-> "ann", b |-> "bob"], MaxLinks <- 2, MaxUsage <- 1, users <- x1,
    tokens <- x2, accounts <- x3, expert <- x4, chats <- x5, uploads <- x6,
    links <- x7, grants <- x8, job <- x9, usage <- x10, building <- x11,
    request <- x12, doomed <- x13, deleting <- x14, failed <- x15, spent <- x16
ASSUME Owned!PeopleAssumption
Sign == INSTANCE SignIn WITH
    Devices <- {1, 2}, Passwords <- {"p", "q", "w"}, Weak <- {"w"},
    MaxSessions <- 3, MaxCodes <- 1, MaxFailures <- 1, password <- x1,
    sessions <- x2, minted <- x3, codes <- x4, mailed <- x5, holds <- x6,
    request <- x7, answers <- x8, failures <- x9, spoilt <- x10

-----------------------------------------------------------------------------
(* What a part with so many variables leaves empty.                            *)
Empty == 0
after16 == <<x17>>
Empty16 == x17 = Empty
after12 == <<x13, x14, x15, x16, after16>>
Empty12 == x13 = Empty /\ x14 = Empty /\ x15 = Empty /\ x16 = Empty /\ Empty16
after11 == <<x12, after12>>
Empty11 == x12 = Empty /\ Empty12
after10 == <<x11, after11>>
Empty10 == x11 = Empty /\ Empty11
after9 == <<x10, after10>>
Empty9 == x10 = Empty /\ Empty10
after8 == <<x9, after9>>
Empty8 == x9 = Empty /\ Empty9
after6 == <<x7, x8, after8>>
Empty6 == x7 = Empty /\ x8 = Empty /\ Empty8
after5 == <<x6, after6>>
Empty5 == x6 = Empty /\ Empty6
after2 == <<x3, x4, x5, after5>>
Empty2 == x3 = Empty /\ x4 = Empty /\ x5 = Empty /\ Empty5

Init ==
    \/ part = "validation" /\ Judge!Init /\ Empty6
    \/ part = "curation" /\ Curate!Init /\ Empty5
    \/ part = "canonical" /\ Named!Init /\ Empty11
    \/ part = "follow-up" /\ Follow!Init
    \/ part = "calls" /\ Calls!Init /\ Empty12
    \/ part = "chunker" /\ Chunks!Init /\ Empty2
    \/ part = "long work" /\ Long!Init /\ Empty10
    \/ part = "graph" /\ Graph!Init /\ Empty5
    \/ part = "funnel" /\ Funnel!Init /\ Empty9
    \/ part = "outline" /\ Outlined!Init /\ Empty2
    \/ part = "map" /\ Map!Init /\ Empty8
    \/ part = "report" /\ Reported!Init /\ Empty9
    \/ part = "pictures" /\ Portrait!Init /\ Empty5
    \/ part = "accounts" /\ Owned!Init /\ Empty16
    \/ part = "sign-in" /\ Sign!Init /\ Empty10

Next ==
    /\ UNCHANGED part
    /\ \/ part = "validation" /\ Judge!Next /\ UNCHANGED after6
       \/ part = "curation" /\ Curate!Next /\ UNCHANGED after5
       \/ part = "canonical" /\ Named!Next /\ UNCHANGED after11
       \/ part = "follow-up" /\ Follow!Next
       \/ part = "calls" /\ Calls!Next /\ UNCHANGED after12
       \/ part = "chunker" /\ Chunks!Next /\ UNCHANGED after2
       \/ part = "long work" /\ Long!Next /\ UNCHANGED after10
       \/ part = "graph" /\ Graph!Next /\ UNCHANGED after5
       \/ part = "funnel" /\ Funnel!Next /\ UNCHANGED after9
       \/ part = "outline" /\ Outlined!Next /\ UNCHANGED after2
       \/ part = "map" /\ Map!Next /\ UNCHANGED after8
       \/ part = "report" /\ Reported!Next /\ UNCHANGED after9
       \/ part = "pictures" /\ Portrait!Next /\ UNCHANGED after5
       \/ part = "accounts" /\ Owned!Next /\ UNCHANGED after16
       \/ part = "sign-in" /\ Sign!Next /\ UNCHANGED after10

Spec == Init /\ [][Next]_<<part, slots>>

-----------------------------------------------------------------------------
(* The research of a build: what the judge keeps is what it said, every named  *)
(* text is looked for by all its routes and reported once as what it came to,  *)
(* the syllabus and the pool of cited papers are the plan's and the lists',    *)
(* and the accepted corpus is balanced.                                        *)
ResearchHolds ==
    /\ part = "validation" => Judge!VerdictsStand
    /\ part = "canonical" => Named!WorksAccounted
    /\ part = "follow-up" => Follow!SyllabusHolds /\ Follow!PoolIsTrue
    /\ part = "curation" => Curate!CorpusIsBalanced

(* No concept gets further from its target, whatever is accepted or dropped    *)
(* (compute_coverage).                                                         *)
NeverFurtherAway ==
    [][part = "curation" => Curate!NoneFurther]_<<part, slots>>

(* What a round says of a concept's named text never gets worse                *)
(* (concept_named_texts).                                                      *)
NamedTextsOnlyImprove == [][part = "canonical" => Named!TextsImprove]_<<part, slots>>

(* Every call of a stage is answered once, by the batch or live, and paid for  *)
(* as often as the provider answered it (anthropic_batch.py, metering.py).     *)
CallsAccounted == part = "calls" => Calls!CallsAccounted

(* Chunks hold the text in order (chunker.py); a long work is read closely     *)
(* where it was asked for, held where it is near, and in its place             *)
(* (structural.py, summaries.py).                                              *)
ReadingHolds ==
    /\ part = "chunker" => Chunks!ChunksHold
    /\ part = "long work" => Long!LongWorkHolds

(* Relations join what exists, two different nodes each, and at rest count the *)
(* evidence behind their ends; a node or relation only goes into another one.  *)
GraphHolds == part = "graph" => Graph!EdgesSound /\ Graph!EvidenceAtRest

(* A merge's seven statements lose no chunks and no relation that a node had   *)
(* when they began but into the node kept, and no other step loses any, with   *)
(* another writer between any two of them (repository.py merge_nodes).         *)
NothingIsLost == [][part = "graph" => Graph!StepLosesNothing]_<<part, slots>>

(* What a part has reached it does not give up again: coverage, named texts,   *)
(* the evidence of the graph.                                                  *)
NothingGoesBack == NeverFurtherAway /\ NamedTextsOnlyImprove /\ NothingIsLost

(* What the audit's funnel shows is what the last attempt's events say, and    *)
(* what a work's outline, the map and the corpus report show is what the rows  *)
(* say.                                                                        *)
ReportsHold ==
    /\ part = "funnel" => Funnel!FunnelOfLastAttempt
    /\ part = "outline" => Outlined!OutlineHolds
    /\ part = "map" => Map!MapHolds
    /\ part = "report" => Reported!ReportHolds

(* A picture shown is one that passed the gates, found or suggested.           *)
PictureHolds == part = "pictures" => Portrait!PictureHolds

(* Nothing of a deleted person remains, one link of an expert is live, and no  *)
(* session is left behind by the handlers that open one.                       *)
PeopleHold ==
    /\ part = "accounts" => Owned!GoneIsGone /\ Owned!OneLiveLink
    /\ part = "sign-in" => Sign!NoStraySession
=============================================================================
