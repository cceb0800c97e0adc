------------------------------ MODULE CorpusProofs ------------------------------
(* What Corpus promises for any number of attempts at work at one time, of     *)
(* uploads, rows, chunks, builds and deletions.                                *)
EXTENDS Corpus, TLAPS

\* The records, as far as the proofs look into them: the counts are left alone.
Ingest ==
    [at : {"new", "stored", "queued", "rejected", "succeeded", "exhausted"} \cup Working,
     attempts : Nat, row : 0..MaxRows, expanded : BOOLEAN, payload : BOOLEAN]

AttemptTyped(b) ==
    /\ DOMAIN b = {"at", "number", "attempt", "rows", "stored", "read", "sources", "chunks",
                   "nodes", "built"}
    /\ b.rows \subseteq Row /\ b.stored \subseteq Row /\ b.read \subseteq Row

Typed ==
    /\ TypeOK
    /\ DOMAIN expert = {"status", "readiness", "sources", "chunks", "nodes"}
    /\ DOMAIN job = {"status", "attempts", "number"} /\ job.attempts \in Nat
    /\ DOMAIN build = Slot /\ \A w \in Slot : AttemptTyped(build[w])
    /\ ingest \in [Upload -> Ingest] /\ deletes \in Nat

\* Past its storing an attempt relies on chunks that are there; a resumed one does from
\* its start.
Stored   == {"uploads", "count_uploads", "publish", "chat", "graph", "recount", "graphed",
             "persona"}
Relying  == Stored \cup {"chat_ready", "graph_ready"}
Stages ==
    \A w \in Slot :
        /\ build[w].at \in {"idle", "reset", "begin", "plan", "ingest"} \cup Relying
        /\ build[w].at = "reset" /\ w \notin beside =>
              /\ AtWork = {w}
              /\ build[w].attempt = 1 \/ expert.readiness = "pending"

\* The rows an attempt has stored for its sources are nobody else's, and those whose
\* chunks it has not stored yet have none.
RowsApart ==
    /\ \A w \in Slot :
        /\ \A r \in build[w].rows : origin[r] \in {"web", "none"}
        /\ build[w].stored \subseteq build[w].rows \cap build[w].read
        /\ build[w].at # "ingest" => build[w].stored = {}
        /\ build[w].at = "ingest" => \A r \in Untried(w) : chunks[r] = 0
    /\ \A v, w \in Slot : v # w => build[v].rows \cap build[w].rows = {}

\* The places of an upload at which it has a row; from "extend" on, with chunks.
Searchable == {"extend", "bump", "clear", "finish", "succeeded"}
Placed     == {"embed", "empty"} \cup Searchable

\* The row of an upload at work is its own, or the owner has deleted it.
RowsAreTheirs ==
    \A u \in Upload : ingest[u].at \in Placed /\ ingest[u].at # "succeeded" =>
        ingest[u].row \in Row /\ origin[ingest[u].row] \in {u, "none"}

\* While the owner deletes nothing: the row is there, and chunks with it; so are the
\* rows of an attempt that nobody has wiped; and there is a source of discovery to answer
\* from when such an attempt is past its storing, or has made the expert chattable.
UploadsStay ==
    \A u \in Upload :
        /\ ingest[u].at \in Placed => ingest[u].row \in Row /\ origin[ingest[u].row] = u
        /\ ingest[u].at \in Searchable => chunks[ingest[u].row] > 0

BuildRowsStay ==
    \A w \in Slot \ wiped : build[w].at = "ingest" =>
        /\ \A r \in build[w].rows : origin[r] = "web"
        /\ \A r \in build[w].stored : chunks[r] > 0

HasCorpus == \E r \in Row : origin[r] = "web" /\ chunks[r] > 0

Serves ==
    /\ expert.readiness # "pending" /\ ~stale => HasCorpus
    /\ \A w \in Slot \ wiped : build[w].at \in Relying => HasCorpus

Kept == deletes = 0 => UploadsStay /\ BuildRowsStay /\ Serves

Inv == Typed /\ Stages /\ RowsApart /\ RowsAreTheirs /\ Kept

-----------------------------------------------------------------------------
\* An attempt moves alone.
LEMMA NowMoves ==
    ASSUME Typed, NEW w \in Slot, NEW b, Now(w, b)
    PROVE  /\ DOMAIN build' = Slot /\ build'[w] = b
           /\ \A v \in Slot \ {w} : build'[v] = build[v]
BY DEF Now, Typed

\* One that is over has read and stored nothing.
LEMMA NoBuildTyped ==
    /\ AttemptTyped(NoBuild) /\ NoBuild.at = "idle"
    /\ NoBuild.rows = {} /\ NoBuild.stored = {} /\ NoBuild.read = {}
BY DEF NoBuild, AttemptTyped

\* A deletion takes a row with its chunks and leaves the expert's readiness alone.
LEMMA DeleteMoves ==
    ASSUME Typed, NEW r \in Row, Delete(r)
    PROVE  /\ UNCHANGED <<origin, chunks, expert>>
              \/ /\ r \in Live
                 /\ origin' = [origin EXCEPT ![r] = "none"]
                 /\ chunks' = [chunks EXCEPT ![r] = 0]
           /\ DOMAIN expert' = DOMAIN expert /\ expert'.readiness = expert.readiness
<1>1. CASE r \in Live
  <2> DEFINE x == IF expert.sources = 0 THEN 0 ELSE expert.sources - 1
             y == Sum(chunks', Row)
  <2>1. expert' = [expert EXCEPT !.sources = x, !.chunks = y]
    BY <1>1 DEF Delete
  <2> HIDE DEF x, y
  <2>2. DOMAIN expert' = DOMAIN expert /\ expert'.readiness = expert.readiness
    BY <2>1 DEF Typed
  <2>3. QED
    BY <1>1, <2>2 DEF Delete
<1>2. QED
  BY <1>1 DEF Delete

\* However an attempt ends, its slot is free, the rows stay and so does what the expert
\* says of itself.
Over(w) ==
    /\ build'[w] = NoBuild /\ build[w].at # "idle"
    /\ wiped' = wiped \ {w} /\ beside' = beside \ {w}
    /\ DOMAIN expert' = DOMAIN expert /\ expert'.readiness = expert.readiness
    /\ DOMAIN job' = DOMAIN job /\ job'.attempts = job.attempts
    /\ graph' \in {graph, {}}
    /\ UNCHANGED <<origin, chunks, ingest, deletes, stale>>

Ending(w) ==
    \/ PlanFails(w) \/ NothingPassed(w) \/ StageFails(w) \/ Aborted(w) \/ Capped(w)
    \/ Drained(w) \/ Dies(w) \/ NoChunks(w) \/ NothingLeft(w) \/ GateFails(w) \/ Succeeds(w)

LEMMA EndingIsOver ==
    ASSUME Typed, NEW w \in Slot, Ending(w)
    PROVE  Over(w)
<1> USE DEF Over, Typed, tables
<1>1. ASSUME Ends(w)
      PROVE  build'[w] = NoBuild /\ wiped' = wiped \ {w} /\ beside' = beside \ {w}
  BY <1>1, NowMoves DEF Ends
<1>2. ASSUME NEW status, EndJob(w, status)
      PROVE  DOMAIN job' = DOMAIN job /\ job'.attempts = job.attempts
  BY <1>2 DEF EndJob
<1>3. ASSUME NEW status, NEW expertStatus, Closes(w, status, expertStatus),
             graph' \in {graph, {}}, build[w].at # "idle"
      PROVE  Over(w)
  BY <1>1, <1>2, <1>3 DEF Closes
<1>4. ASSUME NEW retryable \in BOOLEAN, Refused(w, retryable),
             graph' \in {graph, {}}, build[w].at # "idle"
      PROVE  Over(w)
  BY <1>3, <1>4 DEF Refused
<1>5. CASE Aborted(w) \/ Drained(w) \/ Dies(w)
  BY <1>1, <1>2, <1>5 DEF Aborted, Drained, Dies
<1>6. CASE Capped(w) \/ Succeeds(w)
  BY <1>3, <1>6 DEF Capped, Succeeds
<1>7. CASE PlanFails(w) \/ NothingPassed(w) \/ StageFails(w) \/ NoChunks(w) \/ NothingLeft(w)
             \/ GateFails(w)
  BY <1>4, <1>7 DEF PlanFails, NothingPassed, StageFails, NoChunks, NothingLeft, GateFails, Fails
<1>8. QED
  BY <1>5, <1>6, <1>7 DEF Ending

\* What a step of an attempt does to its record.
Reading(w) ==
    \/ LoadUploads(w) \/ CountUploads(w) \/ PublishCounts(w) \/ ChatReady(w) \/ GraphStage(w)
    \/ CountAgain(w) \/ GraphReady(w)
    \/ \E readiness \in {"chat_ready", "graph_ready"} : ResumeFrom(w, readiness)

\* ... in the stages that rely on the corpus.
LEMMA ReadingMoves ==
    ASSUME Typed, NEW w \in Slot, Reading(w)
    PROVE  /\ build[w].at \in Relying /\ build'[w].at \in Stored \ {"uploads"}
           /\ AttemptTyped(build'[w]) /\ build'[w].attempt = build[w].attempt
           /\ build'[w].rows \in {build[w].rows, {}} /\ build'[w].stored = build[w].stored
           /\ \A v \in Slot \ {w} : build'[v] = build[v]
           /\ DOMAIN build' = Slot
           /\ graph' \subseteq Concept
           /\ DOMAIN expert' = DOMAIN expert
           /\ \/ expert'.readiness = expert.readiness /\ stale' = stale
              \/ expert'.readiness \in {"chat_ready", "graph_ready"} /\ stale' = (w \in wiped)
           /\ UNCHANGED <<origin, chunks, job, ingest, deletes, wiped, beside>>
<1> USE DEF Typed, TypeOK, AttemptTyped, Relying, Stored, tables, history
<1>1. CASE LoadUploads(w)
  <2> DEFINE kept == {r \in Mine : chunks[r] > 0}
             n == Cardinality(build[w].rows)
             c == build[w].chunks + Loaded(kept)
             b == [build[w] EXCEPT !.at = IF kept = {} THEN "publish" ELSE "count_uploads",
                                   !.read = @ \cup kept, !.rows = {}, !.sources = n, !.chunks = c]
  <2>1. Now(w, b) /\ kept \subseteq Row
    BY <1>1 DEF LoadUploads, Mine, Live
  <2> HIDE DEF n, c, kept
  <2>2. /\ b.at \in {"publish", "count_uploads"} /\ AttemptTyped(b)
        /\ b.rows = {} /\ b.stored = build[w].stored /\ b.attempt = build[w].attempt
    BY <2>1
  <2> HIDE DEF b
  <2>3. QED
    BY <1>1, <2>1, <2>2, NowMoves DEF LoadUploads
<1>2. CASE CountUploads(w)
  <2> DEFINE n == build[w].sources + Cardinality(Mine)
             b == [build[w] EXCEPT !.at = "publish", !.sources = n]
  <2>1. Now(w, b)
    BY <1>2 DEF CountUploads
  <2> HIDE DEF n
  <2>2. /\ b.at = "publish" /\ AttemptTyped(b) /\ b.attempt = build[w].attempt
        /\ b.rows = build[w].rows /\ b.stored = build[w].stored
    OBVIOUS
  <2> HIDE DEF b
  <2>3. QED
    BY <1>2, <2>1, <2>2, NowMoves DEF CountUploads
<1>3. ASSUME NEW next \in Stored \ {"uploads"}, NEW nodes, UpdateCounts(w, next, nodes)
      PROVE  /\ build'[w].at = next /\ AttemptTyped(build'[w])
             /\ build'[w].rows = build[w].rows /\ build'[w].stored = build[w].stored
             /\ build'[w].attempt = build[w].attempt
             /\ \A v \in Slot \ {w} : build'[v] = build[v]
             /\ DOMAIN build' = Slot
             /\ DOMAIN expert' = DOMAIN expert /\ expert'.readiness = expert.readiness
             /\ UNCHANGED <<origin, chunks, graph, job, ingest, deletes, wiped, beside, stale>>
  <2> DEFINE b == [build[w] EXCEPT !.at = next, !.read = IF next = "chat" THEN @ ELSE {}]
  <2>1. Now(w, b)
    BY <1>3 DEF UpdateCounts
  <2>2. /\ b.at = next /\ AttemptTyped(b) /\ b.attempt = build[w].attempt
        /\ b.rows = build[w].rows /\ b.stored = build[w].stored
    OBVIOUS
  <2> HIDE DEF b
  <2>3. QED
    BY <1>3, <2>1, <2>2, NowMoves DEF UpdateCounts
<1>4. CASE PublishCounts(w)
  BY <1>3, <1>4 DEF PublishCounts
<1>5. CASE CountAgain(w)
  BY <1>3, <1>5 DEF CountAgain
<1>6. ASSUME NEW at \in Relying, NEW readiness \in {"chat_ready", "graph_ready"},
             NEW next \in Stored \ {"uploads"}, SetReadiness(w, at, readiness, next)
      PROVE  /\ build[w].at = at /\ build'[w].at = next /\ AttemptTyped(build'[w])
             /\ build'[w].rows = build[w].rows /\ build'[w].stored = build[w].stored
             /\ build'[w].attempt = build[w].attempt
             /\ \A v \in Slot \ {w} : build'[v] = build[v]
             /\ DOMAIN build' = Slot
             /\ DOMAIN expert' = DOMAIN expert
             /\ \/ expert'.readiness = expert.readiness /\ stale' = stale
                \/ expert'.readiness = readiness /\ stale' = (w \in wiped)
             /\ UNCHANGED <<origin, chunks, graph, job, ingest, deletes, wiped, beside>>
  <2> DEFINE b == [build[w] EXCEPT !.at = next]
  <2>1. Now(w, b)
    BY <1>6 DEF SetReadiness, To
  <2>2. /\ b.at = next /\ AttemptTyped(b) /\ b.attempt = build[w].attempt
        /\ b.rows = build[w].rows /\ b.stored = build[w].stored
    OBVIOUS
  <2> HIDE DEF b
  <2>3. QED
    BY <1>6, <2>1, <2>2, NowMoves DEF SetReadiness
<1>7. CASE ChatReady(w) \/ GraphReady(w)
  <2>1. CASE ChatReady(w)
    BY <1>6, <2>1 DEF ChatReady
  <2>2. CASE GraphReady(w)
    BY <1>6, <2>2 DEF GraphReady
  <2>3. QED
    BY <1>7, <2>1, <2>2
<1>8. CASE GraphStage(w)
  <2>1. PICK found \in SUBSET Concept, built \in BOOLEAN :
           /\ graph' = graph \cup found
           /\ Now(w, [build[w] EXCEPT !.at = "recount", !.nodes = Cardinality(found),
                                      !.built = built])
    BY <1>8 DEF GraphStage
  <2> DEFINE n == Cardinality(found)
             b == [build[w] EXCEPT !.at = "recount", !.nodes = n, !.built = built]
  <2>2. Now(w, b)
    BY <2>1
  <2> HIDE DEF n
  <2>3. /\ b.at = "recount" /\ AttemptTyped(b) /\ b.attempt = build[w].attempt
        /\ b.rows = build[w].rows /\ b.stored = build[w].stored
    OBVIOUS
  <2> HIDE DEF b
  <2>4. QED
    BY <1>8, <2>1, <2>2, <2>3, NowMoves DEF GraphStage
<1>9. ASSUME NEW readiness \in {"chat_ready", "graph_ready"}, ResumeFrom(w, readiness)
      PROVE  /\ build[w].at \in Relying /\ build'[w].at \in Stored \ {"uploads"}
             /\ AttemptTyped(build'[w]) /\ build'[w].attempt = build[w].attempt
             /\ build'[w].rows = build[w].rows /\ build'[w].stored = build[w].stored
             /\ \A v \in Slot \ {w} : build'[v] = build[v]
             /\ DOMAIN build' = Slot
             /\ graph' \subseteq Concept
             /\ UNCHANGED <<origin, chunks, expert, job, ingest, deletes, wiped, beside, stale>>
  <2> DEFINE scratch == readiness = "chat_ready"
             b == [build[w] EXCEPT !.at = IF scratch THEN "graph" ELSE "recount",
                                   !.read = IF scratch THEN {r \in Live : chunks[r] > 0} ELSE {},
                                   !.sources = expert.sources, !.chunks = expert.chunks,
                                   !.nodes = expert.nodes, !.built = ~scratch]
  <2>1. Now(w, b)
    BY <1>9 DEF ResumeFrom
  <2>2. /\ b.at \in {"graph", "recount"} /\ AttemptTyped(b) /\ b.attempt = build[w].attempt
        /\ b.rows = build[w].rows /\ b.stored = build[w].stored
    BY DEF Live
  <2> HIDE DEF b
  <2>3. QED
    BY <1>9, <2>1, <2>2, NowMoves DEF ResumeFrom
<1>10. QED
  BY <1>1, <1>2, <1>4, <1>5, <1>7, <1>8, <1>9 DEF Reading

\* ... in the stages before.
Others(w) == DOMAIN build' = Slot /\ \A v \in Slot \ {w} : build'[v] = build[v]

LEMMA StartMoves ==
    ASSUME Typed, NEW w \in Slot, StartAttempt(w)
    PROVE  /\ build[w].at = "idle" /\ Others(w) /\ AttemptTyped(build'[w])
           /\ build'[w].rows = {} /\ build'[w].stored = {}
           /\ build'[w].at \in {"reset", "chat_ready", "graph_ready"}
           /\ IF build'[w].at = "reset"
              THEN build'[w].attempt = 1 \/ expert.readiness = "pending"
              ELSE expert.readiness # "pending" /\ (stale => w \in wiped')
           /\ wiped' \in {wiped, wiped \cup {w}}
           /\ beside \subseteq beside'
           /\ AtWork # {} => \A v \in Slot : build'[v].at = "reset" => v \in beside'
           /\ DOMAIN expert' = DOMAIN expert /\ expert'.readiness = expert.readiness
           /\ DOMAIN job' = DOMAIN job /\ job'.attempts \in Nat
           /\ UNCHANGED <<origin, chunks, graph, ingest, deletes, stale>>
<1> DEFINE at == IF ResumePoint = "none" THEN "reset" ELSE ResumePoint
           b == [NoBuild EXCEPT !.at = at, !.number = job.number, !.attempt = job.attempts + 1]
<1>1. Now(w, b)
  BY DEF StartAttempt
<1>2. /\ AttemptTyped(b) /\ b.at = at /\ b.attempt = job.attempts + 1
      /\ b.rows = {} /\ b.stored = {}
  BY DEF NoBuild, AttemptTyped
<1>3. /\ at \in {"reset", "chat_ready", "graph_ready"}
      /\ at = "reset" => job.attempts = 0 \/ expert.readiness = "pending"
      /\ at # "reset" => expert.readiness # "pending" /\ ResumePoint # "none"
  BY DEF ResumePoint, Typed, TypeOK
<1> HIDE DEF b, at
<1>4. Others(w) /\ build'[w] = b
  BY <1>1, NowMoves DEF Others
<1>5. /\ DOMAIN expert' = DOMAIN expert /\ expert'.readiness = expert.readiness
      /\ DOMAIN job' = DOMAIN job /\ job'.attempts = job.attempts + 1 /\ job.attempts \in Nat
      /\ UNCHANGED <<origin, chunks, graph, ingest, deletes, stale>>
  BY DEF StartAttempt, Typed, tables
<1>6. /\ wiped' = IF ResumePoint # "none" /\ stale THEN wiped \cup {w} ELSE wiped
      /\ beside' = IF AtWork = {} THEN beside ELSE beside \cup {o \in Slot : build'[o].at = "reset"}
      /\ build[w].at = "idle"
  BY DEF StartAttempt
<1>7. QED
  BY <1>2, <1>3, <1>4, <1>5, <1>6

LEMMA ResetMoves ==
    ASSUME Typed, NEW w \in Slot, Reset(w)
    PROVE  /\ build[w].at = "reset" /\ build'[w].at = "begin" /\ Others(w)
           /\ AttemptTyped(build'[w]) /\ build'[w].rows = build[w].rows
           /\ build'[w].stored = build[w].stored
           /\ \A r \in Row : IF r \in Mine THEN origin'[r] = origin[r] /\ chunks'[r] = chunks[r]
                                           ELSE origin'[r] = "none" /\ chunks'[r] = 0
           /\ origin' \in [Row -> {"none", "web"} \cup Upload] /\ chunks' \in [Row -> Nat]
           /\ graph' = {}
           /\ DOMAIN expert' = DOMAIN expert /\ expert'.readiness = "pending"
           /\ wiped' = (wiped \cup AtWork) \ {w} /\ beside' = beside \ {w}
           /\ UNCHANGED <<job, ingest, deletes>>
<1> USE DEF Typed, TypeOK
<1> DEFINE b == [build[w] EXCEPT !.at = "begin"]
<1>1. Now(w, b)
  BY DEF Reset, To
<1>2. b.at = "begin" /\ AttemptTyped(b) /\ b.rows = build[w].rows /\ b.stored = build[w].stored
  BY DEF AttemptTyped
<1> HIDE DEF b
<1>3. Others(w) /\ build'[w] = b
  BY <1>1, NowMoves DEF Others
<1>4. DOMAIN expert' = DOMAIN expert /\ expert'.readiness = "pending"
  BY DEF Reset, Recounted
<1>5. QED
  BY <1>2, <1>3, <1>4 DEF Reset, Mine, Live

LEMMA BeginMoves ==
    ASSUME Typed, NEW w \in Slot, Begin(w)
    PROVE  /\ build[w].at = "begin" /\ build'[w].at = "plan" /\ Others(w)
           /\ AttemptTyped(build'[w]) /\ build'[w].rows = build[w].rows
           /\ build'[w].stored = build[w].stored
           /\ DOMAIN expert' = DOMAIN expert
           /\ \/ expert'.readiness = expert.readiness /\ stale' = stale
              \/ expert'.readiness = "pending"
           /\ UNCHANGED <<origin, chunks, graph, job, ingest, deletes, wiped, beside>>
<1> DEFINE b == [build[w] EXCEPT !.at = "plan"]
<1>1. Now(w, b)
  BY DEF Begin, SetReadiness, To
<1>2. b.at = "plan" /\ AttemptTyped(b) /\ b.rows = build[w].rows /\ b.stored = build[w].stored
  BY DEF AttemptTyped, Typed
<1> HIDE DEF b
<1>3. Others(w) /\ build'[w] = b
  BY <1>1, NowMoves DEF Others
<1>4. QED
  BY <1>2, <1>3 DEF Begin, SetReadiness, tables, Typed

LEMMA PersistMoves ==
    ASSUME Typed, NEW w \in Slot, PersistSources(w)
    PROVE  \E S \in SUBSET Fresh :
           /\ build[w].at = "plan" /\ build'[w].at = "ingest" /\ Others(w)
           /\ AttemptTyped(build'[w]) /\ build'[w].rows = S
           /\ build'[w].stored = build[w].stored
           /\ \A r \in Row : origin'[r] = IF r \in S THEN "web" ELSE origin[r]
           /\ origin' \in [Row -> {"none", "web"} \cup Upload]
           /\ wiped' = wiped \ {w}
           /\ UNCHANGED <<chunks, graph, expert, job, ingest, deletes, beside, stale>>
<1>1. PICK S \in SUBSET Fresh :
         /\ origin' = [r \in Row |-> IF r \in S THEN "web" ELSE origin[r]]
         /\ Now(w, [build[w] EXCEPT !.at = "ingest", !.rows = S])
  BY DEF PersistSources
<1> DEFINE b == [build[w] EXCEPT !.at = "ingest", !.rows = S]
<1>2. Now(w, b)
  BY <1>1
<1>3. b.at = "ingest" /\ AttemptTyped(b) /\ b.rows = S /\ b.stored = build[w].stored
  BY DEF AttemptTyped, Typed, Fresh
<1> HIDE DEF b
<1>4. Others(w) /\ build'[w] = b
  BY <1>2, NowMoves DEF Others
<1>5. QED
  BY <1>1, <1>3, <1>4 DEF PersistSources, Typed, TypeOK

LEMMA SourceMoves ==
    ASSUME Typed, NEW w \in Slot, NEW r \in Row, IngestSource(w, r)
    PROVE  \E n \in Nat, whole \in BOOLEAN :
           /\ build[w].at = "ingest" /\ build'[w].at = "ingest" /\ Others(w)
           /\ r \in build[w].rows /\ r \notin build[w].read
           /\ whole => n > 0
           /\ r \notin Live => n = 0
           /\ chunks' \in [Row -> Nat] /\ chunks'[r] = n
           /\ \A q \in Row \ {r} : chunks'[q] = chunks[q]
           /\ AttemptTyped(build'[w]) /\ build'[w].rows = build[w].rows
           /\ build'[w].read = build[w].read \cup {r}
           /\ build'[w].stored = IF whole THEN build[w].stored \cup {r} ELSE build[w].stored
           /\ UNCHANGED <<origin, graph, expert, job, ingest, deletes, wiped, beside, stale>>
<1>1. PICK n \in 0..MaxChunks, whole \in BOOLEAN :
         /\ whole => n > 0
         /\ r \notin Live => n = 0
         /\ chunks' = [chunks EXCEPT ![r] = n]
         /\ Now(w, [build[w] EXCEPT !.read = @ \cup {r},
                                    !.stored = IF whole THEN @ \cup {r} ELSE @,
                                    !.chunks = IF whole THEN @ + n ELSE @])
  BY DEF IngestSource
<1>2. n \in Nat
  BY CorpusAssumption
<1> DEFINE c == IF whole THEN build[w].chunks + n ELSE build[w].chunks
           b == [build[w] EXCEPT !.read = @ \cup {r},
                                 !.stored = IF whole THEN @ \cup {r} ELSE @, !.chunks = c]
<1>3. Now(w, b)
  BY <1>1
<1> HIDE DEF c
<1>4. /\ b.at = build[w].at /\ AttemptTyped(b) /\ b.rows = build[w].rows
      /\ b.read = build[w].read \cup {r}
      /\ b.stored = IF whole THEN build[w].stored \cup {r} ELSE build[w].stored
  BY DEF AttemptTyped, Typed
<1> HIDE DEF b
<1>5. Others(w) /\ build'[w] = b
  BY <1>3, NowMoves DEF Others
<1>6. /\ build[w].at = "ingest" /\ r \in build[w].rows /\ r \notin build[w].read
      /\ UNCHANGED <<origin, graph, expert, job, ingest, deletes, wiped, beside, stale>>
  BY DEF IngestSource, Untried, history
<1>7. chunks' \in [Row -> Nat] /\ chunks'[r] = n /\ \A q \in Row \ {r} : chunks'[q] = chunks[q]
  BY <1>1, <1>2 DEF Typed, TypeOK
<1>8. QED
  BY <1>1, <1>2, <1>4, <1>5, <1>6, <1>7

LEMMA HoldMoves ==
    ASSUME Typed, NEW w \in Slot, HoldTails(w)
    PROVE  \E long \in SUBSET (build[w].stored \cap Live) :
           /\ build[w].at = "ingest" /\ build[w].stored # {}
           /\ build'[w].at = "uploads" /\ Others(w)
           /\ \A q \in Row : chunks'[q] = IF q \in long THEN chunks[q] + 1 ELSE chunks[q]
           /\ chunks' \in [Row -> Nat]
           /\ AttemptTyped(build'[w]) /\ build'[w].rows = build[w].rows /\ build'[w].stored = {}
           /\ UNCHANGED <<origin, graph, expert, job, ingest, deletes, wiped, beside, stale>>
<1>1. PICK long \in SUBSET (build[w].stored \cap Live), counted \in BOOLEAN :
         /\ chunks' = [r \in Row |-> IF r \in long THEN chunks[r] + 1 ELSE chunks[r]]
         /\ Now(w, [build[w] EXCEPT !.at = "uploads", !.read = build[w].stored, !.stored = {},
                                    !.chunks = IF counted THEN @ + Cardinality(long) ELSE @])
  BY DEF HoldTails
<1> DEFINE c == IF counted THEN build[w].chunks + Cardinality(long) ELSE build[w].chunks
           b == [build[w] EXCEPT !.at = "uploads", !.read = build[w].stored, !.stored = {},
                                 !.chunks = c]
<1>2. Now(w, b)
  BY <1>1
<1> HIDE DEF c
<1>3. b.at = "uploads" /\ AttemptTyped(b) /\ b.rows = build[w].rows /\ b.stored = {}
  BY DEF AttemptTyped, Typed
<1> HIDE DEF b
<1>4. Others(w) /\ build'[w] = b
  BY <1>2, NowMoves DEF Others
<1>5. /\ build[w].at = "ingest" /\ build[w].stored # {}
      /\ UNCHANGED <<origin, graph, expert, job, ingest, deletes, wiped, beside, stale>>
  BY DEF HoldTails, history
<1>6. /\ chunks' \in [Row -> Nat]
      /\ \A q \in Row : chunks'[q] = IF q \in long THEN chunks[q] + 1 ELSE chunks[q]
  BY <1>1 DEF Typed, TypeOK
<1>7. QED
  BY <1>1, <1>3, <1>4, <1>5, <1>6

LEMMA OverMoves ==
    ASSUME Typed, NEW w \in Slot, Ending(w)
    PROVE  Over(w) /\ Others(w) /\ AttemptTyped(build'[w]) /\ build'[w].at = "idle"
           /\ build'[w].rows = {} /\ build'[w].stored = {}
<1>1. Now(w, NoBuild)
  BY DEF Ending, PlanFails, NothingPassed, StageFails, Aborted, Capped, Drained, Dies, NoChunks,
         NothingLeft, GateFails, Succeeds, Fails, Refused, Closes, Ends
<1>2. Others(w) /\ build'[w] = NoBuild
  BY <1>1, NowMoves DEF Others
<1>3. QED
  BY <1>2, EndingIsOver, NoBuildTyped

\* Neither the build's job nor the uploads nor the owner move an attempt or the readiness.
LEMMA OutsideMoves ==
    ASSUME Typed, RowsAreTheirs,
           JobStep \/ (\E u \in Upload : UploadStep(u)) \/ \E r \in Row : OwnerDeletes(r)
    PROVE  /\ UNCHANGED <<build, wiped, beside, stale>>
           /\ DOMAIN expert' = DOMAIN expert /\ expert'.readiness = expert.readiness
           /\ DOMAIN job' = DOMAIN job /\ job'.attempts \in Nat
<1> USE DEF history, tables, Typed
<1>1. CASE JobStep
  BY <1>1 DEF JobStep, RequestBuild, CancelBuild, Reap
<1>2. ASSUME NEW u \in Upload, GiveUp(u)
      PROVE  /\ UNCHANGED <<build, job, wiped, beside, stale>>
             /\ DOMAIN expert' = DOMAIN expert /\ expert'.readiness = expert.readiness
  <2>1. ingest[u].row \in Row
    BY <1>2 DEF GiveUp, RowsAreTheirs, Placed, Searchable
  <2>2. QED
    BY <1>2, <2>1, DeleteMoves DEF GiveUp
<1>3. ASSUME NEW u \in Upload, UploadStep(u), ~GiveUp(u)
      PROVE  /\ UNCHANGED <<build, job, wiped, beside, stale>>
             /\ DOMAIN expert' = DOMAIN expert /\ expert'.readiness = expert.readiness
  BY <1>3
     DEF UploadStep, Accept, Queue, StartIngest, Extract, InsertSource, Embed, ExtendGraph,
         BumpCounts, Recounted, ClearPayload, IngestSucceeds, IngestStops
<1>4. ASSUME NEW r \in Row, OwnerDeletes(r)
      PROVE  /\ UNCHANGED <<build, job, wiped, beside, stale>>
             /\ DOMAIN expert' = DOMAIN expert /\ expert'.readiness = expert.readiness
  BY <1>4, DeleteMoves DEF OwnerDeletes
<1>5. QED
  BY <1>1, <1>2, <1>3, <1>4

\* The steps there are.
LEMMA Steps ==
    ASSUME [Next]_vars
    PROVE  \/ \E w \in Slot :
                 \/ StartAttempt(w) \/ Reset(w) \/ Begin(w) \/ PersistSources(w) \/ HoldTails(w)
                 \/ Ending(w) \/ Reading(w) \/ \E r \in Row : IngestSource(w, r)
           \/ JobStep \/ (\E u \in Upload : UploadStep(u)) \/ (\E r \in Row : OwnerDeletes(r))
           \/ UNCHANGED vars
BY DEF Next, AttemptStep, Ending, Reading

-----------------------------------------------------------------------------
\* An upload at work has its row among the rows.
LEMMA UploadRow ==
    ASSUME RowsAreTheirs, NEW u \in Upload, ingest[u].at \in {"embed", "empty", "extend"}
    PROVE  ingest[u].row \in Row /\ origin[ingest[u].row] \in {u, "none"}
BY DEF RowsAreTheirs, Placed, Searchable

\* Every step keeps the types of the tables and the records.
LEMMA TypedStep ==
    ASSUME Typed, RowsAreTheirs, [Next]_vars
    PROVE  Typed'
<1> USE CorpusAssumption DEF Typed, TypeOK, Live
<1>1. ASSUME NEW w \in Slot, Others(w), AttemptTyped(build'[w])
      PROVE  DOMAIN build' = Slot /\ \A v \in Slot : AttemptTyped(build'[v])
  BY <1>1 DEF Others
<1>2. ASSUME NEW w \in Slot, StartAttempt(w) \/ Begin(w) \/ Ending(w) \/ Reading(w)
      PROVE  Typed'
  <2>1. CASE StartAttempt(w)
    BY <1>1, <2>1, StartMoves
  <2>2. CASE Begin(w)
    BY <1>1, <2>2, BeginMoves
  <2>3. CASE Ending(w)
    BY <1>1, <2>3, OverMoves DEF Over
  <2>4. CASE Reading(w)
    BY <1>1, <2>4, ReadingMoves DEF Others
  <2>5. QED
    BY <1>2, <2>1, <2>2, <2>3, <2>4
<1>3. ASSUME NEW w \in Slot, Reset(w)
      PROVE  Typed'
  <2>1. \A r \in Row : origin'[r] = "none" => chunks'[r] = 0
    BY <1>3, ResetMoves
  <2>2. QED
    BY <1>1, <1>3, <2>1, ResetMoves
<1>4. ASSUME NEW w \in Slot, PersistSources(w)
      PROVE  Typed'
  <2>1. PICK S \in SUBSET Fresh :
           /\ Others(w) /\ AttemptTyped(build'[w])
           /\ \A r \in Row : origin'[r] = IF r \in S THEN "web" ELSE origin[r]
           /\ origin' \in [Row -> {"none", "web"} \cup Upload]
           /\ UNCHANGED <<chunks, graph, expert, job, ingest, deletes>>
    BY <1>4, PersistMoves
  <2>2. \A r \in Row : origin'[r] = "none" => chunks'[r] = 0
    BY <2>1
  <2>3. QED
    BY <1>1, <2>1, <2>2
<1>5. ASSUME NEW w \in Slot, NEW r \in Row, IngestSource(w, r)
      PROVE  Typed'
  <2>1. PICK n \in Nat, whole \in BOOLEAN :
           /\ Others(w) /\ AttemptTyped(build'[w])
           /\ r \notin Live => n = 0
           /\ chunks' \in [Row -> Nat] /\ chunks'[r] = n
           /\ \A q \in Row \ {r} : chunks'[q] = chunks[q]
           /\ UNCHANGED <<origin, graph, expert, job, ingest, deletes>>
    BY <1>5, SourceMoves, ZenonT(60)
  <2>2. \A q \in Row : origin'[q] = "none" => chunks'[q] = 0
    BY <2>1
  <2>3. QED
    BY <1>1, <2>1, <2>2
<1>6. ASSUME NEW w \in Slot, HoldTails(w)
      PROVE  Typed'
  <2>1. PICK long \in SUBSET (build[w].stored \cap Live) :
           /\ Others(w) /\ AttemptTyped(build'[w])
           /\ \A q \in Row : chunks'[q] = IF q \in long THEN chunks[q] + 1 ELSE chunks[q]
           /\ chunks' \in [Row -> Nat]
           /\ UNCHANGED <<origin, graph, expert, job, ingest, deletes>>
    BY <1>6, HoldMoves
  <2>2. \A q \in Row : origin'[q] = "none" => chunks'[q] = 0
    BY <2>1
  <2>3. QED
    BY <1>1, <2>1, <2>2
<1>7. ASSUME JobStep \/ (\E u \in Upload : UploadStep(u)) \/ \E r \in Row : OwnerDeletes(r),
             origin' \in [Row -> {"none", "web"} \cup Upload], chunks' \in [Row -> Nat],
             graph' \subseteq Concept, \A r \in Row : origin'[r] = "none" => chunks'[r] = 0,
             ingest' \in [Upload -> Ingest], deletes' \in Nat
      PROVE  Typed'
  BY <1>7, OutsideMoves
<1>8. CASE JobStep
  BY <1>7, <1>8 DEF JobStep, RequestBuild, CancelBuild, Reap, tables
<1>9. ASSUME NEW u \in Upload,
             \/ Accept(u) \/ Queue(u) \/ StartIngest(u) \/ Extract(u) \/ ClearPayload(u)
             \/ IngestSucceeds(u) \/ BumpCounts(u) \/ \E died \in BOOLEAN : IngestStops(u, died)
      PROVE  /\ ingest' \in [Upload -> Ingest]
             /\ UNCHANGED <<origin, chunks, graph, deletes>>
  BY <1>9 DEF Accept, Queue, StartIngest, Extract, ClearPayload, IngestSucceeds, BumpCounts,
              IngestStops, Step, Ingest, Working, tables
<1>10. ASSUME NEW u \in Upload, InsertSource(u)
       PROVE  Typed'
  <2>1. PICK r \in Fresh :
           /\ origin' = [origin EXCEPT ![r] = u]
           /\ ingest' = [ingest EXCEPT ![u].at = "embed", ![u].row = r]
    BY <1>10 DEF InsertSource
  <2>2. r \in Row
    BY DEF Fresh
  <2>3. UNCHANGED <<chunks, graph, deletes>>
    BY <1>10 DEF InsertSource
  <2>4. ingest' \in [Upload -> Ingest]
    <3> DEFINE i == [ingest EXCEPT ![u].at = "embed"]
    <3>1. i \in [Upload -> Ingest]
      BY DEF Ingest, Working
    <3>2. ingest' = [i EXCEPT ![u].row = r]
      BY <2>1
    <3> HIDE DEF i
    <3>3. QED
      <4>1. r \in 0..MaxRows
        BY <2>2 DEF Row
      <4>2. QED
        BY <3>1, <3>2, <4>1 DEF Ingest
  <2>5. /\ origin' \in [Row -> {"none", "web"} \cup Upload]
        /\ \A q \in Row : origin'[q] = "none" => origin[q] = "none"
    BY <2>1, <2>2
  <2>6. QED
    BY <1>7, <1>10, <2>3, <2>4, <2>5 DEF UploadStep
<1>11. ASSUME NEW u \in Upload, Embed(u)
       PROVE  Typed'
  <2>1. ingest[u].row \in Row
    BY <1>11, UploadRow DEF Embed
  <2>2. QED
    BY <1>7, <1>11, <2>1 DEF Embed, Step, Ingest, Working, UploadStep
<1>12. ASSUME NEW u \in Upload, GiveUp(u)
       PROVE  Typed'
  <2>1. ingest[u].row \in Row /\ Delete(ingest[u].row)
    BY <1>12, UploadRow DEF GiveUp
  <2>2. /\ origin' \in [Row -> {"none", "web"} \cup Upload] /\ chunks' \in [Row -> Nat]
        /\ \A r \in Row : origin'[r] = "none" => chunks'[r] = 0
    BY <2>1, DeleteMoves
  <2>3. ingest' \in [Upload -> Ingest] /\ UNCHANGED <<graph, deletes>>
    BY <1>12 DEF GiveUp, Step, Ingest
  <2>4. QED
    BY <1>7, <1>12, <2>2, <2>3 DEF UploadStep
<1>13. ASSUME NEW u \in Upload, ExtendGraph(u)
       PROVE  Typed'
  BY <1>7, <1>13 DEF ExtendGraph, Step, Ingest, Working, UploadStep
<1>14. ASSUME NEW r \in Row, OwnerDeletes(r)
       PROVE  Typed'
  BY <1>7, <1>14, DeleteMoves DEF OwnerDeletes
<1>15. ASSUME NEW u \in Upload, UploadStep(u)
       PROVE  Typed'
  <2>1. CASE ~(InsertSource(u) \/ Embed(u) \/ GiveUp(u) \/ ExtendGraph(u))
    BY <1>7, <1>9, <1>15, <2>1 DEF UploadStep
  <2>2. QED
    BY <1>10, <1>11, <1>12, <1>13, <2>1
<1>16. CASE UNCHANGED vars
  BY <1>16 DEF vars, tables
<1>17. QED
  BY <1>2, <1>3, <1>4, <1>5, <1>6, <1>8, <1>14, <1>15, <1>16, Steps

\* The stages come in their order, whatever fails, dies, is cancelled or retried.
LEMMA StagesStep ==
    ASSUME Typed, Stages, RowsAreTheirs, [Next]_vars
    PROVE  Stages'
<1> USE DEF Relying, Stored
<1>1. ASSUME NEW w \in Slot, StartAttempt(w)
      PROVE  Stages'
  <2>1. CASE AtWork = {}
    <3>1. /\ \A v \in Slot \ {w} : build'[v].at = "idle"
          /\ build'[w].at \in {"reset", "chat_ready", "graph_ready"}
      BY <1>1, <2>1, StartMoves DEF AtWork, Others
    <3>2. AtWork' = {w}
      BY <3>1 DEF AtWork
    <3>3. QED
      BY <1>1, <3>1, <3>2, StartMoves DEF Stages
  <2>2. CASE AtWork # {}
    <3>1. /\ \A v \in Slot : build'[v].at = "reset" => v \in beside'
          /\ \A v \in Slot \ {w} : build'[v].at = build[v].at
          /\ build'[w].at \in {"reset", "chat_ready", "graph_ready"}
      BY <1>1, <2>2, StartMoves DEF Others
    <3>2. QED
      BY <3>1 DEF Stages
  <2>3. QED
    BY <2>1, <2>2
<1>2. ASSUME NEW w \in Slot, build[w].at # "idle", Others(w), beside \ {w} \subseteq beside',
             build'[w].at \in {"idle", "begin", "plan", "ingest"} \cup Relying
      PROVE  Stages'
  <2>1. ASSUME NEW v \in Slot, v # w
        PROVE  build'[v] = build[v] /\ (build[v].at = "reset" => v \in beside')
    BY <1>2, <2>1 DEF Others, Stages, AtWork
  <2>2. QED
    BY <1>2, <2>1 DEF Stages
<1>3. ASSUME NEW w \in Slot, Reset(w) \/ Begin(w) \/ PersistSources(w) \/ HoldTails(w)
                             \/ Reading(w) \/ \E r \in Row : IngestSource(w, r)
      PROVE  Stages'
  <2>1. CASE Reset(w)
    BY <1>2, <2>1, ResetMoves
  <2>2. CASE Begin(w)
    BY <1>2, <2>2, BeginMoves
  <2>3. CASE PersistSources(w)
    BY <1>2, <2>3, PersistMoves
  <2>4. CASE HoldTails(w)
    BY <1>2, <2>4, HoldMoves
  <2>5. CASE Reading(w)
    BY <1>2, <2>5, ReadingMoves DEF Others
  <2>6. CASE \E r \in Row : IngestSource(w, r)
    BY <1>2, <2>6, SourceMoves
  <2>7. QED
    BY <1>3, <2>1, <2>2, <2>3, <2>4, <2>5, <2>6
<1>4. ASSUME NEW w \in Slot, Ending(w)
      PROVE  Stages'
  BY <1>2, <1>4, OverMoves DEF Over
<1>5. ASSUME UNCHANGED <<build, beside>>, expert'.readiness = expert.readiness
      PROVE  Stages'
  BY <1>5 DEF Stages, AtWork
<1>6. CASE JobStep \/ (\E u \in Upload : UploadStep(u)) \/ \E r \in Row : OwnerDeletes(r)
  BY <1>5, <1>6, OutsideMoves
<1>7. CASE UNCHANGED vars
  BY <1>5, <1>7 DEF vars, history
<1>8. QED
  BY <1>1, <1>3, <1>4, <1>6, <1>7, Steps

\* What the uploads and the owner do to a row: nothing, delete it, take a fresh one for an
\* upload, or store the chunks of the upload it is.
RowOutside(r) ==
    \/ origin'[r] = origin[r] /\ chunks'[r] = chunks[r]
    \/ /\ origin'[r] = "none" /\ chunks'[r] = 0 /\ r \in Live
       /\ OwnerDeletes(r) \/ \E u \in Upload : GiveUp(u) /\ ingest[u].row = r /\ origin[r] = u
    \/ \E u \in Upload :
          /\ InsertSource(u) /\ r \in Fresh /\ ingest'[u].row = r
          /\ origin'[r] = u /\ chunks'[r] = chunks[r]
    \/ \E u \in Upload :
          Embed(u) /\ ingest[u].row = r /\ origin[r] = u /\ origin'[r] = u

LEMMA OutsideRows ==
    ASSUME Typed, RowsAreTheirs, NEW r \in Row,
           JobStep \/ (\E u \in Upload : UploadStep(u)) \/ \E q \in Row : OwnerDeletes(q)
    PROVE  RowOutside(r)
<1> USE DEF Typed, TypeOK, RowOutside
<1>1. CASE JobStep
  BY <1>1 DEF JobStep, RequestBuild, CancelBuild, Reap, tables
<1>2. ASSUME NEW q \in Row, OwnerDeletes(q)
      PROVE  RowOutside(r)
  <2>1. Delete(q)
    BY <1>2 DEF OwnerDeletes
  <2>2. CASE q = r
    BY <1>2, <2>1, <2>2, DeleteMoves
  <2>3. CASE q # r
    BY <2>1, <2>3, DeleteMoves
  <2>4. QED
    BY <2>2, <2>3
<1>3. ASSUME NEW u \in Upload, GiveUp(u)
      PROVE  RowOutside(r)
  <2>1. ingest[u].row \in Row /\ origin[ingest[u].row] \in {u, "none"}
    BY <1>3, UploadRow DEF GiveUp
  <2>2. Delete(ingest[u].row)
    BY <1>3 DEF GiveUp
  <2>3. CASE ingest[u].row = r
    BY <1>3, <2>1, <2>2, <2>3, DeleteMoves DEF Live
  <2>4. CASE ingest[u].row # r
    BY <2>1, <2>2, <2>4, DeleteMoves
  <2>5. QED
    BY <2>3, <2>4
<1>4. ASSUME NEW u \in Upload, InsertSource(u)
      PROVE  RowOutside(r)
  <2>1. PICK q \in Fresh : /\ origin' = [origin EXCEPT ![q] = u]
                           /\ ingest' = [ingest EXCEPT ![u].at = "embed", ![u].row = q]
    BY <1>4 DEF InsertSource
  <2>2. ingest'[u].row = q /\ chunks' = chunks
    BY <1>4, <2>1 DEF InsertSource, Ingest
  <2>3. CASE q = r
    BY <1>4, <2>1, <2>2, <2>3
  <2>4. CASE q # r
    BY <2>1, <2>2, <2>4
  <2>5. QED
    BY <2>3, <2>4
<1>5. ASSUME NEW u \in Upload, Embed(u)
      PROVE  RowOutside(r)
  <2>1. ingest[u].row \in Row /\ origin[ingest[u].row] \in {u, "none"}
    BY <1>5, UploadRow DEF Embed
  <2>2. PICK n \in 0..MaxChunks : /\ ingest[u].row \notin Live => n = 0
                                  /\ chunks' = [chunks EXCEPT ![ingest[u].row] = n]
    BY <1>5 DEF Embed
  <2>3. origin' = origin
    BY <1>5 DEF Embed
  <2>4. CASE ingest[u].row = r /\ origin[r] = u
    BY <1>5, <2>3, <2>4
  <2>5. CASE ingest[u].row = r /\ origin[r] = "none"
    <3>1. chunks[r] = 0 /\ chunks'[r] = 0
      BY <2>2, <2>5 DEF Live
    <3>2. QED
      BY <2>3, <3>1
  <2>6. CASE ingest[u].row # r
    BY <2>1, <2>2, <2>3, <2>6
  <2>7. QED
    BY <2>1, <2>4, <2>5, <2>6
<1>6. ASSUME NEW u \in Upload, UploadStep(u), ~GiveUp(u), ~InsertSource(u), ~Embed(u)
      PROVE  UNCHANGED <<origin, chunks>>
  BY <1>6 DEF UploadStep, Accept, Queue, StartIngest, Extract, ExtendGraph, BumpCounts,
              ClearPayload, IngestSucceeds, IngestStops, tables
<1>7. QED
  BY <1>1, <1>2, <1>3, <1>4, <1>5, <1>6

\* Attempts keep out of each other's rows, and uploads out of theirs.
LEMMA RowsApartStep ==
    ASSUME Typed, RowsAreTheirs, RowsApart, [Next]_vars
    PROVE  RowsApart'
<1> USE DEF RowsApart, Untried
<1>1. ASSUME NEW w \in Slot, Others(w), UNCHANGED <<origin, chunks>>,
             build'[w].rows \in {build[w].rows, {}}, build'[w].stored = {},
             build'[w].at # "ingest"
      PROVE  RowsApart'
  BY <1>1 DEF Others
<1>2. ASSUME NEW w \in Slot, StartAttempt(w) \/ Begin(w) \/ Ending(w) \/ Reading(w)
      PROVE  RowsApart'
  <2>1. CASE StartAttempt(w)
    BY <1>1, <2>1, StartMoves
  <2>2. CASE Begin(w)
    BY <1>1, <2>2, BeginMoves
  <2>3. CASE Ending(w)
    BY <1>1, <2>3, OverMoves DEF Over
  <2>4. CASE Reading(w)
    BY <1>1, <2>4, ReadingMoves DEF Others, Relying, Stored
  <2>5. QED
    BY <1>2, <2>1, <2>2, <2>3, <2>4
<1>3. ASSUME NEW w \in Slot, Reset(w)
      PROVE  RowsApart'
  <2>1. \A r \in Row : /\ origin[r] \in {"web", "none"} => origin'[r] \in {"web", "none"}
                       /\ chunks[r] = 0 => chunks'[r] = 0
    BY <1>3, ResetMoves
  <2>2. \A v \in Slot : build[v].rows \subseteq Row
    BY DEF Typed, AttemptTyped
  <2>3. /\ Others(w) /\ build'[w].rows = build[w].rows /\ build'[w].stored = build[w].stored
        /\ build[w].at = "reset" /\ build'[w].at = "begin"
    BY <1>3, ResetMoves
  <2>4. QED
    BY <2>1, <2>2, <2>3 DEF Others
<1>4. ASSUME NEW w \in Slot, PersistSources(w)
      PROVE  RowsApart'
  <2>1. PICK S \in SUBSET Fresh :
           /\ build[w].at = "plan" /\ build'[w].at = "ingest" /\ Others(w)
           /\ build'[w].rows = S /\ build'[w].stored = build[w].stored
           /\ \A r \in Row : origin'[r] = IF r \in S THEN "web" ELSE origin[r]
           /\ chunks' = chunks
    BY <1>4, PersistMoves
  <2>2. /\ S \subseteq Row /\ \A r \in S : chunks[r] = 0
        /\ \A v \in Slot : build[v].rows \subseteq Row /\ build[v].rows \cap S = {}
    BY DEF Fresh, Typed, TypeOK, AttemptTyped
  <2>3. QED
    BY <2>1, <2>2 DEF Others
<1>5. ASSUME NEW w \in Slot, NEW r \in Row, IngestSource(w, r)
      PROVE  RowsApart'
  <2>1. PICK whole \in BOOLEAN :
           /\ build[w].at = "ingest" /\ build'[w].at = "ingest" /\ Others(w)
           /\ r \in build[w].rows
           /\ \A q \in Row \ {r} : chunks'[q] = chunks[q]
           /\ build'[w].rows = build[w].rows
           /\ build'[w].read = build[w].read \cup {r}
           /\ build'[w].stored = IF whole THEN build[w].stored \cup {r} ELSE build[w].stored
           /\ origin' = origin
    BY <1>5, SourceMoves, ZenonT(60)
  <2>2. \A v \in Slot : build[v].rows \subseteq Row
    BY DEF Typed, AttemptTyped
  <2>3. ASSUME NEW v \in Slot, v # w
        PROVE  build'[v] = build[v] /\ r \notin build[v].rows
    BY <2>1, <2>3 DEF Others
  <2>4. \A q \in build[w].rows \ build'[w].read : q # r
    BY <2>1
  <2>5. QED
    BY <2>1, <2>2, <2>3, <2>4
<1>6. ASSUME NEW w \in Slot, HoldTails(w)
      PROVE  RowsApart'
  <2>1. PICK long \in SUBSET (build[w].stored \cap Live) :
           /\ build'[w].at = "uploads" /\ Others(w)
           /\ \A q \in Row : chunks'[q] = IF q \in long THEN chunks[q] + 1 ELSE chunks[q]
           /\ build'[w].rows = build[w].rows /\ build'[w].stored = {}
           /\ origin' = origin
    BY <1>6, HoldMoves
  <2>2. \A v \in Slot : build[v].rows \subseteq Row
    BY DEF Typed, AttemptTyped
  <2>3. ASSUME NEW v \in Slot, v # w
        PROVE  build'[v] = build[v] /\ build[v].rows \cap long = {}
    BY <2>1, <2>3 DEF Others
  <2>4. QED
    BY <2>1, <2>2, <2>3
<1>7. CASE JobStep \/ (\E u \in Upload : UploadStep(u)) \/ \E r \in Row : OwnerDeletes(r)
  <2>1. build' = build
    BY <1>7, OutsideMoves
  <2>2. ASSUME NEW w \in Slot, NEW r \in build[w].rows
        PROVE  origin'[r] \in {"web", "none"} /\ (chunks[r] = 0 => chunks'[r] = 0)
    <3>1. r \in Row /\ origin[r] \in {"web", "none"} /\ r \notin Fresh
      BY DEF Typed, AttemptTyped, Fresh
    <3>2. RowOutside(r)
      BY <1>7, <3>1, OutsideRows
    <3>3. QED
      BY <3>1, <3>2, CorpusAssumption DEF RowOutside
  <2>3. QED
    BY <2>1, <2>2
<1>8. CASE UNCHANGED vars
  BY <1>8 DEF vars, tables
<1>9. QED
  BY <1>2, <1>3, <1>4, <1>5, <1>6, <1>7, <1>8, Steps

\* What any step does to a row: an attempt only adds chunks to it, unless it resets the
\* corpus or takes the row for a source of discovery.
LEMMA RowMoves ==
    ASSUME Typed, RowsAreTheirs, RowsApart, [Next]_vars, NEW r \in Row
    PROVE  \/ origin'[r] = origin[r] /\ chunks'[r] >= chunks[r]
           \/ r \notin Mine /\ origin'[r] = "none" /\ \E w \in Slot : Reset(w)
           \/ r \in Fresh /\ origin'[r] = "web" /\ \E w \in Slot : PersistSources(w)
           \/ RowOutside(r)
<1>1. chunks[r] \in Nat
  BY DEF Typed, TypeOK
<1>2. ASSUME NEW w \in Slot, StartAttempt(w) \/ Begin(w) \/ Ending(w) \/ Reading(w)
      PROVE  UNCHANGED <<origin, chunks>>
  <2>1. CASE Begin(w)
    BY <2>1, BeginMoves
  <2>2. CASE StartAttempt(w)
    BY <2>2, StartMoves
  <2>3. CASE Ending(w)
    BY <2>3, OverMoves DEF Over
  <2>4. CASE Reading(w)
    BY <2>4, ReadingMoves
  <2>5. QED
    BY <1>2, <2>1, <2>2, <2>3, <2>4
<1>3. ASSUME NEW w \in Slot, Reset(w)
      PROVE  \/ r \notin Mine /\ origin'[r] = "none"
             \/ origin'[r] = origin[r] /\ chunks'[r] = chunks[r]
  BY <1>3, ResetMoves
<1>4. ASSUME NEW w \in Slot, PersistSources(w)
      PROVE  \/ r \in Fresh /\ origin'[r] = "web"
             \/ origin'[r] = origin[r] /\ chunks'[r] = chunks[r]
  BY <1>4, PersistMoves
<1>5. ASSUME NEW w \in Slot, NEW q \in Row, IngestSource(w, q)
      PROVE  origin'[r] = origin[r] /\ chunks'[r] >= chunks[r]
  <2>1. PICK n \in Nat :
           /\ build[w].at = "ingest" /\ q \in build[w].rows /\ q \notin build[w].read
           /\ chunks'[q] = n /\ \A p \in Row \ {q} : chunks'[p] = chunks[p]
           /\ origin' = origin
    BY <1>5, SourceMoves, ZenonT(60)
  <2>2. chunks[q] = 0
    BY <2>1 DEF RowsApart, Untried
  <2>3. QED
    BY <1>1, <2>1, <2>2
<1>6. ASSUME NEW w \in Slot, HoldTails(w)
      PROVE  origin'[r] = origin[r] /\ chunks'[r] >= chunks[r]
  BY <1>1, <1>6, HoldMoves
<1>7. CASE UNCHANGED vars
  BY <1>1, <1>7 DEF vars, tables
<1>8. QED
  BY <1>1, <1>2, <1>3, <1>4, <1>5, <1>6, <1>7, OutsideRows, Steps

\* Only an upload's own steps move it, and only the owner's count as deletions.
LEMMA OthersLeaveUploads ==
    ASSUME Typed, RowsAreTheirs, [Next]_vars
    PROVE  /\ ingest' = ingest \/ \E u \in Upload : UploadStep(u)
           /\ deletes' = deletes \/ \E r \in Row : OwnerDeletes(r)
<1>1. ASSUME NEW w \in Slot,
             \/ StartAttempt(w) \/ Reset(w) \/ Begin(w) \/ PersistSources(w) \/ HoldTails(w)
             \/ Ending(w) \/ Reading(w) \/ \E r \in Row : IngestSource(w, r)
      PROVE  UNCHANGED <<ingest, deletes>>
  <2>1. CASE StartAttempt(w) \/ Reset(w) \/ Begin(w)
    BY <2>1, StartMoves, ResetMoves, BeginMoves
  <2>2. CASE PersistSources(w)
    BY <2>2, PersistMoves
  <2>3. CASE HoldTails(w)
    BY <2>3, HoldMoves
  <2>4. CASE Ending(w)
    BY <2>4, OverMoves DEF Over
  <2>5. CASE Reading(w)
    BY <2>5, ReadingMoves
  <2>6. CASE \E r \in Row : IngestSource(w, r)
    BY <2>6, SourceMoves
  <2>7. QED
    BY <1>1, <2>1, <2>2, <2>3, <2>4, <2>5, <2>6
<1>2. JobStep => UNCHANGED <<ingest, deletes>>
  BY DEF JobStep, RequestBuild, CancelBuild, Reap
<1>3. \A u \in Upload : UploadStep(u) => deletes' = deletes
  BY DEF UploadStep, Accept, Queue, StartIngest, Extract, InsertSource, Embed, GiveUp,
         ExtendGraph, BumpCounts, ClearPayload, IngestSucceeds, IngestStops
<1>4. (\E r \in Row : OwnerDeletes(r)) => ingest' = ingest
  BY DEF OwnerDeletes
<1>5. QED
  BY <1>1, <1>2, <1>3, <1>4, Steps DEF vars

LEMMA DeletesGrow ==
    ASSUME Typed, RowsAreTheirs, [Next]_vars, deletes' = deletes \/ deletes' = 0
    PROVE  deletes' = deletes /\ \A r \in Row : ~OwnerDeletes(r)
BY OthersLeaveUploads DEF OwnerDeletes, Typed

\* An upload at its next call: the same row, unless it is at the start of an attempt or
\* has just got one.
LEMMA UploadMoves ==
    ASSUME Typed, NEW u \in Upload, UploadStep(u)
    PROVE  /\ \A v \in Upload \ {u} : ingest'[v] = ingest[v]
           /\ \/ /\ ingest'[u].at \in Placed /\ ingest'[u].row = ingest[u].row
                 /\ \/ ingest[u].at \in Searchable \ {"succeeded"}
                    \/ ingest[u].at = "embed" /\ Embed(u)
              \/ InsertSource(u) /\ ingest'[u].at = "embed"
              \/ ingest'[u].at \notin Placed
<1> USE DEF Typed, Ingest, Step, Placed, Searchable
<1>1. CASE Accept(u) \/ Queue(u) \/ StartIngest(u) \/ Extract(u)
  BY <1>1 DEF Accept, Queue, StartIngest, Extract
<1>2. CASE InsertSource(u)
  BY <1>2 DEF InsertSource
<1>3. CASE Embed(u)
  <2>1. PICK next \in {"empty", "extend", "bump"} : ingest' = [ingest EXCEPT ![u].at = next]
    BY <1>3 DEF Embed
  <2>2. ingest[u].at = "embed"
    BY <1>3 DEF Embed
  <2>3. QED
    BY <1>3, <2>1, <2>2
<1>4. CASE GiveUp(u)
  BY <1>4 DEF GiveUp
<1>5. CASE ExtendGraph(u) \/ BumpCounts(u) \/ ClearPayload(u) \/ IngestSucceeds(u)
  BY <1>5 DEF ExtendGraph, BumpCounts, ClearPayload, IngestSucceeds
<1>6. CASE \E died \in BOOLEAN : IngestStops(u, died)
  BY <1>6 DEF IngestStops
<1>7. QED
  BY <1>1, <1>2, <1>3, <1>4, <1>5, <1>6 DEF UploadStep

\* Whatever becomes of the other rows, the row of an upload at work is never another's.
LEMMA RowsStep ==
    ASSUME Typed, RowsAreTheirs, RowsApart, [Next]_vars
    PROVE  RowsAreTheirs'
<1>1. ASSUME NEW v \in Upload, ingest[v].at \in Placed \ {"succeeded"},
             ingest'[v].row = ingest[v].row
      PROVE  ingest'[v].row \in Row /\ origin'[ingest'[v].row] \in {v, "none"}
  <2> DEFINE r == ingest[v].row
  <2>1. r \in Row /\ origin[r] \in {v, "none"} /\ r \notin Fresh
    <3>1. ingest[v].at \in Working
      BY <1>1 DEF Placed, Searchable, Working
    <3>2. r \notin Fresh
      <4>1. ingest[v].row \in {ingest[u].row : u \in {x \in Upload : ingest[x].at \in Working}}
        BY <3>1
      <4>2. QED
        BY <4>1 DEF Fresh
    <3>3. QED
      BY <1>1, <3>2 DEF RowsAreTheirs
  <2>2. \/ origin'[r] = origin[r] \/ origin'[r] = "none" \/ RowOutside(r)
    BY <2>1, RowMoves
  <2>3. origin'[r] \in {v, "none"}
    BY <2>1, <2>2 DEF RowOutside
  <2>4. QED
    BY <1>1, <2>1, <2>3
<1>2. ASSUME NEW u \in Upload, InsertSource(u)
      PROVE  ingest'[u].row \in Row /\ origin'[ingest'[u].row] = u
  BY <1>2 DEF InsertSource, Typed, TypeOK, Ingest, Fresh
<1>3. ASSUME NEW v \in Upload, ingest'[v].at \in Placed \ {"succeeded"}
      PROVE  ingest'[v].row \in Row /\ origin'[ingest'[v].row] \in {v, "none"}
  <2>1. CASE ingest'[v] = ingest[v]
    BY <1>1, <1>3, <2>1
  <2>2. CASE UploadStep(v)
    BY <1>1, <1>2, <1>3, <2>2, UploadMoves DEF Placed
  <2>3. QED
    BY <2>1, <2>2, OthersLeaveUploads, UploadMoves
<1>4. QED
  BY <1>3 DEF RowsAreTheirs

\* While nobody deletes: a row of discovery survives all but a reset, with the chunks it
\* has; an upload's row, all but its own job.
LEMMA WebRowStays ==
    ASSUME Inv, [Next]_vars, deletes' = 0, NEW r \in Row, origin[r] = "web",
           \A w \in Slot : ~Reset(w)
    PROVE  origin'[r] = "web" /\ chunks'[r] >= chunks[r]
<1> USE CorpusAssumption DEF Inv
<1>1. \A q \in Row : ~OwnerDeletes(q)
  BY DeletesGrow
<1>2. r \notin Fresh /\ chunks[r] \in Nat
  BY DEF Fresh, Live, Typed, TypeOK
<1>3. QED
  BY <1>1, <1>2, RowMoves DEF RowOutside

LEMMA UploadRowStays ==
    ASSUME Inv, [Next]_vars, deletes' = 0, NEW v \in Upload, ingest[v].at \in Placed,
           ~GiveUp(v), ~Embed(v)
    PROVE  /\ origin'[ingest[v].row] = v
           /\ chunks'[ingest[v].row] >= chunks[ingest[v].row]
<1> USE CorpusAssumption DEF Inv
<1>1. deletes = 0 /\ \A q \in Row : ~OwnerDeletes(q)
  BY DeletesGrow
<1> DEFINE r == ingest[v].row
<1>2. r \in Row /\ origin[r] = v
  BY <1>1 DEF Kept, UploadsStay
<1> HIDE DEF r
<1>3. r \notin Fresh /\ r \in Mine /\ chunks[r] \in Nat
  BY <1>2 DEF Fresh, Live, Mine, Typed, TypeOK
<1>4. origin'[r] = v /\ chunks'[r] >= chunks[r]
  BY <1>1, <1>2, <1>3, RowMoves DEF RowOutside
<1>5. QED
  BY <1>4 DEF r

\* Uploads keep their rows and the chunks in them.
LEMMA UploadsStayStep ==
    ASSUME Inv, [Next]_vars, deletes' = 0
    PROVE  UploadsStay'
<1>1. deletes = 0 /\ UploadsStay
  BY DeletesGrow DEF Inv, Kept
<1>2. \A u \in Upload : ingest[u].at \in Placed =>
          /\ ingest[u].row \in Row /\ chunks[ingest[u].row] \in Nat
          /\ chunks'[ingest[u].row] \in Nat
  BY <1>1, TypedStep DEF Inv, UploadsStay, Typed, TypeOK
<1>3. ASSUME NEW v \in Upload, ingest[v].at \in Placed, ingest'[v].row = ingest[v].row,
             ingest'[v].at \in Placed, ingest'[v].at \in Searchable => ingest[v].at \in Searchable,
             ~GiveUp(v), ~Embed(v)
      PROVE  /\ ingest'[v].row \in Row /\ origin'[ingest'[v].row] = v
             /\ ingest'[v].at \in Searchable => chunks'[ingest'[v].row] > 0
  BY <1>1, <1>2, <1>3, UploadRowStays DEF UploadsStay
<1>4. ASSUME NEW v \in Upload, Embed(v)
      PROVE  /\ ingest'[v].row \in Row /\ origin'[ingest'[v].row] = v
             /\ ingest'[v].at \in Searchable => chunks'[ingest'[v].row] > 0
  <2>1. ingest[v].row \in Row /\ origin[ingest[v].row] = v /\ ingest'[v].row = ingest[v].row
    BY <1>1, <1>2, <1>4 DEF Embed, Step, UploadsStay, Placed, Inv, Typed, Ingest
  <2>2. PICK n \in 0..MaxChunks, whole \in BOOLEAN :
           /\ whole => n > 0
           /\ chunks' = [chunks EXCEPT ![ingest[v].row] = n]
           /\ Step(v, IF ~whole THEN "empty" ELSE IF ingest[v].expanded THEN "extend" ELSE "bump")
    BY <1>4 DEF Embed
  <2>3. ingest'[v].at \in Searchable => whole
    BY <2>2 DEF Step, Searchable, Inv, Typed
  <2>4. chunks'[ingest[v].row] = n /\ origin' = origin
    BY <1>4, <2>1, <2>2 DEF Embed, Inv, Typed, TypeOK
  <2>5. QED
    BY <2>1, <2>2, <2>3, <2>4
<1>5. ASSUME NEW v \in Upload, InsertSource(v)
      PROVE  /\ ingest'[v].row \in Row /\ origin'[ingest'[v].row] = v
             /\ ingest'[v].at \notin Searchable
  <2>1. PICK r \in Fresh : /\ origin' = [origin EXCEPT ![r] = v]
                           /\ ingest' = [ingest EXCEPT ![v].at = "embed", ![v].row = r]
    BY <1>5 DEF InsertSource
  <2>2. r \in Row
    BY DEF Fresh
  <2>3. QED
    BY <2>1, <2>2 DEF Inv, Typed, TypeOK, Ingest, Searchable
<1>6. ASSUME NEW v \in Upload, ingest'[v].at \in Placed
      PROVE  /\ ingest'[v].row \in Row /\ origin'[ingest'[v].row] = v
             /\ ingest'[v].at \in Searchable => chunks'[ingest'[v].row] > 0
  <2>1. CASE ingest'[v] = ingest[v]
    <3>1. ~GiveUp(v) /\ ~Embed(v)
      BY <2>1 DEF GiveUp, Embed, Step, Inv, Typed, Ingest
    <3>2. QED
      BY <1>3, <1>6, <2>1, <3>1
  <2>2. CASE UploadStep(v)
    <3>1. CASE Embed(v) \/ InsertSource(v)
      BY <1>4, <1>5, <3>1
    <3>2. CASE ~Embed(v) /\ ~InsertSource(v)
      <4>1. ingest'[v].row = ingest[v].row /\ ingest[v].at \in Searchable
        BY <1>6, <2>2, <3>2, UploadMoves DEF Inv
      <4>2. ~GiveUp(v) /\ ingest[v].at \in Placed
        BY <4>1 DEF GiveUp, Searchable, Placed
      <4>3. QED
        BY <1>3, <1>6, <3>2, <4>1, <4>2
    <3>3. QED
      BY <3>1, <3>2
  <2>3. QED
    BY <2>1, <2>2, OthersLeaveUploads, UploadMoves DEF Inv
<1>7. QED
  BY <1>6 DEF UploadsStay, Placed

\* ... and an attempt its own while it stores their chunks, unless it is wiped.
LEMMA BuildRowsStayStep ==
    ASSUME Inv, [Next]_vars, deletes' = 0
    PROVE  BuildRowsStay'
<1>1. deletes = 0 /\ BuildRowsStay
  BY DeletesGrow DEF Inv, Kept
<1>2. /\ \A r \in Row : chunks[r] \in Nat /\ chunks'[r] \in Nat
      /\ \A w \in Slot : build[w].rows \subseteq Row /\ build[w].stored \subseteq build[w].rows
  BY TypedStep DEF Inv, Typed, TypeOK, AttemptTyped, RowsApart
<1>3. ASSUME NEW v \in Slot \ wiped, build[v].at = "ingest", \A w \in Slot : ~Reset(w)
      PROVE  /\ \A r \in build[v].rows : origin'[r] = "web"
             /\ \A r \in build[v].stored : chunks'[r] > 0
  <2>1. ASSUME NEW r \in build[v].rows
        PROVE  origin'[r] = "web" /\ chunks'[r] >= chunks[r]
    BY <1>1, <1>2, <1>3, WebRowStays DEF BuildRowsStay
  <2>2. QED
    BY <1>1, <1>2, <1>3, <2>1 DEF BuildRowsStay
<1>4. ASSUME NEW w \in Slot, Others(w), build'[w].at # "ingest", wiped \ {w} \subseteq wiped',
             \A v \in Slot : ~Reset(v)
      PROVE  BuildRowsStay'
  BY <1>3, <1>4 DEF Others, BuildRowsStay
<1>5. ASSUME NEW w \in Slot, Reset(w)
      PROVE  BuildRowsStay'
  <2>1. /\ build'[w].at = "begin" /\ wiped' = (wiped \cup AtWork) \ {w}
        /\ \A v \in Slot \ {w} : build'[v] = build[v]
    BY <1>5, ResetMoves DEF Others, Inv
  <2>2. \A v \in Slot \ wiped' : build'[v].at # "ingest"
    BY <2>1 DEF AtWork
  <2>3. QED
    BY <2>2 DEF BuildRowsStay
<1>6. ASSUME NEW w \in Slot, \A v \in Slot : ~Reset(v),
             StartAttempt(w) \/ Begin(w) \/ HoldTails(w) \/ Ending(w) \/ Reading(w)
      PROVE  BuildRowsStay'
  <2> USE DEF Inv
  <2>1. CASE StartAttempt(w)
    BY <1>4, <1>6, <2>1, StartMoves
  <2>2. CASE Begin(w)
    BY <1>4, <1>6, <2>2, BeginMoves
  <2>3. CASE HoldTails(w)
    BY <1>4, <1>6, <2>3, HoldMoves
  <2>4. CASE Ending(w)
    BY <1>4, <1>6, <2>4, OverMoves DEF Over
  <2>5. CASE Reading(w)
    BY <1>4, <1>6, <2>5, ReadingMoves DEF Others, Stored
  <2>6. QED
    BY <1>6, <2>1, <2>2, <2>3, <2>4, <2>5
<1>7. ASSUME NEW w \in Slot, PersistSources(w), \A v \in Slot : ~Reset(v)
      PROVE  BuildRowsStay'
  <2>1. PICK S \in SUBSET Fresh :
           /\ build[w].at = "plan" /\ Others(w)
           /\ build'[w].rows = S /\ build'[w].stored = build[w].stored
           /\ \A r \in Row : origin'[r] = IF r \in S THEN "web" ELSE origin[r]
           /\ wiped' = wiped \ {w}
    BY <1>7, PersistMoves DEF Inv
  <2>2. build'[w].stored = {} /\ \A r \in build'[w].rows : origin'[r] = "web"
    BY <2>1 DEF Inv, RowsApart, Fresh
  <2>3. QED
    BY <1>3, <1>7, <2>1, <2>2 DEF Others, BuildRowsStay
<1>8. ASSUME NEW w \in Slot, NEW q \in Row, IngestSource(w, q), \A v \in Slot : ~Reset(v)
      PROVE  BuildRowsStay'
  <2>1. PICK n \in Nat, whole \in BOOLEAN :
           /\ build[w].at = "ingest" /\ Others(w)
           /\ whole => n > 0
           /\ chunks'[q] = n
           /\ build'[w].rows = build[w].rows
           /\ build'[w].stored = IF whole THEN build[w].stored \cup {q} ELSE build[w].stored
           /\ wiped' = wiped
    BY <1>8, SourceMoves DEF Inv
  <2>2. ASSUME NEW v \in Slot \ wiped, v # w, build[v].at = "ingest"
        PROVE  /\ build'[v] = build[v]
               /\ \A r \in build[v].rows : origin'[r] = "web"
               /\ \A r \in build[v].stored : chunks'[r] > 0
    BY <1>3, <1>8, <2>1, <2>2 DEF Others
  <2>3. ASSUME w \notin wiped
        PROVE  /\ \A r \in build'[w].rows : origin'[r] = "web"
               /\ \A r \in build'[w].stored : chunks'[r] > 0
    BY <1>3, <1>8, <2>1, <2>3
  <2>4. \A v \in Slot : v # w => build'[v] = build[v]
    BY <2>1 DEF Others
  <2>5. QED
    BY <2>1, <2>2, <2>3, <2>4 DEF BuildRowsStay
<1>9. ASSUME UNCHANGED <<build, wiped>>, \A v \in Slot : ~Reset(v)
      PROVE  BuildRowsStay'
  BY <1>3, <1>9 DEF BuildRowsStay
<1>10. CASE JobStep \/ (\E u \in Upload : UploadStep(u)) \/ (\E r \in Row : OwnerDeletes(r))
            \/ UNCHANGED vars
  BY <1>5, <1>9, <1>10, OutsideMoves DEF vars, history, Inv
<1>11. QED
  BY <1>5, <1>6, <1>7, <1>8, <1>10, Steps

\* There is a source of discovery with chunks while an expert is in chat on the word of
\* an attempt that was not wiped, or one that was not wiped is past its storing.
LEMMA ServesStep ==
    ASSUME Inv, [Next]_vars, deletes' = 0
    PROVE  Serves'
<1> DEFINE Needed == \/ expert.readiness # "pending" /\ ~stale
                     \/ \E w \in Slot \ wiped : build[w].at \in Relying
<1>1. deletes = 0 /\ (Needed => HasCorpus) /\ BuildRowsStay
  BY DeletesGrow DEF Inv, Kept, Serves
<1>2. \A r \in Row : chunks[r] \in Nat /\ chunks'[r] \in Nat
  BY TypedStep DEF Inv, Typed, TypeOK
<1>3. ASSUME HasCorpus, \A w \in Slot : ~Reset(w)
      PROVE  Serves'
  <2>1. PICK r \in Row : origin[r] = "web" /\ chunks[r] > 0
    BY <1>3 DEF HasCorpus
  <2>2. origin'[r] = "web" /\ chunks'[r] >= chunks[r]
    BY <1>3, <2>1, WebRowStays
  <2>3. HasCorpus'
    BY <1>2, <2>1, <2>2 DEF HasCorpus
  <2>4. QED
    BY <2>3 DEF Serves
<1>4. ASSUME NEW w \in Slot, Reset(w)
      PROVE  Serves'
  <2>1. /\ build'[w].at = "begin" /\ wiped' = (wiped \cup AtWork) \ {w}
        /\ expert'.readiness = "pending"
        /\ \A v \in Slot \ {w} : build'[v] = build[v]
    BY <1>4, ResetMoves DEF Others, Inv
  <2>2. \A v \in Slot \ wiped' : build'[v].at \notin Relying
    BY <2>1 DEF AtWork, Relying, Stored
  <2>3. QED
    BY <2>1, <2>2 DEF Serves
<1>5. ASSUME NEW w \in Slot, HoldTails(w), w \notin wiped
      PROVE  HasCorpus
  <2>1. PICK r \in build[w].stored : build[w].at = "ingest"
    BY <1>5, HoldMoves DEF Inv
  <2>2. r \in Row /\ origin[r] = "web" /\ chunks[r] > 0
    BY <1>1, <1>5, <2>1 DEF BuildRowsStay, Inv, RowsApart, Typed, AttemptTyped
  <2>3. QED
    BY <2>2 DEF HasCorpus
<1>6. ASSUME ~Needed'
      PROVE  Serves'
  BY <1>6 DEF Serves
<1>7. ASSUME NEW w \in Slot, Others(w), wiped \ {w} \subseteq wiped',
             build'[w].at \notin Relying \/ w \in wiped', Needed',
             \/ expert'.readiness = expert.readiness /\ stale' = stale
             \/ expert'.readiness = "pending"
      PROVE  Needed
  BY <1>7 DEF Others
<1>8. ASSUME NEW w \in Slot, Needed',
             \/ StartAttempt(w) \/ Begin(w) \/ PersistSources(w) \/ HoldTails(w)
             \/ Ending(w) \/ Reading(w) \/ \E r \in Row : IngestSource(w, r)
      PROVE  HasCorpus
  <2> USE DEF Inv
  <2>1. CASE StartAttempt(w)
    <3> DEFINE at == build'[w].at
    <3>1. /\ Others(w) /\ wiped \subseteq wiped'
          /\ expert'.readiness = expert.readiness /\ stale' = stale
          /\ at # "reset" => expert.readiness # "pending" /\ (stale => w \in wiped')
      BY <2>1, StartMoves
    <3>2. at \in Relying => at # "reset"
      BY DEF Relying, Stored
    <3> HIDE DEF at
    <3>3. CASE at = "reset" \/ stale
      BY <1>1, <1>7, <1>8, <3>1, <3>2, <3>3 DEF at
    <3>4. CASE at # "reset" /\ ~stale
      BY <1>1, <3>1, <3>4
    <3>5. QED
      BY <3>3, <3>4
  <2>2. CASE Begin(w)
    <3>1. build'[w].at = "plan" /\ Others(w) /\ wiped' = wiped
      BY <2>2, BeginMoves
    <3>2. \/ expert'.readiness = expert.readiness /\ stale' = stale
          \/ expert'.readiness = "pending"
      BY <2>2, BeginMoves, Zenon
    <3>3. build'[w].at \notin Relying
      BY <3>1 DEF Relying, Stored
    <3>4. wiped \ {w} \subseteq wiped'
      BY <3>1
    <3>5. QED
      BY <1>1, <1>7, <1>8, <3>1, <3>2, <3>3, <3>4, Zenon
  <2>3. CASE PersistSources(w)
    BY <1>1, <1>7, <1>8, <2>3, PersistMoves DEF Relying, Stored
  <2>4. CASE HoldTails(w)
    BY <1>1, <1>5, <1>7, <1>8, <2>4, HoldMoves
  <2>5. CASE Ending(w)
    BY <1>1, <1>7, <1>8, <2>5, OverMoves DEF Over, Relying, Stored
  <2>6. CASE Reading(w)
    <3>1. /\ build[w].at \in Relying /\ wiped' = wiped
          /\ \A v \in Slot \ {w} : build'[v] = build[v]
          /\ \/ expert'.readiness = expert.readiness /\ stale' = stale
             \/ stale' = (w \in wiped)
      BY <2>6, ReadingMoves
    <3>2. Needed
      BY <1>8, <3>1
    <3>3. QED
      BY <1>1, <3>2
  <2>7. CASE \E r \in Row : IngestSource(w, r)
    BY <1>1, <1>7, <1>8, <2>7, SourceMoves DEF Relying, Stored
  <2>8. QED
    BY <1>8, <2>1, <2>2, <2>3, <2>4, <2>5, <2>6, <2>7
<1>9. CASE JobStep \/ (\E u \in Upload : UploadStep(u)) \/ (\E r \in Row : OwnerDeletes(r))
            \/ UNCHANGED vars
  <2>1. UNCHANGED <<build, wiped, stale>> /\ expert'.readiness = expert.readiness
    BY <1>9, OutsideMoves DEF vars, history, Inv
  <2>2. Needed' => Needed
    BY <2>1
  <2>3. QED
    BY <1>1, <1>3, <1>4, <1>6, <2>2
<1>10. QED
  BY <1>3, <1>4, <1>6, <1>8, <1>9, Steps

\* The invariant behind the three properties.
LEMMA Invariance == Spec => []Inv
<1>1. Init => Inv
  <2> SUFFICES ASSUME Init
               PROVE  Inv
    OBVIOUS
  <2>1. PICK n \in {0, 1} :
           /\ origin = [r \in Row |-> IF r <= n THEN "web" ELSE "none"]
           /\ chunks = [r \in Row |-> IF r <= n THEN 1 ELSE 0]
           /\ graph \subseteq Concept
           /\ DOMAIN expert = {"status", "readiness", "sources", "chunks", "nodes"}
           /\ expert.readiness = IF n = 1 THEN "graph_ready" ELSE "pending"
           /\ DOMAIN job = {"status", "attempts", "number"} /\ job.attempts = 0
    BY DEF Init
  <2>2. /\ build = [w \in Slot |-> NoBuild] /\ ingest = [u \in Upload |-> NoIngest]
        /\ deletes = 0
    BY DEF Init
  <2>3. /\ DOMAIN build = Slot
        /\ \A w \in Slot : /\ AttemptTyped(build[w]) /\ build[w].at = "idle"
                           /\ build[w].rows = {} /\ build[w].stored = {}
    BY <2>2, NoBuildTyped
  <2>4. \A u \in Upload : ingest[u] \in Ingest /\ ingest[u].at = "new"
    BY <2>2, CorpusAssumption DEF NoIngest, Ingest
  <2>5. Typed
    BY <2>1, <2>2, <2>3, <2>4, CorpusAssumption DEF Typed, TypeOK, Row, Live
  <2>6. Stages /\ RowsApart /\ RowsAreTheirs
    BY <2>1, <2>3, <2>4 DEF Stages, RowsApart, RowsAreTheirs, Placed, Searchable
  <2>7. UploadsStay /\ BuildRowsStay
    BY <2>3, <2>4 DEF UploadsStay, BuildRowsStay, Placed, Searchable
  <2>8. Serves
    <3>1. \A w \in Slot : build[w].at \notin Relying
      BY <2>3 DEF Relying, Stored
    <3>2. n = 1 => HasCorpus
      BY <2>1, CorpusAssumption DEF HasCorpus, Row
    <3>3. QED
      BY <2>1, <3>1, <3>2 DEF Serves
  <2>9. QED
    BY <2>5, <2>6, <2>7, <2>8 DEF Inv, Kept
<1>2. Inv /\ [Next]_vars => Inv'
  BY TypedStep, StagesStep, RowsApartStep, RowsStep, UploadsStayStep, BuildRowsStayStep, ServesStep
     DEF Inv, Kept
<1>3. QED
  BY <1>1, <1>2, PTL DEF Spec

\* At no moment, however many attempts a cancel, the reaper or a crash has left at work
\* beside each other, does an expert call itself chattable with nothing to answer from,
\* unless its owner has deleted sources or an attempt says so whose corpus another has
\* reset.
THEOREM Serving == Spec => []ReadyServes
<1>1. Inv => ReadyServes
  BY DEF Inv, Kept, Serves, HasCorpus, ReadyServes, Live
<1>2. QED
  BY <1>1, Invariance, PTL

\* An upload whose job succeeded can be found, whatever builds reset, stored or died
\* beside it and however often it was retried.
THEOREM Searching == Spec => []SearchableWhenDone
<1>1. Inv => SearchableWhenDone
  BY CorpusAssumption
     DEF Inv, Kept, UploadsStay, SearchableWhenDone, Mine, Live, Placed, Searchable
<1>2. QED
  BY <1>1, Invariance, PTL

\* Nothing else takes a row: not a retry that works alone and finds the expert chattable,
\* not another attempt's or upload's storing.
THEOREM Keeping == Spec => CorpusIsKept
<1>1. ASSUME Inv, [Next]_vars
      PROVE  [ \A r \in Row :
                 origin[r] # "none" /\ origin'[r] = "none" /\ deletes' = deletes =>
                    IF origin[r] \in Upload THEN ingest'[origin[r]].at = "rejected"
                    ELSE \E w \in Slot :
                           /\ build[w].at = "reset"
                           /\ build[w].attempt = 1 \/ expert.readiness = "pending" \/ w \in beside ]_vars
  <2> SUFFICES ASSUME NEW r \in Row, origin[r] # "none", origin'[r] = "none", deletes' = deletes
               PROVE  IF origin[r] \in Upload THEN ingest'[origin[r]].at = "rejected"
                      ELSE \E w \in Slot :
                             /\ build[w].at = "reset"
                             /\ build[w].attempt = 1 \/ expert.readiness = "pending" \/ w \in beside
    OBVIOUS
  <2>1. \A q \in Row : ~OwnerDeletes(q)
    BY <1>1, DeletesGrow DEF Inv
  <2>2. ASSUME NEW w \in Slot, Reset(w)
        PROVE  /\ build[w].at = "reset"
               /\ build[w].attempt = 1 \/ expert.readiness = "pending" \/ w \in beside
    BY <1>1, <2>2, ResetMoves DEF Inv, Stages
  <2>3. r \notin Mine => origin[r] \notin Upload
    BY DEF Mine, Live
  <2>4. ASSUME NEW u \in Upload, GiveUp(u)
        PROVE  ingest'[u].at = "rejected"
    BY <1>1, <2>4 DEF GiveUp, Step, Inv, Typed
  <2>5. \/ r \notin Mine /\ \E w \in Slot : Reset(w)
        \/ \E u \in Upload : GiveUp(u) /\ origin[r] = u
    BY <1>1, <2>1, RowMoves, CorpusAssumption DEF Inv, RowOutside
  <2>6. QED
    BY <2>2, <2>3, <2>4, <2>5
<1>2. QED
  BY <1>1, Invariance, PTL DEF Spec, CorpusIsKept
================================================================================
