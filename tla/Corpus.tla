-------------------------------- MODULE Corpus --------------------------------
(* One expert's corpus and the work that writes it: a build (the stages of     *)
(* ExpertBuilder around discovery), the ingestion of uploaded documents        *)
(* (uploads/service.py, run by jobs of their own) and the owner's deletions.   *)
(* They share the tables of sources and chunks, the graph and the columns of   *)
(* the expert's row, without a lock between them.  Nor does one attempt wait   *)
(* for another: a cancelled or reaped one works on until it notices, beside    *)
(* the attempt that its job, or the next build's, has been claimed for.        *)
EXTENDS Integers, FiniteSets, FiniteSetsExt, TLC

CONSTANTS
    Slot,           \* the attempts that may be at work at one time
    Upload,         \* the documents the owner may hand in
    Concept,        \* what the graph of the corpus may be about
    ChunkLimit,     \* GRAPH_MAX_CHUNKS_PER_SOURCE
    MaxAttempts,    \* WORKER_MAX_ATTEMPTS
    MaxRows,        \* bound: rows of sources at one time
    MaxChunks,      \* bound: chunks of one source
    MaxFound,       \* bound: sources discovery passes
    MaxWork         \* bound: builds requested, attempts begun and sources deleted, together

ASSUME CorpusAssumption ==
    /\ {ChunkLimit, MaxAttempts, MaxRows, MaxChunks, MaxFound, MaxWork} \subseteq Nat \ {0}
    /\ "web" \notin Upload /\ "none" \notin Upload

VARIABLES
    origin,         \* sources: "web" or the upload a row came from, "none" if there is no row
    chunks,         \* source_chunks: how many rows each source has
    graph,          \* expert_nodes: the concepts in the graph
    expert,         \* status, readiness and the counts on the expert's row
    job,            \* the build's job
    build,          \* the attempts at work
    ingest,         \* the uploads and their jobs
    deletes,        \* how many sources the owner has deleted
    begun,          \* how many attempts of builds and uploads have begun
    wiped,          \* history: attempts whose corpus another attempt has reset
    beside,         \* history: attempts yet to reset that have had another beside them
    stale           \* history: whether a wiped attempt wrote the expert's readiness

tables  == <<origin, chunks, graph>>
history == <<wiped, beside, stale>>
vars    == <<tables, expert, job, build, ingest, deletes, begun, history>>

Row    == 1..MaxRows
Live   == {r \in Row : origin[r] # "none"}
Mine   == {r \in Live : origin[r] \in Upload}
Active == {"queued", "running"}

Sum(f, S)  == FoldSet(LAMBDA r, total : total + f[r], 0, S)
Least(a, b) == IF a < b THEN a ELSE b

NoBuild  == [at |-> "idle", number |-> 0, attempt |-> 0, rows |-> {}, stored |-> {},
             read |-> {}, sources |-> 0, chunks |-> 0, nodes |-> 0, built |-> FALSE]
NoIngest == [at |-> "new", attempts |-> 0, row |-> 0, expanded |-> FALSE, payload |-> FALSE]

(* A new expert, or one an earlier build has finished.                         *)
Init ==
    \E built \in BOOLEAN :
        LET n == IF built THEN 1 ELSE 0
        IN  /\ origin = [r \in Row |-> IF r <= n THEN "web" ELSE "none"]
            /\ chunks = [r \in Row |-> IF r <= n THEN 1 ELSE 0]
            /\ graph \in IF built THEN SUBSET Concept \ {{}} ELSE {{}}
            /\ expert = [status |-> IF built THEN "ready" ELSE "queued",
                         readiness |-> IF built THEN "graph_ready" ELSE "pending",
                         sources |-> n, chunks |-> n, nodes |-> Cardinality(graph)]
            /\ job = [status |-> IF built THEN "succeeded" ELSE "none", attempts |-> 0,
                      number |-> 0]
            /\ build = [w \in Slot |-> NoBuild]
            /\ ingest = [u \in Upload |-> NoIngest]
            /\ deletes = 0 /\ begun = 0 /\ wiped = {} /\ beside = {} /\ stale = FALSE

(* What counting the rows of the tables gives.                                 *)
Recounted(o, c, g) ==
    [expert EXCEPT !.sources = Cardinality({r \in Row : o[r] # "none"}),
                   !.chunks = Sum(c, Row), !.nodes = Cardinality(g)]

Working == {"extract", "insert", "embed", "empty", "extend", "bump", "clear", "finish"}

(* Ids are never reused while anything remembers them.                         *)
Fresh == Row \ (Live \cup (UNION {build[w].rows : w \in Slot})
                    \cup {ingest[u].row : u \in {v \in Upload : ingest[v].at \in Working}})

(* What the bound counts.                                                      *)
Work == job.number + begun + deletes

-----------------------------------------------------------------------------
(* The build's job.  request_build refuses only a second active build; what a  *)
(* cancelled or reaped attempt of an earlier one still does it cannot see.     *)
RequestBuild ==
    /\ job.status \notin Active /\ Work < MaxWork
    /\ job' = [status |-> "queued", attempts |-> 0, number |-> job.number + 1]
    /\ expert' = [expert EXCEPT !.status = "queued"]
    /\ UNCHANGED <<tables, build, ingest, deletes, begun, history>>

(* cancel_build: the job's row and the expert's.  The attempt is not told.     *)
CancelBuild ==
    /\ job.status \in Active
    /\ job' = [job EXCEPT !.status = "cancelled"]
    /\ expert' = [expert EXCEPT !.status = "failed"]
    /\ UNCHANGED <<tables, build, ingest, deletes, begun, history>>

(* reap_stale: the beat is older than WORKER_STALE_TIMEOUT, because its worker *)
(* died or because its beats did not get through.                              *)
Reap ==
    /\ job.status = "running"
    /\ IF job.attempts < MaxAttempts
       THEN job' = [job EXCEPT !.status = "queued"] /\ UNCHANGED expert
       ELSE job' = [job EXCEPT !.status = "failed"] /\ expert' = [expert EXCEPT !.status = "failed"]
    /\ UNCHANGED <<tables, build, ingest, deletes, begun, history>>

(* Mutant: every attempt starts over.                                          *)
NeverResume == "none"

(* A retry resumes from the readiness it finds, anything else starts over.     *)
ResumePoint == IF job.attempts = 0 \/ expert.readiness = "pending" THEN "none" ELSE expert.readiness

AtWork == {w \in Slot : build[w].at # "idle"}

Now(w, attempt) == build' = [build EXCEPT ![w] = attempt]

StartAttempt(w) ==
    /\ job.status = "queued" /\ build[w].at = "idle" /\ Work < MaxWork
    /\ job' = [job EXCEPT !.status = "running", !.attempts = @ + 1]
    /\ expert' = [expert EXCEPT !.status = "building"]
    /\ Now(w, [NoBuild EXCEPT !.at = IF ResumePoint = "none" THEN "reset" ELSE ResumePoint,
                              !.number = job.number, !.attempt = job.attempts + 1])
    /\ wiped' = IF ResumePoint # "none" /\ stale THEN wiped \cup {w} ELSE wiped
    /\ beside' = IF AtWork = {} THEN beside ELSE beside \cup {o \in Slot : build'[o].at = "reset"}
    /\ begun' = begun + 1
    /\ UNCHANGED <<tables, ingest, deletes, stale>>

To(w, stage) == Now(w, [build[w] EXCEPT !.at = stage])

(* Mutant: readiness is left to the builder, a moment later.                   *)
ResetCorpusOnly(w) ==
    /\ build[w].at = "reset"
    /\ origin' = [r \in Row |-> IF r \in Mine THEN origin[r] ELSE "none"]
    /\ chunks' = [r \in Row |-> IF r \in Mine THEN chunks[r] ELSE 0]
    /\ graph' = {}
    /\ expert' = Recounted(origin', chunks', {})
    /\ To(w, "begin")
    /\ wiped' = (wiped \cup AtWork) \ {w}
    /\ beside' = beside \ {w}
    /\ UNCHANGED <<job, ingest, deletes, begun, stale>>

(* reset_build_state, one transaction: discovered sources and the whole graph  *)
(* go, uploads stay, and the expert stops being chattable.                     *)
Reset(w) ==
    /\ build[w].at = "reset"
    /\ origin' = [r \in Row |-> IF r \in Mine THEN origin[r] ELSE "none"]
    /\ chunks' = [r \in Row |-> IF r \in Mine THEN chunks[r] ELSE 0]
    /\ graph' = {}
    /\ expert' = [Recounted(origin', chunks', {}) EXCEPT !.readiness = "pending"]
    /\ To(w, "begin")
    /\ wiped' = (wiped \cup AtWork) \ {w}
    /\ beside' = beside \ {w}
    /\ stale' = FALSE
    /\ UNCHANGED <<job, ingest, deletes, begun>>

(* The row of the job is written only by the worker that holds it: this        *)
(* attempt's, unless the job has been taken from it; but a worker that has     *)
(* claimed the job again holds it for both its attempts.                       *)
EndJob(w, status) ==
    IF job.status = "running" /\ job.number = build[w].number
    THEN job' \in {[job EXCEPT !.status = status]}
                     \cup (IF job.attempts = build[w].attempt THEN {} ELSE {job})
    ELSE UNCHANGED job

Ends(w) ==
    /\ Now(w, NoBuild)
    /\ wiped' = wiped \ {w} /\ beside' = beside \ {w}

(* The expert's row is written whoever holds the job.                          *)
Closes(w, jobStatus, expertStatus) ==
    /\ EndJob(w, jobStatus)
    /\ expert' = [expert EXCEPT !.status = expertStatus]
    /\ Ends(w)
    /\ UNCHANGED <<origin, chunks, ingest, deletes, begun, stale>>

(* An exception but BuildError is retried while attempts are left.             *)
Refused(w, retryable) ==
    LET status == IF retryable /\ build[w].attempt < MaxAttempts THEN "queued" ELSE "failed"
    IN  Closes(w, status, status)

Fails(w, retryable) == Refused(w, retryable) /\ UNCHANGED graph

(* Planning without key concepts, and discovery without passed sources: the    *)
(* first is retried unless the provider is down, the second never is.          *)
PlanFails(w) == build[w].at = "plan" /\ \E down \in BOOLEAN : Fails(w, ~down)

NothingPassed(w) == build[w].at = "plan" /\ Fails(w, FALSE)

(* Any database error of the attempt.                                          *)
StageFails(w) == build[w].at \notin {"idle", "plan"} /\ Fails(w, TRUE)

(* The beat tells an attempt that its job is no longer running or not its      *)
(* worker's; the spend cap fails it, or publishes what can be chatted with.    *)
Aborted(w) ==
    /\ build[w].at \notin {"idle", "reset"}
    /\ job.status # "running" \/ job.number # build[w].number \/ job.attempts # build[w].attempt
    /\ expert' = [expert EXCEPT !.status = "failed"]
    /\ Ends(w)
    /\ UNCHANGED <<tables, job, ingest, deletes, begun, stale>>

Capped(w) ==
    /\ build[w].at \notin {"idle", "reset"}
    /\ Closes(w, "failed", IF expert.readiness # "pending" THEN "ready" ELSE "failed")
    /\ UNCHANGED graph

(* A shutdown returns the job to the queue; a crash leaves it as it is.        *)
Drained(w) ==
    /\ build[w].at # "idle"
    /\ EndJob(w, "queued")
    /\ Ends(w)
    /\ UNCHANGED <<tables, expert, ingest, deletes, begun, stale>>

Dies(w) ==
    /\ build[w].at # "idle"
    /\ Ends(w)
    /\ UNCHANGED <<tables, expert, job, ingest, deletes, begun, stale>>

-----------------------------------------------------------------------------
(* The stages of an attempt.  set_readiness swallows its own failure.          *)
SetReadiness(w, at, readiness, next) ==
    /\ build[w].at = at
    /\ \/ UNCHANGED <<expert, stale>>
       \/ expert' = [expert EXCEPT !.readiness = readiness] /\ stale' = (w \in wiped)
    /\ To(w, next)
    /\ UNCHANGED <<tables, job, ingest, deletes, begun, wiped, beside>>

Begin(w) == SetReadiness(w, "begin", "pending", "plan")

(* _persist_sources: every source that passed, in one transaction.             *)
PersistSources(w) ==
    /\ build[w].at = "plan"
    /\ \E S \in SUBSET Fresh :
        /\ Cardinality(S) \in 1..MaxFound
        /\ S = {r \in Fresh : Cardinality({q \in Fresh : q < r}) < Cardinality(S)}
        /\ origin' = [r \in Row |-> IF r \in S THEN "web" ELSE origin[r]]
        /\ Now(w, [build[w] EXCEPT !.at = "ingest", !.rows = S])
    /\ wiped' = wiped \ {w}
    /\ UNCHANGED <<chunks, graph, expert, job, ingest, deletes, begun, beside, stale>>

(* ingest_sources, the rows stored one INSERT after the other: a source that   *)
(* fails keeps the rows it has, but is reported to have none.  A source that   *)
(* was deleted meanwhile can have none (the foreign key).                      *)
Untried(w) == build[w].rows \ build[w].read

IngestSource(w, r) ==
    /\ build[w].at = "ingest" /\ r \in Untried(w)
    /\ \E n \in 0..MaxChunks, whole \in BOOLEAN :
        /\ whole => n > 0
        /\ r \notin Live => n = 0
        /\ chunks' = [chunks EXCEPT ![r] = n]
        /\ Now(w, [build[w] EXCEPT !.read = @ \cup {r},
                                   !.stored = IF whole THEN @ \cup {r} ELSE @,
                                   !.chunks = IF whole THEN @ + n ELSE @])
    /\ UNCHANGED <<origin, graph, expert, job, ingest, deletes, begun, history>>

NoChunks(w) ==
    build[w].at = "ingest" /\ Untried(w) = {} /\ build[w].stored = {} /\ Fails(w, FALSE)

(* _hold_tails: the rest of long works is stored but not read for the graph;   *)
(* when it fails, what it stored stays and is not counted.                     *)
HoldTails(w) ==
    /\ build[w].at = "ingest" /\ Untried(w) = {} /\ build[w].stored # {}
    /\ \E long \in SUBSET (build[w].stored \cap Live), counted \in BOOLEAN :
        /\ Cardinality(long) <= 1
        /\ chunks' = [r \in Row |-> IF r \in long THEN chunks[r] + 1 ELSE chunks[r]]
        /\ Now(w, [build[w] EXCEPT !.at = "uploads", !.read = build[w].stored,
                                   !.stored = {},
                                   !.chunks = IF counted THEN @ + Cardinality(long) ELSE @])
    /\ UNCHANGED <<origin, graph, expert, job, ingest, deletes, begun, history>>

(* _load_chunks: at most ChunkLimit chunks of each source.                     *)
Loaded(rows) == FoldSet(LAMBDA r, total : total + Least(chunks[r], ChunkLimit), 0, rows)

LoadUploads(w) ==
    /\ build[w].at = "uploads"
    /\ LET kept == {r \in Mine : chunks[r] > 0}
       IN  Now(w, [build[w] EXCEPT !.at = IF kept = {} THEN "publish" ELSE "count_uploads",
                                   !.read = @ \cup kept, !.rows = {},
                                   !.sources = Cardinality(build[w].rows),
                                   !.chunks = @ + Loaded(kept)])
    /\ UNCHANGED <<tables, expert, job, ingest, deletes, begun, history>>

CountUploads(w) ==
    /\ build[w].at = "count_uploads"
    /\ Now(w, [build[w] EXCEPT !.at = "publish", !.sources = @ + Cardinality(Mine)])
    /\ UNCHANGED <<tables, expert, job, ingest, deletes, begun, history>>

UpdateCounts(w, next, nodes) ==
    /\ expert' = [expert EXCEPT !.sources = build[w].sources, !.chunks = build[w].chunks,
                                !.nodes = nodes]
    /\ Now(w, [build[w] EXCEPT !.at = next, !.read = IF next = "chat" THEN @ ELSE {}])
    /\ UNCHANGED <<tables, job, ingest, deletes, begun, history>>

PublishCounts(w) == build[w].at = "publish" /\ UpdateCounts(w, "chat", 0)

ChatReady(w) == SetReadiness(w, "chat", "chat_ready", "graph")

(* _resume: the corpus, the counts and, from chat_ready, the chunks are read   *)
(* back; what an earlier attempt wrote of the graph is deleted first.          *)
ResumeFrom(w, readiness) ==
    LET scratch == readiness = "chat_ready"
        read == {r \in Live : chunks[r] > 0}
    IN  /\ build[w].at = readiness
        /\ Live # {} /\ (scratch => read # {})
        /\ graph' = IF scratch THEN {} ELSE graph
        /\ Now(w, [build[w] EXCEPT !.at = IF scratch THEN "graph" ELSE "recount",
                                   !.read = IF scratch THEN read ELSE {},
                                   !.sources = expert.sources, !.chunks = expert.chunks,
                                   !.nodes = expert.nodes, !.built = ~scratch])
        /\ UNCHANGED <<origin, chunks, expert, job, ingest, deletes, begun, history>>

(* Nothing to resume from: the graph is deleted all the same if the sources    *)
(* are there.                                                                  *)
NothingLeft(w) ==
    \/ Live = {} /\ build[w].at \in {"chat_ready", "graph_ready"} /\ Fails(w, TRUE)
    \/ /\ Live # {} /\ build[w].at = "chat_ready" /\ \A r \in Live : chunks[r] = 0
       /\ graph' = {}
       /\ Refused(w, TRUE)

(* _graph_stage: the concepts found in what it read; a failure after the nodes *)
(* are in degrades the stage and keeps them.                                   *)
GraphStage(w) ==
    /\ build[w].at = "graph"
    /\ \E found \in SUBSET Concept, built \in BOOLEAN :
        /\ build[w].read = {} => found = {}
        /\ graph' = graph \cup found
        /\ Now(w, [build[w] EXCEPT !.at = "recount", !.nodes = Cardinality(found),
                                   !.built = built])
    /\ UNCHANGED <<origin, chunks, expert, job, ingest, deletes, begun, history>>

CountAgain(w) ==
    /\ build[w].at = "recount"
    /\ UpdateCounts(w, IF build[w].built /\ build[w].read # {} THEN "graphed" ELSE "persona",
                    build[w].nodes)

GraphReady(w) == SetReadiness(w, "graphed", "graph_ready", "persona")

(* The persona, tried up to three times, and the completeness gate: nodes in   *)
(* the graph and a persona.                                                    *)
Complete(w) == build[w].built /\ build[w].nodes > 0

GateFails(w) ==
    /\ build[w].at = "persona"
    /\ \E named, down \in BOOLEAN :
        /\ ~(named /\ Complete(w)) /\ (down => ~named)
        /\ Fails(w, ~down)

Succeeds(w) ==
    /\ build[w].at = "persona" /\ Complete(w)
    /\ Closes(w, "succeeded", "ready")
    /\ UNCHANGED graph

AttemptStep(w) ==
    \/ StartAttempt(w) \/ Reset(w) \/ Begin(w) \/ PlanFails(w) \/ NothingPassed(w)
    \/ StageFails(w) \/ Aborted(w) \/ Capped(w) \/ Drained(w) \/ Dies(w) \/ PersistSources(w)
    \/ NoChunks(w) \/ HoldTails(w) \/ LoadUploads(w) \/ CountUploads(w) \/ PublishCounts(w)
    \/ ChatReady(w) \/ NothingLeft(w) \/ GraphStage(w) \/ CountAgain(w) \/ GraphReady(w)
    \/ GateFails(w) \/ Succeeds(w)
    \/ \E r \in Row : IngestSource(w, r)
    \/ \E readiness \in {"chat_ready", "graph_ready"} : ResumeFrom(w, readiness)

JobStep == RequestBuild \/ CancelBuild \/ Reap

-----------------------------------------------------------------------------
(* An upload.  upload_source looks for an active build, then stores the        *)
(* document, then enqueues: three statements.                                  *)
Step(u, next) == ingest' = [ingest EXCEPT ![u].at = next]

Accept(u) ==
    /\ ingest[u].at = "new" /\ job.status \notin Active
    /\ ingest' = [ingest EXCEPT ![u].at = "stored", ![u].payload = TRUE]
    /\ UNCHANGED <<tables, expert, job, build, deletes, begun, history>>

Queue(u) ==
    /\ ingest[u].at = "stored"
    /\ Step(u, "queued")
    /\ UNCHANGED <<tables, expert, job, build, deletes, begun, history>>

(* The worker reads the expert once, as the job starts.                        *)
StartIngest(u) ==
    /\ ingest[u].at = "queued" /\ Work < MaxWork
    /\ begun' = begun + 1
    /\ ingest' = [ingest EXCEPT ![u].at = "extract", ![u].attempts = @ + 1, ![u].row = 0,
                                ![u].expanded = expert.readiness = "graph_ready"]
    /\ UNCHANGED <<tables, expert, job, build, deletes, history>>

(* extract: a document without usable text, or whose payload is gone, fails    *)
(* its job for good.                                                           *)
Extract(u) ==
    /\ ingest[u].at = "extract"
    /\ \/ ingest[u].payload /\ Step(u, "insert")
       \/ Step(u, "rejected")
    /\ UNCHANGED <<tables, expert, job, build, deletes, begun, history>>

InsertSource(u) ==
    /\ ingest[u].at = "insert"
    /\ \E r \in Fresh :
        /\ \A q \in Fresh : r <= q
        /\ origin' = [origin EXCEPT ![r] = u]
        /\ ingest' = [ingest EXCEPT ![u].at = "embed", ![u].row = r]
    /\ UNCHANGED <<chunks, graph, expert, job, build, deletes, begun, history>>

(* Mutant: a document that yields no chunks is taken for ingested.             *)
EmbedAnything(u) ==
    /\ ingest[u].at = "embed"
    /\ \E n \in 0..MaxChunks :
        /\ ingest[u].row \notin Live => n = 0
        /\ chunks' = [chunks EXCEPT ![ingest[u].row] = n]
    /\ Step(u, IF ingest[u].expanded THEN "extend" ELSE "bump")
    /\ UNCHANGED <<origin, graph, expert, job, build, deletes, begun, history>>

(* ingest_sources for one source, whose failure leaves no chunk ids.           *)
Embed(u) ==
    LET r == ingest[u].row
    IN  /\ ingest[u].at = "embed"
        /\ \E n \in 0..MaxChunks, whole \in BOOLEAN :
            /\ whole => n > 0
            /\ r \notin Live => n = 0
            /\ chunks' = [chunks EXCEPT ![r] = n]
            /\ Step(u, IF ~whole THEN "empty" ELSE IF ingest[u].expanded THEN "extend" ELSE "bump")
        /\ UNCHANGED <<origin, graph, expert, job, build, deletes, begun, history>>

(* delete_source: the row, its chunks with it, one less counted, the chunks    *)
(* recounted; nothing if the row is gone.                                      *)
Delete(r) ==
    IF r \in Live
    THEN /\ origin' = [origin EXCEPT ![r] = "none"]
         /\ chunks' = [chunks EXCEPT ![r] = 0]
         /\ expert' = [expert EXCEPT !.sources = IF @ = 0 THEN 0 ELSE @ - 1,
                                     !.chunks = Sum(chunks', Row)]
    ELSE UNCHANGED <<origin, chunks, expert>>

GiveUp(u) ==
    /\ ingest[u].at = "empty"
    /\ Delete(ingest[u].row)
    /\ Step(u, "rejected")
    /\ UNCHANGED <<graph, job, build, deletes, begun, history>>

(* _extend_graph, which may fail, or find nothing.                             *)
ExtendGraph(u) ==
    /\ ingest[u].at = "extend"
    /\ \E found \in SUBSET Concept : graph' = graph \cup found
    /\ Step(u, "bump")
    /\ UNCHANGED <<origin, chunks, expert, job, build, deletes, begun, history>>

BumpCounts(u) ==
    /\ ingest[u].at = "bump"
    /\ expert' = Recounted(origin, chunks, graph)
    /\ Step(u, "clear")
    /\ UNCHANGED <<tables, job, build, deletes, begun, history>>

ClearPayload(u) ==
    /\ ingest[u].at = "clear"
    /\ ingest' = [ingest EXCEPT ![u].at = "finish", ![u].payload = FALSE]
    /\ UNCHANGED <<tables, expert, job, build, deletes, begun, history>>

IngestSucceeds(u) ==
    /\ ingest[u].at = "finish"
    /\ Step(u, "succeeded")
    /\ UNCHANGED <<tables, expert, job, build, deletes, begun, history>>

(* Any other exception is retried while attempts are left; so is the job of a  *)
(* worker that died, but then the reaper fails the expert with the last.       *)
IngestStops(u, died) ==
    LET again == ingest[u].attempts < MaxAttempts
    IN  /\ ingest[u].at \in Working
        /\ Step(u, IF again THEN "queued" ELSE "exhausted")
        /\ expert' = IF died /\ ~again THEN [expert EXCEPT !.status = "failed"] ELSE expert
        /\ UNCHANGED <<tables, job, build, deletes, begun, history>>

(* delete_source of the API, which looks at no job.                            *)
OwnerDeletes(r) ==
    /\ r \in Live /\ Work < MaxWork
    /\ Delete(r)
    /\ deletes' = deletes + 1
    /\ UNCHANGED <<graph, job, build, ingest, begun, history>>

UploadStep(u) ==
    \/ Accept(u) \/ Queue(u) \/ StartIngest(u) \/ Extract(u) \/ InsertSource(u) \/ Embed(u)
    \/ GiveUp(u) \/ ExtendGraph(u) \/ BumpCounts(u) \/ ClearPayload(u) \/ IngestSucceeds(u)
    \/ \E died \in BOOLEAN : IngestStops(u, died)

Next ==
    \/ JobStep \/ (\E w \in Slot : AttemptStep(w))
    \/ (\E u \in Upload : UploadStep(u)) \/ \E r \in Row : OwnerDeletes(r)

Spec == Init /\ [][Next]_vars

-----------------------------------------------------------------------------
(* For TLC.  Attempts are alike, and two states that agree on Matters have the *)
(* same steps before them: no guard reads the counts, the expert's status, how *)
(* a job ended, how much of the bound went where, or what an attempt or an     *)
(* upload has put behind it; and of chunks, nodes and what was read for the    *)
(* graph, only whether there are any.                                          *)
Alike == Permutations(Slot)

BuildMatters(w) ==
    <<[build[w] EXCEPT !.sources = 0, !.chunks = 0, !.nodes = @ > 0, !.number = @ = job.number,
                       !.read = IF build[w].at = "ingest" THEN @ ELSE @ # {}],
      w \in wiped /\ build[w].at \notin {"reset", "begin", "plan"}, w \in beside>>

IngestMatters(u) ==
    CASE ingest[u].at \in {"extract", "insert", "embed"} -> ingest[u]
      [] ingest[u].at \in Working -> [ingest[u] EXCEPT !.expanded = FALSE]
      [] ingest[u].at = "queued" -> [ingest[u] EXCEPT !.expanded = FALSE, !.row = 0]
      [] OTHER -> ingest[u].at

Matters ==
    <<origin, {r \in Row : chunks[r] > 0}, graph,
      expert.readiness, expert.nodes > 0, stale /\ expert.readiness # "pending",
      IF job.status \in Active THEN <<job.status, job.attempts>> ELSE <<>>,
      [w \in Slot |-> BuildMatters(w)], [u \in Upload |-> IngestMatters(u)],
      Work, deletes = 0>>
-----------------------------------------------------------------------------
TypeOK ==
    /\ origin \in [Row -> {"none", "web"} \cup Upload]
    /\ chunks \in [Row -> Nat] /\ graph \subseteq Concept
    /\ expert.readiness \in {"pending", "chat_ready", "graph_ready"}
    /\ \A r \in Row \ Live : chunks[r] = 0

(* An expert that calls itself chattable has something to answer from, unless  *)
(* its owner deleted it, or the attempt that said so had its corpus reset by   *)
(* another that worked beside it: readiness falls in the transaction that      *)
(* takes the corpus, and rises only after chunks are stored, whatever dies,    *)
(* is cancelled, reaped, retried or rebuilt in between.                        *)
ReadyServes ==
    expert.readiness # "pending" /\ ~stale /\ deletes = 0 => \E r \in Live : chunks[r] > 0

(* What was paid for or handed in is kept.  A row of an upload goes only when  *)
(* the owner deletes it or its own job gives it up; a stored row of discovery  *)
(* only by the owner, or by an attempt: the first of its build, or one that    *)
(* finds the expert not chattable, or one that does not work alone.  Any other *)
(* retry resumes instead of fetching again.                                    *)
CorpusIsKept ==
    [][ \A r \in Row :
          origin[r] # "none" /\ origin'[r] = "none" /\ deletes' = deletes =>
             IF origin[r] \in Upload THEN ingest'[origin[r]].at = "rejected"
             ELSE \E w \in Slot :
                    /\ build[w].at = "reset"
                    /\ build[w].attempt = 1 \/ expert.readiness = "pending" \/ w \in beside ]_vars

(* An upload reported as ingested can be found, until its owner deletes it.    *)
SearchableWhenDone ==
    \A u \in Upload : ingest[u].at = "succeeded" /\ deletes = 0 =>
        \E r \in Mine : origin[r] = u /\ chunks[r] > 0

-----------------------------------------------------------------------------
(* What the documentation of the code says and the code does not keep.         *)

(* "an expert whose corpus has just been deleted for a rebuild is never        *)
(* advertised as chattable" (search/readiness.py): the attempt that a cancel   *)
(* or the reaper has given up on writes chat_ready over the emptied corpus.    *)
ReadyAlwaysServes ==
    expert.readiness # "pending" /\ deletes = 0 => \E r \in Live : chunks[r] > 0

AtRest == AtWork = {} /\ job.status \notin Active
          /\ \A u \in Upload : ingest[u].at \notin Working \cup {"queued"}

(* "ingest_upload deletes the sources row when nothing embeds, so an upload    *)
(* always has at least one chunk" (_build).                                    *)
UploadHasChunks == AtRest => \A r \in Mine : chunks[r] > 0

(* The document becomes the row of sources: not several.                       *)
OneRowPerUpload == \A u \in Upload : Cardinality({r \in Mine : origin[r] = u}) <= 1

(* "it never moves the expert out of ready" (_run_ingest_job).                 *)
IngestLeavesStatus == [][ ingest' # ingest => expert'.status = expert.status ]_vars

(* "Refuse an ingest while a build is running" (_guard_no_active_build).       *)
NoIngestInBuild == \A u \in Upload : ~(ingest[u].at \in Working /\ AtWork # {})

(* "These counts are what the catalog and the expert page display" and         *)
(* "expensive to have wrong" (_bump_counts): true whenever nothing runs.       *)
CountsAtRest ==
    AtRest => expert.sources = Cardinality(Live) /\ expert.chunks = Sum(chunks, Row)

(* "graph_ready: only the persona is missing" (resume).                        *)
GraphReadyHasNodes == \A w \in Slot : build[w].at = "graph_ready" => graph # {}
=============================================================================
