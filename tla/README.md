# Peritus in TLA+

A TLA+ development of Peritus, the service that builds topic experts from
sources it finds and answers questions over them. It lives beside the code and
is written from it: every definition that models code is listed in
`PROJECT.json` with the lines it stands for. Paths below are relative to the
repository; `peritus/` stands for `api/src/peritus/`.

To check it: `tlc -config <run>.cfg <module>` for each run of the table in
section 4, and `tlapm` on the eight modules whose name ends in `Proofs`.

## 1. Inventory

An API process (FastAPI) and one or more worker processes share a PostgreSQL
database and never call each other: a build is a row of `build_jobs` that one
inserts and another claims, its progress rows of `build_events` that the API
reads back to clients, its price rows of `credit_ledger` that both write. A
build is a long coroutine of stages over the tables of sources, chunks and the
concept graph; uploads are jobs of their own over the same tables; a question
reads them all and writes a conversation.

| Component | State | Operations | Hard behaviour | What makes it correct |
|---|---|---|---|---|
| Build queue (`jobs/repository.py`, migrations 010, 021) | `build_jobs`: status, `locked_by`, attempts, `available_at`, `heartbeat_at` | enqueue, claim (SKIP LOCKED), heartbeat, mark_*, requeue, release_for_shutdown, reap_stale, request_cancel | many workers on one table; late beats make a live holder reapable; guarded updates that match nothing | one active build per expert; a finished row stays finished; only the holder of a fresh lock ends a row |
| Build worker (`jobs/worker.py`) | running tasks, protected ids, one `_Supervision` per task | run/poll, `_fill_slots`, `_maybe_reap`, `_drain`, `_execute` and its handlers | cancellation at any await; crash between any two calls; a beat that stops the work it beats for | attempts of one build do not overlap; every ending is announced and shown |
| Requests (`experts/service.py`, `api/routes/experts.py`) | the calls in flight | request_build, cancel_build, delete_expert | five to eight separate transactions per request; double submission | nothing runs unpaid; a cancel undoes what it should |
| Expert row (`experts/repository.py`, `search/readiness.py`) | status, readiness, counts | update_status, reset_build_state, set_readiness | unguarded writes by API, worker, reaper and leftovers of earlier attempts | ready implies a corpus; status follows the jobs |
| Credit ledger (`billing/repository.py`, migration 016) | `accounts`, append-only `credit_ledger` | ensure_account, hold_for_job, refund_job, grant | check-then-write under READ COMMITTED; lock waits of indexes and foreign keys; SET NULL on deletion | no overdraft; one hold and one refund per job; one welcome grant; no deadlock |
| Spend metering and provider calls (`billing/metering.py`, `infrastructure/anthropic_batch.py`) | buckets, totals, over_cap; batches, results by index | record, drain, restore, flush loop; gather_claude_calls | a flush cancelled or failed half way; a batch that never ends, salvage, live fallback | every call answered once, in its place, and recorded once |
| Event log and tail (`build_events`, `_tail_events`, `web/hooks/use-build-events.ts`) | log, sequence, cursors | append, read, reconnect | numbers drawn before commit; the row ending before its event; another job meanwhile | in order, once; the client learns the end |
| Build pipeline (`experts/builder.py`) | readiness milestones, sources, chunks | build, resume, the stages between | partial corpora; retries that resume; uploads and deletions meanwhile | the completeness gate; nothing kept is lost |
| Discovery loop (`_run_discovery`, `_fetch_with_refill`, `experts/build/policy.py`) | money committed, candidates seen, accepted texts, a ledger of candidates | rounds; search, merge, triage, fetch waves, near-copies, validation | two budgets, one estimated; refunds of failed fetches; concurrency within a wave | limits are passed by less than a wave; one outcome per candidate; no two copies |
| Research (`sources/`, `experts/coverage.py`, `composition.py`, `feedback.py`) | verdicts, canonical works, coverage, the pool of citations | judge, second opinion, resolve and retry works, follow up, cap, cut | answers in any order, missing or malformed; routes that fail | verdicts stand; every named work is accounted for; a balanced corpus |
| Upload ingestion (`uploads/`, `api/routes/sources.py`) | `source_uploads`, source rows | guard, queue, `_run_ingest_job`, ingest_upload | check-then-act against builds; duplicated work on retry | what is done is searchable |
| Text (`ingestion/`) | chunks, sections | split, pack, overlap, fold; close-read, hold, summarise | boundaries everywhere | text in order, none lost; each part read as it should be |
| Concept graph (`graph/`) | nodes, edges, evidence | ingest, resolve, merge, recompute, assign | builds and uploads write at once, one transaction per method | relations join what exists; evidence is counted; a merge takes over what the dropped node had |
| Chat and conversations (`chat/`, `api/routes/conversations.py`) | messages, a streaming claim; one question's passages | create, claim, stream, store; plan, search, fuse, floor, seats, neighbours, diversify, audit | one writer per conversation, healing after a crash; passages displaced by later steps | streams never interleave; the best passage is shown and everything accounted for |
| Sharing, accounts, sign-in (`experts/share_repository.py`, `accounts/`, `api/routes/auth.py`) | links, grants, users, sessions | enable, reset, disable, accept, leave; delete_account; login, refresh, reset | tokens that outlive an account; several calls to an outside service | who is shut out stays out; nothing of a deleted person remains |
| Audit, reports, map, outline (`audit/`) | none: read over rows and the event log | funnel, map, outline, reports | logs of attempts that died or resumed; queries that see different corpora | the numbers add up to the rows |
| Pictures (`experts/picture.py`) | one row | find, refresh, delete | a build and an owner at once | what is shown passed the gates |
| HTTP clients, pool, evaluation, command lines, operations | - | - | I/O and presentation | - |

`PROJECT.json` lists the components with their sources and, under `hazards`,
what in this code a test would hardly reach, at its line.

## 2. Modules

```
JobLifecycle <-- implemented by -- JobQueue <-- implemented by -- BuildLifecycle
                                   |                              |
                             JobQueueProofs               BuildLifecycleProofs
                             MCJobQueue                   MCBuildLifecycle
CreditLedger -- CreditLedgerProofs, MCCreditLedger       EventTail -- EventTailProofs

Conversation -- ConversationProofs       Corpus -- CorpusProofs
                                         Retrieval -- MCRetrieval
FetchWaves
    |
Discovery = FetchWaves + Dedup + Triage + BuildPolicy -- DiscoveryProofs, MCDiscovery

MCParts:  Validation   CanonicalSearch -> Canonical   FollowUp   ProviderCalls
          Curation -> Composition -> Coverage         Chunker    LongWork
          ConceptGraph -> GraphExtraction             AuditFunnel   Outline   ExpertMap
          Pictures                                    CorpusReport
          Accounts    SignIn -- PeopleProofs, of both
```

**JobLifecycle** is what everything else may rely on: the edges of a job's
status, the attempt counter that moves with each claim, one active build per
expert.

**JobQueue** has one action per statement of `jobs/repository.py` and per step
of a worker that decides which statement comes next. `status`, `lockedBy`,
`attempts` are the columns; `due` and `stale` stand for the comparisons of
`available_at` and `heartbeat_at` with the clock, so time is not counted and a
beat may be late by any amount. `tasks` are the asyncio tasks of `_fill_slots`
and `protected` is `_running_job_ids`. `Holds` is the guard
`locked_by = $2 AND status = 'running'` of every worker's write: `Finish` and
`GiveBack` go on when it matches no row, as the code does. A process id is an
incarnation (`worker_id` has a random part), so a restart is another member of
`Workers`. `DeleteExpert` is the cascade, separate from the cancel before it.

**BuildLifecycle** is one expert's builds from the request to the refund. A
request, a cancel and a task are program counters (`req`, `can`, `t.at`) over
the awaited calls of `request_build`, `cancel_build`, `_execute`,
`_on_failure`, `_on_cancelled`, `_on_cap_exceeded`; between two of them
anything else may happen. `Raises` leaves the try block with an exception,
`BeatFindsJobGone` and `OverCap` are the two reasons the heartbeat loop cancels
the work (and do nothing but end the beats when there is no work to cancel),
`ShutdownCancels` is `_drain`. `HandlerCallFails` skips a call under
`suppress(Exception)` and ends the task at any other. A request or cancel whose
process died is "dead". The pipeline is abstracted to its readiness milestones
and the completeness gate. `Queue == INSTANCE JobQueue WITH ...` maps a task
that has made its last write to the row to a closing task (`View`).

**CreditLedger** has one action per SQL statement of `ensure_account`,
`hold_for_job`, `refund_job` and `grant`. `wrote` marks a row not yet
committed; a statement reads committed rows only. `locker` is the
`FOR UPDATE` of the account; an insert waits for it because the ledger's
foreign key takes a key-share lock, and an insert under a unique index waits
for a pending row with its key. `DeleteJob` is the expert's deletion, after
which `job_id` is NULL. What is true of PostgreSQL rather than of the code
(these waits) is marked external in the map.

**EventTail** has the log with the gap between a number and its commit
(`pending`), the writers of each job, the tail of the API process and the
client. `Send` is the server's yield and the client's handling of the frame;
`Drop` loses the connection at any moment with what was not received.

**Corpus** is an expert's tables under everything that writes them: the stages
of a build's attempts and their resume points (`ResumePoint`), `ingest_upload`
step by step with the failures that stop it, the owner's deletion of a source
(the expert's own is in JobQueue, CreditLedger and Accounts). Rows of sources
have an origin (the web or an upload), chunks a count. `job` is the build's row
of `build_jobs`; `CancelBuild` and `Reap` take it from an attempt without
telling it, so a `Slot` may still be at work when the next attempt, or the next
build's, is claimed for another slot, resets and fetches. An attempt goes on
until its beat tells it (`Aborted`), the cap, a drain or a crash stops it
(`Capped`, `Drained`, `Dies`) or its last stage is done; what it then writes of
its job matches a row only while that is its worker's (`EndJob`), what it writes
of the expert is not guarded at all (`Closes`, `SetReadiness`). Three history
variables, which no guard reads, name what such an overlap leaves behind:
`wiped` the attempts whose corpus another has reset, `stale` that one of these
wrote the readiness last, `beside` the attempts yet to reset that have had
another at work beside them.

**FetchWaves** is `_fetch_with_refill`: the queue's index, the wave in flight,
estimated money committed, the tally by type, what was relaxed, and per
candidate what became of it. **Discovery** puts the rounds around it: search
by channel, merge (**Dedup**: `deduplicate_candidates`, near-copies by text),
rank (**Triage**), limits (**BuildPolicy**), judge, and decide whether to go
round again (`StopReason`).

**Conversation** has a turn as a program counter over
`api/routes/conversations.py` and the exits of a stream, the claim's
timestamp as fresh or stale, the share link and the viewer's grant. **Retrieval**
is one question through `chat/agent.py`: every list a step reads is a variable
of the context, rerankers, planners and the database answer or fail, and the
audit trail is computed from what the steps recorded.

The modules of **MCParts** are components of the research, reading, reporting
and account sides that share no state with one another. `part` says which of
them a behaviour is of, and one run checks them side by side:

* **Validation**: two passes of judging in batches, answers in any order.
* **Curation** (**Composition**, **Coverage**): what rounds accept, the caps on
  stubs and narrow papers, coverage against the syllabus, what the next round
  is told to search for.
* **CanonicalSearch** (**Canonical**): works looked for by title along routes
  that fail, substitutes, the retry, and what is reported found.
* **FollowUp**: the syllabus from the planner's answer, later rounds' queries
  and channels, the pool of works that sources cite.
* **ProviderCalls**: a stage's calls through a batch or live, the meter and
  its flushes.
* **Chunker**, **LongWork**: packing, overlap and folding of chunks; the cut,
  held, graphed and summarised parts of a long work.
* **ConceptGraph** (**GraphExtraction**): writers of one graph, one transaction
  per repository method, but for `merge_nodes`: its seven statements are steps
  (`UnionChunks`, `DropTwinsFrom`, `DropTwinsTo`, `RedirectFrom`, `RedirectTo`,
  `DropLoops`, `DropNode`), each of which sees what others have committed by
  then (`Seen`) and what the transaction has done itself (`task.merge`); other
  writers see it when it commits, with the node's deletion, whose cascade takes
  the relations that have joined the node meanwhile. Row locks only delay: a
  statement that would wait is taken to begin when it need not; that one may be
  aborted by a cycle of waits is among what `CallFails` allows.
* **AuditFunnel**, **Outline**, **ExpertMap**: the funnel over those events of
  the log that `funnel_events` asks for (`FUNNEL_EVENT_TYPES`), the reading
  order, the map.
* **CorpusReport**: the reports over sources, concepts, contradictions and the
  graph. A request is a list of queries, each of which sees the tables as they
  are when it runs (`Sections` is their order in `audit/service.py`); uploads,
  a rebuild, an extraction or a deletion come in between. `via` is
  `discovered_via` cut at its colons. A client that pages until `has_more` is
  false is modelled too.
* **Pictures**: the gates a picture passes, two looks of a build, an owner's
  refresh and delete, one row.
* **Accounts**, **SignIn**: ownership, links and deletion; the handlers of
  sign-in over an outside service. A changed address and a linked identity
  bring a device a second session (`SignInAgain`); nobody signs the first one
  out.

Numbers that only meet thresholds (scores, lengths, money) are small integers;
a title, a label, a text or a URL is a model value or a number; similarity is
a relation between them.

## 3. What is checked

| Property | Module | It says |
|---|---|---|
| `LatestClaimHoldsLock` | JobQueue | the latest attempt of a running row is the holder's; every other worker's task is a leftover whose writes match no row |
| `TerminalIsFinal` | JobQueue | nothing but a deletion follows an outcome |
| `FreshLockIsRespected` | JobQueue | while its beat is fresh only the holder's own task ends a running job, or a cancel or a deletion |
| `OneActiveBuild` | JobQueue | the unique index is never contradicted |
| `ImplementsLifecycle` | JobQueue | refinement of JobLifecycle |
| `OneAttemptAtATime` | BuildLifecycle | with punctual beats two attempts run at once only if they are of two jobs and one of these was cancelled |
| `ReadyIsChattable` | BuildLifecycle | status ready is never over a wiped corpus |
| `SucceededIsAnnounced` | BuildLifecycle | a succeeded job has its `done` event |
| `AgreesAtRest` | BuildLifecycle | with nothing in flight and no cancel, the expert agrees with its jobs |
| `ActiveIsPaid` | BuildLifecycle | when no request is half way every active job has its hold |
| `ExpertSettles` | BuildLifecycle | an expert does not stay queued or building |
| `ImplementsQueue` | BuildLifecycle | refinement of JobQueue |
| `NeverOverdrawn` | CreditLedger | concurrent calls never spend credits twice; only a claw-back takes a balance below zero |
| `ChargedOnce`, `SignupOnce` | CreditLedger | one hold, one refund, one welcome grant |
| `EveryCallEnds` | CreditLedger | no cycle of waits, no lock kept |
| `InOrderAndOnce` | EventTail | what the client gets of a job is in order and never twice |
| `TailKeepsItsWord` | EventTail | an end in the log is told, whatever connections are lost; the server does not tail for ever |
| `OneWaveOver` | FetchWaves | the limit on estimated money is passed by less than one wave |
| `LedgerTellsAll` | Discovery | every candidate a round ranked has exactly the outcome that befell it |
| `NoTwins` | Discovery | over all rounds no two accepted texts are copies |
| `MoneyLimitHolds` | Discovery | no round begins with nothing left, which would mean no limit |
| `EveryStepProgresses` | Discovery | rounds left, stage, work left: a lexicographic measure decreases at every step (and, with deadlock checked, the loop never stops half way) |
| `ReadyServes` | Corpus | an expert that calls itself chattable has chunks, unless its owner deleted them or the attempt that said so last had its corpus reset by another beside it |
| `SearchableWhenDone` | Corpus | an upload that is done has embedded chunks |
| `CorpusIsKept` | Corpus | an upload's row goes only when its owner deletes it or its own job gives it up; a discovered row only by the owner or by the reset of an attempt that is its job's first, finds the expert not chattable, or has not worked alone |
| `OneAnswerAtATime` | Conversation | two answers never stream at once (streams shorter than the window) |
| `TranscriptHolds` | Conversation | answers stand under their own questions; a retried question is not stored twice; the count is that of the messages |
| `RevokedStaysOut` | Conversation | who lost the expert reads it again only through a live link |
| `SlotComesBack` | Conversation | a conversation becomes claimable again, whatever dies |
| `AccountAddsUp` | Retrieval | the trail says of every chunk, once, what became of it, and what was cited was shown |
| `PassagesHold` | Retrieval | the best passage and its run are shown; neighbours are joined to what they surround |
| `ResearchHolds` | MCParts | verdicts are what the judge last said, and clear ones stand; every named work has one outcome and was looked for; the syllabus is the plan's; the pool of citations does not depend on the order of the lists; the corpus is balanced |
| `CallsAccounted` | MCParts | one answer per call in its place; what was paid for is recorded once |
| `ReadingHolds` | MCParts | chunks hold the text in order within their sizes; a long work's parts are disjoint, in place and within budget |
| `GraphHolds` | MCParts | relations join two nodes that exist; no merge leaves a loop; at rest evidence counts the sources of their ends |
| `ReportsHold` | MCParts | the funnel's totals of what was found are the attempt's, those of the later stages its last round's; outline and map are what the rows say; however a report cuts the sources the parts make the total, pages neither repeat nor leave out, a refused export is one that was too long, a concept is called absent only if no accepted source has its tag, and each side of a contradiction shows passages of its own claim before shared ones |
| `PictureHolds` | MCParts | a picture shown passed the gates; of one that a build put there its log tells, or is about to, but for a first look that the build's end cuts off |
| `PeopleHold` | MCParts | nothing of a deleted person remains but an opened link; one live link; no stray session, but for those of a refused reset and those a device put aside |
| `NothingGoesBack` | MCParts | coverage does not recede, a named text does not get worse; a step of the graph hands the chunks and relations of a node that goes to the one that stays, but for what came while it was being merged |

Each property of a passing run is paired in `PROJECT.json` with a mutation of
the code's definition (a guard dropped, a lock not taken, a cursor moved too
far, a list read in the wrong order) under which TLC finds it violated.
Definitions like `TypeOK`, `Settles` and the modules' inductive invariants
`IInv` can be checked with the same configurations, `NothingSkipped` with that
of `tail` and one job.

## 4. Runs and bounds

| Run | Module | Instance | Distinct states |
|---|---|---|---|
| `queue` | MCJobQueue | 2 builds of 1 expert, 2 workers with 1 slot, 2 attempts | 127 thousand, up to symmetry |
| `builds` | MCBuildLifecycle | 2 requests, 2 jobs, credit for 1 build, a cancel, 1 worker, crashes of the API | 1.6 million |
| `build_settles` | MCBuildLifecycle | 1 job, a rebuild, 2 workers with 2 slots, crashes, fair | 128 thousand |
| `build_lapses` | MCBuildLifecycle | 1 job, 2 workers with 1 slot, late beats, failing calls | 414 thousand |
| `ledger` | MCCreditLedger | 1 owner, 2 jobs, 2 holds, 2 refunds, 1 claw-back, 2 sign-ins, fair | 37 thousand |
| `tail` | EventTail | 2 jobs, 1 progress event each, reaps, 1 lost connection, fair | 218 thousand |
| `discovery` | MCDiscovery | 5 candidates of 2 types from 2 channels, 2 canonical works, waves of 2, 2 follow-up rounds, prices up to 3 against 3 a round and 5 in all | 403 thousand |
| `corpus` | Corpus | 2 attempts at work at a time, 1 upload, 3 source rows, 1 chunk a source, 2 attempts a job; 4 builds requested, attempts begun and sources deleted, together | 1.5 million, up to symmetry, 2 minutes |
| `chat` | Conversation | 3 turns with 2 questions, 2 links, 1 death of a process | 1.4 million, fair |
| `retrieval` | MCRetrieval | nine chunks of three works, plans of up to 2 sub-queries, 3 scores | 1.2 million |
| `parts` | MCParts | the instances below, side by side | 1.5 million, 90 seconds |
| `build_cancel_race` | MCBuildLifecycle | 1 request, 1 job, 1 cancel, 1 worker | ends in a counterexample |

Why these are enough.

* *Queue, builds, ledger, tail.* A job meets at most one earlier attempt of
  itself that matters (a leftover and its successor), which two attempts and
  two workers give; with two slots a worker meets its own leftover.
  `MaxAttempts` is 2 where the code has 3: one attempt that is retried and one
  that is the last. Attempts are not capped in the model: a release at shutdown
  does not count against them, and processes, hence releases, are finite in an
  instance. Jobs interact only through the unique index and the balance, for
  which two are enough. Two calls of a kind contend for each lock of the
  ledger, with a price the balance covers once. `Limit` 1 makes every read of
  the log a read of its own, and a switch of jobs falls between any two.
* *Discovery.* A wave of two has one fetch settled while the other is out; the
  rest of the queue waits behind it. Two rounds have a seen set, a rest of money
  and texts of an earlier round; the loop's own limit decides between them.
  Candidates are chosen so that each case has one: a canonical work that the
  resolver and a search both find, two renderings of one article of which one
  has no identifier, a cited work; scores are none, between the two floors and
  above both.
* *Corpus.* Two slots are an attempt and the one it overlaps with. `MaxWork` 4
  is enough for a build that is cancelled or reaped, the next attempt or build,
  and an upload or a deletion beside them: all two-way races. `MaxRows` 3 leaves
  room for the row of a dead attempt beside its successor's. Chunks are counted
  to 1 because every reader compares the count with none. Slots are symmetric,
  and `VIEW Matters` leaves out of a state what no guard, property or later
  value of another part of the view depends on: counts, how a job ended, how
  much of the bound went where. The number of states varies by a few because a
  state's representative under the symmetry is chosen before the view is taken.
* *Chat.* Three turns give one that holds the claim, one that is refused and
  one that finds the claim stale. Two links give one that was reset.
* *Retrieval.* Nine chunks of three works: a long argument, a second work with a
  chunk that is no prose, and a third that holds a copy of a passage of the
  first; there are more than the context takes. Scores are one under the floor,
  one weak and one strong.
* *Parts.* Each has small inputs that `MCParts` names and comments: three
  sources judged in two batches, with marks on both sides of the bar and in the
  band that is asked about again; nine sources against a syllabus of four
  concepts; a long work named three times and a book in copyright, by five
  routes; plans with repeated and too many facets, two works that cite the same
  papers; two calls in two stages; paragraphs around the size limits; four long
  works with headings nested, doubled by a table of contents, or absent; a
  build and an upload writing one graph; two attempts' event logs over two
  rounds; eight sources, judged, unjudged, uploaded or found again, under four
  corpora to begin with and two changes between the queries of a report, with
  pages of two, two reasons listed, two passages a side, three nodes drawn and
  three rows exported, so that each limit cuts and each does not; six kinds of
  passages in outlines of up to six; five concepts of three sources that come
  and go; five pages for a build and an owner; two accounts in two tabs; two
  devices.

Counts in thresholds (`FetchFloor`, `WeakTop`, `RelaxMin`, ...) are the code's
where the comparison is of scores, and smaller where it is of quantities that
the instance has few of.

`CHECK_DEADLOCK FALSE` is everywhere but in `discovery`: jobs, requests, calls,
connections and turns are finite in an instance and the system stops when they
are used up. That no waiting is for ever is what `Settles`, `ExpertSettles`,
`EveryCallEnds`, `TailKeepsItsWord` and `SlotComesBack` say. A round of
discovery may not stop half way, so there deadlock is checked and `Ended` lets
only an ended loop stutter.

Switches. `Lapses` lets beats be late without cause, `Crashes` lets workers
stop, `Faults` lets calls in handlers fail, `ApiCrashes` lets the API process
stop in a request (BuildLifecycle); `Reaps` lets the reaper end a row, `Skews`
lets a lower number commit after a higher one (EventTail); `SlowStreams` lets
an answer stream past the claim's window (Conversation); `TornFlushes` lets a
flush commit and then report a failure (ProviderCalls). A run turns on what
its properties are about; a property is not checked where the code does not
keep it, and the next section says which those are.

Fairness. The poll loop survives every exception (`BuildWorker.run`), so
claims and reaps recur; a worker is restarted by its platform, and
`Replaceable` keeps one alive or startable; the calls of a task are bounded
(acquire and provider timeouts), so it makes its next step; backoffs elapse; a
row nobody beats for goes stale. A beat that is sent need not arrive in time,
a user need not cancel, an exception need not be raised: none of these is
fair. In the ledger PostgreSQL runs every statement that does not wait. In the
tail the client's loop reconnects until it is told. In a conversation a claim
that nobody renews goes stale by the clock, and a process that is alive runs
its generator on; a user need not ask. Liveness is stated under weak fairness
only.

## 5. Disagreements between code and documents

One run ends in a counterexample, on purpose: `build_cancel_race`. A cancel
that reads an active build, and whose UPDATE comes after the build's success,
refunds and fails the succeeded build; `billing/service.py:161` promises one
charge for a success.

The same configurations, each with one property below in the place of its own,
have the following counterexamples. The definitions stay in the modules with
the sentence they quote. For a module of `MCParts`, extend `MCParts` and check
`part = "<its part>" => M!P`, where `M` is the name `MCParts` instantiates it
under. `PROJECT.json` describes the weightiest under `findings`.

| Property | Module, configuration | Stated in | What happens |
|---|---|---|---|
| `ExhaustedIsRefunded` | MCBuildLifecycle, `build_settles` | `docs/build-flow.md:121` | the reaper exhausts retries and touches no ledger row |
| `SuccessIsCharged` | MCBuildLifecycle, `build_settles` | `billing/service.py:161` | `_on_failure` refunds, the worker dies before marking the job, a later attempt succeeds for nothing |
| `CancelledIsRefunded` | MCBuildLifecycle, `build_cancel_race` | `docs/api-reference.md:154` | the hold is taken after the cancel's refund |
| `CancelledIsNotShown` | MCBuildLifecycle, `build_cancel_race` | `api/routes/experts.py:362` | the worker sets the status once more after the route |
| `CancelledLeavesNothing` | MCBuildLifecycle, `build_cancel_race` | `jobs/worker.py:682` | a build cancelled after chat-ready leaves a working corpus and is refunded |
| `ResumesOwnCorpus` | MCBuildLifecycle, `build_settles` | `jobs/worker.py:121` | the first attempt dies before its reset; the retry resumes from the previous build |
| `RetriesStartOver` | MCBuildLifecycle, `build_settles` | `docs/build-flow.md:141` | a retry resumes from readiness |
| `RefundIsNotGivenUp` | MCCreditLedger, `ledger` | `billing/service.py:157` | after deletion the hold has no `job_id` and the refund finds nothing |
| `ReportsWhatItRefunds` | MCCreditLedger, `ledger` | `billing/repository.py:243` | both of two concurrent refunds report the amount |
| `AttemptsAreBounded` | MCJobQueue, `queue` | `docs/build-flow.md:138` | a release at shutdown leaves the attempt counted, and claims do not look at the maximum |
| `NoConcurrentBuilds` | MCJobQueue, `queue` | `migrations/021_source_uploads.sql:34` | a cancelled or reaped attempt is still running when the next build starts |
| `ProtectsOwnWork` | MCJobQueue, `queue` with 1 worker of 2 slots | `jobs/worker.py:258` | the done-callback of an older attempt removes the protection of a newer one |
| `ClientIsTold` | EventTail, `tail` | `docs/api-reference.md:245` | the reaper appends no terminal event, and the client reconnects for ever to a stream that closes at once |
| `ResumeLosesNothing` | EventTail, `tail`; with `Skews`, 1 job | `web/app/api/experts/[slug]/build/events/route.ts:6` | a reconnect follows the expert's latest job, another one; a lower number commits after a higher one was read |
| `ReadyAlwaysServes` | Corpus, `corpus` | `search/readiness.py:25` | an attempt that a cancel or the reaper gave up on sets chat-ready over the corpus the next one has reset |
| `UploadHasChunks` | Corpus, `corpus` | `experts/builder.py:621` | an attempt that dies after its INSERT leaves an upload's row without chunks |
| `OneRowPerUpload` | Corpus, `corpus` | `uploads/service.py:137` | a retry inserts a second row for the same upload |
| `IngestLeavesStatus` | Corpus, `corpus` | `jobs/worker.py:535` | a reaped ingest job fails an expert that was ready |
| `NoIngestInBuild` | Corpus, `corpus` | `api/routes/sources.py:62` | the guard reads, then enqueues; a build never looks at ingest jobs |
| `CountsAtRest` | Corpus, `corpus` | `uploads/service.py:299` | an ingest that crossed a build leaves counts that are not those of the rows |
| `GraphReadyHasNodes` | Corpus, `corpus` | `experts/builder.py:367` | graph-ready is set whether or not any node was extracted |
| `OneAnswerAtATime` | Conversation, `chat` with `SlowStreams` | `chat/conversation_repository.py:215` | nothing renews the claim, and an answer may stream past its window |
| `BlankIsNotStored` | Conversation, `chat` | `chat/streaming.py:112` | an answer of white space has tokens, and the caller stores what was streamed |
| `EveryPartIsShown` | MCRetrieval, `retrieval` | `chat/agent.py:1122` | a passage that alone stands for a part of the question is swapped out for another source's |
| `EnoughIsKept` | MCRetrieval, `retrieval` | `chat/agent.py:772` | the minimum is counted before copies of one text are dropped |
| `RunsBestFirst` | MCRetrieval, `retrieval` | `chat/neighbours.py:72` | a run ranks by its passage's position, and the second pass's passages come after the first's whatever they scored |
| `PastShareTheyCompete` | MCDiscovery, `discovery` | `experts/build/constants.py:300` | the queue is ordered once; past the share marked candidates keep their place |
| `CeilingHolds` | MCDiscovery, `discovery` | `experts/build/selection.py:246` | the ceiling is stamped on one candidate; another copy of the work is fetched without it |
| `ExtraCopyWins` | MCDiscovery, with `MCSameUrl`, `MCCanonical` | `experts/builder.py:1829` | the preferred fetcher's copy is kept, the marks of the other are lost |
| `FormattingNeverDrops` | Validation, `parts` | `sources/validator.py:735` | an entry that is malformed in the second opinion too is scored zero and dropped |
| `NoFieldLosesTheRound` | Validation, `parts` | `sources/validator.py:339` | an accepted source lacks a field that is read later, and the exception ends the round |
| `FoundIsTheWork` | CanonicalSearch, `parts` with `MCNamesakes` | `sources/canonical.py:360` | a namesake passes for the work |
| `NotFoundWasLookedFor` | CanonicalSearch, `parts` with `MCHalfKnown` | `sources/canonical.py:281` | the entry that is looked for is not the one that knows the work to be free |
| `FailuresAreRetried` | CanonicalSearch, `parts` | `experts/builder.py:1520` | of two entries for one work the last resolution hides the failed one |
| `NeverProposedTwice` | FollowUp, `parts` with 2 rounds | `sources/snowball.py:238` | a citation that triage read and did not rank is proposed to it again |
| `SpendIsKept` | ProviderCalls, `parts` with `TornFlushes` | `billing/metering.py:437` | what a torn flush had persisted is persisted again |
| `AtMostMax` | Chunker, `parts` | `ingestion/chunker.py:252` | the carried sentence is joined by two newlines and counted as one |
| `LabelDominates` | Chunker, `parts` | `ingestion/chunker.py:311` | the label follows the longer of the two sides of the last fold, not of the merged chunk |
| `SaidOnce` | Chunker, `parts` | `api/routes/sources.py:320` | the overlap of a folded chunk is shown twice |
| `NeighboursContinue` | LongWork, `parts` | `ingestion/structural.py:413` | neighbours by number are not neighbours in the text |
| `TailsAreNotGraphed` | LongWork, `parts` | `ingestion/structural.py:19` | a resumed build graphs every chunk, the tails included |
| `RunsAreBounded` | LongWork, `parts` | `ingestion/summaries.py:9` | short runs are merged without looking at the bound |
| `MissingIsAdded` | LongWork, `parts` | `ingestion/summaries.py:145` | a source with any section is skipped |
| `OneNodePerLabel` | ConceptGraph, `parts` | `graph/repository.py:100` | two writers insert one label |
| `EndpointsFit` | ConceptGraph, `parts` | `graph/domain.py:3` | the kinds compared are the batch's, not the stored ones |
| `MergeNeverCollides` | ConceptGraph, `parts` | `graph/repository.py:321` | two relations of the dropped node become one key; so do a relation that another writer adds between the statements and the one it doubles |
| `MergeLosesNothing` | ConceptGraph, `parts` | `graph/repository.py:304` | the chunks and relations that another writer adds to the dropped node after the union and the redirections go with it |
| `ConceptsArePlaced` | ConceptGraph, `parts` | `uploads/service.py:287` | concepts of a crossing ingest stay without a key concept |
| `FunnelIsTrue` | AuditFunnel, `parts` | `audit/screening.py:363` | the events that begin a round are not among those asked for (`audit/repository.py:44`): no rounds are seen, and what was screened, ranked, fetched and passed is the last round's alone; with `round_started` among `FUNNEL_EVENT_TYPES` it holds |
| `OverlapIsOverlap` | AuditFunnel, `parts` | `audit/service.py:938` | the difference is taken between what all rounds identified and what the last one screened |
| `CorpusIsReported` | AuditFunnel, `parts` | `audit/screening.py:173` | a resumed attempt logs no discovery, and the funnel is empty |
| `FetchedWithinBudget` | AuditFunnel, `parts` | `audit/service.py:975` | in the middle of a round the budget is its own, what was fetched the round before's |
| `AssessedWereScored` | AuditFunnel, `parts` | `audit/service.py:293` | rows of copies that validation never saw count as assessed |
| `MissedIsSearched` | CorpusReport, `parts` | `audit/service.py:1209` | a concept counts as re-searched if a source found again for another one has its tag |
| `CoveredIsTagged` | CorpusReport, `parts` | `audit/service.py:1354` | a re-search has covered its concept if anything it found was accepted, whatever that is tagged with |
| `ConceptIsWhole` | CorpusReport, `parts` | `audit/domain.py:49` | the queries cut a concept at its colon, `parse_discovery_method` does not |
| `OrbitFeedsIt` | ExpertMap, `parts` | `audit/expert_map.py:113` | the map's queries see different corpora: a concept is drawn whose source was not read |
| `GapOnce` | ExpertMap, `parts` with `MCPlans2` | `audit/expert_map.py:302` | two concepts that miss one text give two gaps |
| `DeletedStays`, `OwnersChoiceStands` | Pictures, `parts` | `api/routes/experts.py:311`, `experts/builder.py:1073` | a look that began earlier stores over the owner's act |
| `PlacedByItsQuery`, `SuggestionsKeepTheirOrder` | Pictures, `parts` | `experts/picture.py:762`, `:686` | a title that several queries found has the first one's name and the last one's rank; a suggestion that redirects has none |
| `GrantsGoToo` | Accounts, `parts` | `accounts/repository.py:113` | a link opened while the account is deleted leaves a grant |
| `SpendIsKept`, `CancelIsSeen` | Accounts, `parts` | `accounts/repository.py:119`, `:125` | the cascade takes the spend records, and the row the cancel was written to |
| `SharingAnswers` | Accounts, `parts` with a third tab | `experts/share_repository.py:43` | a third request turned the link off before the loser reads the winner's row |
| `RetryWorks` | SignIn, `parts` | `api/routes/auth.py:258` | a refused password has used up the code, and the answer asks for another password |

Where properties stop. `ExpertSettles` is checked for one request: with two,
the second may set `queued` after the first build's `ready` and then attach to
it. `ActiveIsPaid` speaks of states in which every request is idle or has
ended: of an API process that dies between INSERT and hold it says nothing.
`ReadyIsChattable` and `AgreesAtRest` are checked without failing calls (`set_readiness`
swallows its failure) and without late beats, `AgreesAtRest` for experts
nobody tried to cancel. `ReadyServes` excepts readiness that a wiped attempt wrote (`stale`), without
which it is `ReadyAlwaysServes`; `OneAttemptAtATime` is about beats that stop
their work, and a beat that ends before its work has begun (`BeatLoopReturns`
with no task to cancel) is checked only through what such a build may still do
to the rows. `FunnelOfLastAttempt` says of the stages after search what the
code gives, the last round; `StepLosesNothing` excepts what comes to a node
while it is being merged. `OneAnswerAtATime` is checked for streams shorter
than the claim's window. `NoTwins` speaks of texts long enough to be compared.

## 6. Proofs

TLAPS proves, for every value of the constants that satisfies the named
assumptions of the modules:

* **JobQueueProofs**: `Spec => []IInv` (`Invariance`) and from it
  `TypeCorrect`, `LatestClaim`, `SingleBuild`; the action properties
  `FinalOutcome` and `FreshLock`; `Implementation`, that JobQueue implements
  JobLifecycle. Assumed: builds are jobs, each job has an expert, the null
  holder is no worker, at least one slot and one attempt.
* **BuildLifecycleProofs**: that BuildLifecycle implements JobQueue
  (`Refinement`), with late beats, failing calls, crashes and any number of
  jobs, so that with `Implementation` and the invariants of JobQueueProofs the
  rows behave as the life cycle says; `Announced` and `Paid`
  (`SucceededIsAnnounced`, `ActiveIsPaid`), under no further assumption;
  `OneAtATime` (`OneAttemptAtATime`) if beats are punctual (`~Lapses`);
  `ChattableOneJob` (`ReadyIsChattable`) and `Agreement` (`AgreesAtRest`) if
  moreover no call fails (`~Faults`), for one job, and the second for one
  request, as their run has it; `Chattable`, the first for any number of jobs
  in the behaviours that cancel none. Section 5 says what is false without
  these: a late beat, a swallowed failure or the leftover of a cancelled job
  each break them.
* **CreditLedgerProofs**: `Spec => []IInv` and from it `Solvency`,
  `SingleCharge`, `SingleSignup`. Assumed: prices are positive, grants are
  integers of either sign, the four kinds of call are disjoint.
* **CorpusProofs**: `Serving`, `Searching` and the action property `Keeping`
  (`ReadyServes`, `SearchableWhenDone`, `CorpusIsKept`), for any uploads, rows,
  chunks, deletions, and any number of attempts at work at once, cancelled and
  reaped ones included.
* **DiscoveryProofs**: of the fetch stage alone, `FetchSpec => []IInv`
  (`FetchInvariant`) and from it `NeverMoreThanWanted` (a round fetches no more
  sources than it wants), `NeverMoreThanAWaveOver` (the limit on estimated
  money is passed by less than one wave's estimates), `TallyStaysTrue` (a round
  hands on the tally it found plus what it kept, although failures give their
  places back out of order, and passes no cap it had not passed before) and
  `LedgerStaysTrue` ("fetched" are exactly the sources the round goes on with,
  every candidate of the queue has an outcome, and money is blamed only if it
  ran out with room left). Of the whole loop, every property its run checks:
  `RoundsAreLimited` (`MoneyLimitHolds`: no round is fetched with a limit of
  zero, which the stage would take for no limit), `NoRoundPaysMore`
  (`OneWaveOver`, with the budget and limit each round really gets),
  `LedgerToldInEveryRound` (`LedgerTellsAll`), `NoTextTwice` (`NoTwins`) and
  `LoopTerminates` (`EveryStepProgresses`) with `MeasureIsBounded`: the measure
  that falls consists of natural numbers. For any hits, scores, texts, prices,
  limits, rounds and width of a wave. Assumed, and evaluated by TLC on the
  run's instance: 65 % of the budget is at least one unit of money
  (`LoopAssumption`); channels are finitely many and answer with sequences of
  candidates (`SearchAssumption`); a record has its fields' types, a price
  between one and `MaxCost`, and an address, which every fetcher makes its hit
  from (`RecordAssumption`).
* **ConversationProofs**: `OneAnswer` and `Transcript`, that
  `OneAnswerAtATime` and `TranscriptHolds` hold for any turns and questions if
  no answer streams past the claim's window (`~SlowStreams`, which section 5
  shows is needed); `Revocation`, that `RevokedStaysOut` holds, slow
  streams or not.
* **EventTailProofs**: `InOrder`, that `InOrderAndOnce` holds for any jobs,
  page length, lost connections and order of commits; `Resumed`, that with one
  job and commits in the order of their numbers the client misses nothing
  (`NothingSkipped`, which no run checks: the run `tail` has two jobs, and of
  two jobs it does not hold). Assumed: a page has room for one event, and jobs
  are numbers.
* **PeopleProofs**: the three parts of `PeopleHold`, for any number of people,
  experts, tabs, links, devices and sessions: `Forgetting` and `OneLink` of
  Accounts (`GoneIsGone`, `OneLiveLink`) and `NoStrays` of SignIn
  (`NoStraySession`); and `NoGhosts`, which no run checks: nobody reads an
  expert that is gone. Assumed (`PeopleAssumption`): the two values that stand
  for no owner are nobody's name, and every request is somebody's.

Why the invariants are stronger than the properties:

* JobQueue. `LatestClaimHoldsLock` alone does not survive a claim: the new
  attempt's number must be fresh, hence `ClaimsAreDistinct` (no task is ahead
  of its row); and a requeue must not leave a holder behind, hence
  `RunningIsLocked`. `OneActiveBuild` is kept because a row becomes active
  only by `Enqueue`, under the index, or was active already.
* BuildLifecycle. Most of the work is done once, in `TaskMoves`: every step of
  a task is a beat, its end, or a move of its program counter in one of three
  ways (`Begins`, `StopsBeating`, `Calls`), and `Goes` is the control flow of
  `_execute` with its handlers, one disjunct per call. `SucceededIsAnnounced`
  needs that a task about to mark success has appended `done`
  (`AnnouncedFirst`). `ActiveIsPaid` needs to say who still owes the hold of an
  unpaid job: a request between its INSERT and its hold, or one that undoes it
  or died (`UnpaidIsOwed`). `OneAttemptAtATime` needs the lock: a task at work
  has a fresh lock, or its job is over (`Holding`), and one job has one task
  that is not closing (`Alone`); with the index on active rows two tasks at
  work are then of two jobs of which one was cancelled. `ReadyIsChattable`
  adds what a task at each call knows of the readiness (`Grounded`): between
  its reset and its next milestone the status is not ready, and this survives
  because nobody else writes the two columns, which is what `OneAtWork` says.
  `AgreesAtRest` adds what the row and the expert look like while the request
  is at each of its calls (`RequestInOrder`) and while the task is at each of
  its (`Informed`, `Outcome`). The refinement needs that attempts of one job
  are told apart by their numbers after the mapping too (`QueueInv`: two tasks
  have two views, so that what removes one task removes one view), and that a
  task whose view is closing writes nothing to the row any more.
* CreditLedger. `NeverOverdrawn` needs that the balance a hold compared is
  still the balance when it commits (`ReadIsCurrent`), which needs that no
  other call has a row pending on a locked account (`PendingRows`);
  `ChargedOnce` and `SignupOnce` need that what is pending under a unique key
  is the first and only one (`PendingIsFirst`).
* Corpus. While the owner deletes nothing (`Kept`), there is a row of discovery
  with chunks if the readiness says so and is not stale, *or if an attempt that
  nobody has wiped is past its storing* (`Serves`): only so does the flag set
  later find what was stored earlier. That the rows an attempt has stored are
  there when it holds its tails is `BuildRowsStay`; that no other attempt writes
  or counts them its own is `RowsApart`. `CorpusIsKept` is `Stages`: an attempt
  at its reset that has had none beside it works alone, and is a first one or
  finds the expert not chattable. `SearchableWhenDone` is `UploadsStay`, from
  the embedding on, given that the row an upload holds is its own
  (`RowsAreTheirs`).
* FetchWaves and Discovery. The money limit is looked at before a
  wave is opened and not within it: `MoneyShape` relates committed money to what
  the open wave may still add; `WaveShape` makes the wave what the ledger
  provisionally calls "not_reached", without repetitions; `QueueShape` makes the
  ledger and the place in the queue tell the same story; `CountShape` has the
  tally count the sources kept and those in flight. `LoopMoney` carries from
  round to round that what is committed is less than the budget, which the
  order of the stopping conditions keeps. `LoopShape` adds what the stages hand
  each other: the pool has no candidate twice (`PoolOK`: a merged hit stands
  under the id and address of a member of its group, and of one address one hit
  is kept), triage scores each of its candidates once (`ScoredOK`), the queue and
  the wave hold only those (`FetchShape`), so that every fetch settles a row of
  this round's ledger. `NoTwins` needs that the texts of accepted sources are in
  the set of texts seen (`TextsKnown`): the distance is not transitive, and a
  source dropped for one of them is compared with no other.
* Conversation. `OneAnswerAtATime` must know why a second claim is refused
  (`HasTheSlot`: whoever runs holds the claim, while the conversation is there)
  and what happens when it is deleted under a turn, whose row then nobody can
  claim (`RunsAlone`). `TranscriptHolds` needs that what a turn read is still
  the last message when it stores its question (`SeenIsLast`), which follows
  from the slot. `RevokedStaysOut` needs that links are minted once
  (`LinksInv`).
* EventTail. What a batch holds lies after the cursor (`Ahead`), and what a
  page leaves out after what it holds (`PageHasNoGap`); the page is a least
  prefix of the unsent rows, and that it is not empty rests on `LeastNumber`.
* Accounts. `GoneIsGone` needs to know what is in flight for a person who is
  deleted: an upload that began is for an expert that was theirs or is gone
  (`RequestsAreTheirs`), a worker builds for its expert's owner as long as the
  row is there (`BuildsAreOwners`), and a spend record belongs to the owner of
  its expert, with which it goes (`SpendIsOwners`). `OneLiveLink` and
  `NoGhosts` need that a live link has its expert (`LinksAreLive`): whatever
  ends an expert darkens its links in the same statement.
* SignIn. A session is looked after by a device or by the handler that opened
  it (`Kept`, `NoneAstray`), and handlers run for the session their device
  holds, or for none (`OwnSession`): signing the others out then leaves only
  sessions that the caller keeps.

The invariants are conjunctions of such named parts and can be checked by TLC
as invariants of the same configurations; the proofs go action by action. What
a task, a request or a row may turn into is said once in lemmas (`TaskMoves`,
`RequestsMove`, `WhoChangesLinks` and the like), which the proofs of the single
invariants share.

Induction over data. The library's induction theorems take an operator as a
parameter and cannot be used. `SetInduction` of DiscoveryProofs says the same
of a set of numbers (a set that has 0 and with each number its successor has
them all), and `RecursionExists` and `RecursionKeeps` derive from it that a
function defined step by step along a sequence exists and keeps what each step
keeps. With these the passes of Discovery (groups of equal works, texts kept
apart, ranks, hits channel by channel) are proved about, as recursive
functions; sorting is said by what it returns (`Sorted`, `Places`: the place of
an element is the number of those before it), and `SortedFacts` and
`PlacesFacts` show that this lists every element once.

Only model-checked, and why:

* `AccountAddsUp`, `PassagesHold` (Retrieval), `CallsAccounted`
  (ProviderCalls), and what `ResearchHolds`, `ReadingHolds`, `GraphHolds`,
  `ReportsHold` and `PictureHolds` say: these modules use the community
  modules' folds, selections and sorts with an operator as argument, of which
  the provers learn nothing.
* `PeopleHold` itself: it is about the union of the parts' state spaces that
  MCParts makes; what it says of each part is proved of the part.
* All liveness (`ExpertSettles`, `EveryCallEnds`, `TailKeepsItsWord` and the
  progress of the pictures and graph): the prover does not treat fairness and
  ENABLED.

## 7. Not modelled

* **HTTP clients and pacing, the database pool**: rate limits, circuit
  breakers, retries of a request, connections. Where a call may fail or time
  out the caller's model has the outcome as a choice.
* **Parsing and prompts**: the fetchers' reading of foreign pages and APIs,
  the text of prompts, the contextualiser, personas and suggested questions,
  the prose gate over generated text. What their callers do with a good, a
  malformed and a missing answer is modelled.
* **Evaluation harness, command lines, operations**: offline tools and
  deployment; they share no protocol with the service.
* **Product surface without state of its own**: API keys and request limits,
  avatars, how an export is written, stored answer audits, the arithmetic of
  plans and prices, tier changes, the mode without credit enforcement, slug
  resolution, `settle_job` (reporting).
* **Failures the models do not have**: a database call either happens or
  fails; one that commits and then reports a failure is modelled only in the
  meter (`TornFlushes`). An API crash inside a cancel is in BuildLifecycle and
  not in EventTail. Deletion of the expert is in JobQueue, CreditLedger and Accounts
  and not in BuildLifecycle or Corpus.
* **Compositions**: Corpus abstracts the discovery of a build to the rows it
  leaves; Discovery abstracts the judge and the resolver to their answers,
  which Validation and CanonicalSearch model on their own.

## 8. Plan

What is left, in the order of what it adds:

1. Proofs: `AgreesAtRest` for several jobs and requests, which needs to say
   whose outcome the expert shows; Retrieval's audit trail, with its lists
   rewritten as Discovery's were.
2. An abstract specification of the corpus (what readers may rely on), which
   Corpus implements and Retrieval reads.
3. The Rust client's bounded reconnects as a variant of EventTail.
4. The pool: acquisition with a timeout by tasks that hold a connection.
