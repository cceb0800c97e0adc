------------------------------ MODULE JobQueue ------------------------------
(***************************************************************************)
(* The durable queue (jobs/repository.py, table build_jobs) and the part   *)
(* of the worker processes (jobs/worker.py) that competes for its rows:    *)
(* claiming, beating, finishing, reaping, draining, crashing.              *)
(*                                                                         *)
(* What a job does while it runs is left out: a task here finishes with    *)
(* any outcome its attempt number allows.  BuildLifecycle models that      *)
(* part, and implements this module.                                       *)
(*                                                                         *)
(* Time is not counted.  "available_at <= NOW()" is the flag due, and      *)
(* "heartbeat_at older than WORKER_STALE_TIMEOUT" the flag stale: a beat   *)
(* may be late for any reason (a saturated pool, a dropped connection), so *)
(* a running row may become stale at any time, its worker alive or not.    *)
(***************************************************************************)
EXTENDS Naturals, FiniteSets

CONSTANTS
    Jobs, Builds, ExpertOf,  \* as in JobLifecycle
    Experts,                 \* rows of the experts table
    Workers,                 \* worker process incarnations: a restart is a new id
    NoWorker,                \* locked_by IS NULL
    MaxAttempts,             \* WORKER_MAX_ATTEMPTS
    Slots                    \* WORKER_CONCURRENCY

ASSUME JobQueueAssumption ==
    /\ Builds \subseteq Jobs
    /\ ExpertOf \in [Jobs -> Experts]
    /\ NoWorker \notin Workers
    /\ MaxAttempts \in Nat \ {0}
    /\ Slots \in Nat \ {0}

VARIABLES
    status,     \* build_jobs.status, "absent" before the INSERT
    lockedBy,   \* build_jobs.locked_by
    attempts,   \* build_jobs.attempts
    due,        \* build_jobs.available_at <= NOW()
    stale,      \* build_jobs.heartbeat_at < NOW() - WORKER_STALE_TIMEOUT
    exists,     \* which experts have a row
    proc,       \* what each worker process is doing
    tasks,      \* the asyncio tasks executing claimed jobs, one record per claim
    protected   \* BuildWorker._running_job_ids of each process

table == <<status, lockedBy, attempts, due, stale>>
vars  == <<table, exists, proc, tasks, protected>>

Active   == {"queued", "running"}
Terminal == {"succeeded", "failed", "cancelled"}
Status   == {"absent", "deleted"} \cup Active \cup Terminal

\* A task knows its job as the row was when claimed: the attempt it is.  It is
\* "working" until its handler has done its last write, then "closing" (aclose)
\* until its done-callback runs.  beating: its heartbeat loop has not returned.
Task == [worker : Workers, job : Jobs, attempt : Nat \ {0},
         phase : {"working", "closing"}, beating : BOOLEAN]

Init ==
    /\ status    = [j \in Jobs |-> "absent"]
    /\ lockedBy  = [j \in Jobs |-> NoWorker]
    /\ attempts  = [j \in Jobs |-> 0]
    /\ due       = [j \in Jobs |-> FALSE]
    /\ stale     = [j \in Jobs |-> FALSE]
    /\ exists    = [e \in Experts |-> TRUE]
    /\ proc      = [w \in Workers |-> "unstarted"]
    /\ tasks     = {}
    /\ protected = [w \in Workers |-> {}]

TasksOf(w) == {t \in tasks : t.worker = w}

\* Mutants of Holds: the guard without the lock, and without the status.
HoldsUnlocked(w, j)  == status[j] = "running"
HoldsAnyStatus(w, j) == lockedBy[j] = w

\* The guard of every write a worker makes: locked_by = me AND status = running.
Holds(w, j) == status[j] = "running" /\ lockedBy[j] = w

-----------------------------------------------------------------------------
(* Requests from the API process. *)

\* Mutant of ActiveBuild: an index over the queued rows only.
QueuedBuild(e) == \E j \in Builds : ExpertOf[j] = e /\ status[j] = "queued"

\* idx_build_jobs_one_active_build
ActiveBuild(e) ==
    \E j \in Builds : ExpertOf[j] = e /\ status[j] \in Active

\* The INSERT; a build is refused by the unique index while another is active,
\* and enqueue then returns that one, changing nothing.
Enqueue(j) ==
    /\ status[j] = "absent"
    /\ exists[ExpertOf[j]]
    /\ j \in Builds => ~ActiveBuild(ExpertOf[j])
    /\ status' = [status EXCEPT ![j] = "queued"]
    /\ due' = [due EXCEPT ![j] = TRUE]
    /\ UNCHANGED <<lockedBy, attempts, stale, exists, proc, tasks, protected>>

\* Mutant of RequestCancel: finished rows are cancelled too.
CancelEverything(S) ==
    /\ \E j \in S : status[j] \in Active
    /\ status' = [j \in Jobs |->
                     IF j \in S /\ status[j] # "absent" THEN "cancelled" ELSE status[j]]
    /\ UNCHANGED <<lockedBy, attempts, due, stale, exists, proc, tasks, protected>>

\* locked_by stays: the worker learns of it from its next beat.
RequestCancel(S) ==
    /\ \E j \in S : status[j] \in Active
    /\ status' = [j \in Jobs |->
                     IF j \in S /\ status[j] \in Active THEN "cancelled" ELSE status[j]]
    /\ UNCHANGED <<lockedBy, attempts, due, stale, exists, proc, tasks, protected>>

CancelBuild(e) == RequestCancel({j \in Builds : ExpertOf[j] = e})
CancelAll(e)   == RequestCancel({j \in Jobs : ExpertOf[j] = e})

\* DELETE FROM experts cascades to the job rows.  The route cancels first, in a
\* statement of its own: something may be enqueued in between.
DeleteExpert(e) ==
    /\ exists[e]
    /\ exists' = [exists EXCEPT ![e] = FALSE]
    /\ status' = [j \in Jobs |->
                     IF ExpertOf[j] = e /\ status[j] # "absent" THEN "deleted"
                                                               ELSE status[j]]
    /\ UNCHANGED <<lockedBy, attempts, due, stale, proc, tasks, protected>>

-----------------------------------------------------------------------------
(* The passing of time. *)

BackoffElapses(j) ==
    /\ status[j] = "queued" /\ ~due[j]
    /\ due' = [due EXCEPT ![j] = TRUE]
    /\ UNCHANGED <<status, lockedBy, attempts, stale, exists, proc, tasks, protected>>

BeatGoesStale(j) ==
    /\ status[j] = "running" /\ ~stale[j]
    /\ stale' = [stale EXCEPT ![j] = TRUE]
    /\ UNCHANGED <<status, lockedBy, attempts, due, exists, proc, tasks, protected>>

-----------------------------------------------------------------------------
(* The poll loop of a worker process. *)

\* Any due row: SKIP LOCKED lets a claim pass over the head of the queue while
\* another transaction has it.  The new task and its protection are added before
\* the loop yields again.
Claim(w, j) ==
    /\ proc[w] = "up"
    /\ Cardinality(TasksOf(w)) < Slots
    /\ status[j] = "queued" /\ due[j]
    /\ status' = [status EXCEPT ![j] = "running"]
    /\ lockedBy' = [lockedBy EXCEPT ![j] = w]
    /\ attempts' = [attempts EXCEPT ![j] = @ + 1]
    /\ stale' = [stale EXCEPT ![j] = FALSE]
    /\ tasks' = tasks \cup {[worker |-> w, job |-> j, attempt |-> attempts[j] + 1,
                             phase |-> "working", beating |-> TRUE]}
    /\ protected' = [protected EXCEPT ![w] = @ \cup {j}]
    /\ UNCHANGED <<due, exists, proc>>

\* Mutant of Reapable: exhausted rows are left where they are.
ReapableWithAttempts(w) ==
    {j \in Jobs : /\ status[j] = "running" /\ stale[j] /\ j \notin protected[w]
                  /\ attempts[j] < MaxAttempts}

Reapable(w) ==
    {j \in Jobs : status[j] = "running" /\ stale[j] /\ j \notin protected[w]}

\* Requeues or fails every stale row this process is not running, in one
\* transaction.
Reap(w) ==
    LET R == Reapable(w) IN
    /\ proc[w] = "up"
    /\ R # {}
    /\ status' = [j \in Jobs |->
                     IF j \in R THEN IF attempts[j] < MaxAttempts THEN "queued" ELSE "failed"
                                ELSE status[j]]
    /\ lockedBy' = [j \in Jobs |-> IF j \in R THEN NoWorker ELSE lockedBy[j]]
    /\ due' = [j \in Jobs |-> IF j \in R THEN TRUE ELSE due[j]]
    /\ UNCHANGED <<attempts, stale, exists, proc, tasks, protected>>

-----------------------------------------------------------------------------
(* One task: its heartbeat loop and the last write of its handler. *)

Become(t, u) == tasks' = (tasks \ {t}) \cup {u}

Close(t) == Become(t, [t EXCEPT !.phase = "closing"])

\* A beat that reaches the database and finds the row locked by this worker.
Beat(t) ==
    /\ t.beating
    /\ Holds(t.worker, t.job)
    /\ stale[t.job]
    /\ stale' = [stale EXCEPT ![t.job] = FALSE]
    /\ UNCHANGED <<status, lockedBy, attempts, due, exists, proc, tasks, protected>>

\* The loop returns for good: the beat found the row gone, or the meter was over
\* its cap.  Whether the work stops with it is up to _stop_work, which does
\* nothing before run() has a task or after that task is done.
BeatLoopReturns(t) ==
    /\ t.beating
    /\ t.job \in Builds \/ ~Holds(t.worker, t.job)   \* only builds have a cap
    /\ Become(t, [t EXCEPT !.beating = FALSE])
    /\ UNCHANGED <<table, exists, proc, protected>>

\* mark_succeeded, mark_failed: the guarded UPDATE may match no row.
Finish(t, outcome) ==
    /\ t.phase = "working"
    /\ status' = IF Holds(t.worker, t.job) THEN [status EXCEPT ![t.job] = outcome]
                                           ELSE status
    /\ Close(t)
    /\ UNCHANGED <<lockedBy, attempts, due, stale, exists, proc, protected>>

MarkSucceeded(t) == Finish(t, "succeeded")
MarkFailed(t)    == Finish(t, "failed")

\* Mutants of GiveBack: locked_by is kept, or the attempt is not counted.
GiveBackLocked(t, isDue) ==
    /\ IF Holds(t.worker, t.job)
       THEN /\ status' = [status EXCEPT ![t.job] = "queued"]
            /\ due' = [due EXCEPT ![t.job] = isDue]
       ELSE UNCHANGED <<status, due>>
    /\ Close(t)
    /\ UNCHANGED <<lockedBy, attempts, stale, exists, proc, protected>>

GiveBackUncounted(t, isDue) ==
    /\ IF Holds(t.worker, t.job)
       THEN /\ status' = [status EXCEPT ![t.job] = "queued"]
            /\ lockedBy' = [lockedBy EXCEPT ![t.job] = NoWorker]
            /\ attempts' = [attempts EXCEPT ![t.job] = @ - 1]
            /\ due' = [due EXCEPT ![t.job] = isDue]
       ELSE UNCHANGED <<status, lockedBy, attempts, due>>
    /\ Close(t)
    /\ UNCHANGED <<stale, exists, proc, protected>>

\* Back to the queue, if the row is still this worker's.
GiveBack(t, isDue) ==
    /\ IF Holds(t.worker, t.job)
       THEN /\ status' = [status EXCEPT ![t.job] = "queued"]
            /\ lockedBy' = [lockedBy EXCEPT ![t.job] = NoWorker]
            /\ due' = [due EXCEPT ![t.job] = isDue]
       ELSE UNCHANGED <<status, lockedBy, due>>
    /\ Close(t)
    /\ UNCHANGED <<attempts, stale, exists, proc, protected>>

\* A retryable failure, judged by the attempt number the task was claimed with.
Requeue(t) ==
    /\ t.phase = "working"
    /\ t.attempt < MaxAttempts
    /\ GiveBack(t, FALSE)

\* Graceful shutdown cancelled the task inside _execute's try.
ReleaseForShutdown(t) ==
    /\ t.phase = "working"
    /\ proc[t.worker] = "draining"
    /\ GiveBack(t, TRUE)

\* The task ends without a write to the row: told of a cancellation, or an
\* exception (or the shutdown) left a handler before its last statement.
Abandon(t) ==
    /\ t.phase = "working"
    /\ Close(t)
    /\ UNCHANGED <<table, exists, proc, protected>>

\* aclose is over; _finished forgets the task, and the id whoever else has it.
TaskDone(t) ==
    /\ t.phase = "closing"
    /\ tasks' = tasks \ {t}
    /\ protected' = [protected EXCEPT ![t.worker] = @ \ {t.job}]
    /\ UNCHANGED <<table, exists, proc>>

-----------------------------------------------------------------------------
(* Worker processes. *)

StartWorker(w) ==
    /\ proc[w] = "unstarted"
    /\ proc' = [proc EXCEPT ![w] = "up"]
    /\ UNCHANGED <<table, exists, tasks, protected>>

\* The platform keeps the worker service running: some process is up, or may
\* still be started, whatever stops this one.
Replaceable(w) == \E v \in Workers \ {w} : proc[v] \in {"unstarted", "up"}

\* SIGTERM: request_stop, then _drain cancels every task.
BeginDrain(w) ==
    /\ proc[w] = "up" /\ Replaceable(w)
    /\ proc' = [proc EXCEPT ![w] = "draining"]
    /\ UNCHANGED <<table, exists, tasks, protected>>

EndDrain(w) ==
    /\ proc[w] = "draining" /\ TasksOf(w) = {}
    /\ proc' = [proc EXCEPT ![w] = "gone"]
    /\ UNCHANGED <<table, exists, tasks, protected>>

Crash(w) ==
    /\ proc[w] \in {"up", "draining"} /\ Replaceable(w)
    /\ proc' = [proc EXCEPT ![w] = "gone"]
    /\ tasks' = tasks \ TasksOf(w)
    /\ protected' = [protected EXCEPT ![w] = {}]
    /\ UNCHANGED <<table, exists>>

-----------------------------------------------------------------------------
Api ==
    \/ \E j \in Jobs : Enqueue(j)
    \/ \E e \in Experts : CancelBuild(e) \/ CancelAll(e) \/ DeleteExpert(e)

Time == \E j \in Jobs : BackoffElapses(j) \/ BeatGoesStale(j)

Poll == \E w \in Workers : Reap(w) \/ \E j \in Jobs : Claim(w, j)

TaskEnds(t) ==
    MarkSucceeded(t) \/ MarkFailed(t) \/ Requeue(t) \/ ReleaseForShutdown(t) \/ Abandon(t)

TaskSteps == \E t \in tasks : Beat(t) \/ BeatLoopReturns(t) \/ TaskEnds(t) \/ TaskDone(t)

Processes ==
    \E w \in Workers : StartWorker(w) \/ BeginDrain(w) \/ EndDrain(w) \/ Crash(w)

Next == Api \/ Time \/ Poll \/ TaskSteps \/ Processes

Spec == Init /\ [][Next]_vars

\* A row nobody beats for: its holder is gone, or no task of it beats any more.
Unattended(j) ==
    status[j] = "running" /\ ~\E t \in tasks : t.job = j /\ t.beating /\ t.worker = lockedBy[j]

\* Some task of this worker for this job ends, or its callback runs.
TaskOfEnds(w, j) == \E t \in TasksOf(w) : t.job = j /\ (TaskEnds(t) \/ TaskDone(t))

\* Workers poll, reap and are restarted; a task ends (every stage is a finite
\* number of calls, each with a timeout); clocks advance.  A beat that nobody
\* sends does go stale; one that somebody sends need not.
Fairness ==
    /\ \A j \in Jobs :
          /\ WF_vars(BackoffElapses(j))
          /\ WF_vars(Unattended(j) /\ BeatGoesStale(j))
    /\ \A w \in Workers :
          /\ WF_vars(StartWorker(w))
          /\ WF_vars(EndDrain(w))
          /\ WF_vars(Reap(w))
          /\ WF_vars(\E j \in Jobs : Claim(w, j))
          /\ \A j \in Jobs : WF_vars(TaskOfEnds(w, j))

FairSpec == Spec /\ Fairness

-----------------------------------------------------------------------------
(* Properties. *)

\* Every variable has its type (the columns of build_jobs, the sets a worker keeps).
TypeOK ==
    /\ status \in [Jobs -> Status]
    /\ lockedBy \in [Jobs -> Workers \cup {NoWorker}]
    /\ attempts \in [Jobs -> Nat]
    /\ due \in [Jobs -> BOOLEAN]
    /\ stale \in [Jobs -> BOOLEAN]
    /\ exists \in [Experts -> BOOLEAN]
    /\ proc \in [Workers -> {"unstarted", "up", "draining", "gone"}]
    /\ tasks \subseteq Task
    /\ protected \in [Workers -> SUBSET Jobs]

\* A row is locked exactly while it runs: a requeue, a reap or a release that
\* forgot locked_by would let its old holder's guarded writes match again.
RunningIsLocked ==
    \A j \in Jobs : /\ status[j] = "running" => lockedBy[j] \in Workers
                   /\ status[j] \in {"absent", "queued"} => lockedBy[j] = NoWorker

\* A claim is identified by its job and attempt: no two tasks share both, and
\* none is ahead of its row.
ClaimsAreDistinct ==
    /\ \A t \in tasks : t.attempt <= attempts[t.job]
    /\ \A t, u \in tasks : t.job = u.job /\ t.attempt = u.attempt => t = u

\* The task of a running row's latest attempt belongs to the worker that holds
\* the lock: every other worker's task for it is a leftover of an earlier claim,
\* and its writes match no row.
LatestClaimHoldsLock ==
    \A t \in tasks :
        status[t.job] = "running" /\ t.attempt = attempts[t.job]
            => lockedBy[t.job] = t.worker

\* The partial unique index: an expert has at most one active build, whoever
\* enqueues, requeues, reaps or releases.
OneActiveBuild ==
    \A i, j \in Builds :
        i # j /\ ExpertOf[i] = ExpertOf[j]
            => ~(status[i] \in Active /\ status[j] \in Active)

\* A row whose expert is gone is gone: nothing is queued, claimed or requeued for
\* an expert after DELETE.
NoOrphanRows ==
    \A j \in Jobs : ~exists[ExpertOf[j]] => status[j] \in {"absent", "deleted"}

\* What the proofs use: the conjunction is inductive.
IInv ==
    /\ TypeOK
    /\ RunningIsLocked
    /\ ClaimsAreDistinct
    /\ LatestClaimHoldsLock
    /\ OneActiveBuild
    /\ NoOrphanRows

\* A finished job never changes again, whatever a leftover task, a reaper or a
\* second cancel does to it (only deleting the expert removes it).
TerminalKept ==
    \A j \in Jobs : status[j] \in Terminal => status'[j] \in {status[j], "deleted"}

TerminalIsFinal == [][TerminalKept]_vars

\* A job whose beat is fresh leaves "running" only by a cancel, a deletion, or
\* the last write of a task of the very worker that holds its lock: no other
\* process finishes it, requeues it or reaps it.
FreshLockKept ==
    \A j \in Jobs :
        status[j] = "running" /\ ~stale[j]
            /\ status'[j] \notin {"running", "cancelled", "deleted"}
        => \E t \in tasks : /\ t.job = j /\ t.worker = lockedBy[j]
                             /\ t.phase = "working" /\ t \notin tasks'

FreshLockIsRespected == [][FreshLockKept]_vars

\* Every active job is eventually finished, cancelled or deleted: retries are
\* bounded although a release at shutdown does not count as one.
Settles == \A j \in Jobs : status[j] \in Active ~> status[j] \notin Active

\* The queue implements the job life cycle.
Lifecycle == INSTANCE JobLifecycle
ImplementsLifecycle == Lifecycle!Spec

-----------------------------------------------------------------------------
(* What a comment or a document says, and the code does not always do. *)

Executing(t) == t.phase = "working" /\ Holds(t.worker, t.job) /\ t.attempt = attempts[t.job]

\* jobs/worker.py: "The job ids behind those tasks. The reaper consults this so
\* it can never requeue work this process is demonstrably still doing."
ProtectsOwnWork == \A t \in tasks : Executing(t) => t.job \in protected[t.worker]

\* migrations/021: one active build per expert because two "would wipe and
\* re-fetch a corpus twice concurrently".
NoConcurrentBuilds ==
    \A t, u \in tasks :
        /\ t.phase = "working" /\ u.phase = "working"
        /\ t.job \in Builds /\ u.job \in Builds
        /\ ExpertOf[t.job] = ExpertOf[u.job]
        => t = u

\* docs/build-flow.md: retries, "up to 3 attempts".
AttemptsAreBounded == \A j \in Jobs : attempts[j] <= MaxAttempts
=============================================================================
