--------------------------- MODULE BuildLifecycle ---------------------------
(***************************************************************************)
(* One expert's builds, end to end: the request and the cancel route of    *)
(* the API process, the queue row, the worker's _execute and its handlers  *)
(* one awaited call at a time, the expert row (status, readiness), the     *)
(* credit hold and its refund, and the durable event log.                  *)
(*                                                                         *)
(* Every awaited database call is a step of its own: what a real build     *)
(* interleaves with cancels, reaps, shutdowns and other workers.  The      *)
(* pipeline inside ExpertBuilder is its readiness milestones.  The queue   *)
(* part is JobQueue's, which this module implements.                       *)
(***************************************************************************)
EXTENDS Integers, FiniteSets

CONSTANTS
    Jobs,         \* ids of the build jobs of this expert that may be inserted
    Workers, NoWorker, MaxAttempts, Slots,   \* as in JobQueue
    Requests,     \* POST /experts/build requests that name this expert
    Cancels,      \* POST .../build/cancel requests
    Credits,      \* the owner's balance before any of this, in builds
    NoJob,
    Rebuild,      \* BOOLEAN: an earlier build has left the expert ready
    Lapses,       \* BOOLEAN: a live worker's beat may be late
    Crashes,      \* BOOLEAN: worker processes stop, gracefully or not
    Faults,       \* BOOLEAN: a database call inside a handler may fail
    ApiCrashes    \* BOOLEAN: the API process may stop in a request

ASSUME BuildLifecycleAssumption ==
    /\ Credits \in Nat /\ MaxAttempts \in Nat \ {0} /\ Slots \in Nat \ {0}
    /\ NoJob \notin Jobs /\ NoWorker \notin Workers
    /\ {Rebuild, Lapses, Crashes, Faults, ApiCrashes} \subseteq BOOLEAN

VARIABLES
    status, lockedBy, attempts, due, stale, proc, protected,   \* as in JobQueue
    tasks,       \* one record per claim being executed, at its next call
    expert,      \* experts.status
    readiness,   \* experts.readiness
    corpusOf,    \* the job whose attempt wrote the readiness (history only)
    held,        \* the job has a 'hold' row in credit_ledger
    refunded,    \* ... and a 'refund' row
    log,         \* the types of the job's rows in build_events
    req,         \* where each build request is, and its job
    can          \* where each cancel request is, and its job

table  == <<status, lockedBy, attempts, due, stale>>
ledger == <<held, refunded>>
corpus == <<readiness, corpusOf>>
api    == <<req, can>>
vars   == <<table, proc, protected, tasks, expert, corpus, ledger, log, api>>

Active   == {"queued", "running"}
Terminal == {"succeeded", "failed", "cancelled"}
Ready    == {"chat_ready", "graph_ready"}       \* Readiness.can_chat

\* Where a task can be: inside supervision.run, in the rest of _execute's try,
\* in a handler, or past its last write.
Running  == {"clear", "run", "run_chat", "run_graph"}
Try      == Running \cup {"mark", "reset", "announce", "publish", "done", "succeed"}
Handlers == {"ret_event", "ret_expert", "ret_requeue",
             "fail_refund", "fail_expert", "fail_event", "fail_mark",
             "can_event", "can_expert", "can_refund",
             "cap_read", "cap_publish", "cap_expert", "cap_event", "cap_fail", "cap_refund",
             "release"}

Task == [worker : Workers, job : Jobs, attempt : Nat \ {0}, beating : BOOLEAN,
         at : {"fetch", "closing"} \cup Try \cup Handlers,
         resume : {"none"} \cup Ready]

NoRoute == [at |-> "idle", job |-> NoJob]

Init ==
    /\ status    = [j \in Jobs |-> "absent"]
    /\ lockedBy  = [j \in Jobs |-> NoWorker]
    /\ attempts  = [j \in Jobs |-> 0]
    /\ due       = [j \in Jobs |-> FALSE]
    /\ stale     = [j \in Jobs |-> FALSE]
    /\ proc      = [w \in Workers |-> "unstarted"]
    /\ protected = [w \in Workers |-> {}]
    /\ tasks     = {}
    /\ expert    = IF Rebuild THEN "ready" ELSE "none"
    /\ readiness = IF Rebuild THEN "graph_ready" ELSE "pending"
    /\ corpusOf  = NoJob
    /\ held      = [j \in Jobs |-> FALSE]
    /\ refunded  = [j \in Jobs |-> FALSE]
    /\ log       = [j \in Jobs |-> {}]
    /\ req       = [r \in Requests |-> NoRoute]
    /\ can       = [c \in Cancels |-> NoRoute]

TasksOf(w)  == {t \in tasks : t.worker = w}
Holds(w, j) == status[j] = "running" /\ lockedBy[j] = w
ActiveJobs  == {j \in Jobs : status[j] \in Active}

Go(t, to)       == tasks' = (tasks \ {t}) \cup {[t EXCEPT !.at = to]}
Append(j, type) == log' = [log EXCEPT ![j] = @ \cup {type}]

\* refund_job: nothing without a hold, nothing twice.
Refund(j) ==
    /\ refunded' = [refunded EXCEPT ![j] = held[j]]
    /\ UNCHANGED held

Balance ==
    Credits - Cardinality({j \in Jobs : held[j]}) + Cardinality({j \in Jobs : refunded[j]})

\* request_cancel(expert, BUILD)
CancelBuilds ==
    status' = [j \in Jobs |-> IF status[j] \in Active THEN "cancelled" ELSE status[j]]

-----------------------------------------------------------------------------
(* ExpertService.request_build. *)

Advance(r, to) == req' = [req EXCEPT ![r].at = to]
AdvanceOn(r, to, j) == req' = [req EXCEPT ![r] = [at |-> to, job |-> j]]

\* Attach to a build in flight, else authorise: a check, not a charge.
Lookup(r) ==
    /\ req[r].at = "idle"
    /\ IF ActiveJobs # {} \/ Balance < 1 THEN Advance(r, "end") ELSE Advance(r, "prepare")
    /\ UNCHANGED <<table, proc, protected, tasks, expert, corpus, ledger, log, can>>

PrepareForBuild(r) ==
    /\ req[r].at = "prepare"
    /\ expert' = "queued"
    /\ Advance(r, "enqueue")
    /\ UNCHANGED <<table, proc, protected, tasks, corpus, ledger, log, can>>

\* The INSERT, or the unique index's refusal.
Enqueue(r) ==
    /\ req[r].at = "enqueue"
    /\ IF ActiveJobs = {}
       THEN \E j \in Jobs :
               /\ status[j] = "absent"
               /\ \A i \in Jobs : i < j => status[i] # "absent"
               /\ status' = [status EXCEPT ![j] = "queued"]
               /\ due' = [due EXCEPT ![j] = TRUE]
               /\ AdvanceOn(r, "created", j)
       ELSE Advance(r, "existing") /\ UNCHANGED <<status, due>>
    /\ UNCHANGED <<lockedBy, attempts, stale, proc, protected, tasks, expert, corpus,
                   ledger, log, can>>

\* The active job the refusal was about, unless it has finished meanwhile: the
\* violation is then raised to the caller.
EnqueueExisting(r) ==
    /\ req[r].at = "existing"
    /\ \/ \E j \in ActiveJobs : AdvanceOn(r, "created", j)
       \/ ActiveJobs = {} /\ Advance(r, "end")
    /\ UNCHANGED <<table, proc, protected, tasks, expert, corpus, ledger, log, can>>

AppendCreated(r) ==
    /\ req[r].at = "created"
    /\ Append(req[r].job, "created")
    /\ Advance(r, "hold")
    /\ UNCHANGED <<table, proc, protected, tasks, expert, corpus, ledger, can>>

\* Mutant of HoldForJob: a hold that fails is not undone.
HoldOrCarryOn(r) ==
    LET j == req[r].job IN
    /\ req[r].at = "hold"
    /\ held' = [held EXCEPT ![j] = @ \/ Balance >= 1]
    /\ Advance(r, "end")
    /\ UNCHANGED <<table, proc, protected, tasks, expert, corpus, refunded, log, can>>

HoldForJob(r) ==
    LET j == req[r].job IN
    /\ req[r].at = "hold"
    /\ IF held[j] \/ Balance >= 1
       THEN held' = [held EXCEPT ![j] = TRUE] /\ Advance(r, "end")
       ELSE UNCHANGED held /\ Advance(r, "undo")
    /\ UNCHANGED <<table, proc, protected, tasks, expert, corpus, refunded, log, can>>

UndoEnqueue(r) ==
    /\ req[r].at = "undo"
    /\ CancelBuilds
    /\ Advance(r, "undo_expert")
    /\ UNCHANGED <<lockedBy, attempts, due, stale, proc, protected, tasks, expert, corpus,
                   ledger, log, can>>

UndoExpert(r) ==
    /\ req[r].at = "undo_expert"
    /\ expert' = "failed"
    /\ Advance(r, "end")
    /\ UNCHANGED <<table, proc, protected, tasks, corpus, ledger, log, can>>

RequestStep(r) ==
    \/ Lookup(r) \/ PrepareForBuild(r) \/ Enqueue(r) \/ EnqueueExisting(r)
    \/ AppendCreated(r) \/ HoldForJob(r) \/ UndoEnqueue(r) \/ UndoExpert(r)

\* The process stops between two calls of the request.
RequestDies(r) ==
    /\ ApiCrashes
    /\ req[r].at \notin {"idle", "end", "dead"}
    /\ Advance(r, "dead")
    /\ UNCHANGED <<table, proc, protected, tasks, expert, corpus, ledger, log, can>>

-----------------------------------------------------------------------------
(* The cancel route. *)

CancelFinds(c) ==
    /\ can[c].at = "idle"
    /\ \E j \in ActiveJobs : can' = [can EXCEPT ![c] = [at |-> "cancel", job |-> j]]
    /\ UNCHANGED <<table, proc, protected, tasks, expert, corpus, ledger, log, req>>

CancelRequests(c) ==
    /\ can[c].at = "cancel"
    /\ CancelBuilds
    /\ can' = [can EXCEPT ![c].at = "event"]
    /\ UNCHANGED <<lockedBy, attempts, due, stale, proc, protected, tasks, expert, corpus,
                   ledger, log, req>>

CancelAppends(c) ==
    /\ can[c].at = "event"
    /\ Append(can[c].job, "cancelled")
    /\ can' = [can EXCEPT ![c].at = "expert"]
    /\ UNCHANGED <<table, proc, protected, tasks, expert, corpus, ledger, req>>

CancelFailsExpert(c) ==
    /\ can[c].at = "expert"
    /\ expert' = "failed"
    /\ can' = [can EXCEPT ![c].at = "refund"]
    /\ UNCHANGED <<table, proc, protected, tasks, corpus, ledger, log, req>>

CancelRefunds(c) ==
    /\ can[c].at = "refund"
    /\ Refund(can[c].job)
    /\ can' = [can EXCEPT ![c].at = "end"]
    /\ UNCHANGED <<table, proc, protected, tasks, expert, corpus, log, req>>

CancelStep(c) ==
    \/ CancelFinds(c) \/ CancelRequests(c) \/ CancelAppends(c)
    \/ CancelFailsExpert(c) \/ CancelRefunds(c)

CancelDies(c) ==
    /\ ApiCrashes
    /\ can[c].at \notin {"idle", "end"}
    /\ can' = [can EXCEPT ![c].at = "end"]
    /\ UNCHANGED <<table, proc, protected, tasks, expert, corpus, ledger, log, req>>

-----------------------------------------------------------------------------
(* Time, the poll loop and the processes: JobQueue's actions. *)

BackoffElapses(j) ==
    /\ status[j] = "queued" /\ ~due[j]
    /\ due' = [due EXCEPT ![j] = TRUE]
    /\ UNCHANGED <<status, lockedBy, attempts, stale, proc, protected, tasks, expert,
                   corpus, ledger, log, api>>

\* The holder has no task left that works on the row.  With Lapses a beat may be
\* late for any other reason too, and the few calls a handler makes after its
\* heartbeat loop has returned may outlast WORKER_STALE_TIMEOUT.
Unattended(j) ==
    ~\E t \in tasks : t.job = j /\ t.worker = lockedBy[j] /\ t.at # "closing"

BeatGoesStale(j) ==
    /\ status[j] = "running" /\ ~stale[j]
    /\ Lapses \/ Unattended(j)
    /\ stale' = [stale EXCEPT ![j] = TRUE]
    /\ UNCHANGED <<status, lockedBy, attempts, due, proc, protected, tasks, expert,
                   corpus, ledger, log, api>>

\* Mutant of Claim: the query forgets status = 'queued'.
ClaimAnyStatus(w, j) ==
    /\ proc[w] = "up"
    /\ Cardinality(TasksOf(w)) < Slots
    /\ status[j] \in Active /\ due[j] /\ attempts[j] < MaxAttempts
    /\ status' = [status EXCEPT ![j] = "running"]
    /\ lockedBy' = [lockedBy EXCEPT ![j] = w]
    /\ attempts' = [attempts EXCEPT ![j] = @ + 1]
    /\ stale' = [stale EXCEPT ![j] = FALSE]
    /\ tasks' = tasks \cup {[worker |-> w, job |-> j, attempt |-> attempts[j] + 1,
                             beating |-> TRUE, at |-> "fetch", resume |-> "none"]}
    /\ protected' = [protected EXCEPT ![w] = @ \cup {j}]
    /\ UNCHANGED <<due, proc, expert, corpus, ledger, log, api>>

Claim(w, j) ==
    /\ proc[w] = "up"
    /\ Cardinality(TasksOf(w)) < Slots
    /\ status[j] = "queued" /\ due[j]
    /\ status' = [status EXCEPT ![j] = "running"]
    /\ lockedBy' = [lockedBy EXCEPT ![j] = w]
    /\ attempts' = [attempts EXCEPT ![j] = @ + 1]
    /\ stale' = [stale EXCEPT ![j] = FALSE]
    /\ tasks' = tasks \cup {[worker |-> w, job |-> j, attempt |-> attempts[j] + 1,
                             beating |-> TRUE, at |-> "fetch", resume |-> "none"]}
    /\ protected' = [protected EXCEPT ![w] = @ \cup {j}]
    /\ UNCHANGED <<due, proc, expert, corpus, ledger, log, api>>

Reapable(w) ==
    {j \in Jobs : status[j] = "running" /\ stale[j] /\ j \notin protected[w]}

Exhausted(j) == attempts[j] >= MaxAttempts

\* Mutant of Reap: the expert of a job it fails is forgotten.
ReapRowsOnly(w) ==
    LET R == Reapable(w) IN
    /\ proc[w] = "up"
    /\ R # {}
    /\ status' = [j \in Jobs |->
                     IF j \in R THEN IF Exhausted(j) THEN "failed" ELSE "queued"
                                ELSE status[j]]
    /\ lockedBy' = [j \in Jobs |-> IF j \in R THEN NoWorker ELSE lockedBy[j]]
    /\ due' = [j \in Jobs |-> j \in R \/ due[j]]
    /\ UNCHANGED <<attempts, stale, proc, protected, tasks, expert, corpus, ledger, log, api>>

\* Also fails the expert of a job it fails; leaves the hold and the log alone.
Reap(w) ==
    LET R == Reapable(w) IN
    /\ proc[w] = "up"
    /\ R # {}
    /\ status' = [j \in Jobs |->
                     IF j \in R THEN IF Exhausted(j) THEN "failed" ELSE "queued"
                                ELSE status[j]]
    /\ lockedBy' = [j \in Jobs |-> IF j \in R THEN NoWorker ELSE lockedBy[j]]
    /\ due' = [j \in Jobs |-> j \in R \/ due[j]]
    /\ expert' = IF \E j \in R : Exhausted(j) THEN "failed" ELSE expert
    /\ UNCHANGED <<attempts, stale, proc, protected, tasks, corpus, ledger, log, api>>

StartWorker(w) ==
    /\ proc[w] = "unstarted"
    /\ proc' = [proc EXCEPT ![w] = "up"]
    /\ UNCHANGED <<table, protected, tasks, expert, corpus, ledger, log, api>>

Replaceable(w) == Crashes /\ \E v \in Workers \ {w} : proc[v] \in {"unstarted", "up"}

BeginDrain(w) ==
    /\ proc[w] = "up" /\ Replaceable(w)
    /\ proc' = [proc EXCEPT ![w] = "draining"]
    /\ UNCHANGED <<table, protected, tasks, expert, corpus, ledger, log, api>>

EndDrain(w) ==
    /\ proc[w] = "draining" /\ TasksOf(w) = {}
    /\ proc' = [proc EXCEPT ![w] = "gone"]
    /\ UNCHANGED <<table, protected, tasks, expert, corpus, ledger, log, api>>

Crash(w) ==
    /\ proc[w] \in {"up", "draining"} /\ Replaceable(w)
    /\ proc' = [proc EXCEPT ![w] = "gone"]
    /\ tasks' = tasks \ TasksOf(w)
    /\ protected' = [protected EXCEPT ![w] = {}]
    /\ UNCHANGED <<table, expert, corpus, ledger, log, api>>

-----------------------------------------------------------------------------
(* _execute: the try block. *)

NoWrite == UNCHANGED <<table, proc, protected, expert, corpus, ledger, log, api>>

\* Mutant of Begin: any readiness at all is resumed from.
BeginAnyReadiness(t) ==
    /\ t.at = "fetch"
    /\ tasks' = (tasks \ {t}) \cup
          {[t EXCEPT !.at = "mark", !.resume = IF t.attempt > 1 THEN readiness ELSE "none"]}
    /\ NoWrite

\* get_by_id, _start_meter, _Supervision, and _resume_point on what was read.
Begin(t) ==
    /\ t.at = "fetch"
    /\ tasks' = (tasks \ {t}) \cup
          {[t EXCEPT !.at = "mark",
                     !.resume = IF t.attempt > 1 /\ readiness \in Ready THEN readiness
                                                                        ELSE "none"]}
    /\ NoWrite

MarkBuilding(t) ==
    /\ t.at = "mark"
    /\ expert' = "building"
    /\ Go(t, IF t.resume = "none" THEN "reset" ELSE "announce")
    /\ UNCHANGED <<table, proc, protected, corpus, ledger, log, api>>

\* reset_build_state: corpus, graph and readiness in one transaction.
ResetBuildState(t) ==
    /\ t.at = "reset"
    /\ readiness' = "pending" /\ corpusOf' = NoJob
    /\ Go(t, "announce")
    /\ UNCHANGED <<table, proc, protected, expert, ledger, log, api>>

Announce(t) ==
    /\ t.at = "announce"
    /\ Append(t.job, "build_started")
    /\ Go(t, CASE t.resume = "none"        -> "clear"
               [] t.resume = "chat_ready"  -> "run_chat"
               [] t.resume = "graph_ready" -> "run_graph")
    /\ UNCHANGED <<table, proc, protected, expert, corpus, ledger, api>>

\* ExpertBuilder.build sets PENDING once more before its first stage.
ClearReadiness(t) ==
    /\ t.at = "clear"
    /\ readiness' = "pending" /\ corpusOf' = NoJob
    /\ Go(t, "run")
    /\ UNCHANGED <<table, proc, protected, expert, ledger, log, api>>

\* set_readiness swallows its own failure.
Reach(t, from, r, to) ==
    /\ t.at = from
    /\ \/ readiness' = r /\ corpusOf' = t.job
       \/ Faults /\ UNCHANGED corpus
    /\ Go(t, to)
    /\ UNCHANGED <<table, proc, protected, expert, ledger, log, api>>

ChatReady(t)  == Reach(t, "run", "chat_ready", "run_chat")
GraphReady(t) == Reach(t, "run_chat", "graph_ready", "run_graph")

\* The completeness gate lets a build return only with its graph and persona.
BuildReturns(t) == t.at = "run_graph" /\ Go(t, "publish") /\ NoWrite

\* Mutant of Publish: the 'done' event is skipped.
PublishSilently(t) ==
    /\ t.at = "publish"
    /\ expert' = "ready"
    /\ Go(t, "succeed")
    /\ UNCHANGED <<table, proc, protected, corpus, ledger, log, api>>

Publish(t) ==
    /\ t.at = "publish"
    /\ expert' = "ready"
    /\ Go(t, "done")
    /\ UNCHANGED <<table, proc, protected, corpus, ledger, log, api>>

AppendDone(t) ==
    /\ t.at = "done"
    /\ Append(t.job, "done")
    /\ Go(t, "succeed")
    /\ UNCHANGED <<table, proc, protected, expert, corpus, ledger, api>>

\* mark_succeeded, mark_failed
Settle(t, outcome, to) ==
    /\ status' = IF Holds(t.worker, t.job) THEN [status EXCEPT ![t.job] = outcome] ELSE status
    /\ Go(t, to)
    /\ UNCHANGED <<lockedBy, attempts, due, stale, proc, protected, expert, corpus, ledger,
                   log, api>>

MarkSucceeded(t) == t.at = "succeed" /\ Settle(t, "succeeded", "closing")

TryStep(t) ==
    \/ Begin(t) \/ MarkBuilding(t) \/ ResetBuildState(t) \/ Announce(t)
    \/ ClearReadiness(t) \/ ChatReady(t) \/ GraphReady(t) \/ BuildReturns(t)
    \/ Publish(t) \/ AppendDone(t) \/ MarkSucceeded(t)

-----------------------------------------------------------------------------
(* Leaving the try block. *)

\* Any exception but BuildError is retried while attempts are left; BuildError,
\* which only the builder raises, never is.
Raises(t) ==
    /\ t.at \in Try
    /\ \/ Go(t, IF t.attempt < MaxAttempts THEN "ret_event" ELSE "fail_refund")
       \/ t.at \in Running /\ Go(t, "fail_refund")
    /\ NoWrite

\* The heartbeat loop returns and cancels the work, if there is any to cancel.
BeatLoopReturns(t, handler) ==
    /\ t.beating
    /\ tasks' = (tasks \ {t}) \cup
          {[t EXCEPT !.beating = FALSE, !.at = IF @ \in Running THEN handler ELSE @]}
    /\ NoWrite

BeatFindsJobGone(t) ==
    /\ t.at \notin {"fetch", "closing"}
    /\ ~Holds(t.worker, t.job)
    /\ BeatLoopReturns(t, "can_event")

\* Money is spent from "run" on.  In a handler the loop's return would end the beats
\* and no more: BeatGoesStale covers it.
OverCap(t) ==
    /\ t.at \in {"run", "run_chat", "run_graph", "publish", "done", "succeed"}
    /\ BeatLoopReturns(t, "cap_read")

Beat(t) ==
    /\ t.beating /\ t.at \notin {"fetch", "closing"}
    /\ Holds(t.worker, t.job)
    /\ stale[t.job]
    /\ stale' = [stale EXCEPT ![t.job] = FALSE]
    /\ UNCHANGED <<status, lockedBy, attempts, due, proc, protected, tasks, expert,
                   corpus, ledger, log, api>>

\* What supervision.run makes of a cancelled work: nothing, and the handler hands the
\* job back, unless a beat has found the job gone before there was work to cancel.
Interrupted(t) == IF t.at \in Running /\ ~t.beating THEN "can_event" ELSE "release"

\* _drain cancels the task wherever it is: only the try block hands the job back.
ShutdownCancels(t) ==
    /\ proc[t.worker] = "draining"
    /\ \/ t.at \in Try /\ Go(t, Interrupted(t))
       \/ t.at \in (Handlers \ {"release"}) \cup {"fetch"} /\ Go(t, "closing")
    /\ NoWrite

-----------------------------------------------------------------------------
(* The handlers, one call per step. *)

\* Where a handler goes after each call that can be suppressed or is not its last.
Then == [ret_event   |-> "ret_expert", ret_expert |-> "ret_requeue",
         fail_refund |-> "fail_expert", fail_expert |-> "fail_event",
         fail_event  |-> "fail_mark",
         can_event   |-> "can_expert", can_expert |-> "can_refund",
         can_refund  |-> "closing",
         cap_read    |-> "cap_expert", cap_publish |-> "cap_event",
         cap_expert  |-> "cap_event", cap_event |-> "cap_fail", cap_refund |-> "closing"]

AppendAt == [ret_event |-> "retry", fail_event |-> "error", can_event |-> "cancelled",
             cap_event |-> "error"]

HandlerAppends(t) ==
    /\ t.at \in DOMAIN AppendAt
    /\ Append(t.job, AppendAt[t.at])
    /\ Go(t, Then[t.at])
    /\ UNCHANGED <<table, proc, protected, expert, corpus, ledger, api>>

\* Mutant of CapReads: whatever the corpus is, it is published.
CapAlwaysPublishes(t) == t.at = "cap_read" /\ Go(t, "cap_publish") /\ NoWrite

\* A build over its cap is published if, when last read, its corpus could answer.
CapReads(t) ==
    /\ t.at = "cap_read"
    /\ Go(t, IF readiness \in Ready THEN "cap_publish" ELSE "cap_expert")
    /\ NoWrite

ExpertAt == [ret_expert |-> "queued", fail_expert |-> "failed", can_expert |-> "failed",
             cap_publish |-> "ready", cap_expert |-> "failed"]

HandlerSetsExpert(t) ==
    /\ t.at \in DOMAIN ExpertAt
    /\ expert' = ExpertAt[t.at]
    /\ Go(t, Then[t.at])
    /\ UNCHANGED <<table, proc, protected, corpus, ledger, log, api>>

HandlerRefunds(t) ==
    /\ t.at \in {"fail_refund", "can_refund", "cap_refund"}
    /\ Refund(t.job)
    /\ Go(t, Then[t.at])
    /\ UNCHANGED <<table, proc, protected, expert, corpus, log, api>>

HandlerMarksFailed(t) ==
    \/ t.at = "fail_mark" /\ Settle(t, "failed", "closing")
    \/ t.at = "cap_fail" /\ Settle(t, "failed", "cap_refund")

\* Mutant of HandsBack: the UPDATE does not ask whose row it is.
HandsBackUnguarded(t) ==
    /\ t.at \in {"ret_requeue", "release"}
    /\ status' = [status EXCEPT ![t.job] = "queued"]
    /\ lockedBy' = [lockedBy EXCEPT ![t.job] = NoWorker]
    /\ due' = [due EXCEPT ![t.job] = t.at = "release"]
    /\ Go(t, "closing")
    /\ UNCHANGED <<attempts, stale, proc, protected, expert, corpus, ledger, log, api>>

\* requeue (with backoff) and release_for_shutdown (available at once).
HandsBack(t) ==
    /\ t.at \in {"ret_requeue", "release"}
    /\ IF Holds(t.worker, t.job)
       THEN /\ status' = [status EXCEPT ![t.job] = "queued"]
            /\ lockedBy' = [lockedBy EXCEPT ![t.job] = NoWorker]
            /\ due' = [due EXCEPT ![t.job] = t.at = "release"]
       ELSE UNCHANGED <<status, lockedBy, due>>
    /\ Go(t, "closing")
    /\ UNCHANGED <<attempts, stale, proc, protected, expert, corpus, ledger, log, api>>

\* Calls under suppress(Exception) are skipped when they fail; a failure of any
\* other call, or of the first read, ends the task.
Suppressed == {"can_event", "can_expert", "can_refund", "cap_read", "cap_publish",
               "cap_expert", "cap_event", "cap_refund", "fail_refund"}

HandlerCallFails(t) ==
    /\ Faults
    /\ t.at \in Handlers \cup {"fetch"}
    /\ Go(t, IF t.at \in Suppressed THEN Then[t.at] ELSE "closing")
    /\ NoWrite

HandlerStep(t) ==
    \/ HandlerAppends(t) \/ CapReads(t) \/ HandlerSetsExpert(t) \/ HandlerRefunds(t)
    \/ HandlerMarksFailed(t) \/ HandsBack(t)

TaskDone(t) ==
    /\ t.at = "closing"
    /\ tasks' = tasks \ {t}
    /\ protected' = [protected EXCEPT ![t.worker] = @ \ {t.job}]
    /\ UNCHANGED <<table, proc, expert, corpus, ledger, log, api>>

-----------------------------------------------------------------------------
Progress(t) == TryStep(t) \/ HandlerStep(t) \/ TaskDone(t)

TaskStep(t) ==
    \/ Progress(t) \/ Raises(t) \/ BeatFindsJobGone(t) \/ OverCap(t) \/ Beat(t)
    \/ ShutdownCancels(t) \/ HandlerCallFails(t)

Poll(w) == Reap(w) \/ \E j \in Jobs : Claim(w, j)

Next ==
    \/ \E r \in Requests : RequestStep(r) \/ RequestDies(r)
    \/ \E c \in Cancels : CancelStep(c) \/ CancelDies(c)
    \/ \E j \in Jobs : BackoffElapses(j) \/ BeatGoesStale(j)
    \/ \E w \in Workers :
          Poll(w) \/ StartWorker(w) \/ BeginDrain(w) \/ EndDrain(w) \/ Crash(w)
    \/ \E t \in tasks : TaskStep(t)

Spec == Init /\ [][Next]_vars

TaskOfProgresses(w, j) ==
    \E t \in TasksOf(w) : t.job = j /\ (Progress(t) \/ ShutdownCancels(t))

\* Requests run to their end, workers poll, reap and are started, a task makes its
\* next call, a backoff and an unattended beat run out.
FairSpec ==
    /\ Spec
    /\ \A r \in Requests : WF_vars(RequestStep(r))
    /\ \A c \in Cancels : WF_vars(can[c].at # "idle" /\ CancelStep(c))
    /\ \A j \in Jobs :
          /\ WF_vars(BackoffElapses(j))
          /\ WF_vars(Unattended(j) /\ BeatGoesStale(j))
    /\ \A w \in Workers :
          /\ WF_vars(StartWorker(w)) /\ WF_vars(EndDrain(w)) /\ WF_vars(Reap(w))
          /\ WF_vars(\E j \in Jobs : Claim(w, j))
          /\ \A j \in Jobs : WF_vars(TaskOfProgresses(w, j))

-----------------------------------------------------------------------------
(* Properties. *)

RequestPlaces == {"idle", "prepare", "enqueue", "existing", "created", "hold", "undo",
                  "undo_expert", "end", "dead"}
CancelPlaces  == {"idle", "cancel", "event", "expert", "refund", "end"}

\* Every variable has its type.
TypeOK ==
    /\ status \in [Jobs -> {"absent"} \cup Active \cup Terminal]
    /\ lockedBy \in [Jobs -> Workers \cup {NoWorker}]
    /\ attempts \in [Jobs -> Nat]
    /\ due \in [Jobs -> BOOLEAN] /\ stale \in [Jobs -> BOOLEAN]
    /\ proc \in [Workers -> {"unstarted", "up", "draining", "gone"}]
    /\ protected \in [Workers -> SUBSET Jobs]
    /\ tasks \subseteq Task
    /\ expert \in {"none", "queued", "building", "ready", "failed"}
    /\ readiness \in {"pending"} \cup Ready
    /\ corpusOf \in Jobs \cup {NoJob}
    /\ held \in [Jobs -> BOOLEAN] /\ refunded \in [Jobs -> BOOLEAN]
    /\ log \in [Jobs -> SUBSET {"created", "build_started", "done", "retry", "error",
                                "cancelled"}]
    /\ req \in [Requests -> [at : RequestPlaces, job : Jobs \cup {NoJob}]]
    /\ can \in [Cancels -> [at : CancelPlaces, job : Jobs \cup {NoJob}]]

\* Nothing is in flight: no task, no active job, no request half way.
AtRest ==
    /\ tasks = {} /\ ActiveJobs = {}
    /\ \A r \in Requests : req[r].at \in {"idle", "end", "dead"}
    /\ \A c \in Cancels : can[c].at \in {"idle", "end"}

\* A succeeded job has its 'done' event, whoever else wrote to the row or the log
\* on the way: a client that tails the log is told of every success.
SucceededIsAnnounced == \A j \in Jobs : status[j] = "succeeded" => "done" \in log[j]

\* While beats arrive on time, two attempts run at once, across crashes, shutdowns,
\* failing handlers, retries and reaps, only when they are of two jobs and one of
\* these was cancelled: its worker has yet to find out.
OneAttemptAtATime ==
    \A t, u \in tasks :
        t.at \in Try /\ u.at \in Try /\ t # u
            => t.job # u.job /\ "cancelled" \in {status[t.job], status[u.job]}

\* An expert shown as ready can be talked to: at no moment does a rebuild, a
\* resume or a capped build leave status ready over a wiped corpus.
ReadyIsChattable == expert = "ready" => readiness \in Ready

\* Once nothing is in flight, the expert agrees with its jobs when these agree, if
\* nobody tried to cancel: ready after a success, with its graph; after a failure,
\* failed, or published by the cap and able to answer.
AgreesAtRest ==
    AtRest /\ (\A j \in Jobs : status[j] # "absent") /\ (\A c \in Cancels : can[c] = NoRoute)
        => /\ (\E j \in Jobs : status[j] = "succeeded") =>
                  expert = "ready" /\ readiness = "graph_ready"
           /\ (\A j \in Jobs : status[j] = "failed") =>
                  expert = "failed" \/ (expert = "ready" /\ readiness \in Ready)

\* Whoever submitted, and however many at once: when every request has run to its
\* end, every job that may run or is running has its hold, or was cancelled for want
\* of one.
ActiveIsPaid ==
    (\A r \in Requests : req[r].at \in {"idle", "end"})
        => \A j \in ActiveJobs : held[j]

\* An expert does not stay queued or building for ever.
ExpertSettles == expert \in {"queued", "building"} ~> expert \in {"ready", "failed"}

\* What the queue sees of a task: its last write to the row is before it, or not.
View(t) ==
    [worker |-> t.worker, job |-> t.job, attempt |-> t.attempt, beating |-> t.beating,
     phase |-> IF t.at \in {"closing", "cap_refund"} THEN "closing" ELSE "working"]
Views == {View(t) : t \in tasks}

\* The queue part of every step is a step of JobQueue.
Queue == INSTANCE JobQueue WITH
    Builds    <- Jobs,
    Experts   <- {"expert"},
    ExpertOf  <- [j \in Jobs |-> "expert"],
    exists    <- [e \in {"expert"} |-> TRUE],
    tasks     <- Views

ImplementsQueue == Queue!Spec

-----------------------------------------------------------------------------
(* What a document or a comment says, and the code does not always do. *)

\* docs/build-flow.md: "running --> failed: ... retries exhausted ... - refund".
ExhaustedIsRefunded ==
    AtRest => \A j \in Jobs :
                 status[j] = "failed" /\ attempts[j] = MaxAttempts /\ held[j]
                     => refunded[j]

\* docs/api-reference.md: "Cancel the active build (hold refunded in full)".
CancelledIsRefunded ==
    AtRest => \A j \in Jobs : status[j] = "cancelled" /\ held[j] => refunded[j]

\* billing/service.py: "a build that eventually succeeds is charged exactly once".
SuccessIsCharged ==
    \A j \in Jobs : status[j] = "succeeded" /\ held[j] => ~refunded[j]

\* jobs/worker.py: "A cancelled build leaves nothing usable behind, so it is not
\* charged."
CancelledLeavesNothing ==
    AtRest => \A j \in Jobs :
                 status[j] = "cancelled" /\ refunded[j] => corpusOf # j

\* api/routes/experts.py: "The expert is marked failed so the UI doesn't show a
\* build that will never finish."
CancelledIsNotShown ==
    AtRest => \A j \in Jobs :
                 status[j] = "cancelled" => expert \notin {"queued", "building"}

\* jobs/worker.py: on a later attempt "readiness was written by an earlier attempt
\* of this same job".
ResumesOwnCorpus ==
    \A t \in tasks : t.at \in Running /\ t.resume # "none" => corpusOf = t.job

\* docs/build-flow.md: "There is no checkpointing. A retry re-runs the whole
\* pipeline from plan onward".
RetriesStartOver == \A t \in tasks : t.at \in Running => t.resume = "none"
=============================================================================
