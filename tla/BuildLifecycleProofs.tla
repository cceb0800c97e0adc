------------------------ MODULE BuildLifecycleProofs ------------------------
(***************************************************************************)
(* What BuildLifecycle promises for any number of jobs, workers, requests  *)
(* and cancels.                                                            *)
(***************************************************************************)
EXTENDS BuildLifecycle, FiniteSetTheorems, TLAPS

\* A task that has moved: the same claim, at another call.
Moved(t, u) ==
    /\ u \in Task /\ <<u.worker, u.job, u.attempt>> = <<t.worker, t.job, t.attempt>>
    /\ tasks' = (tasks \ {t}) \cup {u}

\* Go takes a task to another call and leaves its claim alone.
LEMMA GoMoves ==
    ASSUME tasks \subseteq Task, NEW t \in tasks,
           NEW to \in {"fetch", "closing"} \cup Try \cup Handlers, Go(t, to)
    PROVE  /\ [t EXCEPT !.at = to] \in Task /\ [t EXCEPT !.at = to].at = to
           /\ Moved(t, [t EXCEPT !.at = to]) /\ tasks' \subseteq Task
BY DEF Task, Go, Moved

\* The return of a heartbeat loop, likewise.
LEMMA BeatLoopMoves ==
    ASSUME tasks \subseteq Task, NEW t \in tasks, NEW handler \in Handlers,
           BeatLoopReturns(t, handler)
    PROVE  \E u \in Task : /\ Moved(t, u) /\ u.resume = t.resume /\ tasks' \subseteq Task
                           /\ u.beating = FALSE
                           /\ u.at = IF t.at \in Running THEN handler ELSE t.at
<1> DEFINE u == [t EXCEPT !.beating = FALSE,
                          !.at = IF @ \in Running THEN handler ELSE @]
<1>1. /\ u \in Task /\ u.resume = t.resume /\ u.beating = FALSE
      /\ u.at = IF t.at \in Running THEN handler ELSE t.at
  BY DEF Task
<1>2. Moved(t, u) /\ tasks' \subseteq Task
  BY <1>1 DEF BeatLoopReturns, Moved, Task
<1>3. QED
  BY <1>1, <1>2

\* The fields of a task.
LEMMA TaskFields ==
    ASSUME NEW t \in Task
    PROVE  /\ t.worker \in Workers /\ t.job \in Jobs /\ t.attempt \in Nat \ {0}
           /\ t.beating \in BOOLEAN /\ t.resume \in {"none"} \cup Ready
           /\ t.at \in {"fetch", "closing"} \cup Try \cup Handlers
BY DEF Task

\* The handlers' tables name calls of handlers only.
LEMMA HandlerTable ==
    /\ Suppressed \cup {"fail_refund", "can_refund", "cap_refund"} \subseteq DOMAIN Then
    /\ \A a \in DOMAIN Then : Then[a] \in Handlers \cup {"closing"}
    /\ \A a \in DOMAIN AppendAt : a \in DOMAIN Then
    /\ \A a \in DOMAIN AppendAt : AppendAt[a] \in {"retry", "error", "cancelled"}
    /\ \A a \in DOMAIN ExpertAt : a \in DOMAIN Then /\ ExpertAt[a] \in {"queued", "failed", "ready"}
BY DEF Then, AppendAt, ExpertAt, Handlers, Suppressed

\* The task that a claim starts.
Claimed(w, j) == [worker |-> w, job |-> j, attempt |-> attempts[j] + 1,
                  beating |-> TRUE, at |-> "fetch", resume |-> "none"]

LEMMA ClaimedTask ==
    ASSUME TypeOK, NEW w \in Workers, NEW j \in Jobs, Claim(w, j)
    PROVE  /\ Claimed(w, j) \in Task /\ attempts[j] + 1 \in Nat
           /\ tasks' = tasks \cup {Claimed(w, j)} /\ tasks' \subseteq Task
<1>1. attempts[j] + 1 \in Nat \ {0}
  BY DEF TypeOK
<1>2. Claimed(w, j) \in Task
  BY <1>1 DEF Claimed, Task
<1>3. QED
  BY <1>1, <1>2 DEF TypeOK, Claim, Claimed

\* Where each call of a task leads: the control flow of _execute.
Goes(t, to) ==
    \/ MarkBuilding(t) /\ to = IF t.resume = "none" THEN "reset" ELSE "announce"
    \/ ResetBuildState(t) /\ to = "announce"
    \/ /\ Announce(t)
       /\ \/ t.resume = "none" /\ to = "clear"
          \/ t.resume = "chat_ready" /\ to = "run_chat"
          \/ t.resume = "graph_ready" /\ to = "run_graph"
    \/ ClearReadiness(t) /\ to = "run"
    \/ ChatReady(t) /\ to = "run_chat"
    \/ GraphReady(t) /\ to = "run_graph"
    \/ BuildReturns(t) /\ to = "publish"
    \/ Publish(t) /\ to = "done"
    \/ AppendDone(t) /\ to = "succeed"
    \/ MarkSucceeded(t) /\ to = "closing"
    \/ (HandlerAppends(t) \/ HandlerSetsExpert(t) \/ HandlerRefunds(t)) /\ to = Then[t.at]
    \/ CapReads(t) /\ to = IF readiness \in Ready THEN "cap_publish" ELSE "cap_expert"
    \/ HandlerMarksFailed(t) /\ to = IF t.at = "cap_fail" THEN "cap_refund" ELSE "closing"
    \/ HandsBack(t) /\ to = "closing"
    \/ Raises(t) /\ \/ to = "ret_event" /\ t.attempt < MaxAttempts
                    \/ to = "fail_refund" /\ (t.attempt >= MaxAttempts \/ t.at \in Running)
    \/ ShutdownCancels(t) /\ to = IF t.at \in Try THEN Interrupted(t) ELSE "closing"
    \/ HandlerCallFails(t) /\ to = IF t.at \in Suppressed THEN Then[t.at] ELSE "closing"

\* A step that ends, or only beats for, a task; the first step of an attempt; the
\* return of its heartbeat loop; any other call.
Begins(t, u) ==
    /\ Begin(t) /\ u.at = "mark" /\ u.beating = t.beating
    /\ u.resume = IF t.attempt > 1 /\ readiness \in Ready THEN readiness ELSE "none"

StopsBeating(t, u) ==
    /\ u.resume = t.resume /\ u.beating = FALSE
    /\ \/ BeatFindsJobGone(t) /\ u.at = IF t.at \in Running THEN "can_event" ELSE t.at
       \/ OverCap(t) /\ u.at = IF t.at \in Running THEN "cap_read" ELSE t.at

Calls(t, u) == Goes(t, u.at) /\ u.resume = t.resume /\ u.beating = t.beating

LEMMA GoesWhere ==
    ASSUME NEW t \in Task, TryStep(t) \/ HandlerStep(t) \/ Raises(t) \/ ShutdownCancels(t)
                              \/ HandlerCallFails(t), ~Begin(t)
    PROVE  \E to \in {"closing"} \cup Try \cup Handlers : Goes(t, to) /\ Go(t, to)
<1>1. CASE TryStep(t)
  BY <1>1, TaskFields
     DEF TryStep, MarkBuilding, ResetBuildState, Announce, ClearReadiness, ChatReady,
         GraphReady, Reach, BuildReturns, Publish, AppendDone, MarkSucceeded, Settle,
         Goes, Try, Running, Ready
<1>2. CASE HandlerAppends(t) \/ HandlerSetsExpert(t) \/ HandlerRefunds(t)
  <2>1. Go(t, Then[t.at]) /\ Then[t.at] \in Handlers \cup {"closing"}
    BY <1>2, HandlerTable DEF HandlerAppends, HandlerSetsExpert, HandlerRefunds
  <2>2. QED
    BY <1>2, <2>1 DEF Goes
<1>3. CASE CapReads(t) \/ HandlerMarksFailed(t) \/ HandsBack(t)
  BY <1>3 DEF CapReads, HandlerMarksFailed, Settle, HandsBack, Goes, Handlers
<1>4. CASE Raises(t)
  BY <1>4, TaskFields, BuildLifecycleAssumption DEF Raises, Goes, Handlers
<1>5. CASE ShutdownCancels(t)
  <2>1. t.at \in (Handlers \ {"release"}) \cup {"fetch"} => t.at \notin Try
    BY DEF Handlers, Try, Running
  <2>2. QED
    BY <1>5, <2>1 DEF ShutdownCancels, Interrupted, Goes, Handlers
<1>6. CASE HandlerCallFails(t)
  <2>1. LET to == IF t.at \in Suppressed THEN Then[t.at] ELSE "closing"
        IN  Go(t, to) /\ to \in Handlers \cup {"closing"}
    BY <1>6, HandlerTable DEF HandlerCallFails
  <2>2. QED
    BY <1>6, <2>1 DEF Goes
<1>7. QED
  BY <1>1, <1>2, <1>3, <1>4, <1>5, <1>6 DEF HandlerStep

\* Every step of a task beats, ends it, or moves it in one of the three ways.
LEMMA TaskMoves ==
    ASSUME tasks \subseteq Task, NEW t \in tasks, TaskStep(t)
    PROVE  /\ tasks' \subseteq Task
           /\ \/ Beat(t) /\ tasks' = tasks
              \/ TaskDone(t) /\ tasks' = tasks \ {t}
              \/ \E u \in Task : /\ Moved(t, u) /\ t.at # "closing"
                                 /\ Begins(t, u) \/ StopsBeating(t, u) \/ Calls(t, u)
<1>1. CASE Beat(t) \/ TaskDone(t)
  BY <1>1 DEF Beat, TaskDone
<1>2. CASE Begin(t)
  <2> DEFINE u == [t EXCEPT !.at = "mark",
                     !.resume = IF t.attempt > 1 /\ readiness \in Ready THEN readiness
                                                                        ELSE "none"]
  <2>1. u \in Task
    BY DEF Task, Try
  <2>2. Moved(t, u) /\ Begins(t, u) /\ t.at # "closing"
    BY <1>2, <2>1 DEF Begin, Begins, Moved, Task
  <2>3. tasks' \subseteq Task
    BY <2>2 DEF Moved
  <2>4. QED
    BY <2>1, <2>2, <2>3
<1>3. CASE BeatFindsJobGone(t) \/ OverCap(t)
  <2>1. PICK handler \in {"can_event", "cap_read"} :
           /\ BeatLoopReturns(t, handler) /\ t.at # "closing"
           /\ \/ BeatFindsJobGone(t) /\ handler = "can_event"
              \/ OverCap(t) /\ handler = "cap_read"
    BY <1>3 DEF BeatFindsJobGone, OverCap
  <2>2. PICK u \in Task : /\ Moved(t, u) /\ u.resume = t.resume /\ tasks' \subseteq Task
                         /\ u.beating = FALSE
                         /\ u.at = IF t.at \in Running THEN handler ELSE t.at
    <3>1. {"can_event", "cap_read"} \subseteq Handlers
      BY DEF Handlers
    <3>2. QED
      BY <2>1, <3>1, BeatLoopMoves
  <2>3. StopsBeating(t, u)
    BY <2>1, <2>2 DEF StopsBeating
  <2>4. QED
    BY <2>1, <2>2, <2>3
<1>4. CASE ~Begin(t) /\ (TryStep(t) \/ HandlerStep(t) \/ Raises(t) \/ ShutdownCancels(t)
                            \/ HandlerCallFails(t))
  <2>1. PICK to \in {"closing"} \cup Try \cup Handlers : Goes(t, to) /\ Go(t, to)
    BY <1>4, GoesWhere
  <2> DEFINE u == [t EXCEPT !.at = to]
  <2>2. /\ u \in Task /\ u.at = to /\ Moved(t, u) /\ tasks' \subseteq Task
        /\ u.resume = t.resume /\ u.beating = t.beating
    BY <2>1, GoMoves DEF Task
  <2>3. t.at # "closing"
    BY <1>4 DEF TryStep, MarkBuilding, ResetBuildState, Announce, ClearReadiness, ChatReady,
                GraphReady, Reach, BuildReturns, Publish, AppendDone, MarkSucceeded,
                HandlerStep, HandlerAppends, AppendAt, CapReads, HandlerSetsExpert, ExpertAt,
                HandlerRefunds, HandlerMarksFailed, HandsBack, Raises, ShutdownCancels,
                HandlerCallFails, Try, Running, Handlers
  <2>4. Calls(t, u)
    BY <2>1, <2>2 DEF Calls
  <2>5. QED
    BY <2>2, <2>3, <2>4
<1>5. QED
  BY <1>1, <1>2, <1>3, <1>4 DEF TaskStep, Progress

\* A request at its next call, and the job it is about.
LEMMA AdvanceMoves ==
    ASSUME TypeOK, NEW r \in Requests, NEW to \in RequestPlaces,
           \/ Advance(r, to) \/ \E j \in Jobs : AdvanceOn(r, to, j)
    PROVE  /\ req' \in [Requests -> [at : RequestPlaces, job : Jobs \cup {NoJob}]]
           /\ req'[r].at = to
           /\ \A q \in Requests \ {r} : req'[q] = req[q]
<1>1. CASE Advance(r, to)
  BY <1>1 DEF TypeOK, Advance
<1>2. CASE \E j \in Jobs : AdvanceOn(r, to, j)
  BY <1>2 DEF TypeOK, AdvanceOn
<1>3. QED
  BY <1>1, <1>2

\* A cancellation at its next call.
LEMMA CancelMoves ==
    ASSUME TypeOK, NEW c \in Cancels, NEW to \in CancelPlaces, can' = [can EXCEPT ![c].at = to]
    PROVE  can' \in [Cancels -> [at : CancelPlaces, job : Jobs \cup {NoJob}]]
BY DEF TypeOK

\* request_cancel leaves every row in a status it may have.
LEMMA CancelledRows ==
    ASSUME TypeOK, CancelBuilds
    PROVE  status' \in [Jobs -> {"absent"} \cup Active \cup Terminal]
BY DEF TypeOK, CancelBuilds, Terminal

\* Every call of every process keeps the types of the rows and of the tasks.
LEMMA TypeStep ==
    ASSUME TypeOK, [Next]_vars
    PROVE  TypeOK'
<1> USE BuildLifecycleAssumption DEF table, corpus, ledger, api
<1>1. ASSUME NEW r \in Requests, RequestStep(r) \/ RequestDies(r)
      PROVE  TypeOK'
  <2>1. \E to \in RequestPlaces : Advance(r, to) \/ \E j \in Jobs : AdvanceOn(r, to, j)
    BY <1>1 DEF RequestStep, Lookup, EnqueueExisting, RequestDies, PrepareForBuild, UndoExpert,
                Enqueue, AppendCreated, HoldForJob, UndoEnqueue, ActiveJobs, RequestPlaces
  <2>2. req' \in [Requests -> [at : RequestPlaces, job : Jobs \cup {NoJob}]]
    BY <2>1, AdvanceMoves
  <2>3. CASE Lookup(r) \/ EnqueueExisting(r) \/ RequestDies(r)
    BY <2>2, <2>3 DEF TypeOK, Lookup, EnqueueExisting, RequestDies
  <2>4. CASE PrepareForBuild(r) \/ UndoExpert(r)
    BY <2>2, <2>4 DEF TypeOK, PrepareForBuild, UndoExpert
  <2>5. CASE Enqueue(r)
    BY <2>2, <2>5 DEF TypeOK, Enqueue, Active
  <2>6. CASE AppendCreated(r)
    BY <2>2, <2>6 DEF TypeOK, AppendCreated, Append
  <2>7. CASE HoldForJob(r)
    BY <2>2, <2>7 DEF TypeOK, HoldForJob
  <2>8. CASE UndoEnqueue(r)
    BY <2>2, <2>8 DEF TypeOK, UndoEnqueue, CancelBuilds, Terminal
  <2>9. QED
    BY <1>1, <2>3, <2>4, <2>5, <2>6, <2>7, <2>8 DEF RequestStep
<1>2. ASSUME NEW c \in Cancels, CancelStep(c) \/ CancelDies(c)
      PROVE  TypeOK'
  <2>1. CASE CancelFinds(c) \/ CancelDies(c)
    BY <2>1 DEF TypeOK, CancelFinds, CancelDies, ActiveJobs, CancelPlaces
  <2>2. CASE CancelRequests(c)
    <3>1. can' = [can EXCEPT ![c].at = "event"] /\ CancelBuilds
      BY <2>2 DEF CancelRequests
    <3>2. can' \in [Cancels -> [at : CancelPlaces, job : Jobs \cup {NoJob}]]
      BY <3>1, CancelMoves DEF CancelPlaces
    <3>3. QED
      BY <2>2, <3>1, <3>2, CancelledRows DEF TypeOK, CancelRequests
  <2>3. CASE CancelAppends(c)
    <3>1. can' = [can EXCEPT ![c].at = "expert"]
      BY <2>3 DEF CancelAppends
    <3>2. can' \in [Cancels -> [at : CancelPlaces, job : Jobs \cup {NoJob}]]
      BY <3>1, CancelMoves DEF CancelPlaces
    <3>3. QED
      BY <2>3, <3>2 DEF TypeOK, CancelAppends, Append
  <2>4. CASE CancelFailsExpert(c)
    <3>1. can' = [can EXCEPT ![c].at = "refund"]
      BY <2>4 DEF CancelFailsExpert
    <3>2. can' \in [Cancels -> [at : CancelPlaces, job : Jobs \cup {NoJob}]]
      BY <3>1, CancelMoves DEF CancelPlaces
    <3>3. QED
      BY <2>4, <3>2 DEF TypeOK, CancelFailsExpert
  <2>5. CASE CancelRefunds(c)
    <3>1. can' = [can EXCEPT ![c].at = "end"]
      BY <2>5 DEF CancelRefunds
    <3>2. can' \in [Cancels -> [at : CancelPlaces, job : Jobs \cup {NoJob}]]
      BY <3>1, CancelMoves DEF CancelPlaces
    <3>3. QED
      BY <2>5, <3>2 DEF TypeOK, CancelRefunds, Refund
  <2>6. QED
    BY <1>2, <2>1, <2>2, <2>3, <2>4, <2>5 DEF CancelStep
<1>3. ASSUME NEW j \in Jobs, BackoffElapses(j) \/ BeatGoesStale(j)
      PROVE  TypeOK'
  <2>1. due' \in [Jobs -> BOOLEAN] /\ stale' \in [Jobs -> BOOLEAN]
    BY <1>3 DEF TypeOK, BackoffElapses, BeatGoesStale
  <2>2. QED
    BY <1>3, <2>1 DEF TypeOK, BackoffElapses, BeatGoesStale
<1>4. ASSUME NEW w \in Workers, NEW j \in Jobs, Claim(w, j)
      PROVE  TypeOK'
  <2>1. tasks' \subseteq Task /\ attempts[j] + 1 \in Nat
    BY <1>4, ClaimedTask
  <2>2. /\ status' = [status EXCEPT ![j] = "running"] /\ lockedBy' = [lockedBy EXCEPT ![j] = w]
        /\ attempts' = [attempts EXCEPT ![j] = attempts[j] + 1]
        /\ stale' = [stale EXCEPT ![j] = FALSE]
        /\ protected' = [protected EXCEPT ![w] = protected[w] \cup {j}]
        /\ UNCHANGED <<due, proc, expert, corpus, ledger, log, api>>
    BY <1>4 DEF Claim
  <2>3. attempts' \in [Jobs -> Nat] /\ protected' \in [Workers -> SUBSET Jobs]
    BY <2>1, <2>2 DEF TypeOK
  <2>4. status' \in [Jobs -> {"absent"} \cup Active \cup Terminal]
    BY <2>2 DEF TypeOK, Active
  <2>5. lockedBy' \in [Jobs -> Workers \cup {NoWorker}] /\ stale' \in [Jobs -> BOOLEAN]
    BY <2>2 DEF TypeOK
  <2>6. QED
    BY <2>1, <2>2, <2>3, <2>4, <2>5 DEF TypeOK
<1>5. ASSUME NEW w \in Workers, Reap(w)
      PROVE  TypeOK'
  <2> DEFINE R == Reapable(w)
  <2>1. /\ status' = [j \in Jobs |->
                        IF j \in R THEN IF Exhausted(j) THEN "failed" ELSE "queued" ELSE status[j]]
        /\ lockedBy' = [j \in Jobs |-> IF j \in R THEN NoWorker ELSE lockedBy[j]]
        /\ due' = [j \in Jobs |-> j \in R \/ due[j]]
        /\ expert' = IF \E j \in R : Exhausted(j) THEN "failed" ELSE expert
        /\ UNCHANGED <<attempts, stale, proc, protected, tasks, corpus, ledger, log, api>>
    BY <1>5 DEF Reap
  <2> HIDE DEF R
  <2>2. status' \in [Jobs -> {"absent"} \cup Active \cup Terminal]
    BY <2>1 DEF TypeOK, Active, Terminal
  <2>3. lockedBy' \in [Jobs -> Workers \cup {NoWorker}] /\ due' \in [Jobs -> BOOLEAN]
    BY <2>1 DEF TypeOK
  <2>4. expert' \in {"none", "queued", "building", "ready", "failed"}
    BY <2>1 DEF TypeOK
  <2>5. QED
    BY <2>1, <2>2, <2>3, <2>4 DEF TypeOK
<1>6. ASSUME NEW w \in Workers, StartWorker(w) \/ BeginDrain(w) \/ EndDrain(w) \/ Crash(w)
      PROVE  TypeOK'
  BY <1>6 DEF TypeOK, StartWorker, BeginDrain, EndDrain, Crash
<1>7. ASSUME NEW t \in tasks, TaskStep(t)
      PROVE  TypeOK'
  <2>1. tasks \subseteq Task /\ tasks' \subseteq Task /\ t \in Task
    BY <1>7, TaskMoves DEF TypeOK, Moved
  <2>2. t.worker \in Workers /\ t.job \in Jobs
    BY <2>1, TaskFields
  <2>3. CASE NoWrite
    BY <2>1, <2>3 DEF TypeOK, NoWrite
  <2>4. CASE MarkBuilding(t) \/ Publish(t) \/ HandlerSetsExpert(t)
    BY <2>1, <2>4, HandlerTable DEF TypeOK, MarkBuilding, Publish, HandlerSetsExpert
  <2>5. CASE ResetBuildState(t) \/ ClearReadiness(t) \/ ChatReady(t) \/ GraphReady(t)
    BY <2>1, <2>2, <2>5 DEF TypeOK, ResetBuildState, ClearReadiness, ChatReady, GraphReady,
                            Reach, Ready
  <2>6. CASE Announce(t) \/ AppendDone(t) \/ HandlerAppends(t)
    BY <2>1, <2>2, <2>6, HandlerTable DEF TypeOK, Announce, AppendDone, HandlerAppends, Append
  <2>7. CASE MarkSucceeded(t) \/ HandlerMarksFailed(t)
    BY <2>1, <2>7 DEF TypeOK, MarkSucceeded, HandlerMarksFailed, Settle, Terminal
  <2>8. CASE HandsBack(t)
    BY <2>1, <2>8 DEF TypeOK, HandsBack, Active
  <2>9. CASE HandlerRefunds(t)
    BY <2>1, <2>2, <2>9 DEF TypeOK, HandlerRefunds, Refund
  <2>10. CASE TaskDone(t)
    BY <2>1, <2>2, <2>10 DEF TypeOK, TaskDone
  <2>11. CASE Beat(t)
    BY <2>1, <2>2, <2>11 DEF TypeOK, Beat
  <2>12. QED
    BY <1>7, <2>3, <2>4, <2>5, <2>6, <2>7, <2>8, <2>9, <2>10, <2>11
       DEF TaskStep, Progress, TryStep, HandlerStep, Begin, BuildReturns, CapReads, Raises,
           BeatFindsJobGone, OverCap, BeatLoopReturns, ShutdownCancels, HandlerCallFails
<1>8. CASE UNCHANGED vars
  BY <1>8 DEF TypeOK, vars
<1>9. QED
  BY <1>1, <1>2, <1>3, <1>4, <1>5, <1>6, <1>7, <1>8 DEF Next, Poll

LEMMA InitType == Init => TypeOK
BY BuildLifecycleAssumption
   DEF Init, TypeOK, NoRoute, Ready, RequestPlaces, CancelPlaces

\* The rows of the five tables, and what the processes keep, have their types.
THEOREM TypeCorrect == Spec => []TypeOK
<1>1. TypeOK /\ [Next]_vars => TypeOK'
  BY TypeStep
<1>2. QED
  BY <1>1, InitType, PTL DEF Spec

\* What each actor leaves alone.
LEMMA RequestFrame ==
    ASSUME NEW r, RequestStep(r) \/ RequestDies(r)
    PROVE  /\ UNCHANGED <<attempts, proc, protected, tasks, corpus, can>>
           /\ expert' \in {expert, "queued", "failed"}
           /\ UNCHANGED ledger \/ HoldForJob(r)
<1>1. CASE Lookup(r) \/ PrepareForBuild(r) \/ Enqueue(r) \/ EnqueueExisting(r)
  BY <1>1 DEF Lookup, PrepareForBuild, Enqueue, EnqueueExisting, table, corpus, ledger
<1>2. CASE AppendCreated(r) \/ HoldForJob(r) \/ UndoEnqueue(r) \/ UndoExpert(r) \/ RequestDies(r)
  BY <1>2 DEF AppendCreated, HoldForJob, UndoEnqueue, UndoExpert, RequestDies, table, corpus, ledger
<1>3. QED
  BY <1>1, <1>2 DEF RequestStep

LEMMA CancelFrame ==
    ASSUME NEW c, CancelStep(c) \/ CancelDies(c)
    PROVE  /\ UNCHANGED <<attempts, proc, protected, tasks, corpus, req>>
           /\ expert' \in {expert, "queued", "failed"}
           /\ UNCHANGED ledger \/ CancelRefunds(c)
<1>1. CASE CancelFinds(c) \/ CancelRequests(c) \/ CancelAppends(c)
  BY <1>1 DEF CancelFinds, CancelRequests, CancelAppends, table, corpus, ledger
<1>2. CASE CancelFailsExpert(c) \/ CancelRefunds(c) \/ CancelDies(c)
  BY <1>2 DEF CancelFailsExpert, CancelRefunds, CancelDies, table, corpus, ledger
<1>3. QED
  BY <1>1, <1>2 DEF CancelStep

LEMMA JobFrame ==
    ASSUME NEW j, BackoffElapses(j) \/ BeatGoesStale(j)
    PROVE  UNCHANGED <<status, attempts, proc, protected, tasks, expert, corpus, ledger, log, api>>
BY DEF BackoffElapses, BeatGoesStale, table

LEMMA WorkerFrame ==
    ASSUME NEW w, Poll(w) \/ StartWorker(w) \/ BeginDrain(w) \/ EndDrain(w) \/ Crash(w)
    PROVE  /\ UNCHANGED <<corpus, ledger, log, api>>
           /\ expert' \in {expert, "queued", "failed"}
           /\ UNCHANGED proc \/ StartWorker(w) \/ BeginDrain(w) \/ EndDrain(w) \/ Crash(w)
           /\ UNCHANGED attempts \/ \E j \in Jobs : Claim(w, j)
           /\ UNCHANGED tasks \/ Crash(w) \/ \E j \in Jobs : Claim(w, j)
<1>1. CASE Reap(w)
  BY <1>1 DEF Reap
<1>2. CASE \E j \in Jobs : Claim(w, j)
  BY <1>2 DEF Claim
<1>3. CASE StartWorker(w) \/ BeginDrain(w) \/ EndDrain(w) \/ Crash(w)
  BY <1>3 DEF StartWorker, BeginDrain, EndDrain, Crash, table
<1>4. QED
  BY <1>1, <1>2, <1>3 DEF Poll

LEMMA TaskFrame ==
    ASSUME NEW t, TaskStep(t)
    PROVE  UNCHANGED <<attempts, proc, api>> /\ (UNCHANGED ledger \/ HandlerRefunds(t))
<1>1. CASE NoWrite
  BY <1>1 DEF NoWrite, table
<1>2. CASE MarkBuilding(t) \/ ResetBuildState(t) \/ Announce(t) \/ ClearReadiness(t)
  BY <1>2 DEF MarkBuilding, ResetBuildState, Announce, ClearReadiness, table
<1>3. CASE ChatReady(t) \/ GraphReady(t) \/ Publish(t) \/ AppendDone(t)
  BY <1>3 DEF ChatReady, GraphReady, Reach, Publish, AppendDone, table
<1>4. CASE MarkSucceeded(t) \/ HandlerMarksFailed(t) \/ HandsBack(t) \/ Beat(t)
  BY <1>4 DEF MarkSucceeded, HandlerMarksFailed, Settle, HandsBack, Beat
<1>5. CASE HandlerAppends(t) \/ HandlerSetsExpert(t) \/ HandlerRefunds(t) \/ TaskDone(t)
  BY <1>5 DEF HandlerAppends, HandlerSetsExpert, HandlerRefunds, TaskDone, table
<1>6. QED
  BY <1>1, <1>2, <1>3, <1>4, <1>5
     DEF TaskStep, Progress, TryStep, HandlerStep, Begin, BuildReturns, CapReads, Raises,
         BeatFindsJobGone, OverCap, BeatLoopReturns, ShutdownCancels, HandlerCallFails

\* Only a claim, a crash and the tasks' own steps change the set of tasks.
LEMMA OthersLeaveTasks ==
    ASSUME [Next]_vars
    PROVE  \/ tasks' = tasks
           \/ \E w \in Workers : Crash(w) \/ \E j \in Jobs : Claim(w, j)
           \/ \E t \in tasks : TaskStep(t)
BY RequestFrame, CancelFrame, JobFrame, WorkerFrame DEF Next, vars

-----------------------------------------------------------------------------
(* The event log. *)

\* Nothing is ever taken out of a job's event log.
LEMMA LogGrows ==
    ASSUME TypeOK, [Next]_vars
    PROVE  \A j \in Jobs : log[j] \subseteq log'[j]
<1> USE DEF TypeOK, Append
<1>1. ASSUME NEW r \in Requests, RequestStep(r) \/ RequestDies(r)
      PROVE  \A j \in Jobs : log[j] \subseteq log'[j]
  BY <1>1 DEF RequestStep, Lookup, PrepareForBuild, Enqueue, EnqueueExisting, AppendCreated,
              HoldForJob, UndoEnqueue, UndoExpert, RequestDies
<1>2. ASSUME NEW c \in Cancels, CancelStep(c) \/ CancelDies(c)
      PROVE  \A j \in Jobs : log[j] \subseteq log'[j]
  BY <1>2 DEF CancelStep, CancelFinds, CancelRequests, CancelAppends, CancelFailsExpert,
              CancelRefunds, CancelDies
<1>3. ASSUME NEW t \in tasks, TaskStep(t)
      PROVE  \A j \in Jobs : log[j] \subseteq log'[j]
  BY <1>3, HandlerTable DEF TaskStep, Progress, TryStep, Begin, MarkBuilding, ResetBuildState, Announce,
              ClearReadiness, ChatReady, GraphReady, Reach, BuildReturns, Publish, AppendDone,
              MarkSucceeded, Settle, HandlerStep, HandlerAppends, CapReads, HandlerSetsExpert,
              HandlerRefunds, HandlerMarksFailed, HandsBack, TaskDone, Raises, BeatFindsJobGone,
              OverCap, BeatLoopReturns, Beat, ShutdownCancels, HandlerCallFails, NoWrite
<1>4. CASE UNCHANGED log
  BY <1>4
<1>5. QED
  BY <1>1, <1>2, <1>3, <1>4
     DEF Next, Poll, Reap, Claim, StartWorker, BeginDrain, EndDrain, Crash,
         BackoffElapses, BeatGoesStale, vars

\* A job succeeds by mark_succeeded and by nothing else.
LEMMA SucceedsByItsTask ==
    ASSUME TypeOK, [Next]_vars, NEW j \in Jobs, status'[j] = "succeeded"
    PROVE  status[j] = "succeeded" \/ \E t \in tasks : t.job = j /\ t.at = "succeed"
<1> USE DEF TypeOK, table
<1>1. ASSUME NEW r \in Requests, RequestStep(r) \/ RequestDies(r)
      PROVE  status[j] = "succeeded"
  BY <1>1 DEF RequestStep, Lookup, PrepareForBuild, Enqueue, EnqueueExisting, AppendCreated,
              HoldForJob, UndoEnqueue, UndoExpert, RequestDies, CancelBuilds
<1>2. ASSUME NEW c \in Cancels, CancelStep(c) \/ CancelDies(c)
      PROVE  status[j] = "succeeded"
  BY <1>2 DEF CancelStep, CancelFinds, CancelRequests, CancelAppends, CancelFailsExpert,
              CancelRefunds, CancelDies, CancelBuilds
<1>3. ASSUME NEW t \in tasks, TaskStep(t)
      PROVE  status[j] = "succeeded" \/ (t.job = j /\ t.at = "succeed")
  BY <1>3 DEF TaskStep, Progress, TryStep, Begin, MarkBuilding, ResetBuildState, Announce,
              ClearReadiness, ChatReady, GraphReady, Reach, BuildReturns, Publish, AppendDone,
              MarkSucceeded, Settle, HandlerStep, HandlerAppends, CapReads, HandlerSetsExpert,
              HandlerRefunds, HandlerMarksFailed, HandsBack, TaskDone, Raises, BeatFindsJobGone,
              OverCap, BeatLoopReturns, Beat, ShutdownCancels, HandlerCallFails, NoWrite
<1>4. ASSUME NEW w \in Workers, Poll(w)
      PROVE  status[j] = "succeeded"
  BY <1>4 DEF Poll, Reap, Claim
<1>5. CASE UNCHANGED status
  BY <1>5
<1>6. QED
  BY <1>1, <1>2, <1>3, <1>4, <1>5
     DEF Next, StartWorker, BeginDrain, EndDrain, Crash, BackoffElapses, BeatGoesStale, vars

\* A task about to mark its job succeeded has written the 'done' event.
AnnouncedFirst == \A t \in tasks : t.at = "succeed" => "done" \in log[t.job]

LEMMA AnnouncedStep ==
    ASSUME TypeOK, AnnouncedFirst, [Next]_vars
    PROVE  AnnouncedFirst'
<1> SUFFICES ASSUME NEW u \in tasks', u.at = "succeed"
             PROVE  "done" \in log'[u.job]
  BY DEF AnnouncedFirst
<1>1. ASSUME NEW t \in tasks, t.job = u.job, t.at = "succeed"
      PROVE  "done" \in log'[u.job]
  BY <1>1, LogGrows, TaskFields DEF TypeOK, AnnouncedFirst
<1>2. CASE u \in tasks
  BY <1>1, <1>2
<1>3. ASSUME NEW t \in tasks, TaskStep(t), u \notin tasks
      PROVE  "done" \in log'[u.job]
  <2>1. /\ Moved(t, u) /\ t \in Task /\ u \in Task
        /\ Begins(t, u) \/ StopsBeating(t, u) \/ Calls(t, u)
    BY <1>3, TaskMoves DEF TypeOK, Moved
  <2>2. t.at = "succeed" \/ AppendDone(t)
    BY <2>1, TaskFields DEF Begins, StopsBeating, Calls, Goes, Interrupted, Then, Running,
       HandlerAppends, AppendAt, HandlerSetsExpert, ExpertAt, HandlerRefunds,
       HandlerCallFails, Suppressed
  <2>3. CASE AppendDone(t)
    BY <2>1, <2>3, TaskFields DEF TypeOK, AppendDone, Append, Moved
  <2>4. QED
    BY <1>1, <2>1, <2>2, <2>3 DEF Moved
<1>4. CASE tasks' = tasks
  BY <1>2, <1>4
<1>5. ASSUME NEW w \in Workers, NEW j \in Jobs, Claim(w, j)
      PROVE  "done" \in log'[u.job]
  <2>1. tasks' = tasks \cup {Claimed(w, j)}
    BY <1>5, ClaimedTask
  <2>2. Claimed(w, j).at # "succeed"
    BY DEF Claimed
  <2>3. QED
    BY <1>2, <2>1, <2>2
<1>6. ASSUME NEW w \in Workers, Crash(w)
      PROVE  "done" \in log'[u.job]
  BY <1>2, <1>6 DEF Crash
<1>7. QED
  BY <1>2, <1>3, <1>4, <1>5, <1>6, OthersLeaveTasks

\* Every job that succeeded has its 'done' event, through cancels, crashes, late
\* beats, failing calls and any number of attempts.
THEOREM Announced == Spec => []SucceededIsAnnounced
<1> DEFINE Inv == TypeOK /\ AnnouncedFirst /\ SucceededIsAnnounced
<1>1. Init => Inv
  BY InitType DEF Init, AnnouncedFirst, SucceededIsAnnounced
<1>2. Inv /\ [Next]_vars => Inv'
  <2> SUFFICES ASSUME Inv, [Next]_vars
               PROVE  SucceededIsAnnounced'
    BY TypeStep, AnnouncedStep
  <2>1. ASSUME NEW j \in Jobs, status'[j] = "succeeded"
        PROVE  "done" \in log'[j]
    <3>1. "done" \in log[j]
      BY <2>1, SucceedsByItsTask DEF AnnouncedFirst, SucceededIsAnnounced
    <3>2. QED
      BY <3>1, LogGrows
  <2>2. QED
    BY <2>1 DEF SucceededIsAnnounced
<1>3. QED
  BY <1>1, <1>2, PTL DEF Spec

-----------------------------------------------------------------------------
(* The hold. *)

\* An INSERT is the only way into the queue: a claim, a retry, a release or a reap
\* finds the job there.
LEMMA BecomesActive ==
    ASSUME TypeOK, [Next]_vars, NEW j \in Jobs, status'[j] \in Active
    PROVE  \/ status[j] \in Active
           \/ \E r \in Requests : req'[r].job = j /\ req'[r].at = "created"
<1> USE DEF TypeOK, table, corpus, ledger, api, Active, Terminal
<1>1. ASSUME NEW r \in Requests, Enqueue(r)
      PROVE  status[j] \in Active \/ (req'[r].job = j /\ req'[r].at = "created")
  BY <1>1 DEF Enqueue, AdvanceOn
<1>2. ASSUME NEW r \in Requests, UndoEnqueue(r)
      PROVE  status[j] \in Active
  BY <1>2 DEF UndoEnqueue, CancelBuilds
<1>3. ASSUME NEW r \in Requests, RequestStep(r) \/ RequestDies(r)
      PROVE  status'[j] = status[j] \/ Enqueue(r) \/ UndoEnqueue(r)
  BY <1>3 DEF RequestStep, Lookup, PrepareForBuild, EnqueueExisting, AppendCreated,
              HoldForJob, UndoExpert, RequestDies
<1>4. ASSUME NEW c \in Cancels, CancelStep(c) \/ CancelDies(c)
      PROVE  status[j] \in Active
  BY <1>4 DEF CancelStep, CancelFinds, CancelRequests, CancelAppends, CancelFailsExpert,
              CancelRefunds, CancelDies, CancelBuilds
<1>5. ASSUME NEW t \in tasks, TaskStep(t)
      PROVE  status[j] \in Active
  BY <1>5 DEF TaskStep, Progress, TryStep, Begin, MarkBuilding, ResetBuildState, Announce,
              ClearReadiness, ChatReady, GraphReady, Reach, BuildReturns, Publish, AppendDone,
              MarkSucceeded, Settle, HandlerStep, HandlerAppends, CapReads, HandlerSetsExpert,
              HandlerRefunds, HandlerMarksFailed, HandsBack, TaskDone, Raises, BeatFindsJobGone,
              OverCap, BeatLoopReturns, Beat, ShutdownCancels, HandlerCallFails, NoWrite, Holds
<1>6. ASSUME NEW w \in Workers, Poll(w)
      PROVE  status[j] \in Active
  BY <1>6 DEF Poll, Reap, Reapable, Claim
<1>7. CASE UNCHANGED status
  BY <1>7
<1>8. QED
  BY <1>1, <1>2, <1>3, <1>4, <1>5, <1>6, <1>7
     DEF Next, StartWorker, BeginDrain, EndDrain, Crash, BackoffElapses, BeatGoesStale, vars

\* A hold is never taken back: a refund is a row of its own.
LEMMA HoldStays ==
    ASSUME TypeOK, [Next]_vars, NEW j \in Jobs, held[j]
    PROVE  held'[j]
<1> USE DEF TypeOK, table, corpus, ledger, api
<1>1. ASSUME NEW r \in Requests, RequestStep(r) \/ RequestDies(r)
      PROVE  held'[j]
  BY <1>1 DEF RequestStep, Lookup, PrepareForBuild, Enqueue, EnqueueExisting, AppendCreated,
              HoldForJob, UndoEnqueue, UndoExpert, RequestDies
<1>2. ASSUME NEW c \in Cancels, CancelStep(c) \/ CancelDies(c)
      PROVE  held'[j]
  BY <1>2 DEF CancelStep, CancelFinds, CancelRequests, CancelAppends, CancelFailsExpert,
              CancelRefunds, CancelDies, Refund
<1>3. ASSUME NEW t \in tasks, TaskStep(t)
      PROVE  held'[j]
  BY <1>3 DEF TaskStep, Progress, TryStep, Begin, MarkBuilding, ResetBuildState, Announce,
              ClearReadiness, ChatReady, GraphReady, Reach, BuildReturns, Publish, AppendDone,
              MarkSucceeded, Settle, HandlerStep, HandlerAppends, CapReads, HandlerSetsExpert,
              HandlerRefunds, HandlerMarksFailed, HandsBack, TaskDone, Raises, BeatFindsJobGone,
              OverCap, BeatLoopReturns, Beat, ShutdownCancels, HandlerCallFails, NoWrite, Refund
<1>4. CASE UNCHANGED held
  BY <1>4
<1>5. QED
  BY <1>1, <1>2, <1>3, <1>4
     DEF Next, Poll, Reap, Claim, StartWorker, BeginDrain, EndDrain, Crash,
         BackoffElapses, BeatGoesStale, vars

\* A request that has a job and has still to hold its cost, or died before it did.
Owes(r, j) == req[r].job = j /\ req[r].at \in {"created", "hold", "undo", "dead"}

\* Every unpaid active job is still owed by some request.
UnpaidIsOwed ==
    \A j \in ActiveJobs : ~held[j] => \E r \in Requests : Owes(r, j)

LEMMA OwedUntilPaid ==
    ASSUME TypeOK, [Next]_vars, NEW j \in Jobs, NEW r \in Requests, Owes(r, j)
    PROVE  Owes(r, j)' \/ held'[j] \/ status'[j] \notin Active
<1> USE DEF TypeOK, table, corpus, ledger, api, Owes
<1>1. CASE RequestStep(r) \/ RequestDies(r)
  <2>1. CASE UndoEnqueue(r)
    BY <2>1 DEF UndoEnqueue, CancelBuilds, Active
  <2>2. QED
    BY <1>1, <2>1 DEF RequestStep, Lookup, PrepareForBuild, Enqueue, EnqueueExisting,
                      AppendCreated, HoldForJob, UndoExpert, RequestDies, Advance
<1>2. ASSUME NEW q \in Requests, RequestStep(q) \/ RequestDies(q), q # r
      PROVE  req'[r] = req[r]
  BY <1>2 DEF RequestStep, Lookup, PrepareForBuild, Enqueue, EnqueueExisting, AppendCreated,
              HoldForJob, UndoEnqueue, UndoExpert, RequestDies, Advance, AdvanceOn
<1>3. CASE req'[r] = req[r]
  BY <1>3
<1>4. ASSUME NEW c \in Cancels, CancelStep(c) \/ CancelDies(c)
      PROVE  req' = req
  BY <1>4 DEF CancelStep, CancelFinds, CancelRequests, CancelAppends, CancelFailsExpert,
              CancelRefunds, CancelDies
<1>5. ASSUME NEW t \in tasks, TaskStep(t)
      PROVE  req' = req
  BY <1>5 DEF TaskStep, Progress, TryStep, Begin, MarkBuilding, ResetBuildState, Announce,
              ClearReadiness, ChatReady, GraphReady, Reach, BuildReturns, Publish, AppendDone,
              MarkSucceeded, Settle, HandlerStep, HandlerAppends, CapReads, HandlerSetsExpert,
              HandlerRefunds, HandlerMarksFailed, HandsBack, TaskDone, Raises, BeatFindsJobGone,
              OverCap, BeatLoopReturns, Beat, ShutdownCancels, HandlerCallFails, NoWrite
<1>6. QED
  BY <1>1, <1>2, <1>3, <1>4, <1>5
     DEF Next, Poll, Reap, Claim, StartWorker, BeginDrain, EndDrain, Crash,
         BackoffElapses, BeatGoesStale, vars

\* However many requests and cancels interleave, and wherever the API process stops,
\* no job runs unpaid once every request has run to its end.
THEOREM Paid == Spec => []ActiveIsPaid
<1> DEFINE Inv == TypeOK /\ UnpaidIsOwed
<1>1. Init => Inv
  BY InitType DEF Init, UnpaidIsOwed, ActiveJobs, Active
<1>2. Inv /\ [Next]_vars => Inv'
  <2> SUFFICES ASSUME Inv, [Next]_vars
               PROVE  UnpaidIsOwed'
    BY TypeStep
  <2>1. ASSUME NEW j \in Jobs, status'[j] \in Active, ~held'[j]
        PROVE  \E r \in Requests : Owes(r, j)'
    <3>1. CASE status[j] \in Active
      <4>1. ~held[j]
        BY <2>1, HoldStays
      <4>2. PICK r \in Requests : Owes(r, j)
        BY <3>1, <4>1 DEF UnpaidIsOwed, ActiveJobs
      <4>3. QED
        BY <2>1, <4>2, OwedUntilPaid
    <3>2. ASSUME NEW r \in Requests, req'[r].job = j, req'[r].at = "created"
          PROVE  Owes(r, j)'
      BY <3>2 DEF Owes
    <3>3. QED
      BY <2>1, <3>1, <3>2, BecomesActive
  <2>2. QED
    BY <2>1 DEF UnpaidIsOwed, ActiveJobs
<1>3. Inv => ActiveIsPaid
  BY DEF UnpaidIsOwed, Owes, ActiveIsPaid
<1>4. QED
  BY <1>1, <1>2, <1>3, PTL DEF Spec

-----------------------------------------------------------------------------
(* The lock. *)

\* At most one of the expert's jobs is active: the unique index.
OneActiveBuild == \A i, j \in ActiveJobs : i = j

LEMMA OneActiveStep ==
    ASSUME TypeOK, OneActiveBuild, [Next]_vars
    PROVE  OneActiveBuild'
<1> USE DEF table, OneActiveBuild, ActiveJobs
<1>1. ASSUME NEW r \in Requests, Enqueue(r)
      PROVE  OneActiveBuild'
  BY <1>1 DEF TypeOK, Enqueue
<1>2. ASSUME \A j \in Jobs : status'[j] \in Active => status[j] \in Active
      PROVE  OneActiveBuild'
  BY <1>2
<1>3. ASSUME NEW r \in Requests, RequestStep(r) \/ RequestDies(r), ~Enqueue(r)
      PROVE  \A j \in Jobs : status'[j] \in Active => status[j] \in Active
  BY <1>3 DEF RequestStep, Lookup, PrepareForBuild, EnqueueExisting, AppendCreated,
              HoldForJob, UndoEnqueue, CancelBuilds, Active, UndoExpert, RequestDies
<1>4. ASSUME NEW c \in Cancels, CancelStep(c) \/ CancelDies(c)
      PROVE  \A j \in Jobs : status'[j] \in Active => status[j] \in Active
  BY <1>4 DEF CancelStep, CancelFinds, CancelRequests, CancelAppends, CancelFailsExpert,
              CancelRefunds, CancelDies, CancelBuilds, Active
<1>5. ASSUME NEW t \in tasks, TaskStep(t)
      PROVE  \A j \in Jobs : status'[j] \in Active => status[j] \in Active
  BY <1>5 DEF TypeOK, TaskStep, Progress, TryStep, Begin, MarkBuilding, ResetBuildState, Announce,
              ClearReadiness, ChatReady, GraphReady, Reach, BuildReturns, Publish, AppendDone,
              MarkSucceeded, Settle, HandlerStep, HandlerAppends, CapReads, HandlerSetsExpert,
              HandlerRefunds, HandlerMarksFailed, HandsBack, TaskDone, Raises, BeatFindsJobGone,
              OverCap, BeatLoopReturns, Beat, ShutdownCancels, HandlerCallFails, NoWrite, Holds, Active
<1>6. ASSUME NEW w \in Workers, Poll(w)
      PROVE  \A j \in Jobs : status'[j] \in Active => status[j] \in Active
  BY <1>6 DEF TypeOK, Poll, Reap, Reapable, Claim, Active
<1>7. CASE UNCHANGED status
  BY <1>7
<1>8. QED
  BY <1>1, <1>2, <1>3, <1>4, <1>5, <1>6, <1>7
     DEF Next, StartWorker, BeginDrain, EndDrain, Crash, BackoffElapses, BeatGoesStale, vars

\* The row of the task's job is locked by its worker, and beaten for.
Held(t) == Holds(t.worker, t.job) /\ ~stale[t.job]

\* Of the tasks of one job one is at work; it holds the row, or the row has ended:
\* by a cancellation, unless it is past its own last write to the row.
Alone == \A t, u \in tasks : t.job = u.job /\ t.at # "closing" /\ u.at # "closing" => t = u
Holding ==
    \A t \in tasks :
        /\ t.at # "closing" => Held(t) \/ status[t.job] \in Terminal
        /\ t.at \notin {"closing", "cap_refund"} => Held(t) \/ status[t.job] = "cancelled"

\* A row is taken from a task at work only by a cancellation or by the task itself.
LEMMA HoldingKept ==
    ASSUME TypeOK, Holding, NEW t \in tasks, t \in tasks',
           \/ /\ status'[t.job] \in {status[t.job], "cancelled"}
              /\ lockedBy'[t.job] = lockedBy[t.job]
              /\ stale'[t.job] \in {FALSE, stale[t.job]}
           \/ status[t.job] \notin Terminal \cup {"running"}
           \/ /\ status'[t.job] = status[t.job] /\ status[t.job] \in Terminal
    PROVE  /\ t.at # "closing" => Held(t)' \/ status'[t.job] \in Terminal
           /\ t.at \notin {"closing", "cap_refund"} => Held(t)' \/ status'[t.job] = "cancelled"
BY DEF TypeOK, Holding, Held, Holds, Terminal

LEMMA AttemptStep ==
    ASSUME ~Lapses, TypeOK, Alone, Holding, [Next]_vars
    PROVE  Alone' /\ Holding'
<1>a. \A t \in tasks : t \in Task /\ t.job \in Jobs /\ t.worker \in Workers
  BY TaskFields DEF TypeOK
<1> DEFINE Kept(t) ==
       \/ /\ status'[t.job] \in {status[t.job], "cancelled"}
          /\ lockedBy'[t.job] = lockedBy[t.job]
          /\ stale'[t.job] \in {FALSE, stale[t.job]}
       \/ status[t.job] \notin Terminal \cup {"running"}
       \/ /\ status'[t.job] = status[t.job] /\ status[t.job] \in Terminal
<1>b. ASSUME tasks' \subseteq tasks, \A t \in tasks' : Kept(t)
      PROVE  Alone' /\ Holding'
  <2>1. Alone'
    BY <1>b DEF Alone
  <2>2. Holding'
    BY <1>b, HoldingKept DEF Holding
  <2>3. QED
    BY <2>1, <2>2
<1>1. ASSUME NEW r \in Requests, RequestStep(r) \/ RequestDies(r)
      PROVE  Alone' /\ Holding'
  <2>1. tasks' = tasks
    BY <1>1, RequestFrame
  <2>2. \A t \in tasks : Kept(t)
    <3>1. CASE Enqueue(r)
      BY <1>a, <3>1 DEF TypeOK, Enqueue, Active, Terminal
    <3>2. CASE UndoEnqueue(r)
      BY <1>a, <3>2 DEF TypeOK, UndoEnqueue, CancelBuilds, Active, Terminal
    <3>3. CASE UNCHANGED table
      BY <3>3 DEF table
    <3>4. QED
      BY <1>1, <3>1, <3>2, <3>3 DEF RequestStep, Lookup, PrepareForBuild, EnqueueExisting,
            AppendCreated, HoldForJob, UndoExpert, RequestDies
  <2>3. QED
    BY <2>1, <2>2, <1>b
<1>2. ASSUME NEW c \in Cancels, CancelStep(c) \/ CancelDies(c)
      PROVE  Alone' /\ Holding'
  <2>1. tasks' = tasks
    BY <1>2, CancelFrame
  <2>2. \A t \in tasks : Kept(t)
    <3>1. CASE CancelRequests(c)
      BY <1>a, <3>1 DEF TypeOK, CancelRequests, CancelBuilds, Active, Terminal
    <3>2. CASE UNCHANGED table
      BY <3>2 DEF table
    <3>3. QED
      BY <1>2, <3>1, <3>2 DEF CancelStep, CancelFinds, CancelAppends, CancelFailsExpert,
            CancelRefunds, CancelDies
  <2>3. QED
    BY <2>1, <2>2, <1>b
<1>3. ASSUME NEW j \in Jobs, BackoffElapses(j) \/ BeatGoesStale(j)
      PROVE  Alone' /\ Holding'
  <2>1. Alone'
    BY <1>3 DEF BackoffElapses, BeatGoesStale, Alone
  <2>2. ASSUME NEW t \in tasks, t.at # "closing", t.job = j
        PROVE  ~BeatGoesStale(j)
    BY <2>2 DEF BeatGoesStale, Unattended, Holding, Held, Holds, Terminal
  <2>3. Holding'
    BY <1>3, <1>a, <2>2 DEF TypeOK, BackoffElapses, BeatGoesStale, Holding, Held, Holds
  <2>4. QED
    BY <2>1, <2>3
<1>4. ASSUME NEW w \in Workers, NEW j \in Jobs, Claim(w, j)
      PROVE  Alone' /\ Holding'
  <2>1. PICK n \in Task : tasks' = tasks \cup {n} /\ n.job = j /\ n.worker = w
    BY <1>4, ClaimedTask DEF Claimed
  <2>2. ASSUME NEW t \in tasks, t.at # "closing"
        PROVE  t.job # j
    BY <1>4, <2>2 DEF Claim, Holding, Held, Holds, Terminal
  <2>3. Alone'
    BY <2>1, <2>2 DEF Alone
  <2>4. \A t \in tasks : t.at # "closing" => Kept(t)
    BY <1>4, <1>a, <2>2 DEF TypeOK, Claim
  <2>5. Held(n)'
    BY <1>4, <2>1 DEF TypeOK, Claim, Held, Holds
  <2>6. Holding'
    BY <2>1, <2>4, <2>5, HoldingKept DEF Holding
  <2>7. QED
    BY <2>3, <2>6
<1>5. ASSUME NEW w \in Workers, Reap(w)
      PROVE  Alone' /\ Holding'
  <2>1. tasks' = tasks /\ stale' = stale
    BY <1>5 DEF Reap
  <2>2. \A t \in tasks : t.at # "closing" => t.job \notin Reapable(w)
    BY DEF Reapable, Holding, Held, Terminal
  <2>3. \A t \in tasks : t.at # "closing" => Kept(t)
    BY <1>5, <1>a, <2>1, <2>2 DEF TypeOK, Reap
  <2>4. QED
    BY <2>1, <2>3, HoldingKept DEF Holding, Alone
<1>6. ASSUME NEW w \in Workers, StartWorker(w) \/ BeginDrain(w) \/ EndDrain(w) \/ Crash(w)
      PROVE  Alone' /\ Holding'
  <2>1. tasks' \subseteq tasks /\ \A t \in tasks : Kept(t)
    BY <1>6 DEF StartWorker, BeginDrain, EndDrain, Crash, table
  <2>2. QED
    BY <2>1, <1>b
<1>7. ASSUME NEW t \in tasks, Beat(t) \/ TaskDone(t)
      PROVE  Alone' /\ Holding'
  <2>1. tasks' \subseteq tasks /\ \A v \in tasks : Kept(v)
    BY <1>7, <1>a DEF TypeOK, Beat, TaskDone, table
  <2>2. QED
    BY <2>1, <1>b
<1>8. ASSUME NEW t \in tasks, TaskStep(t), ~Beat(t), ~TaskDone(t)
      PROVE  Alone' /\ Holding'
  <2>1. PICK u \in Task : /\ Moved(t, u) /\ t.at # "closing"
                          /\ Begins(t, u) \/ StopsBeating(t, u) \/ Calls(t, u)
    BY <1>8, TaskMoves DEF TypeOK
  <2>2. tasks' = (tasks \ {t}) \cup {u} /\ u.job = t.job /\ u.worker = t.worker
    BY <2>1 DEF Moved
  <2>3. ASSUME NEW v \in tasks, v # t, v.at # "closing"
        PROVE  v.job # t.job
    BY <2>1, <2>3 DEF Alone
  <2>4. Alone'
    BY <2>2, <2>3 DEF Alone
  <2>5. \A v \in tasks : v # t /\ v.at # "closing" => Kept(v)
    BY <1>8, <1>a, <2>3 DEF TypeOK, table, TaskStep, Progress, TryStep, Begin, MarkBuilding, ResetBuildState, Announce,
                            ClearReadiness, ChatReady, GraphReady, Reach, BuildReturns, Publish, AppendDone,
                            MarkSucceeded, Settle, HandlerStep, HandlerAppends, CapReads, HandlerSetsExpert,
                            HandlerRefunds, HandlerMarksFailed, HandsBack, TaskDone, Raises, BeatFindsJobGone,
                            OverCap, BeatLoopReturns, Beat, ShutdownCancels, HandlerCallFails, NoWrite
  <2>6. /\ t.at # "closing" => Held(t) \/ status[t.job] \in Terminal
        /\ t.at \notin {"closing", "cap_refund"} => Held(t) \/ status[t.job] = "cancelled"
    BY DEF Holding
  <2>7. /\ u.at # "closing" => Held(u)' \/ status'[u.job] \in Terminal
        /\ u.at \notin {"closing", "cap_refund"} => Held(u)' \/ status'[u.job] = "cancelled"
    <3>1. CASE u.at = "closing"
      BY <3>1
    <3>2. CASE HandlerMarksFailed(t) /\ t.at = "cap_fail" /\ u.at = "cap_refund"
      <4>1. status'[t.job] \in Terminal
        BY <1>a, <2>6, <3>2
           DEF TypeOK, HandlerMarksFailed, Settle, Held, Terminal
      <4>2. QED
        BY <2>2, <3>2, <4>1
    <3>3. CASE UNCHANGED <<status, lockedBy, stale>>
      <4>1. t.at = "cap_refund" => u.at \in {"closing", "cap_refund"}
        BY <2>1
           DEF Begins, Begin, StopsBeating, Running, Calls, Goes, MarkBuilding, ResetBuildState,
               Announce, ClearReadiness, ChatReady, GraphReady, Reach, BuildReturns, Publish,
               AppendDone, MarkSucceeded, HandlerAppends, HandlerSetsExpert, HandlerRefunds,
               Then, CapReads, HandlerMarksFailed, HandsBack, Raises, Try, ShutdownCancels,
               HandlerCallFails
      <4>2. QED
        BY <2>1, <2>2, <2>6, <3>3, <4>1 DEF Held, Holds
    <3>4. QED
      BY <2>1, <3>1, <3>2, <3>3
         DEF Begins, StopsBeating, Calls, Goes, NoWrite, Begin, BeatFindsJobGone, OverCap,
             BeatLoopReturns, MarkBuilding, ResetBuildState, Announce, ClearReadiness,
             ChatReady, GraphReady, Reach, BuildReturns, Publish, AppendDone, HandlerAppends,
             HandlerSetsExpert, HandlerRefunds, CapReads, HandlerMarksFailed, Raises,
             ShutdownCancels, HandlerCallFails, table
  <2>8. Holding'
    BY <2>2, <2>5, <2>7, HoldingKept DEF Holding
  <2>9. QED
    BY <2>4, <2>8
<1>9. CASE UNCHANGED vars
  <2>1. tasks' = tasks /\ \A t \in tasks : Kept(t)
    BY <1>9 DEF vars, table
  <2>2. QED
    BY <2>1, <1>b
<1>10. QED
  BY <1>1, <1>2, <1>3, <1>4, <1>5, <1>6, <1>7, <1>8, <1>9 DEF Next, Poll

\* While beats arrive on time, any number of jobs, workers and attempts, crashes,
\* drains, failing handlers, cancels and dead requests leave at most one attempt at
\* work, apart from those of cancelled jobs.
THEOREM OneAtATime ==
    ASSUME ~Lapses
    PROVE  Spec => []OneAttemptAtATime
<1> DEFINE Inv == TypeOK /\ OneActiveBuild /\ Alone /\ Holding
<1>1. Init => Inv
  BY InitType DEF Init, OneActiveBuild, ActiveJobs, Active, Alone, Holding
<1>2. Inv /\ [Next]_vars => Inv'
  BY TypeStep, OneActiveStep, AttemptStep
<1>3. Inv => OneAttemptAtATime
  <2> SUFFICES ASSUME Inv, NEW t \in tasks, NEW u \in tasks, t.at \in Try, u.at \in Try, t # u
               PROVE  t.job # u.job /\ "cancelled" \in {status[t.job], status[u.job]}
    BY DEF OneAttemptAtATime
  <2>1. t.at \notin {"closing", "cap_refund"} /\ u.at \notin {"closing", "cap_refund"}
    BY DEF Try, Running
  <2>2. t.job # u.job
    BY <2>1 DEF Alone
  <2>3. t.job \in Jobs /\ u.job \in Jobs
    BY TaskFields DEF TypeOK
  <2>4. QED
    BY <2>1, <2>2, <2>3 DEF Holding, Held, Holds, OneActiveBuild, ActiveJobs, Active
<1>4. QED
  BY <1>1, <1>2, <1>3, PTL DEF Spec

-----------------------------------------------------------------------------
(* The readiness. *)

\* A task that may still write more than its refund.
AtWork(t) == t.at \notin {"closing", "cap_refund"}
OneAtWork == \A t, u \in tasks : AtWork(t) /\ AtWork(u) => t = u

\* What a task knows of the expert's row at each of its calls.
Grounded(t) ==
    /\ t.at = "reset" => t.resume = "none"
    /\ t.at \in {"reset", "clear", "run"} => expert # "ready"
    /\ t.at = "announce" /\ t.resume = "none" => expert # "ready"
    /\ t.at \in {"mark", "announce"} /\ t.resume # "none" => readiness = t.resume
    /\ t.at \in {"run_chat", "cap_publish"} => readiness \in Ready
    /\ t.at \in {"run_graph", "publish", "done", "succeed"} => readiness = "graph_ready"

\* Requests, cancels, polls and processes leave the readiness alone, and never
\* show the expert as ready.
LEMMA OthersNeverPublish ==
    ASSUME [Next]_vars
    PROVE  \/ readiness' = readiness /\ expert' \in {expert, "queued", "failed"}
           \/ \E t \in tasks : TaskStep(t)
BY RequestFrame, CancelFrame, JobFrame, WorkerFrame DEF Next, vars, corpus

LEMMA GroundedStep ==
    ASSUME ~Faults, TypeOK, OneAtWork, \A t \in tasks : Grounded(t), ReadyIsChattable,
           [Next]_vars
    PROVE  (\A t \in tasks' : Grounded(t)') /\ ReadyIsChattable'
<1>1. ASSUME NEW v \in tasks, readiness' = readiness, expert' \in {expert, "queued", "failed"}
      PROVE  Grounded(v)'
  BY <1>1 DEF Grounded
<1>2. ASSUME NEW w \in Workers, NEW j \in Jobs, Claim(w, j)
      PROVE  (\A t \in tasks' : Grounded(t)') /\ ReadyIsChattable'
  <2>1. PICK n \in Task : tasks' = tasks \cup {n} /\ n.at = "fetch"
    BY <1>2, ClaimedTask DEF Claimed
  <2>2. Grounded(n)'
    BY <2>1 DEF Grounded
  <2>3. readiness' = readiness /\ expert' = expert
    BY <1>2 DEF Claim, corpus
  <2>4. QED
    BY <1>1, <2>1, <2>2, <2>3 DEF ReadyIsChattable
<1>3. ASSUME tasks' \subseteq tasks, readiness' = readiness,
             expert' \in {expert, "queued", "failed"}
      PROVE  (\A t \in tasks' : Grounded(t)') /\ ReadyIsChattable'
  BY <1>1, <1>3 DEF ReadyIsChattable
<1>4. ASSUME NEW t \in tasks, TaskStep(t), ~Beat(t), ~TaskDone(t)
      PROVE  (\A v \in tasks' : Grounded(v)') /\ ReadyIsChattable'
  <2>1. PICK u \in Task : /\ Moved(t, u) /\ t.at # "closing"
                          /\ Begins(t, u) \/ StopsBeating(t, u) \/ Calls(t, u)
    BY <1>4, TaskMoves DEF TypeOK
  <2>2. /\ tasks' = (tasks \ {t}) \cup {u} /\ Grounded(t)
        /\ t.resume \in {"none"} \cup Ready /\ readiness \in {"pending"} \cup Ready
    BY <2>1, TaskFields DEF Moved, TypeOK
  <2>3. Grounded(u)' /\ ReadyIsChattable'
    <3>1. CASE Begins(t, u)
      BY <2>2, <3>1 DEF Begins, Begin, NoWrite, corpus, Grounded, ReadyIsChattable, Ready
    <3>2. CASE StopsBeating(t, u)
      BY <2>2, <3>2 DEF StopsBeating, BeatFindsJobGone, OverCap, BeatLoopReturns, NoWrite,
                        corpus, Grounded, ReadyIsChattable, Running
    <3>3. CASE Calls(t, u)
      <4>1. u.resume = t.resume
        BY <3>3 DEF Calls
      <4>2. CASE \/ MarkBuilding(t) /\ u.at = IF t.resume = "none" THEN "reset" ELSE "announce"
                 \/ ResetBuildState(t) /\ u.at = "announce"
                 \/ ClearReadiness(t) /\ u.at = "run"
                 \/ ChatReady(t) /\ u.at = "run_chat"
                 \/ GraphReady(t) /\ u.at = "run_graph"
                 \/ BuildReturns(t) /\ u.at = "publish"
                 \/ Publish(t) /\ u.at = "done"
                 \/ AppendDone(t) /\ u.at = "succeed"
                 \/ MarkSucceeded(t) /\ u.at = "closing"
        <5>1. CASE /\ MarkBuilding(t)
                   /\ u.at = IF t.resume = "none" THEN "reset" ELSE "announce"
          BY <2>2, <4>1, <5>1 DEF MarkBuilding, corpus, Grounded, ReadyIsChattable
        <5>2. CASE Publish(t) /\ u.at = "done"
          BY <2>2, <4>1, <5>2 DEF Publish, corpus, Grounded, ReadyIsChattable, Ready
        <5>3. CASE \/ ResetBuildState(t) /\ u.at = "announce"
                   \/ ClearReadiness(t) /\ u.at = "run"
          BY <2>2, <4>1, <5>3
             DEF ResetBuildState, ClearReadiness, Grounded, ReadyIsChattable
        <5>4. CASE \/ ChatReady(t) /\ u.at = "run_chat"
                   \/ GraphReady(t) /\ u.at = "run_graph"
          BY <2>2, <4>1, <5>4
             DEF ChatReady, GraphReady, Reach, Grounded, ReadyIsChattable, Ready
        <5>5. CASE \/ BuildReturns(t) /\ u.at = "publish"
                   \/ AppendDone(t) /\ u.at = "succeed"
                   \/ MarkSucceeded(t) /\ u.at = "closing"
          BY <2>2, <4>1, <5>5
             DEF BuildReturns, AppendDone, MarkSucceeded, Settle, NoWrite,
                 corpus, Grounded, ReadyIsChattable
        <5>6. QED
          BY <4>2, <5>1, <5>2, <5>3, <5>4, <5>5
      <4>3. CASE /\ Announce(t)
                 /\ \/ t.resume = "none" /\ u.at = "clear"
                    \/ t.resume = "chat_ready" /\ u.at = "run_chat"
                    \/ t.resume = "graph_ready" /\ u.at = "run_graph"
        BY <2>2, <3>3, <4>3 DEF Calls, Announce, corpus, Grounded, ReadyIsChattable, Ready
      <4>4. CASE /\ HandlerAppends(t) \/ HandlerSetsExpert(t) \/ HandlerRefunds(t)
                 /\ u.at = Then[t.at]
        BY <2>2, <3>3, <4>4
           DEF HandlerAppends, AppendAt, HandlerSetsExpert, ExpertAt, HandlerRefunds, Then,
               corpus, Grounded, ReadyIsChattable
      <4>5. CASE \/ CapReads(t) /\ u.at = IF readiness \in Ready THEN "cap_publish"
                                                                 ELSE "cap_expert"
                 \/ HandlerMarksFailed(t) /\ u.at = IF t.at = "cap_fail" THEN "cap_refund"
                                                                         ELSE "closing"
                 \/ HandsBack(t) /\ u.at = "closing"
                 \/ Raises(t) /\ (u.at = "ret_event" \/ u.at = "fail_refund")
                 \/ ShutdownCancels(t) /\ u.at = IF t.at \in Try THEN Interrupted(t) ELSE "closing"
        BY <2>2, <3>3, <4>5
           DEF Interrupted, CapReads, HandlerMarksFailed, Settle, HandsBack, Raises, ShutdownCancels,
               NoWrite, corpus, Grounded, ReadyIsChattable
      <4>6. ~HandlerCallFails(t)
        BY DEF HandlerCallFails
      <4>7. QED
        BY <3>3, <4>2, <4>3, <4>4, <4>5, <4>6 DEF Calls, Goes
    <3>4. QED
      BY <2>1, <3>1, <3>2, <3>3
  <2>4. ASSUME NEW v \in tasks, v # t
        PROVE  Grounded(v)'
    <3>1. CASE AtWork(t)
      BY <2>4, <3>1 DEF OneAtWork, AtWork, Grounded
    <3>2. CASE t.at = "cap_refund"
      <4>1. readiness' = readiness /\ expert' = expert
        BY <1>4, <3>2
           DEF TaskStep, Progress, TryStep, Begin, MarkBuilding, ResetBuildState, Announce,
               ClearReadiness, ChatReady, GraphReady, Reach, BuildReturns, Publish, AppendDone,
               MarkSucceeded, Settle, HandlerStep, HandlerAppends, CapReads, HandlerSetsExpert,
               HandlerRefunds, HandlerMarksFailed, HandsBack, TaskDone, Raises, BeatFindsJobGone,
               OverCap, BeatLoopReturns, Beat, ShutdownCancels, HandlerCallFails, NoWrite,
               AppendAt, ExpertAt, Try, Running, corpus
      <4>2. QED
        BY <1>1, <4>1
    <3>3. QED
      BY <2>1, <3>1, <3>2 DEF AtWork
  <2>5. QED
    BY <2>2, <2>3, <2>4
<1>5. ASSUME NEW t \in tasks, Beat(t) \/ TaskDone(t)
      PROVE  (\A v \in tasks' : Grounded(v)') /\ ReadyIsChattable'
  BY <1>3, <1>5 DEF Beat, TaskDone, corpus
<1>6. ASSUME NEW w \in Workers, Crash(w)
      PROVE  (\A t \in tasks' : Grounded(t)') /\ ReadyIsChattable'
  BY <1>3, <1>6 DEF Crash, corpus
<1>7. QED
  BY <1>2, <1>3, <1>4, <1>5, <1>6, OthersLeaveTasks, OthersNeverPublish

\* No job is ever cancelled: nobody asks, and every hold succeeds.
NoneCancelled == \A j \in Jobs : status[j] # "cancelled"

\* Two tasks are at work at once only if one of their jobs was cancelled, hence of
\* different jobs.
LEMMA OneAtWorkUnless ==
    ASSUME TypeOK, OneActiveBuild, Alone, Holding,
           NoneCancelled \/ \A i, j \in Jobs : i = j
    PROVE  OneAtWork
<1> SUFFICES ASSUME NEW t \in tasks, NEW u \in tasks, AtWork(t), AtWork(u)
             PROVE  t = u
  BY DEF OneAtWork
<1>1. t.job \in Jobs /\ u.job \in Jobs
  BY TaskFields DEF TypeOK
<1>2. t.job = u.job
  BY <1>1 DEF Holding, Held, Holds, OneActiveBuild, ActiveJobs, Active, AtWork, NoneCancelled
<1>3. QED
  BY <1>2 DEF Alone, AtWork

\* With beats on time and no failing call, an expert shown as ready can answer, in
\* every behaviour of any number of jobs, workers and requests in which no job is
\* cancelled.
THEOREM Chattable ==
    ASSUME ~Lapses, ~Faults
    PROVE  Spec /\ []NoneCancelled => []ReadyIsChattable
<1> DEFINE Inv == /\ TypeOK /\ OneActiveBuild /\ Alone /\ Holding
                  /\ \A t \in tasks : Grounded(t)
                  /\ ReadyIsChattable
<1>1. Init => Inv
  BY InitType DEF Init, OneActiveBuild, ActiveJobs, Active, Alone, Holding, ReadyIsChattable,
                  Ready
<1>2. Inv /\ NoneCancelled /\ [Next]_vars => Inv'
  BY TypeStep, OneActiveStep, AttemptStep, OneAtWorkUnless, GroundedStep
<1>3. QED
  BY <1>1, <1>2, PTL DEF Spec

\* The same for one job, whatever is cancelled.
THEOREM ChattableOneJob ==
    ASSUME ~Lapses, ~Faults, \A i, j \in Jobs : i = j
    PROVE  Spec => []ReadyIsChattable
<1> DEFINE Inv == /\ TypeOK /\ OneActiveBuild /\ Alone /\ Holding
                  /\ \A t \in tasks : Grounded(t)
                  /\ ReadyIsChattable
<1>1. Init => Inv
  BY InitType DEF Init, OneActiveBuild, ActiveJobs, Active, Alone, Holding, ReadyIsChattable,
                  Ready
<1>2. Inv /\ [Next]_vars => Inv'
  BY TypeStep, OneActiveStep, AttemptStep, OneAtWorkUnless, GroundedStep
<1>3. QED
  BY <1>1, <1>2, PTL DEF Spec

-----------------------------------------------------------------------------
(* The outcome: one job, one request. *)

\* Nobody has tried to cancel.
NoCancel == \A c \in Cancels : can[c] = NoRoute

\* A job is inserted by its request, once.
LEMMA InsertedOnce ==
    ASSUME TypeOK, [Next]_vars, NEW j \in Jobs
    PROVE  /\ status[j] # "absent" => status'[j] # "absent"
           /\ status[j] = "absent" => status'[j] = "absent" \/ \E r \in Requests : Enqueue(r)
<1> USE DEF TypeOK, table
<1>1. ASSUME NEW r \in Requests, RequestStep(r) \/ RequestDies(r)
      PROVE  /\ status[j] # "absent" => status'[j] # "absent"
             /\ status[j] = "absent" => status'[j] = "absent" \/ Enqueue(r)
  BY <1>1 DEF RequestStep, Lookup, PrepareForBuild, Enqueue, EnqueueExisting, AppendCreated,
              HoldForJob, UndoEnqueue, UndoExpert, RequestDies, CancelBuilds, Active
<1>2. ASSUME NEW c \in Cancels, CancelStep(c) \/ CancelDies(c)
      PROVE  status[j] = "absent" <=> status'[j] = "absent"
  BY <1>2 DEF CancelStep, CancelFinds, CancelRequests, CancelAppends, CancelFailsExpert,
              CancelRefunds, CancelDies, CancelBuilds, Active
<1>3. ASSUME NEW t \in tasks, TaskStep(t)
      PROVE  status[j] = "absent" <=> status'[j] = "absent"
  BY <1>3 DEF TaskStep, Progress, TryStep, Begin, MarkBuilding, ResetBuildState, Announce,
              ClearReadiness, ChatReady, GraphReady, Reach, BuildReturns, Publish, AppendDone,
              MarkSucceeded, Settle, HandlerStep, HandlerAppends, CapReads, HandlerSetsExpert,
              HandlerRefunds, HandlerMarksFailed, HandsBack, TaskDone, Raises, BeatFindsJobGone,
              OverCap, BeatLoopReturns, Beat, ShutdownCancels, HandlerCallFails, NoWrite, Holds
<1>4. ASSUME NEW w \in Workers, Poll(w)
      PROVE  status[j] = "absent" <=> status'[j] = "absent"
  BY <1>4 DEF Poll, Reap, Reapable, Claim
<1>5. CASE UNCHANGED status
  BY <1>5
<1>6. QED
  BY <1>1, <1>2, <1>3, <1>4, <1>5
     DEF Next, StartWorker, BeginDrain, EndDrain, Crash, BackoffElapses, BeatGoesStale, vars

\* Only the requests' own steps move them.
LEMMA OthersLeaveRequests ==
    ASSUME [Next]_vars
    PROVE  req' = req \/ \E r \in Requests : RequestStep(r) \/ RequestDies(r)
BY CancelFrame, JobFrame, WorkerFrame, TaskFrame DEF Next, vars, api

\* A cancel request once begun is never again as if it had not been.
LEMMA NoCancelBefore ==
    ASSUME TypeOK, [Next]_vars, NoCancel'
    PROVE  NoCancel /\ \A c \in Cancels : ~CancelStep(c) /\ ~CancelDies(c)
<1>1. ASSUME NEW c \in Cancels, CancelStep(c) \/ CancelDies(c)
      PROVE  FALSE
  <2>1. can'[c].at # "idle"
    BY <1>1 DEF TypeOK, CancelStep, CancelFinds, CancelRequests, CancelAppends, CancelFailsExpert,
                CancelRefunds, CancelDies
  <2>2. QED
    BY <2>1 DEF NoCancel, NoRoute
<1>2. can' = can
  BY <1>1, RequestFrame, JobFrame, WorkerFrame, TaskFrame DEF Next, vars, api
<1>3. QED
  BY <1>1, <1>2 DEF NoCancel

\* With one job and one request: the request prepares and enqueues before there is a
\* job, its balance was enough and still is when it holds.
RequestInOrder ==
    /\ \A r \in Requests :
          /\ req[r].at \in {"idle", "prepare", "enqueue"} => \A j \in Jobs : status[j] = "absent"
          /\ req[r].at \notin {"existing", "undo", "undo_expert"}
          /\ req[r].at \in {"created", "hold"} => req[r].job \in Jobs /\ status[req[r].job] # "absent"
          /\ req[r].at \in {"prepare", "enqueue", "created", "hold"} => Credits >= 1
    /\ \A j \in Jobs : (refunded[j] => held[j]) /\ (held[j] => status[j] # "absent")

\* With nothing held, nothing was refunded, and the balance is what it was.
LEMMA FullBalance ==
    ASSUME \A j \in Jobs : ~held[j] /\ ~refunded[j]
    PROVE  Balance = Credits
<1>1. {j \in Jobs : held[j]} = {} /\ {j \in Jobs : refunded[j]} = {}
  OBVIOUS
<1>2. QED
  BY <1>1, FS_EmptySet, BuildLifecycleAssumption DEF Balance

\* The three statements that write the credit ledger of a build.
LEMMA LedgerWriters ==
    ASSUME [Next]_vars
    PROVE  \/ UNCHANGED ledger
           \/ \E r \in Requests : HoldForJob(r)
           \/ \E c \in Cancels : CancelRefunds(c)
           \/ \E t \in tasks : HandlerRefunds(t)
BY RequestFrame, CancelFrame, JobFrame, WorkerFrame, TaskFrame DEF Next, vars

LEMMA RequestInOrderStep ==
    ASSUME \A i, j \in Jobs : i = j, \A q, r \in Requests : q = r,
           TypeOK, RequestInOrder, [Next]_vars
    PROVE  RequestInOrder'
<1>1. \A j \in Jobs : refunded'[j] => held'[j]
  <2>1. CASE UNCHANGED ledger
    BY <2>1 DEF ledger, RequestInOrder
  <2>2. ASSUME NEW r \in Requests, HoldForJob(r)
        PROVE  \A j \in Jobs : refunded'[j] => held'[j]
    BY <2>2 DEF HoldForJob, RequestInOrder, TypeOK
  <2>3. ASSUME NEW j \in Jobs \cup {NoJob}, Refund(j)
        PROVE  \A i \in Jobs : refunded'[i] => held'[i]
    BY <2>3 DEF Refund, RequestInOrder, TypeOK
  <2>4. ASSUME NEW c \in Cancels, CancelRefunds(c)
        PROVE  can[c].job \in Jobs \cup {NoJob} /\ Refund(can[c].job)
    BY <2>4 DEF CancelRefunds, TypeOK
  <2>5. ASSUME NEW t \in tasks, HandlerRefunds(t)
        PROVE  t.job \in Jobs /\ Refund(t.job)
    BY <2>5, TaskFields DEF HandlerRefunds, TypeOK
  <2>6. QED
    BY <2>1, <2>2, <2>3, <2>4, <2>5, LedgerWriters
<1>2. ASSUME NEW j \in Jobs, held'[j], ~held[j]
      PROVE  status'[j] # "absent"
  <2>1. ASSUME NEW r \in Requests, HoldForJob(r)
        PROVE  status'[j] # "absent"
    BY <1>2, <2>1, InsertedOnce DEF HoldForJob, RequestInOrder, TypeOK
  <2>2. \/ UNCHANGED held
        \/ \E r \in Requests : HoldForJob(r)
    BY LedgerWriters DEF ledger, CancelRefunds, HandlerRefunds, Refund
  <2>3. QED
    BY <1>2, <2>1, <2>2
<1>3. \A j \in Jobs : held'[j] => status'[j] # "absent"
  BY <1>2, InsertedOnce DEF RequestInOrder
<1> DEFINE InOrder(r) ==
       /\ req[r].at \in {"idle", "prepare", "enqueue"} => \A j \in Jobs : status[j] = "absent"
       /\ req[r].at \notin {"existing", "undo", "undo_expert"}
       /\ req[r].at \in {"created", "hold"} =>
             req[r].job \in Jobs /\ status[req[r].job] # "absent"
       /\ req[r].at \in {"prepare", "enqueue", "created", "hold"} => Credits >= 1
<1>4. ASSUME NEW r \in Requests, req'[r] = req[r], ~Enqueue(r)
      PROVE  InOrder(r)'
  <2>1. ~\E q \in Requests : Enqueue(q)
    BY <1>4
  <2>2. QED
    BY <1>4, <2>1, InsertedOnce DEF RequestInOrder
<1>5. ASSUME NEW r \in Requests, RequestStep(r) \/ RequestDies(r)
      PROVE  InOrder(r)'
  <2>1. CASE Lookup(r)
    <3>1. (\A j \in Jobs : status[j] = "absent") /\ UNCHANGED status
      BY <2>1 DEF Lookup, RequestInOrder, table
    <3>2. Balance = Credits
      BY <3>1, FullBalance DEF RequestInOrder
    <3>3. req'[r].at = "end" \/ (req'[r].at = "prepare" /\ Credits >= 1)
      BY <2>1, <3>2, BuildLifecycleAssumption DEF Lookup, Advance, TypeOK
    <3>4. QED
      BY <3>1, <3>3
  <2>2. CASE PrepareForBuild(r)
    BY <2>2 DEF PrepareForBuild, Advance, TypeOK, RequestInOrder, table
  <2>3. CASE Enqueue(r)
    <3>1. PICK j \in Jobs : /\ status' = [status EXCEPT ![j] = "queued"]
                            /\ AdvanceOn(r, "created", j)
      BY <2>3 DEF Enqueue, RequestInOrder, ActiveJobs, Active
    <3>2. req'[r].at = "created" /\ req'[r].job = j /\ status'[j] # "absent"
      BY <3>1 DEF AdvanceOn, TypeOK
    <3>3. Credits >= 1
      BY <2>3 DEF Enqueue, RequestInOrder
    <3>4. QED
      BY <3>2, <3>3
  <2>4. ~EnqueueExisting(r) /\ ~UndoEnqueue(r) /\ ~UndoExpert(r)
    BY DEF EnqueueExisting, UndoEnqueue, UndoExpert, RequestInOrder
  <2>5. CASE AppendCreated(r)
    BY <2>5 DEF AppendCreated, Advance, TypeOK, RequestInOrder, table
  <2>6. CASE HoldForJob(r)
    <3>1. ~held[req[r].job] => Balance = Credits
      BY <2>6, FullBalance DEF HoldForJob, RequestInOrder
    <3>2. req'[r].at = "end"
      BY <2>6, <3>1 DEF HoldForJob, Advance, TypeOK, RequestInOrder
    <3>3. QED
      BY <3>2
  <2>7. CASE RequestDies(r)
    <3>1. req'[r].at = "dead"
      BY <2>7 DEF RequestDies, Advance, TypeOK
    <3>2. QED
      BY <3>1
  <2>8. QED
    BY <1>5, <2>1, <2>2, <2>3, <2>4, <2>5, <2>6, <2>7 DEF RequestStep
<1>6. \A r \in Requests : InOrder(r)'
  BY <1>4, <1>5, OthersLeaveRequests DEF RequestStep
<1>7. QED
  BY <1>1, <1>3, <1>6 DEF RequestInOrder

\* What an expert whose build failed may look like.
Shown == expert = "failed" \/ (expert = "ready" /\ readiness \in Ready)

\* What a task about to write its job's outcome has made of the expert.
Informed(t) ==
    /\ t.at \in {"done", "succeed"} => expert = "ready"
    /\ t.at \in {"fail_event", "fail_mark"} => expert = "failed"
    /\ t.at \in {"cap_event", "cap_fail"} => Shown

\* While nobody cancels, the expert agrees with every job that has ended.
Outcome ==
    /\ NoneCancelled
    /\ \A j \in Jobs : /\ status[j] = "succeeded" => expert = "ready" /\ readiness = "graph_ready"
                       /\ status[j] = "failed" => Shown
Agreed == NoCancel => Outcome /\ \A t \in tasks : Informed(t)

LEMMA AgreedStep ==
    ASSUME ~Faults, \A i, j \in Jobs : i = j, \A q, r \in Requests : q = r,
           TypeOK, OneAtWork, Holding, \A t \in tasks : Grounded(t), RequestInOrder, Agreed,
           [Next]_vars
    PROVE  Agreed'
<1> SUFFICES ASSUME NoCancel'
             PROVE  Outcome' /\ \A t \in tasks' : Informed(t)'
  BY DEF Agreed
<1>1. /\ NoCancel /\ \A c \in Cancels : ~CancelStep(c) /\ ~CancelDies(c)
      /\ Outcome /\ \A t \in tasks : Informed(t)
  BY NoCancelBefore DEF Agreed
<1>2. \A t \in tasks : AtWork(t) => Held(t) /\ status[t.job] = "running" /\ t.job \in Jobs
  BY <1>1, TaskFields DEF TypeOK, Holding, AtWork, Held, Holds, Outcome, NoneCancelled
<1>3. ASSUME UNCHANGED <<expert, readiness>>,
             \A j \in Jobs : status'[j] \in {"queued", "running", status[j]},
             \A t \in tasks' : t \in tasks \/ t.at = "fetch"
      PROVE  Outcome' /\ \A t \in tasks' : Informed(t)'
  BY <1>1, <1>3 DEF Outcome, NoneCancelled, Informed, Shown
<1>4. ASSUME \A t \in tasks : ~AtWork(t), tasks' = tasks,
             \A j \in Jobs : status'[j] \in {"queued", "absent"} \/ (status'[j] = "failed" /\ Shown')
      PROVE  Outcome' /\ \A t \in tasks' : Informed(t)'
  BY <1>4 DEF Outcome, NoneCancelled, Informed, AtWork
<1>5. ASSUME NEW r \in Requests, RequestStep(r) \/ RequestDies(r)
      PROVE  Outcome' /\ \A t \in tasks' : Informed(t)'
  <2>1. ~UndoEnqueue(r) /\ ~UndoExpert(r)
    BY DEF UndoEnqueue, UndoExpert, RequestInOrder
  <2>2. CASE PrepareForBuild(r)
    <3>1. \A j \in Jobs : status[j] = "absent"
      BY <2>2 DEF PrepareForBuild, RequestInOrder
    <3>2. \A t \in tasks : ~AtWork(t)
      BY <1>2, <3>1
    <3>3. QED
      BY <1>4, <2>2, <3>1, <3>2 DEF PrepareForBuild, table
  <2>3. CASE (RequestStep(r) /\ ~PrepareForBuild(r)) \/ RequestDies(r)
    BY <1>3, <2>1, <2>3
       DEF TypeOK, RequestStep, Lookup, Enqueue, EnqueueExisting, AppendCreated, HoldForJob,
           RequestDies, table, corpus
  <2>4. QED
    BY <1>5, <2>2, <2>3
<1>6. ASSUME NEW w \in Workers, Reap(w)
      PROVE  Outcome' /\ \A t \in tasks' : Informed(t)'
  <2>1. PICK j \in Jobs : j \in Reapable(w)
    BY <1>6 DEF Reap, Reapable
  <2>2. \A t \in tasks : ~AtWork(t)
    BY <1>2, <2>1 DEF Reapable, Held
  <2>3. \A i \in Jobs : i = j
    OBVIOUS
  <2>4. /\ status'[j] = IF Exhausted(j) THEN "failed" ELSE "queued"
        /\ Exhausted(j) => expert' = "failed"
    BY <1>6, <2>1 DEF Reap
  <2>5. tasks' = tasks
    BY <1>6 DEF Reap
  <2>6. QED
    BY <1>4, <2>2, <2>3, <2>4, <2>5 DEF Shown
<1>7. ASSUME NEW w \in Workers, NEW j \in Jobs, Claim(w, j)
      PROVE  Outcome' /\ \A t \in tasks' : Informed(t)'
  <2>1. PICK n \in Task : tasks' = tasks \cup {n} /\ n.at = "fetch"
    BY <1>7, ClaimedTask DEF Claimed
  <2>2. QED
    BY <1>3, <1>7, <2>1 DEF TypeOK, Claim, corpus
<1>8. ASSUME \/ \E j \in Jobs : BackoffElapses(j) \/ BeatGoesStale(j)
             \/ \E w \in Workers : StartWorker(w) \/ BeginDrain(w) \/ EndDrain(w) \/ Crash(w)
             \/ \E t \in tasks : Beat(t) \/ TaskDone(t)
             \/ UNCHANGED vars
      PROVE  Outcome' /\ \A t \in tasks' : Informed(t)'
  BY <1>3, <1>8 DEF BackoffElapses, BeatGoesStale, StartWorker, BeginDrain, EndDrain, Crash,
                    Beat, TaskDone, vars, table, corpus
<1>9. ASSUME NEW t \in tasks, TaskStep(t), ~Beat(t), ~TaskDone(t)
      PROVE  Outcome' /\ \A v \in tasks' : Informed(v)'
  <2>1. PICK u \in Task : /\ Moved(t, u) /\ t.at # "closing"
                          /\ Begins(t, u) \/ StopsBeating(t, u) \/ Calls(t, u)
    BY <1>9, TaskMoves DEF TypeOK
  <2>2. tasks' = (tasks \ {t}) \cup {u}
    BY <2>1 DEF Moved
  <2>3. CASE AtWork(t)
    <3>1. \A v \in tasks : v # t => Informed(v)'
      BY <2>3 DEF OneAtWork, AtWork, Informed
    <3>2. /\ Holds(t.worker, t.job) /\ t.job \in Jobs /\ \A j \in Jobs : j = t.job
          /\ status[t.job] = "running" /\ Informed(t) /\ Grounded(t)
      BY <1>1, <1>2, <2>3 DEF Held
    <3>3. ASSUME UNCHANGED status
          PROVE  Outcome'
      BY <3>2, <3>3 DEF Outcome, NoneCancelled
    <3>4. CASE Begins(t, u)
      <4>1. Informed(u)'
        BY <3>4 DEF Begins, Informed
      <4>2. UNCHANGED status
        BY <3>4 DEF Begins, Begin, NoWrite, table
      <4>3. QED
        BY <2>2, <3>1, <3>3, <4>1, <4>2
    <3>5. CASE StopsBeating(t, u)
      <4>1. UNCHANGED <<expert, readiness, status>>
        BY <3>5 DEF StopsBeating, BeatFindsJobGone, OverCap, BeatLoopReturns, NoWrite, table,
                    corpus
      <4>2. Informed(u)'
        BY <3>2, <3>5, <4>1 DEF StopsBeating, Informed, Shown
      <4>3. QED
        BY <2>2, <3>1, <3>3, <4>1, <4>2
    <3>6. CASE Calls(t, u)
      <4>1. CASE \/ MarkSucceeded(t) /\ u.at = "closing"
                 \/ HandlerMarksFailed(t) /\ u.at = IF t.at = "cap_fail" THEN "cap_refund"
                                                                         ELSE "closing"
                 \/ HandsBack(t) /\ u.at = "closing"
        <5>1. u.at \in {"closing", "cap_refund"} /\ UNCHANGED <<expert, readiness>>
          BY <4>1 DEF MarkSucceeded, HandlerMarksFailed, Settle, HandsBack, corpus
        <5>2. Informed(u)'
          BY <5>1 DEF Informed
        <5>3. \/ status'[t.job] = "queued"
              \/ status'[t.job] = "succeeded" /\ t.at = "succeed"
              \/ status'[t.job] = "failed" /\ t.at \in {"fail_mark", "cap_fail"}
          BY <3>2, <4>1 DEF TypeOK, MarkSucceeded, HandlerMarksFailed, Settle, HandsBack
        <5>4. Outcome'
          BY <3>2, <5>1, <5>3 DEF Outcome, NoneCancelled, Informed, Grounded, Shown
        <5>5. QED
          BY <2>2, <3>1, <5>2, <5>4
      <4>2. CASE \/ MarkBuilding(t) /\ u.at = IF t.resume = "none" THEN "reset" ELSE "announce"
                 \/ ResetBuildState(t) /\ u.at = "announce"
                 \/ ClearReadiness(t) /\ u.at = "run"
                 \/ ChatReady(t) /\ u.at = "run_chat"
                 \/ GraphReady(t) /\ u.at = "run_graph"
                 \/ BuildReturns(t) /\ u.at = "publish"
                 \/ Publish(t) /\ u.at = "done"
                 \/ AppendDone(t) /\ u.at = "succeed"
        <5>1. UNCHANGED status
          BY <4>2 DEF MarkBuilding, ResetBuildState, ClearReadiness, ChatReady, GraphReady, Reach,
                      BuildReturns, Publish, AppendDone, NoWrite, table
        <5>2. Informed(u)'
          BY <3>2, <4>2 DEF Publish, AppendDone, Informed
        <5>3. QED
          BY <2>2, <3>1, <3>3, <5>1, <5>2
      <4>3. CASE /\ Announce(t)
                 /\ \/ t.resume = "none" /\ u.at = "clear"
                    \/ t.resume = "chat_ready" /\ u.at = "run_chat"
                    \/ t.resume = "graph_ready" /\ u.at = "run_graph"
        <5>1. UNCHANGED status
          BY <4>3 DEF Announce, table
        <5>2. Informed(u)'
          BY <4>3 DEF Informed
        <5>3. QED
          BY <2>2, <3>1, <3>3, <5>1, <5>2
      <4>4. CASE /\ HandlerAppends(t) \/ HandlerSetsExpert(t) \/ HandlerRefunds(t)
                 /\ u.at = Then[t.at]
        <5>1. UNCHANGED status
          BY <4>4 DEF HandlerAppends, HandlerSetsExpert, HandlerRefunds, table
        <5>2. Informed(u)'
          BY <3>2, <4>4
             DEF HandlerAppends, AppendAt, HandlerSetsExpert, ExpertAt, HandlerRefunds, Then,
                 Informed, Grounded, Shown, corpus
        <5>3. QED
          BY <2>2, <3>1, <3>3, <5>1, <5>2
      <4>5. CASE \/ CapReads(t) /\ u.at = IF readiness \in Ready THEN "cap_publish"
                                                                 ELSE "cap_expert"
                 \/ Raises(t) /\ (u.at = "ret_event" \/ u.at = "fail_refund")
                 \/ ShutdownCancels(t) /\ u.at = IF t.at \in Try THEN Interrupted(t) ELSE "closing"
        <5>1. UNCHANGED status
          BY <4>5 DEF CapReads, Raises, ShutdownCancels, NoWrite, table
        <5>2. Informed(u)'
          BY <4>5 DEF Informed, Interrupted
        <5>3. QED
          BY <2>2, <3>1, <3>3, <5>1, <5>2
      <4>6. ~HandlerCallFails(t)
        BY DEF HandlerCallFails
      <4>7. QED
        BY <3>6, <4>1, <4>2, <4>3, <4>4, <4>5, <4>6 DEF Calls, Goes
    <3>7. QED
      BY <2>1, <3>4, <3>5, <3>6
  <2>4. CASE t.at = "cap_refund"
    <3>1. UNCHANGED <<expert, readiness, status>>
      BY <1>9, <2>4
         DEF TaskStep, Progress, TryStep, Begin, MarkBuilding, ResetBuildState, Announce,
             ClearReadiness, ChatReady, GraphReady, Reach, BuildReturns, Publish, AppendDone,
             MarkSucceeded, Settle, HandlerStep, HandlerAppends, CapReads, HandlerSetsExpert,
             HandlerRefunds, HandlerMarksFailed, HandsBack, TaskDone, Raises, BeatFindsJobGone,
             OverCap, BeatLoopReturns, Beat, ShutdownCancels, HandlerCallFails, NoWrite,
             AppendAt, ExpertAt, Try, Running, corpus, table
    <3>2. u.at \in {"closing", "cap_refund"}
      BY <2>1, <2>4
         DEF Begins, Begin, StopsBeating, Running, Calls, Goes, MarkBuilding, ResetBuildState,
             Announce, ClearReadiness, ChatReady, GraphReady, Reach, BuildReturns, Publish,
             AppendDone, MarkSucceeded, HandlerAppends, HandlerSetsExpert, HandlerRefunds,
             Then, CapReads, HandlerMarksFailed, HandsBack, Raises, Try, ShutdownCancels,
             HandlerCallFails
    <3>3. QED
      BY <1>1, <2>2, <3>1, <3>2 DEF Outcome, NoneCancelled, Informed, Shown
  <2>5. QED
    BY <2>1, <2>3, <2>4 DEF AtWork
<1>10. QED
  BY <1>1, <1>5, <1>6, <1>7, <1>8, <1>9 DEF Next, Poll

\* One job, one request that nobody cancels: when all is at rest the expert agrees
\* with the job's outcome, whatever crashes, drains, retries and deaths of the request
\* came in between.
THEOREM Agreement ==
    ASSUME ~Lapses, ~Faults, NEW job, Jobs = {job}, \A q, r \in Requests : q = r
    PROVE  Spec => []AgreesAtRest
<1> DEFINE Inv == /\ TypeOK /\ OneActiveBuild /\ Alone /\ Holding
                  /\ \A t \in tasks : Grounded(t)
                  /\ ReadyIsChattable /\ RequestInOrder /\ Agreed
<1>1. Init => Inv
  BY InitType DEF Init, OneActiveBuild, ActiveJobs, Active, Alone, Holding, ReadyIsChattable,
                  Ready, RequestInOrder, NoRoute, Agreed, Outcome, NoneCancelled
<1>2. Inv /\ [Next]_vars => Inv'
  <2> SUFFICES ASSUME Inv, [Next]_vars
               PROVE  Inv'
    OBVIOUS
  <2>1. OneAtWork
    BY OneAtWorkUnless
  <2>2. TypeOK' /\ OneActiveBuild' /\ Alone' /\ Holding'
    BY TypeStep, OneActiveStep, AttemptStep
  <2>3. (\A t \in tasks' : Grounded(t)') /\ ReadyIsChattable'
    BY <2>1, GroundedStep
  <2>4. RequestInOrder'
    BY RequestInOrderStep
  <2>5. Agreed'
    BY <2>1, AgreedStep
  <2>6. QED
    BY <2>2, <2>3, <2>4, <2>5
<1>3. Inv => AgreesAtRest
  <2> SUFFICES ASSUME Inv, NoCancel
               PROVE  AgreesAtRest
    BY DEF AgreesAtRest, NoCancel
  <2>1. Outcome
    BY DEF Agreed
  <2>2. QED
    BY <2>1 DEF AgreesAtRest, Outcome, Shown, AtRest
<1>4. QED
  BY <1>1, <1>2, <1>3, PTL DEF Spec

-----------------------------------------------------------------------------
(* The queue. *)

\* Tasks are told apart by the claim they carry out; a task in the retry handler has
\* attempts left, one that hands its job back at shutdown is of a draining process.
ClaimsAreDistinct ==
    /\ \A t \in tasks : t.attempt <= attempts[t.job]
    /\ \A t, u \in tasks : t.job = u.job /\ t.attempt = u.attempt => t = u
Entitled(t) ==
    /\ t.at \in {"ret_event", "ret_expert", "ret_requeue"} => t.attempt < MaxAttempts
    /\ t.at = "release" => proc[t.worker] = "draining"
QueueInv ==
    /\ TypeOK /\ IsFiniteSet(tasks) /\ ClaimsAreDistinct
    /\ \A t \in tasks : Entitled(t)

\* The number of claims of a job never goes down.
LEMMA AttemptsGrow ==
    ASSUME TypeOK, [Next]_vars
    PROVE  \A j \in Jobs : attempts[j] <= attempts'[j]
<1>1. ASSUME NEW w \in Workers, NEW j \in Jobs, Claim(w, j)
      PROVE  \A i \in Jobs : attempts[i] <= attempts'[i]
  BY <1>1 DEF Claim, TypeOK
<1>2. CASE UNCHANGED attempts
  BY <1>2 DEF TypeOK
<1>3. QED
  BY <1>1, <1>2, RequestFrame, CancelFrame, JobFrame, WorkerFrame, TaskFrame DEF Next, vars, table

\* A draining process drains until it is gone, and its tasks with it.
LEMMA DrainsToTheEnd ==
    ASSUME TypeOK, [Next]_vars, NEW t \in tasks, t \in tasks', proc[t.worker] = "draining"
    PROVE  proc'[t.worker] = "draining"
<1>1. t.worker \in Workers
  BY TaskFields DEF TypeOK
<1>2. ASSUME NEW w \in Workers, StartWorker(w) \/ BeginDrain(w) \/ EndDrain(w) \/ Crash(w)
      PROVE  proc'[t.worker] = "draining"
  BY <1>1, <1>2 DEF TypeOK, StartWorker, BeginDrain, EndDrain, Crash, TasksOf
<1>3. CASE UNCHANGED proc
  BY <1>3
<1>4. QED
  BY <1>2, <1>3, RequestFrame, CancelFrame, JobFrame, WorkerFrame, TaskFrame DEF Next, vars

LEMMA QueueInvStep ==
    ASSUME QueueInv, [Next]_vars
    PROVE  QueueInv'
<1>1. TypeOK' /\ \A j \in Jobs : attempts[j] <= attempts'[j]
  BY TypeStep, AttemptsGrow DEF QueueInv
<1>2. CASE tasks' \subseteq tasks
  <2>1. IsFiniteSet(tasks')
    BY <1>2, FS_Subset DEF QueueInv
  <2>2. ClaimsAreDistinct'
    <3>1. ASSUME NEW t \in tasks'
          PROVE  t.attempt <= attempts'[t.job]
      <4>1. /\ t.job \in Jobs /\ t.attempt \in Nat /\ t.attempt <= attempts[t.job]
            /\ attempts[t.job] \in Nat /\ attempts'[t.job] \in Nat
        BY <1>1, <1>2, TaskFields DEF QueueInv, TypeOK, ClaimsAreDistinct
      <4>2. QED
        BY <1>1, <4>1
    <3>2. QED
      BY <1>2, <3>1 DEF QueueInv, ClaimsAreDistinct
  <2>3. \A t \in tasks' : Entitled(t)'
    BY <1>2, DrainsToTheEnd DEF QueueInv, Entitled
  <2>4. QED
    BY <1>1, <2>1, <2>2, <2>3 DEF QueueInv
<1>3. ASSUME NEW w \in Workers, NEW j \in Jobs, Claim(w, j)
      PROVE  QueueInv'
  <2>1. PICK n \in Task : /\ tasks' = tasks \cup {n} /\ n.job = j /\ n.at = "fetch"
                          /\ n.attempt = attempts[j] + 1
    BY <1>3, ClaimedTask DEF QueueInv, Claimed
  <2>2. IsFiniteSet(tasks')
    BY <2>1, FS_AddElement DEF QueueInv
  <2>3. attempts' = [attempts EXCEPT ![j] = @ + 1] /\ proc' = proc
    BY <1>3 DEF Claim
  <2>4. \A t \in tasks : /\ t.job \in Jobs /\ t.attempt \in Nat /\ attempts[t.job] \in Nat
                         /\ t.attempt <= attempts[t.job]
    BY TaskFields DEF QueueInv, TypeOK, ClaimsAreDistinct
  <2>5. ClaimsAreDistinct'
    BY <2>1, <2>3, <2>4 DEF QueueInv, TypeOK, ClaimsAreDistinct
  <2>6. \A t \in tasks' : Entitled(t)'
    BY <2>1, <2>3 DEF QueueInv, Entitled
  <2>7. QED
    BY <1>1, <2>2, <2>5, <2>6 DEF QueueInv
<1>4. ASSUME NEW t \in tasks, NEW u \in Task, TaskStep(t), Moved(t, u),
             Begins(t, u) \/ StopsBeating(t, u) \/ Calls(t, u)
      PROVE  QueueInv'
  <2>1. tasks' = (tasks \ {t}) \cup {u} /\ u.job = t.job /\ u.attempt = t.attempt
          /\ u.worker = t.worker
    BY <1>4 DEF Moved
  <2>2. IsFiniteSet(tasks')
    BY <2>1, FS_AddElement, FS_RemoveElement DEF QueueInv
  <2>3. UNCHANGED <<attempts, proc>>
    BY <1>4 DEF TaskStep, Progress, TryStep, Begin, MarkBuilding, ResetBuildState, Announce,
                ClearReadiness, ChatReady, GraphReady, Reach, BuildReturns, Publish, AppendDone,
                MarkSucceeded, Settle, HandlerStep, HandlerAppends, CapReads, HandlerSetsExpert,
                HandlerRefunds, HandlerMarksFailed, HandsBack, TaskDone, Raises, BeatFindsJobGone,
                OverCap, BeatLoopReturns, Beat, ShutdownCancels, HandlerCallFails, NoWrite, table
  <2>4. ClaimsAreDistinct'
    BY <2>1, <2>3 DEF QueueInv, ClaimsAreDistinct
  <2>5. Entitled(u)'
    <3>1. Entitled(t)
      BY DEF QueueInv
    <3>2. CASE Begins(t, u)
      BY <3>2 DEF Begins, Entitled
    <3>3. CASE StopsBeating(t, u)
      BY <2>1, <2>3, <3>1, <3>3 DEF StopsBeating, Entitled
    <3>4. CASE Calls(t, u)
      BY <2>1, <2>3, <3>1, <3>4
         DEF Calls, Goes, HandlerAppends, AppendAt, HandlerSetsExpert, ExpertAt,
             HandlerRefunds, HandlerCallFails, Suppressed, Then, ShutdownCancels, Interrupted, Entitled
    <3>5. QED
      BY <1>4, <3>2, <3>3, <3>4
  <2>6. \A v \in tasks' : Entitled(v)'
    BY <2>1, <2>3, <2>5 DEF QueueInv, Entitled
  <2>7. QED
    BY <1>1, <2>2, <2>4, <2>6 DEF QueueInv
<1>5. ASSUME NEW t \in tasks, TaskStep(t)
      PROVE  QueueInv'
  BY <1>2, <1>4, <1>5, TaskMoves DEF QueueInv, TypeOK
<1>6. QED
  BY <1>2, <1>3, <1>5, OthersLeaveTasks DEF Crash

\* A claim's view, and the views after a task has moved or is over.
LEMMA ViewFields ==
    ASSUME NEW t \in Task
    PROVE  /\ View(t).worker = t.worker /\ View(t).job = t.job
           /\ View(t).attempt = t.attempt /\ View(t).beating = t.beating
           /\ View(t).phase = IF t.at \in {"closing", "cap_refund"} THEN "closing"
                                                                    ELSE "working"
BY DEF View

LEMMA ViewsMove ==
    ASSUME tasks \subseteq Task, ClaimsAreDistinct, NEW t \in tasks
    PROVE  /\ \A u \in Task : Moved(t, u) => Views' = (Views \ {View(t)}) \cup {View(u)}
           /\ \A u \in Task : Moved(t, u) /\ View(u) = View(t) => Views' = Views
           /\ tasks' = tasks \ {t} => Views' = Views \ {View(t)}
<1>1. \A v \in tasks : View(v) = View(t) => v = t
  BY ViewFields DEF ClaimsAreDistinct
<1>2. QED
  BY <1>1 DEF Views, Moved

\* The expert of every job, to the queue.
LEMMA OneExpert ==
    /\ \A j \in Jobs : [i \in Jobs |-> "expert"][j] = "expert"
    /\ [e \in {"expert"} |-> TRUE]["expert"] = TRUE
OBVIOUS

\* The requests are the queue's enqueue and cancel, or nothing to it.
LEMMA RequestOnQueue ==
    ASSUME TypeOK, NEW r \in Requests, RequestStep(r) \/ RequestDies(r)
    PROVE  [Queue!Next]_(Queue!vars)
<1> USE DEF table, corpus, ledger, api
<1>1. CASE Enqueue(r) /\ ActiveJobs = {}
  <2>1. PICK j \in Jobs : /\ status[j] = "absent"
                          /\ status' = [status EXCEPT ![j] = "queued"]
                          /\ due' = [due EXCEPT ![j] = TRUE]
    BY <1>1 DEF Enqueue
  <2>2. Queue!Enqueue(j)
    BY <1>1, <2>1, OneExpert
       DEF Enqueue, Queue!Enqueue, Queue!ActiveBuild, Queue!Active, ActiveJobs, Active, Views
  <2>3. QED
    BY <2>2 DEF Queue!Next, Queue!Api
<1>2. CASE Enqueue(r) /\ ActiveJobs # {}
  BY <1>2 DEF Enqueue, Queue!vars, Queue!table, Views
<1>3. CASE UndoEnqueue(r) /\ ActiveJobs = {}
  <2>1. status' = status
    BY <1>3 DEF UndoEnqueue, CancelBuilds, ActiveJobs, TypeOK
  <2>2. QED
    BY <1>3, <2>1 DEF UndoEnqueue, Queue!vars, Queue!table, Views
<1>4. CASE UndoEnqueue(r) /\ ActiveJobs # {}
  <2>1. {j \in Jobs : [i \in Jobs |-> "expert"][j] = "expert"} = Jobs
    BY OneExpert
  <2>2. Queue!CancelBuild("expert")
    BY <1>4, <2>1 DEF UndoEnqueue, CancelBuilds, Queue!CancelBuild, Queue!RequestCancel, Queue!Active,
                      ActiveJobs, Active, Views
  <2>3. QED
    BY <2>2 DEF Queue!Next, Queue!Api
<1>5. CASE ~Enqueue(r) /\ ~UndoEnqueue(r)
  BY <1>5 DEF RequestStep, Lookup, PrepareForBuild, EnqueueExisting, AppendCreated,
              HoldForJob, UndoExpert, RequestDies, Queue!vars, Queue!table, Views
<1>6. QED
  BY <1>1, <1>2, <1>3, <1>4, <1>5

\* So are the cancel requests.
LEMMA CancelOnQueue ==
    ASSUME TypeOK, NEW c \in Cancels, CancelStep(c) \/ CancelDies(c)
    PROVE  [Queue!Next]_(Queue!vars)
<1> USE DEF table, corpus, ledger, api
<1>1. CASE CancelRequests(c) /\ ActiveJobs = {}
  <2>1. status' = status
    BY <1>1 DEF CancelRequests, CancelBuilds, ActiveJobs, TypeOK
  <2>2. QED
    BY <1>1, <2>1 DEF CancelRequests, Queue!vars, Queue!table, Views
<1>2. CASE CancelRequests(c) /\ ActiveJobs # {}
  <2>1. {j \in Jobs : [i \in Jobs |-> "expert"][j] = "expert"} = Jobs
    BY OneExpert
  <2>2. Queue!CancelBuild("expert")
    BY <1>2, <2>1 DEF CancelRequests, CancelBuilds, Queue!CancelBuild, Queue!RequestCancel,
                      Queue!Active, ActiveJobs, Active, Views
  <2>3. QED
    BY <2>2 DEF Queue!Next, Queue!Api
<1>3. CASE ~CancelRequests(c)
  BY <1>3 DEF CancelStep, CancelFinds, CancelAppends, CancelFailsExpert, CancelRefunds,
              CancelDies, Queue!vars, Queue!table, Views
<1>4. QED
  BY <1>1, <1>2, <1>3

\* The queue counts as this module does.
LEMMA SameCount ==
    ASSUME NEW S
    PROVE  Queue!Cardinality(S) = Cardinality(S)
BY DEF Queue!Cardinality, Cardinality

\* A process has no more views than tasks.
LEMMA ViewsOfWorker ==
    ASSUME TypeOK, IsFiniteSet(tasks), NEW w \in Workers
    PROVE  /\ Cardinality(Queue!TasksOf(w)) <= Cardinality(TasksOf(w))
           /\ Cardinality(Queue!TasksOf(w)) \in Nat /\ Cardinality(TasksOf(w)) \in Nat
           /\ TasksOf(w) = {} => Queue!TasksOf(w) = {}
           /\ {View(t) : t \in tasks \ TasksOf(w)} = Views \ Queue!TasksOf(w)
<1> DEFINE f == [t \in TasksOf(w) |-> View(t)]
<1>1. \A t \in tasks : t \in Task /\ View(t).worker = t.worker
  BY ViewFields DEF TypeOK
<1>2. f \in Surjection(TasksOf(w), Queue!TasksOf(w))
  BY <1>1 DEF Surjection, TasksOf, Queue!TasksOf, Views
<1>3. IsFiniteSet(TasksOf(w))
  BY FS_Subset DEF TasksOf
<1>4. IsFiniteSet(Queue!TasksOf(w)) /\ Cardinality(Queue!TasksOf(w)) <= Cardinality(TasksOf(w))
  BY <1>2, <1>3, FS_Surjection
<1>5. Cardinality(Queue!TasksOf(w)) \in Nat /\ Cardinality(TasksOf(w)) \in Nat
  BY <1>3, <1>4, FS_CardinalityType
<1>6. QED
  BY <1>1, <1>4, <1>5 DEF TasksOf, Queue!TasksOf, Views

\* Polls and processes do to the queue what they do there.
LEMMA ProcessOnQueue ==
    ASSUME QueueInv, NEW w \in Workers,
           Poll(w) \/ StartWorker(w) \/ BeginDrain(w) \/ EndDrain(w) \/ Crash(w)
    PROVE  [Queue!Next]_(Queue!vars)
<1> USE DEF table, corpus, ledger, api
<1>a. TypeOK /\ IsFiniteSet(tasks)
  BY DEF QueueInv
<1>1. ASSUME NEW j \in Jobs, Claim(w, j)
      PROVE  Queue!Claim(w, j)
  <2>1. Cardinality(Queue!TasksOf(w)) < Slots
    BY <1>1, <1>a, ViewsOfWorker, BuildLifecycleAssumption DEF Claim
  <2>2. tasks' = tasks \cup {Claimed(w, j)}
    BY <1>1, <1>a, ClaimedTask
  <2> DEFINE n == Claimed(w, j)
  <2>3. View(n) = [worker |-> w, job |-> j, attempt |-> attempts[j] + 1,
                   phase |-> "working", beating |-> TRUE]
    BY DEF View, Claimed
  <2>4. Views' = Views \cup {[worker |-> w, job |-> j, attempt |-> attempts[j] + 1,
                              phase |-> "working", beating |-> TRUE]}
    BY <2>2, <2>3 DEF Views
  <2>5. /\ proc[w] = "up" /\ status[j] = "queued" /\ due[j]
        /\ status' = [status EXCEPT ![j] = "running"]
        /\ lockedBy' = [lockedBy EXCEPT ![j] = w]
        /\ attempts' = [attempts EXCEPT ![j] = @ + 1]
        /\ stale' = [stale EXCEPT ![j] = FALSE]
        /\ protected' = [protected EXCEPT ![w] = @ \cup {j}]
        /\ UNCHANGED <<due, proc>>
    BY <1>1 DEF Claim
  <2>6. QED
    BY <2>1, <2>4, <2>5, SameCount DEF Queue!Claim
<1>2. CASE Reap(w)
  <2>1. Queue!Reapable(w) = Reapable(w)
    BY DEF Queue!Reapable, Reapable
  <2> DEFINE R == Reapable(w)
  <2>2. \A j \in Jobs : due[j] \in BOOLEAN /\ attempts[j] \in Nat
    BY <1>a DEF TypeOK
  <2>3. due' = [j \in Jobs |-> IF j \in R THEN TRUE ELSE due[j]]
    BY <1>2, <2>2 DEF Reap
  <2>4. status' = [j \in Jobs |->
                     IF j \in R THEN IF attempts[j] < MaxAttempts THEN "queued" ELSE "failed"
                                ELSE status[j]]
    BY <1>2, <2>2, BuildLifecycleAssumption DEF Reap, Exhausted
  <2>5. /\ proc[w] = "up" /\ R # {}
        /\ lockedBy' = [j \in Jobs |-> IF j \in R THEN NoWorker ELSE lockedBy[j]]
        /\ UNCHANGED <<attempts, stale, proc, protected, tasks>>
    BY <1>2 DEF Reap
  <2>6. UNCHANGED Views
    BY <2>5 DEF Views
  <2> HIDE DEF R
  <2>7. Queue!Reap(w)
    BY <2>1, <2>3, <2>4, <2>5, <2>6 DEF Queue!Reap, R
  <2>8. QED
    BY <2>7 DEF Queue!Next, Queue!Poll
<1>3. CASE StartWorker(w) \/ BeginDrain(w) \/ EndDrain(w)
  <2>1. Queue!StartWorker(w) \/ Queue!BeginDrain(w) \/ Queue!EndDrain(w)
    BY <1>3, <1>a, ViewsOfWorker
       DEF StartWorker, BeginDrain, EndDrain, Replaceable, Queue!StartWorker, Queue!BeginDrain,
           Queue!EndDrain, Queue!Replaceable, Queue!table, Views
  <2>2. QED
    BY <2>1 DEF Queue!Next, Queue!Processes
<1>4. CASE Crash(w)
  <2>1. Views' = Views \ Queue!TasksOf(w)
    BY <1>4, <1>a, ViewsOfWorker DEF Crash, Views
  <2>2. Queue!Crash(w)
    BY <1>4, <2>1 DEF Crash, Replaceable, Queue!Crash, Queue!Replaceable, Queue!table
  <2>3. QED
    BY <2>2 DEF Queue!Next, Queue!Processes
<1>5. QED
  BY <1>1, <1>2, <1>3, <1>4 DEF Poll, Queue!Next, Queue!Poll

\* What a call does to a claim's view: it stays, stops beating, or closes for good.
LEMMA CallsOnViews ==
    ASSUME NEW t \in Task, NEW u \in Task,
           <<u.worker, u.job, u.attempt>> = <<t.worker, t.job, t.attempt>>,
           t.at # "closing", Calls(t, u)
    PROVE  \/ View(u) = View(t)
           \/ View(t).phase = "working" /\ View(u) = [View(t) EXCEPT !.phase = "closing"]
<1>1. t.at = "cap_refund" => u.at = "closing"
  BY DEF Calls, Goes, MarkBuilding, ResetBuildState, Announce, ClearReadiness, ChatReady,
         GraphReady, Reach, BuildReturns, Publish, AppendDone, MarkSucceeded, HandlerAppends,
         AppendAt, HandlerSetsExpert, ExpertAt, HandlerRefunds, Then, CapReads,
         HandlerMarksFailed, HandsBack, Raises, Try, Running, ShutdownCancels,
         HandlerCallFails, Suppressed
<1>2. u.beating = t.beating
  BY DEF Calls
<1>3. QED
  BY <1>1, <1>2 DEF View

\* A task's calls are the queue's beats, last writes and endings, or nothing to it.
LEMMA TaskOnQueue ==
    ASSUME QueueInv, NEW t \in tasks, TaskStep(t)
    PROVE  [Queue!Next]_(Queue!vars)
<1> USE DEF table, corpus, ledger, api
<1>a. t \in Task /\ tasks \subseteq Task /\ ClaimsAreDistinct /\ Entitled(t) /\ View(t) \in Views
  BY DEF QueueInv, TypeOK, Views
<1>b. /\ View(t).worker = t.worker /\ View(t).job = t.job /\ View(t).beating = t.beating
      /\ View(t).attempt = t.attempt /\ t.job \in Jobs
      /\ View(t).phase = IF t.at \in {"closing", "cap_refund"} THEN "closing" ELSE "working"
  BY <1>a, ViewFields, TaskFields
<1>1. CASE Beat(t) /\ tasks' = tasks
  <2>1. Queue!Beat(View(t))
    BY <1>b, <1>1 DEF Beat, Holds, Queue!Beat, Queue!Holds, Views
  <2>2. QED
    BY <1>a, <2>1 DEF Queue!Next, Queue!TaskSteps
<1>2. CASE TaskDone(t) /\ tasks' = tasks \ {t}
  <2>1. Views' = Views \ {View(t)}
    BY <1>a, <1>2, ViewsMove
  <2>2. Queue!TaskDone(View(t))
    BY <1>b, <1>2, <2>1 DEF TaskDone, Queue!TaskDone, Queue!table
  <2>3. QED
    BY <1>a, <2>2 DEF Queue!Next, Queue!TaskSteps
<1>3. ASSUME NEW u \in Task, Moved(t, u), t.at # "closing", Begins(t, u)
      PROVE  [Queue!Next]_(Queue!vars)
  <2>1. View(u) = View(t)
    BY <1>3 DEF Begins, Begin, Moved, View
  <2>2. Views' = Views
    BY <1>a, <1>3, <2>1, ViewsMove
  <2>3. QED
    BY <1>3, <2>2 DEF Begins, Begin, NoWrite, Queue!vars, Queue!table
<1>4. ASSUME NEW u \in Task, Moved(t, u), t.at # "closing", StopsBeating(t, u)
      PROVE  [Queue!Next]_(Queue!vars)
  <2>1. t.beating /\ NoWrite
    BY <1>4 DEF StopsBeating, BeatFindsJobGone, OverCap, BeatLoopReturns
  <2>2. View(u) = [View(t) EXCEPT !.beating = FALSE]
    <3>1. /\ u.worker = t.worker /\ u.job = t.job /\ u.attempt = t.attempt /\ u.beating = FALSE
          /\ u.at \in {"closing", "cap_refund"} <=> t.at \in {"closing", "cap_refund"}
      BY <1>4 DEF StopsBeating, Moved, Running
    <3>2. View(t) \in Queue!Task /\ View(u) \in Queue!Task
      BY <1>a, TaskFields DEF View, Queue!Task
    <3>3. /\ View(u).worker = View(t).worker /\ View(u).job = View(t).job
          /\ View(u).attempt = View(t).attempt /\ View(u).beating = FALSE
          /\ View(u).phase = View(t).phase
      BY <1>a, <3>1, ViewFields
    <3>4. QED
      BY <3>2, <3>3 DEF Queue!Task
  <2>3. Views' = (Views \ {View(t)}) \cup {[View(t) EXCEPT !.beating = FALSE]}
    BY <1>a, <1>4, <2>2, ViewsMove
  <2>4. Queue!BeatLoopReturns(View(t))
    BY <1>b, <2>1, <2>3 DEF Queue!BeatLoopReturns, Queue!Become, Queue!table, NoWrite
  <2>5. QED
    BY <1>a, <2>4 DEF Queue!Next, Queue!TaskSteps
<1>5. ASSUME NEW u \in Task, Moved(t, u), t.at # "closing", Calls(t, u)
      PROVE  [Queue!Next]_(Queue!vars)
  <2>1. \/ View(u) = View(t)
        \/ View(t).phase = "working" /\ View(u) = [View(t) EXCEPT !.phase = "closing"]
    BY <1>a, <1>5, CallsOnViews DEF Moved
  <2>2. View(u) = View(t) => Views' = Views
    BY <1>a, <1>5, ViewsMove
  <2>3. View(u) = [View(t) EXCEPT !.phase = "closing"] => Queue!Close(View(t))
    BY <1>a, <1>5, ViewsMove DEF Queue!Close, Queue!Become
  <2>4. CASE NoWrite \/ UNCHANGED <<table, proc, protected>>
    <3>1. View(u) = View(t) => UNCHANGED Queue!vars
      BY <2>2, <2>4 DEF NoWrite, Queue!vars, Queue!table
    <3>2. View(u) # View(t) => Queue!Abandon(View(t))
      BY <2>1, <2>3, <2>4 DEF NoWrite, Queue!Abandon, Queue!table
    <3>3. QED
      BY <1>a, <3>1, <3>2 DEF Queue!Next, Queue!TaskSteps, Queue!TaskEnds
  <2>5. CASE (MarkSucceeded(t) \/ HandlerMarksFailed(t)) /\ u.at \in {"closing", "cap_refund"}
    <3>1. View(t).phase = "working" /\ View(u).phase = "closing"
      BY <1>b, <2>5 DEF MarkSucceeded, HandlerMarksFailed, View
    <3>2. Queue!Close(View(t))
      BY <2>1, <2>3, <3>1
    <3>3. PICK outcome \in {"succeeded", "failed"} : \E to \in {"closing", "cap_refund"} :
             Settle(t, outcome, to)
      BY <2>5 DEF MarkSucceeded, HandlerMarksFailed
    <3>4. Queue!Finish(View(t), outcome)
      BY <1>b, <3>1, <3>2, <3>3 DEF Settle, Holds, Queue!Finish, Queue!Holds
    <3>5. Queue!MarkSucceeded(View(t)) \/ Queue!MarkFailed(View(t))
      BY <3>4 DEF Queue!MarkSucceeded, Queue!MarkFailed
    <3>6. QED
      BY <1>a, <3>5 DEF Queue!Next, Queue!TaskSteps, Queue!TaskEnds
  <2>6. CASE HandsBack(t) /\ u.at = "closing"
    <3>1. View(t).phase = "working" /\ View(u).phase = "closing"
      BY <1>b, <2>6 DEF HandsBack, View
    <3>2. Queue!Close(View(t))
      BY <2>1, <2>3, <3>1
    <3>3. ASSUME NEW isDue \in BOOLEAN, isDue <=> t.at = "release"
          PROVE  Queue!GiveBack(View(t), isDue)
      BY <1>b, <2>6, <3>2, <3>3 DEF HandsBack, Holds, Queue!GiveBack, Queue!Holds
    <3>4. CASE t.at = "ret_requeue"
      BY <1>a, <1>b, <3>1, <3>3, <3>4 DEF Entitled, Queue!Requeue, Queue!Next, Queue!TaskSteps,
                                          Queue!TaskEnds
    <3>5. CASE t.at = "release"
      BY <1>a, <1>b, <3>1, <3>3, <3>5 DEF Entitled, Queue!ReleaseForShutdown, Queue!Next,
                                          Queue!TaskSteps, Queue!TaskEnds
    <3>6. QED
      BY <2>6, <3>4, <3>5 DEF HandsBack
  <2>7. QED
    BY <1>5, <2>4, <2>5, <2>6
       DEF Calls, Goes, MarkBuilding, ResetBuildState, Announce, ClearReadiness, ChatReady,
           GraphReady, Reach, BuildReturns, Publish, AppendDone, HandlerAppends,
           HandlerSetsExpert, HandlerRefunds, CapReads, Raises, ShutdownCancels,
           HandlerCallFails, NoWrite
<1>6. QED
  BY <1>a, <1>1, <1>2, <1>3, <1>4, <1>5, TaskMoves

\* Every step of the build, whatever else it writes, is one of the queue's or leaves
\* the queue alone: what JobQueue proves of the rows holds here.
THEOREM Refinement == Spec => ImplementsQueue
<1>1. Init => QueueInv /\ Queue!Init
  BY InitType, FS_EmptySet DEF Init, QueueInv, ClaimsAreDistinct, Queue!Init, Views
<1>2. QueueInv /\ [Next]_vars => QueueInv' /\ [Queue!Next]_(Queue!vars)
  <2> SUFFICES ASSUME QueueInv, [Next]_vars
               PROVE  [Queue!Next]_(Queue!vars)
    BY QueueInvStep
  <2>1. CASE UNCHANGED vars
    BY <2>1 DEF vars, table, Queue!vars, Queue!table, Views
  <2>2. ASSUME NEW j \in Jobs, BackoffElapses(j) \/ BeatGoesStale(j)
        PROVE  [Queue!Next]_(Queue!vars)
    <3>1. Queue!BackoffElapses(j) \/ Queue!BeatGoesStale(j)
      BY <2>2 DEF BackoffElapses, BeatGoesStale, Queue!BackoffElapses, Queue!BeatGoesStale, Views
    <3>2. QED
      BY <3>1 DEF Queue!Next, Queue!Time
  <2>3. QED
    BY <2>1, <2>2, RequestOnQueue, CancelOnQueue, ProcessOnQueue, TaskOnQueue DEF Next, QueueInv
<1>3. QED
  BY <1>1, <1>2, PTL DEF Spec, ImplementsQueue, Queue!Spec
=============================================================================
