--------------------------- MODULE JobQueueProofs ---------------------------
(***************************************************************************)
(* What JobQueue promises for any number of jobs, experts, workers, slots  *)
(* and attempts.  The invariant IInv is inductive: TypeStep and LockStep   *)
(* take it through each operation of the queue; the state properties are   *)
(* its conjuncts, the action properties and the refinement follow from it  *)
(* in one step each (TerminalStep, FreshLockStep, LifecycleStep).          *)
(***************************************************************************)
EXTENDS JobQueue, TLAPS

\* Each statement of jobs/repository.py, and each step of a worker, keeps the
\* types of the columns and of the worker's sets.
LEMMA TypeStep ==
    ASSUME TypeOK, [Next]_vars
    PROVE  TypeOK'
<1> USE JobQueueAssumption DEF TypeOK, table, Status, Active, Terminal
<1>1. ASSUME NEW j \in Jobs, Enqueue(j)
      PROVE  TypeOK'
  BY <1>1 DEF Enqueue, ActiveBuild
<1>2. ASSUME NEW S \in SUBSET Jobs, RequestCancel(S)
      PROVE  TypeOK'
  BY <1>2 DEF RequestCancel
<1>3. ASSUME NEW e \in Experts, DeleteExpert(e)
      PROVE  TypeOK'
  BY <1>3 DEF DeleteExpert
<1>4. ASSUME NEW j \in Jobs, BackoffElapses(j)
      PROVE  TypeOK'
  BY <1>4 DEF BackoffElapses
<1>5. ASSUME NEW j \in Jobs, BeatGoesStale(j)
      PROVE  TypeOK'
  BY <1>5 DEF BeatGoesStale
<1>6. ASSUME NEW w \in Workers, NEW j \in Jobs, Claim(w, j)
      PROVE  TypeOK'
  <2> DEFINE r == [worker |-> w, job |-> j, attempt |-> attempts[j] + 1,
                   phase |-> "working", beating |-> TRUE]
  <2>1. attempts[j] + 1 \in Nat \ {0}
    OBVIOUS
  <2>2. r \in Task
    BY <2>1 DEF Task
  <2>3. tasks' = tasks \cup {r}
    BY <1>6 DEF Claim
  <2>4. tasks' \subseteq Task
    BY <2>2, <2>3
  <2>5. QED
    BY <1>6, <2>1, <2>4 DEF Claim
<1>7. ASSUME NEW w \in Workers, Reap(w)
      PROVE  TypeOK'
  BY <1>7 DEF Reap, Reapable
<1>8. ASSUME NEW t \in tasks, Beat(t)
      PROVE  TypeOK'
  BY <1>8 DEF Beat, Holds
<1>9. ASSUME NEW t \in tasks, BeatLoopReturns(t)
      PROVE  TypeOK'
  BY <1>9 DEF BeatLoopReturns, Become, Task
<1>10. ASSUME NEW t \in tasks, NEW o \in {"succeeded", "failed"}, Finish(t, o)
      PROVE  TypeOK'
  BY <1>10 DEF Finish, Close, Become, Holds, Task
<1>11. ASSUME NEW t \in tasks, NEW b \in BOOLEAN, t.phase = "working", GiveBack(t, b)
      PROVE  TypeOK'
  BY <1>11 DEF GiveBack, Close, Become, Holds, Task
<1>12. ASSUME NEW t \in tasks, Abandon(t)
      PROVE  TypeOK'
  BY <1>12 DEF Abandon, Close, Become, Task
<1>13. ASSUME NEW t \in tasks, TaskDone(t)
      PROVE  TypeOK'
  BY <1>13 DEF TaskDone, Task
<1>14. ASSUME NEW w \in Workers, StartWorker(w)
      PROVE  TypeOK'
  BY <1>14 DEF StartWorker
<1>15. ASSUME NEW w \in Workers, BeginDrain(w)
      PROVE  TypeOK'
  BY <1>15 DEF BeginDrain
<1>16. ASSUME NEW w \in Workers, EndDrain(w)
      PROVE  TypeOK'
  BY <1>16 DEF EndDrain
<1>17. ASSUME NEW w \in Workers, Crash(w)
      PROVE  TypeOK'
  BY <1>17 DEF Crash, TasksOf
<1>18. CASE UNCHANGED vars
  BY <1>18 DEF vars
<1>19. QED
  BY <1>1, <1>2, <1>3, <1>4, <1>5, <1>6, <1>7, <1>8, <1>9, <1>10, <1>11, <1>12,
     <1>13, <1>14, <1>15, <1>16, <1>17, <1>18
     DEF Next, Api, Time, Poll, TaskSteps, TaskEnds, Processes, CancelBuild, CancelAll,
         MarkSucceeded, MarkFailed, Requeue, ReleaseForShutdown

\* Each statement keeps the lock discipline: a row is locked exactly while it
\* runs, claims are told apart by their attempt, the latest one has the lock, an
\* expert has one active build, and a deleted expert has no row.
LEMMA LockStep ==
    ASSUME IInv, [Next]_vars, TypeOK'
    PROVE  IInv'
<1> USE JobQueueAssumption
    DEF IInv, TypeOK, RunningIsLocked, ClaimsAreDistinct, LatestClaimHoldsLock,
        OneActiveBuild, NoOrphanRows, table, Status, Active, Terminal
<1>1. ASSUME NEW j \in Jobs, Enqueue(j)
      PROVE  IInv'
  BY <1>1 DEF Enqueue, ActiveBuild, Task
<1>2. ASSUME NEW S \in SUBSET Jobs, RequestCancel(S)
      PROVE  IInv'
  BY <1>2 DEF RequestCancel, Task
<1>3. ASSUME NEW e \in Experts, DeleteExpert(e)
      PROVE  IInv'
  BY <1>3 DEF DeleteExpert, Task
<1>4. ASSUME NEW j \in Jobs, BackoffElapses(j)
      PROVE  IInv'
  BY <1>4 DEF BackoffElapses, Task
<1>5. ASSUME NEW j \in Jobs, BeatGoesStale(j)
      PROVE  IInv'
  BY <1>5 DEF BeatGoesStale, Task
<1>6. ASSUME NEW w \in Workers, NEW j \in Jobs, Claim(w, j)
      PROVE  IInv'
  BY <1>6 DEF Claim, TasksOf, Task
<1>7. ASSUME NEW w \in Workers, Reap(w)
      PROVE  IInv'
  <2>1. \A j \in Jobs :
           \/ status'[j] = status[j] /\ lockedBy'[j] = lockedBy[j]
           \/ /\ status[j] = "running" /\ status'[j] \in {"queued", "failed"}
              /\ lockedBy'[j] = NoWorker
    BY <1>7 DEF Reap, Reapable
  <2>2. UNCHANGED <<attempts, exists, tasks>>
    BY <1>7 DEF Reap
  <2>3. RunningIsLocked'
    BY <2>1
  <2>4. ClaimsAreDistinct'
    BY <2>2
  <2>5. LatestClaimHoldsLock'
    BY <2>1, <2>2 DEF Task
  <2>6. OneActiveBuild'
    BY <2>1
  <2>7. NoOrphanRows'
    BY <2>1, <2>2
  <2>8. QED
    BY <2>3, <2>4, <2>5, <2>6, <2>7
<1>8. ASSUME NEW t \in tasks, Beat(t)
      PROVE  IInv'
  BY <1>8 DEF Beat, Holds, Task
<1>9. ASSUME NEW t \in tasks, BeatLoopReturns(t)
      PROVE  IInv'
  BY <1>9 DEF BeatLoopReturns, Become, Task
<1>10. ASSUME NEW t \in tasks, NEW o \in {"succeeded", "failed"}, Finish(t, o)
      PROVE  IInv'
  BY <1>10 DEF Finish, Close, Become, Holds, Task
<1>11. ASSUME NEW t \in tasks, NEW b \in BOOLEAN, t.phase = "working", GiveBack(t, b)
      PROVE  IInv'
  BY <1>11 DEF GiveBack, Close, Become, Holds, Task
<1>12. ASSUME NEW t \in tasks, Abandon(t)
      PROVE  IInv'
  BY <1>12 DEF Abandon, Close, Become, Task
<1>13. ASSUME NEW t \in tasks, TaskDone(t)
      PROVE  IInv'
  BY <1>13 DEF TaskDone, Task
<1>14. ASSUME NEW w \in Workers, StartWorker(w)
      PROVE  IInv'
  BY <1>14 DEF StartWorker, Task
<1>15. ASSUME NEW w \in Workers, BeginDrain(w)
      PROVE  IInv'
  BY <1>15 DEF BeginDrain, Task
<1>16. ASSUME NEW w \in Workers, EndDrain(w)
      PROVE  IInv'
  BY <1>16 DEF EndDrain, Task
<1>17. ASSUME NEW w \in Workers, Crash(w)
      PROVE  IInv'
  BY <1>17 DEF Crash, TasksOf
<1>18. CASE UNCHANGED vars
  BY <1>18 DEF vars
<1>19. QED
  BY <1>1, <1>2, <1>3, <1>4, <1>5, <1>6, <1>7, <1>8, <1>9, <1>10, <1>11, <1>12,
     <1>13, <1>14, <1>15, <1>16, <1>17, <1>18
     DEF Next, Api, Time, Poll, TaskSteps, TaskEnds, Processes, CancelBuild, CancelAll,
         MarkSucceeded, MarkFailed, Requeue, ReleaseForShutdown

\* The inductive invariant holds in every reachable state of the queue.
THEOREM Invariance == Spec => []IInv
<1>1. Init => IInv
  BY JobQueueAssumption
     DEF Init, IInv, TypeOK, RunningIsLocked, ClaimsAreDistinct, LatestClaimHoldsLock,
         OneActiveBuild, NoOrphanRows, Status, Active, Terminal, Task
<1>2. IInv /\ [Next]_vars => IInv'
  BY TypeStep, LockStep DEF IInv
<1>3. QED
  BY <1>1, <1>2, PTL DEF Spec

\* The columns of build_jobs and the worker's sets keep their types.
THEOREM TypeCorrect == Spec => []TypeOK
<1>1. IInv => TypeOK
  BY DEF IInv
<1>2. QED
  BY <1>1, Invariance, PTL

\* However claims, reaps, drains and leftover tasks interleave, the latest claim of
\* a running row belongs to the worker that locks it.
THEOREM LatestClaim == Spec => []LatestClaimHoldsLock
<1>1. IInv => LatestClaimHoldsLock
  BY DEF IInv
<1>2. QED
  BY <1>1, Invariance, PTL

\* An expert never has two active builds, whoever enqueues, requeues or reaps.
THEOREM SingleBuild == Spec => []OneActiveBuild
<1>1. IInv => OneActiveBuild
  BY DEF IInv
<1>2. QED
  BY <1>1, Invariance, PTL

\* No statement moves a row that has ended, but the cascade of a deletion.
LEMMA TerminalStep ==
    ASSUME IInv, [Next]_vars
    PROVE  TerminalKept
<1> USE DEF IInv, TypeOK, table, Status, Active, Terminal, TerminalKept
<1>1. ASSUME NEW j \in Jobs, Enqueue(j)
      PROVE  TerminalKept
  BY <1>1 DEF Enqueue, ActiveBuild, Task
<1>2. ASSUME NEW S \in SUBSET Jobs, RequestCancel(S)
      PROVE  TerminalKept
  BY <1>2 DEF RequestCancel, Task
<1>3. ASSUME NEW e \in Experts, DeleteExpert(e)
      PROVE  TerminalKept
  BY <1>3 DEF DeleteExpert, Task
<1>4. ASSUME NEW j \in Jobs, BackoffElapses(j)
      PROVE  TerminalKept
  BY <1>4 DEF BackoffElapses, Task
<1>5. ASSUME NEW j \in Jobs, BeatGoesStale(j)
      PROVE  TerminalKept
  BY <1>5 DEF BeatGoesStale, Task
<1>6. ASSUME NEW w \in Workers, NEW j \in Jobs, Claim(w, j)
      PROVE  TerminalKept
  BY <1>6 DEF Claim, TasksOf, Task
<1>7. ASSUME NEW w \in Workers, Reap(w)
      PROVE  TerminalKept
  BY <1>7 DEF Reap, Reapable, Task
<1>8. ASSUME NEW t \in tasks, Beat(t)
      PROVE  TerminalKept
  BY <1>8 DEF Beat, Holds, Task
<1>9. ASSUME NEW t \in tasks, BeatLoopReturns(t)
      PROVE  TerminalKept
  BY <1>9 DEF BeatLoopReturns, Become, Task
<1>10. ASSUME NEW t \in tasks, NEW o \in {"succeeded", "failed"}, Finish(t, o)
      PROVE  TerminalKept
  BY <1>10 DEF Finish, Close, Become, Holds, Task
<1>11. ASSUME NEW t \in tasks, NEW b \in BOOLEAN, t.phase = "working", GiveBack(t, b)
      PROVE  TerminalKept
  BY <1>11 DEF GiveBack, Close, Become, Holds, Task
<1>12. ASSUME NEW t \in tasks, Abandon(t)
      PROVE  TerminalKept
  BY <1>12 DEF Abandon, Close, Become, Task
<1>13. ASSUME NEW t \in tasks, TaskDone(t)
      PROVE  TerminalKept
  BY <1>13 DEF TaskDone, Task
<1>14. ASSUME NEW w \in Workers, StartWorker(w)
      PROVE  TerminalKept
  BY <1>14 DEF StartWorker, Task
<1>15. ASSUME NEW w \in Workers, BeginDrain(w)
      PROVE  TerminalKept
  BY <1>15 DEF BeginDrain, Task
<1>16. ASSUME NEW w \in Workers, EndDrain(w)
      PROVE  TerminalKept
  BY <1>16 DEF EndDrain, Task
<1>17. ASSUME NEW w \in Workers, Crash(w)
      PROVE  TerminalKept
  BY <1>17 DEF Crash, TasksOf
<1>18. ASSUME UNCHANGED vars
       PROVE  TerminalKept
  BY <1>18 DEF vars
<1> HIDE DEF TerminalKept, TypeOK, IInv, table, Active, Terminal, Status
<1>19. QED
  BY <1>1, <1>2, <1>3, <1>4, <1>5, <1>6, <1>7, <1>8, <1>9, <1>10, <1>11, <1>12,
     <1>13, <1>14, <1>15, <1>16, <1>17, <1>18, JobQueueAssumption
     DEF Next, Api, Time, Poll, TaskSteps, TaskEnds, Processes, CancelBuild, CancelAll,
         MarkSucceeded, MarkFailed, Requeue, ReleaseForShutdown

\* A finished job stays as it finished: leftover tasks, reaps and second cancels
\* do not move it.
THEOREM FinalOutcome == Spec => TerminalIsFinal
<1>1. IInv /\ [Next]_vars => [TerminalKept]_vars
  BY TerminalStep
<1>2. QED
  BY <1>1, Invariance, PTL DEF Spec, TerminalIsFinal

\* Only a task of the lock's holder ends or gives back a row that is beaten for.
LEMMA FreshLockStep ==
    ASSUME IInv, [Next]_vars
    PROVE  FreshLockKept
<1> USE DEF IInv, TypeOK, table, Status, Active, Terminal, FreshLockKept
<1>1. ASSUME NEW j \in Jobs, Enqueue(j)
      PROVE  FreshLockKept
  BY <1>1 DEF Enqueue, ActiveBuild, Task
<1>2. ASSUME NEW S \in SUBSET Jobs, RequestCancel(S)
      PROVE  FreshLockKept
  BY <1>2 DEF RequestCancel, Task
<1>3. ASSUME NEW e \in Experts, DeleteExpert(e)
      PROVE  FreshLockKept
  BY <1>3 DEF DeleteExpert, Task
<1>4. ASSUME NEW j \in Jobs, BackoffElapses(j)
      PROVE  FreshLockKept
  BY <1>4 DEF BackoffElapses, Task
<1>5. ASSUME NEW j \in Jobs, BeatGoesStale(j)
      PROVE  FreshLockKept
  BY <1>5 DEF BeatGoesStale, Task
<1>6. ASSUME NEW w \in Workers, NEW j \in Jobs, Claim(w, j)
      PROVE  FreshLockKept
  BY <1>6 DEF Claim, TasksOf, Task
<1>7. ASSUME NEW w \in Workers, Reap(w)
      PROVE  FreshLockKept
  BY <1>7 DEF Reap, Reapable, Task
<1>8. ASSUME NEW t \in tasks, Beat(t)
      PROVE  FreshLockKept
  BY <1>8 DEF Beat, Holds, Task
<1>9. ASSUME NEW t \in tasks, BeatLoopReturns(t)
      PROVE  FreshLockKept
  BY <1>9 DEF BeatLoopReturns, Become, Task
<1>10. ASSUME NEW t \in tasks, NEW o \in {"succeeded", "failed"}, Finish(t, o)
      PROVE  FreshLockKept
  BY <1>10 DEF Finish, Close, Become, Holds, Task
<1>11. ASSUME NEW t \in tasks, NEW b \in BOOLEAN, t.phase = "working", GiveBack(t, b)
      PROVE  FreshLockKept
  BY <1>11 DEF GiveBack, Close, Become, Holds, Task
<1>12. ASSUME NEW t \in tasks, Abandon(t)
      PROVE  FreshLockKept
  BY <1>12 DEF Abandon, Close, Become, Task
<1>13. ASSUME NEW t \in tasks, TaskDone(t)
      PROVE  FreshLockKept
  BY <1>13 DEF TaskDone, Task
<1>14. ASSUME NEW w \in Workers, StartWorker(w)
      PROVE  FreshLockKept
  BY <1>14 DEF StartWorker, Task
<1>15. ASSUME NEW w \in Workers, BeginDrain(w)
      PROVE  FreshLockKept
  BY <1>15 DEF BeginDrain, Task
<1>16. ASSUME NEW w \in Workers, EndDrain(w)
      PROVE  FreshLockKept
  BY <1>16 DEF EndDrain, Task
<1>17. ASSUME NEW w \in Workers, Crash(w)
      PROVE  FreshLockKept
  BY <1>17 DEF Crash, TasksOf
<1>18. ASSUME UNCHANGED vars
       PROVE  FreshLockKept
  BY <1>18 DEF vars
<1> HIDE DEF FreshLockKept, TypeOK, IInv, table, Active, Terminal, Status
<1>19. QED
  BY <1>1, <1>2, <1>3, <1>4, <1>5, <1>6, <1>7, <1>8, <1>9, <1>10, <1>11, <1>12,
     <1>13, <1>14, <1>15, <1>16, <1>17, <1>18, JobQueueAssumption
     DEF Next, Api, Time, Poll, TaskSteps, TaskEnds, Processes, CancelBuild, CancelAll,
         MarkSucceeded, MarkFailed, Requeue, ReleaseForShutdown

\* A job with a fresh beat is moved by its lock holder or by nobody.
THEOREM FreshLock == Spec => FreshLockIsRespected
<1>1. IInv /\ [Next]_vars => [FreshLockKept]_vars
  BY FreshLockStep
<1>2. QED
  BY <1>1, Invariance, PTL DEF Spec, FreshLockIsRespected

\* Each statement is a step of the job life cycle, or changes nothing there.
LEMMA LifecycleStep ==
    ASSUME IInv, IInv', [Next]_vars
    PROVE  [Lifecycle!Next]_Lifecycle!vars
<1> USE DEF TypeOK, table, Status, Active, Terminal
<1> DEFINE Allowed(j) == Lifecycle!Moved(j) \/ Lifecycle!Kept(j)
<1>a. TypeOK /\ TypeOK'
  BY DEF IInv
<1> USE <1>a DEF Lifecycle!Moved, Lifecycle!Kept, Lifecycle!Edges, Lifecycle!Active,
            Lifecycle!Terminal
<1>1. ASSUME NEW j \in Jobs, Enqueue(j)
      PROVE  \A i \in Jobs : Allowed(i)
  BY <1>1 DEF Enqueue, ActiveBuild, Task
<1>2. ASSUME NEW S \in SUBSET Jobs, RequestCancel(S)
      PROVE  \A i \in Jobs : Allowed(i)
  BY <1>2 DEF RequestCancel, Task
<1>3. ASSUME NEW e \in Experts, DeleteExpert(e)
      PROVE  \A i \in Jobs : Allowed(i)
  BY <1>3 DEF DeleteExpert, Task
<1>4. ASSUME NEW j \in Jobs, BackoffElapses(j)
      PROVE  \A i \in Jobs : Allowed(i)
  BY <1>4 DEF BackoffElapses, Task
<1>5. ASSUME NEW j \in Jobs, BeatGoesStale(j)
      PROVE  \A i \in Jobs : Allowed(i)
  BY <1>5 DEF BeatGoesStale, Task
<1>6. ASSUME NEW w \in Workers, NEW j \in Jobs, Claim(w, j)
      PROVE  \A i \in Jobs : Allowed(i)
  BY <1>6 DEF Claim, TasksOf, Task
<1>7. ASSUME NEW w \in Workers, Reap(w)
      PROVE  \A i \in Jobs : Allowed(i)
  BY <1>7 DEF Reap, Reapable, Task
<1>8. ASSUME NEW t \in tasks, Beat(t)
      PROVE  \A i \in Jobs : Allowed(i)
  BY <1>8 DEF Beat, Holds, Task
<1>9. ASSUME NEW t \in tasks, BeatLoopReturns(t)
      PROVE  \A i \in Jobs : Allowed(i)
  BY <1>9 DEF BeatLoopReturns, Become, Task
<1>10. ASSUME NEW t \in tasks, NEW o \in {"succeeded", "failed"}, Finish(t, o)
      PROVE  \A i \in Jobs : Allowed(i)
  BY <1>10 DEF Finish, Close, Become, Holds, Task
<1>11. ASSUME NEW t \in tasks, NEW b \in BOOLEAN, t.phase = "working", GiveBack(t, b)
      PROVE  \A i \in Jobs : Allowed(i)
  BY <1>11 DEF GiveBack, Close, Become, Holds, Task
<1>12. ASSUME NEW t \in tasks, Abandon(t)
      PROVE  \A i \in Jobs : Allowed(i)
  BY <1>12 DEF Abandon, Close, Become, Task
<1>13. ASSUME NEW t \in tasks, TaskDone(t)
      PROVE  \A i \in Jobs : Allowed(i)
  BY <1>13 DEF TaskDone, Task
<1>14. ASSUME NEW w \in Workers, StartWorker(w)
      PROVE  \A i \in Jobs : Allowed(i)
  BY <1>14 DEF StartWorker, Task
<1>15. ASSUME NEW w \in Workers, BeginDrain(w)
      PROVE  \A i \in Jobs : Allowed(i)
  BY <1>15 DEF BeginDrain, Task
<1>16. ASSUME NEW w \in Workers, EndDrain(w)
      PROVE  \A i \in Jobs : Allowed(i)
  BY <1>16 DEF EndDrain, Task
<1>17. ASSUME NEW w \in Workers, Crash(w)
      PROVE  \A i \in Jobs : Allowed(i)
  BY <1>17 DEF Crash, TasksOf
<1>18. ASSUME UNCHANGED vars
       PROVE  \A i \in Jobs : Allowed(i)
  BY <1>18 DEF vars
<1>19. \A i \in Jobs : Allowed(i)
  <2> HIDE DEF Allowed, TypeOK, table, Active, Terminal, Status
  <2>1. QED
    BY <1>1, <1>2, <1>3, <1>4, <1>5, <1>6, <1>7, <1>8, <1>9, <1>10, <1>11, <1>12,
       <1>13, <1>14, <1>15, <1>16, <1>17, <1>18, JobQueueAssumption
       DEF Next, Api, Time, Poll, TaskSteps, TaskEnds, Processes, CancelBuild, CancelAll,
           MarkSucceeded, MarkFailed, Requeue, ReleaseForShutdown
<1>20. status' \in [Jobs -> Lifecycle!Status] /\ attempts' \in [Jobs -> Nat]
  BY DEF Lifecycle!Status
<1>21. \A i, j \in Jobs :
          Lifecycle!SameExpertBuilds(i, j)
            => ~(status'[i] \in Active /\ status'[j] \in Active)
  BY DEF IInv, OneActiveBuild, Lifecycle!SameExpertBuilds
<1>22. QED
  BY <1>19, <1>20, <1>21 DEF Lifecycle!Next

\* The queue implements the job life cycle: its initial states are initial states
\* there, each of its steps is a step or a stutter there.
THEOREM Implementation == Spec => ImplementsLifecycle
<1>1. Init => Lifecycle!Init
  BY DEF Init, Lifecycle!Init
<1>2. IInv /\ IInv' /\ [Next]_vars => [Lifecycle!Next]_Lifecycle!vars
  BY LifecycleStep
<1>3. QED
  BY <1>1, <1>2, Invariance, PTL DEF Spec, ImplementsLifecycle, Lifecycle!Spec
=============================================================================
