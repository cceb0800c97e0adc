------------------------------ MODULE EventTail -----------------------------
(***************************************************************************)
(* Watching a build: the durable log build_events, the SSE tail of the API *)
(* process (api/routes/experts.py) and a client that reconnects with the   *)
(* last sequence number it saw (web/hooks/use-build-events.ts).            *)
(*                                                                         *)
(* The writers are the worker of a job, which appends its terminal event   *)
(* before it ends the row, the cancel route, which ends the row first, and *)
(* the reaper, which appends nothing.  An INSERT takes its seq when it     *)
(* runs and is seen when it commits.                                       *)
(***************************************************************************)
EXTENDS Naturals, Sequences, FiniteSets, FiniteSetsExt

CONSTANTS
    Jobs,        \* 1..n: jobs of one expert, builds or ingests, in the order of their ids
    MaxEvents,   \* bound: progress events per job
    Limit,       \* how many events one read returns (500)
    MaxDrops,    \* bound: how often the connection is lost
    Reaps,       \* BOOLEAN: the reaper fails an exhausted job
    Skews        \* BOOLEAN: two INSERTs may commit in the other order

ASSUME EventTailAssumption ==
    /\ Jobs \in SUBSET Nat /\ IsFiniteSet(Jobs)
    /\ MaxEvents \in Nat /\ MaxDrops \in Nat /\ Limit \in Nat \ {0}
    /\ {Reaps, Skews} \subseteq BOOLEAN

VARIABLES
    state,     \* the row of each job: "absent", "active", "ended"
    writers,   \* who may still append to its log
    pending,   \* INSERTs with their seq, not committed
    log,       \* the committed rows of build_events
    nextSeq,   \* the sequence build_events.seq is drawn from
    conn,      \* the connection: "closed", or what the tail does next
    tailJob,   \* the job the connection tails
    cursor,    \* last_seq of the tail
    batch,     \* events read, not sent yet
    last,      \* the client's lastSeq
    got,       \* what the client received, in order
    told,      \* the client saw a terminal event
    drops      \* how many connections were lost

rows   == <<state, writers, pending, log, nextSeq>>
tail   == <<conn, tailJob, cursor, batch>>
client == <<last, got, told, drops>>
vars   == <<rows, tail, client>>

Event == [seq : Nat \ {0}, job : Jobs, type : {"progress", "terminal"}, by : {"worker", "route"}]

Init ==
    /\ state = [j \in Jobs |-> "absent"]
    /\ writers = [j \in Jobs |-> {}]
    /\ pending = {} /\ log = {} /\ nextSeq = 1
    /\ conn = "closed" /\ tailJob = 0 /\ cursor = 0 /\ batch = {}
    /\ last = 0 /\ got = <<>> /\ told = FALSE /\ drops = 0

Inserted == {j \in Jobs : state[j] # "absent"}

-----------------------------------------------------------------------------
(* The jobs and the log. *)

InsertJob(j) ==
    /\ state[j] = "absent" /\ \A i \in Jobs : i < j => i \in Inserted
    /\ state' = [state EXCEPT ![j] = "active"]
    /\ UNCHANGED <<writers, pending, log, nextSeq, tail, client>>

\* A worker claims the job.
Claim(j) ==
    /\ state[j] = "active" /\ writers[j] = {}
    /\ writers' = [writers EXCEPT ![j] = {"worker"}]
    /\ UNCHANGED <<state, pending, log, nextSeq, tail, client>>

\* A writer awaits one append before the next, and a terminal event is its last.
Insert(j, by, type) ==
    /\ by \in writers[j]
    /\ \A e \in log : ~ (e.job = j /\ e.by = by /\ e.type = "terminal")
    /\ \A e \in pending : Skews /\ <<e.job, e.by>> # <<j, by>>
    /\ pending' = pending \cup {[seq |-> nextSeq, job |-> j, type |-> type, by |-> by]}
    /\ nextSeq' = nextSeq + 1

AppendProgress(j) ==
    /\ Cardinality({e \in log : e.job = j /\ e.type = "progress"}) < MaxEvents
    /\ Insert(j, "worker", "progress")
    /\ UNCHANGED <<state, writers, log, tail, client>>

\* Its own outcome, or 'cancelled' once its heartbeat has found out.
WorkerAppendsTerminal(j) ==
    /\ Insert(j, "worker", "terminal")
    /\ UNCHANGED <<state, writers, log, tail, client>>

Commit(e) ==
    /\ pending' = pending \ {e}
    /\ log' = log \cup {e}
    /\ UNCHANGED <<state, nextSeq, tail, client>>
    /\ writers' = IF e.type = "terminal" /\ e.by = "route"
                  THEN [writers EXCEPT ![e.job] = @ \ {"route"}] ELSE writers

\* mark_succeeded or mark_failed, after the terminal event.
EndJob(j) ==
    /\ "worker" \in writers[j]
    /\ \E e \in log : e.job = j /\ e.type = "terminal" /\ e.by = "worker"
    /\ state' = [state EXCEPT ![j] = "ended"]
    /\ writers' = [writers EXCEPT ![j] = @ \ {"worker"}]
    /\ UNCHANGED <<pending, log, nextSeq, tail, client>>

\* request_cancel; the route's 'cancelled' event follows.
Cancel(j) ==
    /\ state[j] = "active"
    /\ state' = [state EXCEPT ![j] = "ended"]
    /\ writers' = [writers EXCEPT ![j] = @ \cup {"route"}]
    /\ UNCHANGED <<pending, log, nextSeq, tail, client>>

RouteAppendsTerminal(j) ==
    /\ Insert(j, "route", "terminal")
    /\ UNCHANGED <<state, writers, log, tail, client>>

\* The worker is gone and its job out of attempts.
Reap(j) ==
    /\ Reaps /\ state[j] = "active"
    /\ \A e \in pending : e.job # j
    /\ state' = [state EXCEPT ![j] = "ended"]
    /\ writers' = [writers EXCEPT ![j] = {}]
    /\ UNCHANGED <<pending, log, nextSeq, tail, client>>

-----------------------------------------------------------------------------
(* The tail. *)

\* Mutant of Connect: a new connection starts from what the log now holds.
ConnectToNow ==
    /\ conn = "closed" /\ ~told /\ Inserted # {}
    /\ tailJob' = Max(Inserted)
    /\ cursor' = nextSeq - 1
    /\ conn' = "read"
    /\ UNCHANGED <<rows, batch, client>>

\* GET .../build/events?after=last: the expert's latest job, of either type.
Connect ==
    /\ conn = "closed" /\ ~told /\ Inserted # {}
    /\ tailJob' = Max(Inserted)
    /\ cursor' = last
    /\ conn' = "read"
    /\ UNCHANGED <<rows, batch, client>>

\* Mutant of Unsent: the event at the cursor is read again.
UnsentFromCursor == {e \in log : e.job = tailJob /\ e.seq >= cursor}

\* Mutant of Unsent: rows are read before their INSERT has committed.
UnsentUncommitted == {e \in log \cup pending : e.job = tailJob /\ e.seq > cursor}

Unsent == {e \in log : e.job = tailJob /\ e.seq > cursor}

\* read_events: the first Limit rows after the cursor.
Read ==
    /\ conn = "read"
    /\ batch' = {e \in Unsent : Cardinality({f \in Unsent : f.seq < e.seq}) < Limit}
    /\ conn' = IF Unsent = {} THEN "check" ELSE "send"
    /\ UNCHANGED <<rows, tailJob, cursor, client>>

\* Mutant of Send: the cursor of the client is that of the batch.
SendBatchCursor ==
    LET e == CHOOSE x \in batch : \A f \in batch : x.seq <= f.seq IN
    /\ conn = "send"
    /\ cursor' = Max({f.seq : f \in batch})
    /\ last' = Max({f.seq : f \in batch})
    /\ batch' = batch \ {e}
    /\ got' = Append(got, e)
    /\ told' = (e.type = "terminal")
    /\ conn' = IF told' THEN "closed" ELSE IF batch' = {} THEN "read" ELSE "send"
    /\ UNCHANGED <<rows, tailJob, drops>>

\* One frame out, and in at the client; a terminal event ends the stream.
Send ==
    LET e == CHOOSE x \in batch : \A f \in batch : x.seq <= f.seq IN
    /\ conn = "send"
    /\ cursor' = e.seq
    /\ last' = Max({last, e.seq})
    /\ batch' = batch \ {e}
    /\ got' = Append(got, e)
    /\ told' = (e.type = "terminal")
    /\ conn' = IF told' THEN "closed" ELSE IF batch' = {} THEN "read" ELSE "send"
    /\ UNCHANGED <<rows, tailJob, drops>>

\* Mutant of CheckJob: only a terminal event ends the stream.
CheckNothing ==
    /\ conn = "check"
    /\ conn' = "read"
    /\ UNCHANGED <<rows, tailJob, cursor, batch, client>>

\* get_job: stop if the job has ended, else sleep and read again.  What was
\* appended since the read is left to the client's next connection.
CheckJob ==
    /\ conn = "check"
    /\ conn' = IF state[tailJob] = "ended" THEN "closed" ELSE "read"
    /\ UNCHANGED <<rows, tailJob, cursor, batch, client>>

\* Either side, or anything between, loses the connection; the client is left
\* with what it received.
Drop ==
    /\ conn # "closed" /\ drops < MaxDrops
    /\ conn' = "closed" /\ batch' = {}
    /\ drops' = drops + 1
    /\ UNCHANGED <<rows, tailJob, cursor, last, got, told>>

-----------------------------------------------------------------------------
Ends(j) == Claim(j) \/ WorkerAppendsTerminal(j) \/ EndJob(j) \/ RouteAppendsTerminal(j)

Log ==
    \/ \E j \in Jobs :
          \/ InsertJob(j) \/ AppendProgress(j) \/ Cancel(j) \/ Reap(j)
          \/ Ends(j)
    \/ \E e \in pending : Commit(e)

Stream == Read \/ Send \/ CheckJob

Next == Log \/ Connect \/ Stream \/ Drop

Spec == Init /\ [][Next]_vars

\* A worker or a route that has begun ends its job, an INSERT commits, the tail
\* goes on and the client reconnects (1 s to 10 s later).
FairSpec ==
    /\ Spec
    /\ \A j \in Jobs : WF_vars(Ends(j))
    /\ WF_vars(\E e \in pending : Commit(e))
    /\ WF_vars(Connect) /\ WF_vars(Stream)

-----------------------------------------------------------------------------
(* Properties. *)

\* Every variable has its type.
TypeOK ==
    /\ state \in [Jobs -> {"absent", "active", "ended"}]
    /\ writers \in [Jobs -> SUBSET {"worker", "route"}]
    /\ pending \subseteq Event /\ log \subseteq Event /\ nextSeq \in Nat
    /\ conn \in {"closed", "read", "send", "check"}
    /\ tailJob \in Jobs \cup {0} /\ cursor \in Nat /\ batch \subseteq log
    /\ last \in Nat /\ got \in Seq(log) /\ told \in BOOLEAN /\ drops \in Nat

\* Across reconnects, job changes and INSERTs that commit out of order, the client
\* receives events in the order of their numbers and none of them twice.
InOrderAndOnce == \A i \in 1 .. Len(got) - 1 : got[i].seq < got[i + 1].seq

\* With one job, and INSERTs that commit in order, a client that reconnects misses
\* nothing: all that was committed up to its cursor it has received.
NothingSkipped ==
    \A e \in log : e.seq <= last => \E i \in 1 .. Len(got) : got[i] = e

\* The API process does not tail for ever: the stream of a job that has ended is
\* closed, whether the log has a terminal event or not.
StreamEnds == tailJob # 0 /\ state[tailJob] = "ended" ~> conn = "closed"

\* The end of a job reaches the client that watches it, once its event is in the log
\* ahead of the client: whatever connections are lost, and although the stream may
\* have been closed because the row had ended before the event was there.
EndIsTold ==
    \A j \in Jobs :
        (tailJob = j /\ \E e \in log : e.job = j /\ e.type = "terminal" /\ e.seq > last)
            ~> (told \/ tailJob # j)

\* What a client may rely on in the long run.
TailKeepsItsWord == StreamEnds /\ EndIsTold

-----------------------------------------------------------------------------
(* What documents and comments say, and the code does not always do. *)

\* The frontend treats a stream that closes as a build to reconnect to until its
\* terminal event: the job the client watches ends, and it is told.
ClientIsTold == (\E j \in Jobs : state[j] = "ended") ~> told

\* web/app/api/experts/[slug]/build/events/route.ts: "`after` is the last `seq` the
\* client saw, so a dropped connection resumes without replaying (or losing)
\* events" - of the job it was watching.
ResumeLosesNothing ==
    got # <<>> => \A e \in log :
                     e.job = got[1].job /\ e.seq <= last
                         => \E i \in 1 .. Len(got) : got[i] = e
=============================================================================
