---------------------------- MODULE CreditLedger ----------------------------
(***************************************************************************)
(* The credit ledger (billing/repository.py, tables accounts and           *)
(* credit_ledger), one SQL statement per step.                             *)
(*                                                                         *)
(* Every call is one READ COMMITTED transaction: a statement reads what is *)
(* committed when it starts, a row written is pending until the commit,    *)
(* and a transaction that fails leaves nothing.  The foreign keys of the   *)
(* ledger matter: inserting a row share-locks the account and the job it   *)
(* names, so it waits for a FOR UPDATE of the account and holds up the     *)
(* deletion of the job.                                                    *)
(*                                                                         *)
(* A balance is the SUM(delta) of the owner's committed rows.  Credits are *)
(* enforced (CREDITS_ENFORCED), and whoever asks for a hold has ensured    *)
(* the account before (authorize_build).                                   *)
(***************************************************************************)
EXTENDS Integers

CONSTANTS
    Owners, Jobs,
    OwnerOf,       \* the owner of each job's expert
    HoldCalls,     \* calls of hold_for_job, ...
    RefundCalls,   \* ... of refund_job, ...
    GrantCalls,    \* ... of grant, ...
    EnsureCalls,   \* ... and of ensure_account
    JobOf,         \* the job of each hold and refund call
    AccountOf,     \* the owner of each grant and ensure call
    Price,         \* the credits each hold call asks for
    Amount,        \* the credits of each grant; negative to claw back
    Signup,        \* the credits of the default plan
    NoCall

Calls == HoldCalls \cup RefundCalls \cup GrantCalls \cup EnsureCalls

ASSUME CreditLedgerAssumption ==
    /\ OwnerOf \in [Jobs -> Owners]
    /\ JobOf \in [HoldCalls \cup RefundCalls -> Jobs]
    /\ AccountOf \in [GrantCalls \cup EnsureCalls -> Owners]
    /\ Price \in [HoldCalls -> Nat \ {0}]
    /\ Amount \in [GrantCalls -> Int]
    /\ Signup \in Nat
    /\ NoCall \notin Calls
    /\ HoldCalls \cap (RefundCalls \cup GrantCalls \cup EnsureCalls) = {}
    /\ RefundCalls \cap (GrantCalls \cup EnsureCalls) = {}
    /\ GrantCalls \cap EnsureCalls = {}

VARIABLES
    opened,    \* the owner has an accounts row
    signups,   \* how many signup grants the owner has had
    balance,   \* SUM(delta) of the owner's rows
    clawed,    \* what negative grants have taken from the owner (history only)
    jobRow,    \* the job exists; its ledger rows lose their job_id with it
    held,      \* the credits of the job's hold row; 0 without one
    holds,     \* how many hold rows name, or named, the job
    refunds,   \* how many refund rows
    locker,    \* the transaction that holds the owner's row FOR UPDATE
    at,        \* the next statement of each call
    wrote,     \* the call's transaction has written a row, not committed yet
    saw,       \* the balance a hold call has read
    returned   \* the credits a refund call has reported

ledger == <<opened, signups, balance, clawed, held, holds, refunds>>
vars   == <<ledger, jobRow, locker, at, wrote, saw, returned>>

Owner(c) == IF c \in HoldCalls \cup RefundCalls THEN OwnerOf[JobOf[c]] ELSE AccountOf[c]

Ended == {"done", "denied", "failed"}

Init ==
    /\ opened   = [o \in Owners |-> FALSE]
    /\ signups  = [o \in Owners |-> 0]
    /\ balance  = [o \in Owners |-> 0]
    /\ clawed   = [o \in Owners |-> 0]
    /\ jobRow   = [j \in Jobs |-> TRUE]
    /\ held     = [j \in Jobs |-> 0]
    /\ holds    = [j \in Jobs |-> 0]
    /\ refunds  = [j \in Jobs |-> 0]
    /\ locker   = [o \in Owners |-> NoCall]
    /\ at       = [c \in Calls |-> "idle"]
    /\ wrote    = [c \in Calls |-> FALSE]
    /\ saw      = [c \in HoldCalls |-> 0]
    /\ returned = [c \in RefundCalls |-> 0]

Go(c, to) == at' = [at EXCEPT ![c] = to]

\* A pending row of one of these calls is about this owner, or this job.
PendingOn(o, S)  == \E c \in S : wrote[c] /\ Owner(c) = o
PendingFor(j, S) == \E c \in S : wrote[c] /\ JobOf[c] = j

\* What a query by job_id finds.
HasHold(j)   == jobRow[j] /\ holds[j] > 0
HasRefund(j) == jobRow[j] /\ refunds[j] > 0

Release(c) ==
    locker' = [o \in Owners |-> IF locker[o] = c THEN NoCall ELSE locker[o]]

-----------------------------------------------------------------------------
(* hold_for_job *)

\* Mutant of LockAccount: the SELECT without FOR UPDATE.
ReadAccount(c) ==
    /\ at[c] = "idle" /\ opened[Owner(c)]
    /\ Go(c, "existing")
    /\ UNCHANGED <<ledger, jobRow, locker, wrote, saw, returned>>

\* SELECT ... FOR UPDATE waits for other lockers and for pending inserts.
LockAccount(c) ==
    /\ at[c] = "idle" /\ opened[Owner(c)]
    /\ locker[Owner(c)] = NoCall
    /\ ~PendingOn(Owner(c), Calls)
    /\ locker' = [locker EXCEPT ![Owner(c)] = c]
    /\ Go(c, "existing")
    /\ UNCHANGED <<ledger, jobRow, wrote, saw, returned>>

ReadExisting(c) ==
    /\ at[c] = "existing"
    /\ Go(c, IF HasHold(JobOf[c]) THEN "commit" ELSE "balance")
    /\ UNCHANGED <<ledger, jobRow, locker, wrote, saw, returned>>

\* Mutant of ReadBalance: a denial leaves the transaction open.
ReadBalanceAndLeave(c) ==
    /\ at[c] = "balance"
    /\ saw' = [saw EXCEPT ![c] = balance[Owner(c)]]
    /\ Go(c, IF balance[Owner(c)] < Price[c] THEN "denied" ELSE "insert")
    /\ UNCHANGED <<ledger, jobRow, locker, wrote, returned>>

\* The sum, and the test that denies the hold.
ReadBalance(c) ==
    /\ at[c] = "balance"
    /\ saw' = [saw EXCEPT ![c] = balance[Owner(c)]]
    /\ IF balance[Owner(c)] < Price[c]
       THEN Go(c, "denied") /\ Release(c)
       ELSE Go(c, "insert") /\ UNCHANGED locker
    /\ UNCHANGED <<ledger, jobRow, wrote, returned>>

\* ON CONFLICT DO NOTHING against idx_credit_ledger_one_hold; a deleted job
\* fails the foreign key instead.
InsertHold(c) ==
    /\ at[c] = "insert" /\ jobRow[JobOf[c]]
    /\ ~PendingFor(JobOf[c], HoldCalls)
    /\ wrote' = [wrote EXCEPT ![c] = ~HasHold(JobOf[c])]
    /\ Go(c, "commit")
    /\ UNCHANGED <<ledger, jobRow, locker, saw, returned>>

CommitHold(c) ==
    LET j == JobOf[c] IN
    /\ at[c] = "commit"
    /\ IF wrote[c]
       THEN /\ held' = [held EXCEPT ![j] = Price[c]]
            /\ holds' = [holds EXCEPT ![j] = @ + 1]
            /\ balance' = [balance EXCEPT ![Owner(c)] = @ - Price[c]]
       ELSE UNCHANGED <<held, holds, balance>>
    /\ wrote' = [wrote EXCEPT ![c] = FALSE]
    /\ Release(c)
    /\ Go(c, "done")
    /\ UNCHANGED <<opened, signups, clawed, refunds, jobRow, saw, returned>>

HoldStep(c) ==
    LockAccount(c) \/ ReadExisting(c) \/ ReadBalance(c) \/ InsertHold(c) \/ CommitHold(c)

-----------------------------------------------------------------------------
(* refund_job: no lock, the index alone decides between two of them. *)

ReadHold(c) ==
    /\ at[c] = "idle"
    /\ Go(c, IF HasHold(JobOf[c]) THEN "already" ELSE "done")
    /\ UNCHANGED <<ledger, jobRow, locker, wrote, saw, returned>>

ReadRefund(c) ==
    /\ at[c] = "already"
    /\ Go(c, IF HasRefund(JobOf[c]) THEN "done" ELSE "insert")
    /\ UNCHANGED <<ledger, jobRow, locker, wrote, saw, returned>>

\* Mutant of InsertRefund: the index is not there.
InsertRefundAnyway(c) ==
    /\ at[c] = "insert" /\ jobRow[JobOf[c]]
    /\ locker[Owner(c)] = NoCall
    /\ wrote' = [wrote EXCEPT ![c] = TRUE]
    /\ Go(c, "commit")
    /\ UNCHANGED <<ledger, jobRow, locker, saw, returned>>

\* ON CONFLICT DO NOTHING waits for a pending row of the same key.
InsertRefund(c) ==
    /\ at[c] = "insert" /\ jobRow[JobOf[c]]
    /\ locker[Owner(c)] = NoCall
    /\ ~PendingFor(JobOf[c], RefundCalls)
    /\ wrote' = [wrote EXCEPT ![c] = ~HasRefund(JobOf[c])]
    /\ Go(c, "commit")
    /\ UNCHANGED <<ledger, jobRow, locker, saw, returned>>

\* The amount is returned whether or not this call's row went in.
CommitRefund(c) ==
    LET j == JobOf[c] IN
    /\ at[c] = "commit"
    /\ IF wrote[c]
       THEN /\ refunds' = [refunds EXCEPT ![j] = @ + 1]
            /\ balance' = [balance EXCEPT ![Owner(c)] = @ + held[j]]
       ELSE UNCHANGED <<refunds, balance>>
    /\ wrote' = [wrote EXCEPT ![c] = FALSE]
    /\ returned' = [returned EXCEPT ![c] = held[j]]
    /\ Go(c, "done")
    /\ UNCHANGED <<opened, signups, clawed, held, holds, jobRow, locker, saw>>

RefundStep(c) == ReadHold(c) \/ ReadRefund(c) \/ InsertRefund(c) \/ CommitRefund(c)

-----------------------------------------------------------------------------
(* grant and ensure_account *)

InsertGrant(c) ==
    /\ at[c] = "idle" /\ opened[Owner(c)]
    /\ locker[Owner(c)] = NoCall
    /\ wrote' = [wrote EXCEPT ![c] = TRUE]
    /\ Go(c, "commit")
    /\ UNCHANGED <<ledger, jobRow, locker, saw, returned>>

CommitGrant(c) ==
    /\ at[c] = "commit"
    /\ balance' = [balance EXCEPT ![Owner(c)] = @ + Amount[c]]
    /\ clawed' = [clawed EXCEPT ![Owner(c)] = @ + (IF Amount[c] < 0 THEN -Amount[c] ELSE 0)]
    /\ wrote' = [wrote EXCEPT ![c] = FALSE]
    /\ Go(c, "done")
    /\ UNCHANGED <<opened, signups, held, holds, refunds, jobRow, locker, saw, returned>>

GrantStep(c) == InsertGrant(c) \/ CommitGrant(c)

\* Mutant of InsertAccount: the insert does not wait for one that is pending.
InsertAccountAtOnce(c) ==
    /\ at[c] = "idle"
    /\ IF opened[Owner(c)]
       THEN Go(c, "done") /\ UNCHANGED wrote
       ELSE Go(c, "commit") /\ wrote' = [wrote EXCEPT ![c] = TRUE]
    /\ UNCHANGED <<ledger, jobRow, locker, saw, returned>>

\* The account and its welcome grant, in one transaction; nothing when the
\* account is there, however often its owner signs in.
InsertAccount(c) ==
    /\ at[c] = "idle"
    /\ ~PendingOn(Owner(c), EnsureCalls)
    /\ IF opened[Owner(c)]
       THEN Go(c, "done") /\ UNCHANGED wrote
       ELSE Go(c, "commit") /\ wrote' = [wrote EXCEPT ![c] = TRUE]
    /\ UNCHANGED <<ledger, jobRow, locker, saw, returned>>

CommitAccount(c) ==
    /\ at[c] = "commit"
    /\ opened' = [opened EXCEPT ![Owner(c)] = TRUE]
    /\ signups' = [signups EXCEPT ![Owner(c)] = @ + 1]
    /\ balance' = [balance EXCEPT ![Owner(c)] = @ + Signup]
    /\ wrote' = [wrote EXCEPT ![c] = FALSE]
    /\ Go(c, "done")
    /\ UNCHANGED <<clawed, held, holds, refunds, jobRow, locker, saw, returned>>

EnsureStep(c) == InsertAccount(c) \/ CommitAccount(c)

-----------------------------------------------------------------------------
\* The connection is lost, or a foreign key refuses the insert.
Rollback(c) ==
    /\ at[c] \notin {"idle"} \cup Ended
    /\ wrote' = [wrote EXCEPT ![c] = FALSE]
    /\ Release(c)
    /\ Go(c, "failed")
    /\ UNCHANGED <<ledger, jobRow, saw, returned>>

\* The expert is deleted, its jobs with it: ON DELETE SET NULL on the ledger.
DeleteJob(j) ==
    /\ jobRow[j]
    /\ ~PendingFor(j, HoldCalls \cup RefundCalls)
    /\ jobRow' = [jobRow EXCEPT ![j] = FALSE]
    /\ UNCHANGED <<ledger, locker, at, wrote, saw, returned>>

Step(c) ==
    \/ c \in HoldCalls   /\ HoldStep(c)
    \/ c \in RefundCalls /\ RefundStep(c)
    \/ c \in GrantCalls  /\ GrantStep(c)
    \/ c \in EnsureCalls /\ EnsureStep(c)

Next ==
    \/ \E c \in Calls : Step(c) \/ Rollback(c)
    \/ \E j \in Jobs : DeleteJob(j)

Spec == Init /\ [][Next]_vars

\* A statement is refused only by a foreign key, for a job deleted meanwhile.
Refused(c) == c \in HoldCalls \cup RefundCalls /\ at[c] = "insert" /\ ~jobRow[JobOf[c]]

\* The database runs every statement that does not have to wait.
FairSpec == Spec /\ \A c \in Calls : WF_vars(Step(c)) /\ WF_vars(Refused(c) /\ Rollback(c))

-----------------------------------------------------------------------------
(* Properties. *)

\* Every variable has its type.
TypeOK ==
    /\ opened \in [Owners -> BOOLEAN]
    /\ signups \in [Owners -> Nat]
    /\ balance \in [Owners -> Int]
    /\ clawed \in [Owners -> Nat]
    /\ jobRow \in [Jobs -> BOOLEAN]
    /\ held \in [Jobs -> Nat]
    /\ holds \in [Jobs -> Nat]
    /\ refunds \in [Jobs -> Nat]
    /\ locker \in [Owners -> HoldCalls \cup {NoCall}]
    /\ at \in [Calls -> {"idle", "existing", "balance", "already", "insert", "commit"}
                         \cup Ended]
    /\ wrote \in [Calls -> BOOLEAN]
    /\ saw \in [HoldCalls -> Int]
    /\ returned \in [RefundCalls -> Nat]

\* Holds, refunds and grants that run at once never spend credits the owner does
\* not have: a balance is below zero only by what was clawed back.
NeverOverdrawn == \A o \in Owners : balance[o] + clawed[o] >= 0

\* A job is charged at most once and refunded at most once, and refunded only if
\* charged, whoever asks, how often, and whatever becomes of the job.
ChargedOnce == \A j \in Jobs : refunds[j] <= holds[j] /\ holds[j] <= 1

\* The welcome credits are granted once, at the first of any number of sign-ins.
SignupOnce == \A o \in Owners : signups[o] <= 1

\* The lock is worth something: from the balance a hold has read to the row it
\* writes, nobody else's row is committed.
ReadIsCurrent ==
    \A c \in HoldCalls :
        /\ at[c] \in {"existing", "balance", "insert", "commit"} => locker[Owner(c)] = c
        /\ at[c] = "insert" \/ wrote[c] =>
               /\ saw[c] = balance[Owner(c)]
               /\ Price[c] <= saw[c]

\* What else the proofs use; with the properties above it is inductive.
\* A row is pending only up to the commit, and, while an account is locked,
\* only its locker has one on it.
PendingRows ==
    /\ \A c \in Calls : wrote[c] => at[c] = "commit"
    /\ \A c \in GrantCalls \cup EnsureCalls : at[c] = "commit" => wrote[c]
    /\ \A c \in Calls : wrote[c] => locker[Owner(c)] \in {c, NoCall}
    /\ \A o \in Owners : locker[o] # NoCall => opened[o]

\* A pending hold, refund or account is the first, and the only one.
PendingIsFirst ==
    /\ \A c \in HoldCalls : wrote[c] => holds[JobOf[c]] = 0
    /\ \A c \in RefundCalls :
           /\ at[c] \in {"already", "insert", "commit"} => holds[JobOf[c]] = 1
           /\ wrote[c] => refunds[JobOf[c]] = 0
    /\ \A c \in EnsureCalls : wrote[c] => ~opened[Owner(c)]
    /\ \A o \in Owners : ~opened[o] => signups[o] = 0
    /\ \A S \in {HoldCalls, RefundCalls} : \A c, d \in S :
           wrote[c] /\ wrote[d] /\ JobOf[c] = JobOf[d] => c = d
    /\ \A c, d \in EnsureCalls :
           wrote[c] /\ wrote[d] /\ Owner(c) = Owner(d) => c = d

IInv ==
    /\ TypeOK /\ NeverOverdrawn /\ ChargedOnce /\ SignupOnce
    /\ ReadIsCurrent /\ PendingRows /\ PendingIsFirst

\* No transaction waits for ever: the locks on accounts and the waits of the
\* unique indexes cannot form a cycle, and every end of a call lets its lock go.
EveryCallEnds == \A c \in Calls : at[c] # "idle" ~> at[c] \in Ended

-----------------------------------------------------------------------------
(* What the docstrings say, and the code does not always do. *)

\* refund_job: "Returns the number of credits refunded (0 if there was no hold, or
\* one was already refunded)."
ReportsWhatItRefunds ==
    \A c, d \in RefundCalls :
        c # d /\ JobOf[c] = JobOf[d] => returned[c] = 0 \/ returned[d] = 0

\* EntitlementService.refund_job: "permanent failure, user cancellation, or a
\* spend-cap abort alike" are refunded in full.
RefundIsNotGivenUp ==
    [][\A c \in RefundCalls :
           /\ at[c] = "idle" /\ at'[c] = "done"
           /\ holds[JobOf[c]] > 0
           => refunds[JobOf[c]] > 0]_vars
=============================================================================
