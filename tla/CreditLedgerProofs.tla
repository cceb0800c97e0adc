------------------------ MODULE CreditLedgerProofs --------------------------
(***************************************************************************)
(* CreditLedger's invariants for any number of owners, jobs and calls.     *)
(* IInv is inductive: TypeStep and the steps of InvStep show it action     *)
(* by action, the theorems draw each property from it.                     *)
(***************************************************************************)
EXTENDS CreditLedger, TLAPS

\* Every call is about the ledger of some owner.
LEMMA OwnerType ==
    \A c \in Calls : Owner(c) \in Owners
  BY CreditLedgerAssumption DEF Owner, Calls

\* The invariant holds before any call.
LEMMA InitInv == Init => IInv
<1> SUFFICES ASSUME Init PROVE IInv
  OBVIOUS
<1> USE CreditLedgerAssumption DEF Init
<1>1. TypeOK
  BY DEF TypeOK, Ended
<1>2. NeverOverdrawn /\ ChargedOnce /\ SignupOnce
  BY DEF NeverOverdrawn, ChargedOnce, SignupOnce
<1>3. ReadIsCurrent /\ PendingRows /\ PendingIsFirst
  BY OwnerType DEF ReadIsCurrent, PendingRows, PendingIsFirst, Calls
<1>4. QED
  BY <1>1, <1>2, <1>3 DEF IInv

\* Every statement keeps the types of the tables and of the calls' own state.
LEMMA TypeStep ==
    ASSUME TypeOK, [Next]_vars
    PROVE  TypeOK'
<1> USE CreditLedgerAssumption, OwnerType DEF TypeOK, Ended, ledger
<1>1. ASSUME NEW c \in HoldCalls, HoldStep(c)
      PROVE  TypeOK'
  <2> USE DEF Calls, Go, Release
  <2>1. CASE LockAccount(c)   BY <2>1 DEF LockAccount
  <2>2. CASE ReadExisting(c)  BY <2>2 DEF ReadExisting
  <2>3. CASE ReadBalance(c)   BY <2>3 DEF ReadBalance
  <2>4. CASE InsertHold(c)
    <3>1. at' \in [Calls -> {"idle", "existing", "balance", "already", "insert", "commit"} \cup Ended]
      BY <2>4 DEF InsertHold
    <3>2. wrote' \in [Calls -> BOOLEAN]
      BY <2>4 DEF InsertHold, HasHold
    <3>3. QED
      BY <2>4, <3>1, <3>2 DEF InsertHold
  <2>5. CASE CommitHold(c)
    <3>1. /\ held' \in [Jobs -> Nat] /\ holds' \in [Jobs -> Nat] /\ balance' \in [Owners -> Int]
      BY <2>5 DEF CommitHold
    <3>2. locker' \in [Owners -> HoldCalls \cup {NoCall}] /\ wrote' \in [Calls -> BOOLEAN]
      BY <2>5 DEF CommitHold
    <3>3. at' \in [Calls -> {"idle", "existing", "balance", "already", "insert", "commit"} \cup Ended]
      BY <2>5 DEF CommitHold
    <3>4. QED
      BY <2>5, <3>1, <3>2, <3>3 DEF CommitHold
  <2>6. QED  BY <1>1, <2>1, <2>2, <2>3, <2>4, <2>5 DEF HoldStep
<1>2. ASSUME NEW c \in RefundCalls, RefundStep(c)
      PROVE  TypeOK'
  <2> USE DEF Calls, Go
  <2>1. CASE ReadHold(c)      BY <2>1 DEF ReadHold
  <2>2. CASE ReadRefund(c)    BY <2>2 DEF ReadRefund
  <2>3. CASE InsertRefund(c)
    <3>1. at' \in [Calls -> {"idle", "existing", "balance", "already", "insert", "commit"} \cup Ended]
      BY <2>3 DEF InsertRefund
    <3>2. wrote' \in [Calls -> BOOLEAN]
      BY <2>3 DEF InsertRefund, HasRefund
    <3>3. QED
      BY <2>3, <3>1, <3>2 DEF InsertRefund
  <2>4. CASE CommitRefund(c)
    <3>1. JobOf[c] \in Jobs /\ Owner(c) \in Owners /\ held[JobOf[c]] \in Nat
      BY DEF Owner
    <3>2. balance' \in [Owners -> Int] /\ refunds' \in [Jobs -> Nat]
      BY <2>4, <3>1 DEF CommitRefund
    <3>3. returned' \in [RefundCalls -> Nat]
      BY <2>4, <3>1 DEF CommitRefund
    <3>4. QED
      BY <2>4, <3>2, <3>3 DEF CommitRefund
  <2>5. QED  BY <1>2, <2>1, <2>2, <2>3, <2>4 DEF RefundStep
<1>3. ASSUME NEW c \in GrantCalls, GrantStep(c)
      PROVE  TypeOK'
  <2> USE DEF Calls, Go
  <2>1. CASE InsertGrant(c)   BY <2>1 DEF InsertGrant
  <2>2. CASE CommitGrant(c)   BY <2>2 DEF CommitGrant
  <2>3. QED  BY <1>3, <2>1, <2>2 DEF GrantStep
<1>4. ASSUME NEW c \in EnsureCalls, EnsureStep(c)
      PROVE  TypeOK'
  <2> USE DEF Calls, Go
  <2>1. CASE InsertAccount(c)
    <3>1. at' \in [Calls -> {"idle", "existing", "balance", "already", "insert", "commit"} \cup Ended]
      BY <2>1 DEF InsertAccount
    <3>2. wrote' \in [Calls -> BOOLEAN]
      BY <2>1 DEF InsertAccount
    <3>3. QED
      BY <2>1, <3>1, <3>2 DEF InsertAccount
  <2>2. CASE CommitAccount(c) BY <2>2 DEF CommitAccount
  <2>3. QED  BY <1>4, <2>1, <2>2 DEF EnsureStep
<1>5. ASSUME NEW c \in Calls, Rollback(c)
      PROVE  TypeOK'
  BY <1>5 DEF Rollback, Go, Release
<1>6. ASSUME NEW j \in Jobs, DeleteJob(j)
      PROVE  TypeOK'
  BY <1>6 DEF DeleteJob
<1>7. CASE UNCHANGED vars
  BY <1>7 DEF vars
<1>8. QED
  BY <1>1, <1>2, <1>3, <1>4, <1>5, <1>6, <1>7 DEF Next, Step

\* Every statement of every call keeps the invariant.
LEMMA InvStep ==
    ASSUME IInv, [Next]_vars
    PROVE  IInv'
<1>1. TypeOK'
  BY TypeStep DEF IInv
<1> USE CreditLedgerAssumption, OwnerType, <1>1 DEF IInv, Calls, Go, ledger
<1>2. ASSUME NEW c \in HoldCalls, LockAccount(c)
      PROVE  IInv'
  <2>1. NeverOverdrawn' /\ ChargedOnce' /\ SignupOnce'
    BY <1>2 DEF LockAccount, NeverOverdrawn, ChargedOnce, SignupOnce
  <2>2. ReadIsCurrent'
    BY <1>2 DEF LockAccount, ReadIsCurrent, PendingRows, TypeOK
  <2>3. PendingRows'
    BY <1>2 DEF LockAccount, PendingOn, PendingRows, TypeOK
  <2>4. PendingIsFirst'
    BY <1>2 DEF LockAccount, PendingOn, PendingIsFirst, TypeOK
  <2> QED
    BY <2>1, <2>2, <2>3, <2>4
<1>3. ASSUME NEW c \in HoldCalls, ReadExisting(c)
      PROVE  IInv'
  <2>1. NeverOverdrawn' /\ ChargedOnce' /\ SignupOnce'
    BY <1>3 DEF ReadExisting, NeverOverdrawn, ChargedOnce, SignupOnce
  <2>2. ReadIsCurrent'
    BY <1>3 DEF ReadExisting, ReadIsCurrent, PendingRows, TypeOK
  <2>3. PendingRows'
    BY <1>3 DEF ReadExisting, PendingRows, TypeOK
  <2>4. PendingIsFirst'
    BY <1>3 DEF ReadExisting, HasHold, PendingIsFirst, TypeOK
  <2> QED
    BY <2>1, <2>2, <2>3, <2>4
<1>4. ASSUME NEW c \in HoldCalls, ReadBalance(c)
      PROVE  IInv'
  <2>1. NeverOverdrawn' /\ ChargedOnce' /\ SignupOnce'
    BY <1>4 DEF ReadBalance, NeverOverdrawn, ChargedOnce, SignupOnce
  <2>2. ReadIsCurrent'
    BY <1>4 DEF ReadBalance, Release, ReadIsCurrent, PendingRows, TypeOK
  <2>3. PendingRows'
    BY <1>4 DEF ReadBalance, Release, PendingRows, TypeOK
  <2>4. PendingIsFirst'
    BY <1>4 DEF ReadBalance, Release, PendingIsFirst, TypeOK
  <2> QED
    BY <2>1, <2>2, <2>3, <2>4
<1>5. ASSUME NEW c \in HoldCalls, InsertHold(c)
      PROVE  IInv'
  <2>1. NeverOverdrawn' /\ ChargedOnce' /\ SignupOnce'
    BY <1>5 DEF InsertHold, NeverOverdrawn, ChargedOnce, SignupOnce
  <2>2. ReadIsCurrent'
    BY <1>5 DEF InsertHold, ReadIsCurrent, PendingRows, TypeOK
  <2>3. PendingRows'
    BY <1>5 DEF InsertHold, PendingFor, PendingRows, ReadIsCurrent, TypeOK
  <2>4. PendingIsFirst'
    BY <1>5 DEF InsertHold, HasHold, PendingFor, PendingIsFirst, TypeOK
  <2> QED
    BY <2>1, <2>2, <2>3, <2>4
<1>6. ASSUME NEW c \in HoldCalls, CommitHold(c)
      PROVE  IInv'
  <2>1. NeverOverdrawn'
    <3>1. CASE wrote[c]
      <4>1. Price[c] <= balance[Owner(c)]
        BY <1>6, <3>1 DEF ReadIsCurrent
      <4>2. UNCHANGED clawed /\ balance' = [balance EXCEPT ![Owner(c)] = @ - Price[c]]
        BY <1>6, <3>1 DEF CommitHold
      <4>3. Price[c] \in Nat /\ balance[Owner(c)] \in Int /\ clawed[Owner(c)] \in Nat
        BY <1>6 DEF TypeOK
      <4>4. balance[Owner(c)] - Price[c] + clawed[Owner(c)] >= 0
        BY <4>1, <4>3
      <4>5. \A o \in Owners :
               balance'[o] = IF o = Owner(c) THEN balance[o] - Price[c] ELSE balance[o]
        BY <4>2 DEF TypeOK
      <4>6. QED
        BY <4>2, <4>4, <4>5 DEF NeverOverdrawn
    <3>2. CASE ~wrote[c]
      BY <1>6, <3>2 DEF CommitHold, NeverOverdrawn
    <3>3. QED
      BY <3>1, <3>2
  <2>2. ChargedOnce'
    <3>1. CASE wrote[c]
      <4>1. holds' = [holds EXCEPT ![JobOf[c]] = @ + 1] /\ UNCHANGED refunds
        BY <1>6, <3>1 DEF CommitHold
      <4>2. holds[JobOf[c]] = 0
        BY <3>1 DEF PendingIsFirst
      <4>3. \A j \in Jobs : /\ refunds[j] <= holds[j] /\ holds[j] <= 1
                            /\ refunds[j] \in Nat /\ holds[j] \in Nat
        BY DEF ChargedOnce, TypeOK
      <4>4. \A j \in Jobs : holds'[j] = IF j = JobOf[c] THEN 1 ELSE holds[j]
        BY <4>1, <4>2 DEF TypeOK
      <4>5. QED
        BY <4>1, <4>2, <4>3, <4>4 DEF ChargedOnce
    <3>2. CASE ~wrote[c]
      BY <1>6, <3>2 DEF CommitHold, ChargedOnce
    <3>3. QED
      BY <3>1, <3>2
  <2>3. SignupOnce'
    BY <1>6 DEF CommitHold, SignupOnce
  <2>4. ReadIsCurrent'
    BY <1>6 DEF CommitHold, Release, ReadIsCurrent, PendingRows, TypeOK
  <2>5. PendingRows'
    BY <1>6 DEF CommitHold, Release, PendingRows, ReadIsCurrent, TypeOK
  <2>6. PendingIsFirst'
    BY <1>6 DEF CommitHold, Release, PendingIsFirst, TypeOK
  <2> QED
    BY <2>1, <2>2, <2>3, <2>4, <2>5, <2>6
<1>7. ASSUME NEW c \in RefundCalls, ReadHold(c)
      PROVE  IInv'
  <2>1. NeverOverdrawn' /\ ChargedOnce' /\ SignupOnce'
    BY <1>7 DEF ReadHold, NeverOverdrawn, ChargedOnce, SignupOnce
  <2>2. ReadIsCurrent'
    BY <1>7 DEF ReadHold, ReadIsCurrent, PendingRows, TypeOK
  <2>3. PendingRows'
    BY <1>7 DEF ReadHold, PendingRows, TypeOK
  <2>4. PendingIsFirst'
    BY <1>7 DEF ReadHold, HasHold, PendingIsFirst, ChargedOnce, TypeOK
  <2> QED
    BY <2>1, <2>2, <2>3, <2>4
<1>8. ASSUME NEW c \in RefundCalls, ReadRefund(c)
      PROVE  IInv'
  <2>1. NeverOverdrawn' /\ ChargedOnce' /\ SignupOnce'
    BY <1>8 DEF ReadRefund, NeverOverdrawn, ChargedOnce, SignupOnce
  <2>2. ReadIsCurrent'
    BY <1>8 DEF ReadRefund, ReadIsCurrent, PendingRows, TypeOK
  <2>3. PendingRows'
    BY <1>8 DEF ReadRefund, PendingRows, TypeOK
  <2>4. PendingIsFirst'
    BY <1>8 DEF ReadRefund, HasRefund, PendingIsFirst, TypeOK
  <2> QED
    BY <2>1, <2>2, <2>3, <2>4
<1>9. ASSUME NEW c \in RefundCalls, InsertRefund(c)
      PROVE  IInv'
  <2>1. NeverOverdrawn' /\ ChargedOnce' /\ SignupOnce'
    BY <1>9 DEF InsertRefund, NeverOverdrawn, ChargedOnce, SignupOnce
  <2>2. ReadIsCurrent'
    BY <1>9 DEF InsertRefund, ReadIsCurrent, PendingRows, TypeOK
  <2>3. PendingRows'
    BY <1>9 DEF InsertRefund, PendingFor, PendingRows, TypeOK
  <2>4. PendingIsFirst'
    BY <1>9 DEF InsertRefund, HasRefund, PendingFor, PendingIsFirst, TypeOK
  <2> QED
    BY <2>1, <2>2, <2>3, <2>4
<1>10. ASSUME NEW c \in RefundCalls, CommitRefund(c)
      PROVE  IInv'
  <2>1. NeverOverdrawn'
    BY <1>10 DEF CommitRefund, NeverOverdrawn, ReadIsCurrent, TypeOK
  <2>2. ChargedOnce'
    <3>1. CASE wrote[c]
      <4>1. refunds[JobOf[c]] = 0 /\ holds[JobOf[c]] = 1
        BY <1>10, <3>1 DEF CommitRefund, PendingIsFirst
      <4>2. UNCHANGED holds /\ refunds' = [refunds EXCEPT ![JobOf[c]] = @ + 1]
        BY <1>10, <3>1 DEF CommitRefund
      <4>3. QED
        BY <4>1, <4>2 DEF ChargedOnce, TypeOK
    <3>2. CASE ~wrote[c]
      BY <1>10, <3>2 DEF CommitRefund, ChargedOnce
    <3>3. QED
      BY <3>1, <3>2
  <2>3. SignupOnce'
    BY <1>10 DEF CommitRefund, SignupOnce
  <2>4. ReadIsCurrent'
    BY <1>10 DEF CommitRefund, ReadIsCurrent, PendingRows, TypeOK
  <2>5. PendingRows'
    BY <1>10 DEF CommitRefund, PendingRows, TypeOK
  <2>6. PendingIsFirst'
    BY <1>10 DEF CommitRefund, PendingIsFirst, TypeOK
  <2> QED
    BY <2>1, <2>2, <2>3, <2>4, <2>5, <2>6
<1>11. ASSUME NEW c \in GrantCalls, InsertGrant(c)
      PROVE  IInv'
  <2>1. NeverOverdrawn' /\ ChargedOnce' /\ SignupOnce'
    BY <1>11 DEF InsertGrant, NeverOverdrawn, ChargedOnce, SignupOnce
  <2>2. ReadIsCurrent'
    BY <1>11 DEF InsertGrant, ReadIsCurrent, PendingRows, TypeOK
  <2>3. PendingRows'
    BY <1>11 DEF InsertGrant, PendingRows, TypeOK
  <2>4. PendingIsFirst'
    BY <1>11 DEF InsertGrant, PendingIsFirst, TypeOK
  <2> QED
    BY <2>1, <2>2, <2>3, <2>4
<1>12. ASSUME NEW c \in GrantCalls, CommitGrant(c)
      PROVE  IInv'
  <2>1. NeverOverdrawn'
    BY <1>12 DEF CommitGrant, NeverOverdrawn, ReadIsCurrent, TypeOK
  <2>2. ChargedOnce'
    BY <1>12 DEF CommitGrant, ChargedOnce
  <2>3. SignupOnce'
    BY <1>12 DEF CommitGrant, SignupOnce
  <2>4. ReadIsCurrent'
    BY <1>12 DEF CommitGrant, ReadIsCurrent, PendingRows, TypeOK
  <2>5. PendingRows'
    BY <1>12 DEF CommitGrant, PendingRows, TypeOK
  <2>6. PendingIsFirst'
    BY <1>12 DEF CommitGrant, PendingIsFirst, TypeOK
  <2> QED
    BY <2>1, <2>2, <2>3, <2>4, <2>5, <2>6
<1>13. ASSUME NEW c \in EnsureCalls, InsertAccount(c)
      PROVE  IInv'
  <2>1. NeverOverdrawn' /\ ChargedOnce' /\ SignupOnce'
    BY <1>13 DEF InsertAccount, NeverOverdrawn, ChargedOnce, SignupOnce
  <2>2. ReadIsCurrent'
    BY <1>13 DEF InsertAccount, ReadIsCurrent, PendingRows, TypeOK
  <2>3. PendingRows'
    BY <1>13 DEF InsertAccount, PendingOn, PendingRows, TypeOK
  <2>4. PendingIsFirst'
    <3>1. CASE opened[Owner(c)]
      BY <1>13, <3>1 DEF InsertAccount, PendingIsFirst, TypeOK
    <3>2. CASE ~opened[Owner(c)]
      <4>1. /\ wrote' = [wrote EXCEPT ![c] = TRUE] /\ Go(c, "commit")
            /\ UNCHANGED <<ledger, jobRow, locker, saw, returned>>
            /\ \A d \in EnsureCalls : ~(wrote[d] /\ Owner(d) = Owner(c))
        BY <1>13, <3>2 DEF InsertAccount, PendingOn
      <4>2. \A d \in Calls \ {c} : wrote'[d] = wrote[d] /\ at'[d] = at[d]
        BY <4>1 DEF TypeOK
      <4>3. /\ \A d \in EnsureCalls : wrote'[d] => ~opened'[Owner(d)]
            /\ \A d, e \in EnsureCalls : wrote'[d] /\ wrote'[e] /\ Owner(d) = Owner(e) => d = e
        BY <3>2, <4>1, <4>2 DEF PendingIsFirst
      <4>4. /\ \A d \in HoldCalls : wrote'[d] = wrote[d]
            /\ \A d \in RefundCalls : wrote'[d] = wrote[d] /\ at'[d] = at[d]
        BY <4>2
      <4>5. QED
        BY <4>1, <4>3, <4>4 DEF PendingIsFirst
    <3>3. QED
      BY <3>1, <3>2
  <2> QED
    BY <2>1, <2>2, <2>3, <2>4
<1>14. ASSUME NEW c \in EnsureCalls, CommitAccount(c)
      PROVE  IInv'
  <2>1. NeverOverdrawn'
    BY <1>14 DEF CommitAccount, NeverOverdrawn, ReadIsCurrent, TypeOK
  <2>2. ChargedOnce'
    BY <1>14 DEF CommitAccount, ChargedOnce
  <2>3. SignupOnce'
    <3>1. wrote[c] /\ signups[Owner(c)] = 0
      BY <1>14 DEF CommitAccount, PendingRows, PendingIsFirst
    <3>2. signups' = [signups EXCEPT ![Owner(c)] = @ + 1]
      BY <1>14 DEF CommitAccount
    <3>3. QED
      BY <3>1, <3>2 DEF SignupOnce, TypeOK
  <2>4. ReadIsCurrent'
    BY <1>14 DEF CommitAccount, ReadIsCurrent, PendingRows, TypeOK
  <2>5. PendingRows'
    BY <1>14 DEF CommitAccount, PendingRows, TypeOK
  <2>6. PendingIsFirst'
    BY <1>14 DEF CommitAccount, PendingIsFirst, PendingRows, TypeOK
  <2> QED
    BY <2>1, <2>2, <2>3, <2>4, <2>5, <2>6
<1>15. ASSUME NEW c \in Calls, Rollback(c)
      PROVE  IInv'
  <2>1. NeverOverdrawn' /\ ChargedOnce' /\ SignupOnce'
    BY <1>15 DEF Rollback, NeverOverdrawn, ChargedOnce, SignupOnce
  <2>2. ReadIsCurrent'
    BY <1>15 DEF Rollback, Release, ReadIsCurrent, PendingRows, TypeOK
  <2>3. PendingRows'
    BY <1>15 DEF Rollback, Release, PendingRows, TypeOK
  <2>4. PendingIsFirst'
    BY <1>15 DEF Rollback, Release, PendingIsFirst, TypeOK
  <2> QED
    BY <2>1, <2>2, <2>3, <2>4
<1>16. ASSUME NEW j \in Jobs, DeleteJob(j)
      PROVE  IInv'
  BY <1>16 DEF DeleteJob, NeverOverdrawn, ChargedOnce, SignupOnce, ReadIsCurrent, PendingRows,
             PendingIsFirst
<1>17. CASE UNCHANGED vars
  BY <1>17 DEF vars, NeverOverdrawn, ChargedOnce, SignupOnce, ReadIsCurrent, PendingRows,
             PendingIsFirst
<1>18. QED
  BY <1>2, <1>3, <1>4, <1>5, <1>6, <1>7, <1>8, <1>9, <1>10, <1>11, <1>12, <1>13, <1>14,
     <1>15, <1>16, <1>17
     DEF Next, Step, HoldStep, RefundStep, GrantStep, EnsureStep

\* The invariant holds throughout, for any owners, jobs and calls.
THEOREM Invariance == Spec => []IInv
<1>1. Init => IInv
  BY InitInv
<1>2. IInv /\ [Next]_vars => IInv'
  BY InvStep
<1>3. QED
  BY <1>1, <1>2, PTL DEF Spec

\* hold_for_job's row lock is enough: concurrent holds, refunds and grants never
\* take a balance below what was clawed back.
THEOREM Solvency == Spec => []NeverOverdrawn
<1>1. IInv => NeverOverdrawn
  BY DEF IInv
<1>2. QED
  BY <1>1, Invariance, PTL

\* The two unique indexes are enough: one charge and one refund per job.
THEOREM SingleCharge == Spec => []ChargedOnce
<1>1. IInv => ChargedOnce
  BY DEF IInv
<1>2. QED
  BY <1>1, Invariance, PTL

\* ensure_account grants the welcome credits once per owner.
THEOREM SingleSignup == Spec => []SignupOnce
<1>1. IInv => SignupOnce
  BY DEF IInv
<1>2. QED
  BY <1>1, Invariance, PTL
=============================================================================
