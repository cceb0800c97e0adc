-------------------------------- MODULE SignIn ---------------------------------
(* One person's sign-in from several devices (api/routes/auth.py and           *)
(* api/routes/account.py over infrastructure/supabase_auth.py): every handler  *)
(* is a few calls to GoTrue, each of which may be refused or fail, and nothing *)
(* undoes an earlier one.  GoTrue itself is external: it holds the password,   *)
(* the sessions and the codes it has emailed.                                  *)
EXTENDS Integers, FiniteSets

CONSTANTS Devices, Passwords, Weak, MaxSessions, MaxCodes, MaxFailures

Nothing == 0
NoPassword == ""

VARIABLES
    password,   \* the account's
    sessions,   \* sessions whose refresh token works
    minted,     \* how many there have been
    codes,      \* recovery codes that may still be entered
    mailed,     \* how many were mailed
    holds,      \* device -> the session it has stored, or Nothing
    request,    \* device -> the handler running for it: [op, new, session, before]
    answers,    \* device -> its last answer: what was asked, and what came
    failures,   \* calls that GoTrue failed, or that never reached it
    spoilt      \* (history) sessions of resets whose password was refused, and those a
                \* device put aside for a new one

vars == <<password, sessions, minted, codes, mailed, holds, request, answers, failures, spoilt>>

None == [op |-> "none", new |-> "", session |-> Nothing]
Init ==
    /\ password \in (Passwords \ Weak) \cup {NoPassword}
    /\ sessions = {} /\ minted = 0 /\ codes = {} /\ mailed = 0
    /\ holds = [d \in Devices |-> Nothing]
    /\ request = [d \in Devices |-> None]
    /\ answers = [d \in Devices |-> "none"]
    /\ failures = 0 /\ spoilt = {}

-----------------------------------------------------------------------------
Mint == minted < MaxSessions /\ minted' = minted + 1 /\ sessions' = sessions \cup {minted + 1}
Free(d) == request[d].op = "none"
Go(d, op, new, session) ==
    request' = [request EXCEPT ![d] = [op |-> op, new |-> new, session |-> session]]
Answer(d, a) == request' = [request EXCEPT ![d] = None] /\ answers' = [answers EXCEPT ![d] = a]
Lost == failures < MaxFailures /\ failures' = failures + 1
Same == UNCHANGED <<password, sessions, minted, codes, mailed, holds, failures, spoilt>>

(* password_login                                                              *)
Login(d, typed) ==
    /\ Free(d) /\ holds[d] = Nothing
    /\ \/ /\ typed = password /\ Mint
          /\ holds' = [holds EXCEPT ![d] = minted + 1]
          /\ answers' = [answers EXCEPT ![d] = "signed in"]
          /\ UNCHANGED <<password, codes, mailed, request, failures, spoilt>>
       \/ typed # password /\ Answer(d, "refused") /\ Same

(* verify_otp, oauth_exchange and signup open a session without a password.     *)
SignInOtherwise(d) ==
    /\ Free(d) /\ holds[d] = Nothing /\ Mint
    /\ holds' = [holds EXCEPT ![d] = minted + 1]
    /\ answers' = [answers EXCEPT ![d] = "signed in"]
    /\ UNCHANGED <<password, codes, mailed, request, failures, spoilt>>

(* verify_email_change, and oauth_exchange for an identity that was linked: the *)
(* session that comes takes the place of the one held, which nobody signs out. *)
SignInAgain(d) ==
    /\ Free(d) /\ holds[d] # Nothing /\ Mint
    /\ holds' = [holds EXCEPT ![d] = minted + 1]
    /\ spoilt' = spoilt \cup ({holds[d]} \cap sessions)
    /\ UNCHANGED <<password, codes, mailed, request, answers, failures>>

(* forgot_password: an earlier code is void once another is sent.              *)
Forgot(d) ==
    /\ Free(d) /\ mailed < MaxCodes
    /\ mailed' = mailed + 1 /\ codes' = {mailed + 1}
    /\ UNCHANGED <<password, sessions, minted, holds, request, answers, failures, spoilt>>

(* reset_password: the code is spent on a session, which sets the password and *)
(* then signs the others out, if it can.  It is asked for by a device that is   *)
(* signed out.                                                                 *)
ResetVerify(d, code, new) ==
    /\ Free(d) /\ holds[d] = Nothing /\ code \in 1..mailed
    /\ \/ /\ code \in codes /\ codes' = codes \ {code} /\ Mint
          /\ Go(d, "reset", new, minted + 1)
          /\ UNCHANGED <<password, mailed, holds, answers, failures, spoilt>>
       \/ code \notin codes /\ Answer(d, "invalid code") /\ Same
SetsPassword(d) == request[d].new \notin Weak \cup {password} /\ request[d].session \in sessions
ResetUpdate(d) ==
    /\ request[d].op = "reset"
    /\ \/ /\ SetsPassword(d)
          /\ password' = request[d].new
          /\ Go(d, "reset out", request[d].new, request[d].session)
          /\ UNCHANGED <<sessions, minted, codes, mailed, holds, answers, failures, spoilt>>
       \/ /\ ~SetsPassword(d)
          /\ spoilt' = spoilt \cup ({request[d].session} \cap sessions)
          /\ Answer(d, IF request[d].session \in sessions THEN "choose another for the reset"
                       ELSE "refused")
          /\ UNCHANGED <<password, sessions, minted, codes, mailed, holds, failures>>
       \/ /\ Lost /\ Answer(d, "unavailable")
          /\ UNCHANGED <<password, sessions, minted, codes, mailed, holds, spoilt>>

(* logout with scope "others"; a session that is gone may not ask for it.  A   *)
(* refusal is logged and passed over; a call that never gets there is a 500,   *)
(* and what the handler had for the device is lost with it.                    *)
OthersOut(session) == IF session \in sessions THEN {session} ELSE sessions
SignOthersOut(d) ==
    /\ request[d].op \in {"reset out", "change out"}
    /\ LET mine == request[d].session
       IN  \/ /\ \/ sessions' = OthersOut(mine) /\ UNCHANGED failures
                 \/ Lost /\ UNCHANGED sessions
              /\ holds' = [holds EXCEPT ![d] = mine] /\ Answer(d, "done")
           \/ Lost /\ Answer(d, "error") /\ UNCHANGED <<sessions, holds>>
    /\ UNCHANGED <<password, minted, codes, mailed, spoilt>>

(* change_password: the current one is checked by a sign-in of its own, whose  *)
(* session is then signed out; an account that has none just sets one.         *)
ChangeCheck(d, typed, new) ==
    /\ Free(d) /\ holds[d] # Nothing
    /\ \/ /\ password = NoPassword
          /\ Go(d, "change", new, holds[d])
          /\ UNCHANGED <<password, sessions, minted, codes, mailed, holds, answers, failures, spoilt>>
       \/ /\ typed = password /\ Mint
          /\ Go(d, "check out", new, minted + 1)
          /\ UNCHANGED <<password, codes, mailed, holds, answers, failures, spoilt>>
       \/ typed # password /\ password # NoPassword /\ Answer(d, "refused") /\ Same
(* Mutant: the session of the check is forgotten.                              *)
CheckForgotten(session) == sessions
CheckOut(session) == sessions \ {session}
ChangeCheckOut(d) ==
    /\ request[d].op = "check out"
    /\ \/ /\ \/ sessions' = CheckOut(request[d].session) /\ UNCHANGED failures
             \/ Lost /\ UNCHANGED sessions
          /\ Go(d, "change", request[d].new, holds[d]) /\ UNCHANGED answers
       \/ Lost /\ Answer(d, "error") /\ UNCHANGED sessions
    /\ UNCHANGED <<password, minted, codes, mailed, holds, spoilt>>
ChangeUpdate(d) ==
    /\ request[d].op = "change"
    /\ \/ /\ SetsPassword(d)
          /\ password' = request[d].new
          /\ Go(d, "change out", request[d].new, request[d].session)
          /\ UNCHANGED <<sessions, minted, codes, mailed, holds, answers, failures, spoilt>>
       \/ /\ ~SetsPassword(d) /\ Same
          /\ Answer(d, IF request[d].session \in sessions THEN "choose another" ELSE "refused")
       \/ /\ Lost /\ Answer(d, "unavailable")
          /\ UNCHANGED <<password, sessions, minted, codes, mailed, holds, spoilt>>

(* logout, and revoke_session of another device's.                             *)
Logout(d, scope) ==
    /\ Free(d) /\ holds[d] # Nothing
    /\ \/ /\ sessions' = IF holds[d] \notin sessions THEN sessions
                         ELSE CASE scope = "local" -> sessions \ {holds[d]}
                                [] scope = "others" -> {holds[d]}
                                [] scope = "global" -> {}
          /\ UNCHANGED failures
       \/ Lost /\ UNCHANGED sessions
    /\ holds' = IF scope = "others" THEN holds ELSE [holds EXCEPT ![d] = Nothing]
    /\ UNCHANGED <<password, minted, codes, mailed, request, answers, spoilt>>
Revoke(d, session) ==
    /\ Free(d) /\ holds[d] # Nothing /\ session \in sessions \ {holds[d]}
    /\ sessions' = sessions \ {session}
    /\ UNCHANGED <<password, minted, codes, mailed, holds, request, answers, failures, spoilt>>

(* refresh: a client forgets its session when it is told that it is dead, and  *)
(* keeps it when the auth server could not be reached.                         *)
Refresh(d) ==
    /\ Free(d) /\ holds[d] # Nothing
    /\ \/ holds[d] \notin sessions /\ holds' = [holds EXCEPT ![d] = Nothing] /\ UNCHANGED failures
       \/ Lost /\ UNCHANGED holds
    /\ UNCHANGED <<password, sessions, minted, codes, mailed, request, answers, spoilt>>

Next ==
    \/ \E d \in Devices : Forgot(d) \/ ResetUpdate(d) \/ SignOthersOut(d) \/ ChangeCheckOut(d)
                          \/ ChangeUpdate(d) \/ Refresh(d) \/ SignInOtherwise(d) \/ SignInAgain(d)
    \/ \E d \in Devices, typed \in Passwords : Login(d, typed)
    \/ \E d \in Devices, code \in 1..MaxCodes, new \in Passwords : ResetVerify(d, code, new)
    \/ \E d \in Devices, typed, new \in Passwords : ChangeCheck(d, typed, new)
    \/ \E d \in Devices, scope \in {"local", "others", "global"} : Logout(d, scope)
    \/ \E d \in Devices, session \in sessions : Revoke(d, session)

Spec == Init /\ [][Next]_vars
-----------------------------------------------------------------------------
(* No session outlives the handler that opened it for itself: when no handler  *)
(* runs and no call was lost, every session is one that a device holds, but for*)
(* those of a reset whose new password was refused, and those put aside for    *)
(* the session that a change of address or a linked identity brings.           *)
NoStraySession ==
    failures = 0 /\ (\A d \in Devices : Free(d))
        => \A s \in sessions \ spoilt : \E d \in Devices : holds[d] = s

(* Not so: a reset whose new password is refused has spent its code, and the   *)
(* answer asks for another password, not for another code.                     *)
RetryWorks == \A d \in Devices : answers[d] = "choose another for the reset" => codes # {}
=============================================================================
