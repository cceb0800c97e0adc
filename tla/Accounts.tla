------------------------------- MODULE Accounts --------------------------------
(* What belongs to a person and who else may read it: experts, chats, uploads, *)
(* share links and the grants that opening one leaves (experts/repository.py,  *)
(* experts/share_repository.py, api/routes/sharing.py), and the deletion of the*)
(* account with all of it (accounts/repository.py) while requests and a worker *)
(* are in flight.  Access tokens are verified offline (api/auth.py): one works *)
(* until it expires, whatever became of the account.                           *)
EXTENDS Integers, Sequences, FiniteSets

CONSTANTS
    Users, Experts,
    Tabs, Of,           \* open requests, and whose they are
    MaxLinks, MaxUsage

NoOne == "no one"
Gone == "gone"

\* The two values that stand for no owner are nobody's name; every request is somebody's.
PeopleAssumption ==
    /\ NoOne \notin Users /\ Gone \notin Users
    /\ Of \in [Tabs -> Users]

VARIABLES
    users,      \* rows of auth.users
    tokens,     \* people whose access token verifies
    accounts,   \* rows of accounts
    expert,     \* expert -> its owner, NoOne before its row exists, Gone after
    chats,      \* <<person, expert>>
    uploads,    \* <<person, expert>>
    links,      \* share links, in the order they were minted: [expert, live]
    grants,     \* <<link, person>>
    job,        \* expert -> its build's row: none, running or done
    usage,      \* spend records: <<expert of the job, person, n>>
    building,   \* expert -> the person its worker builds it for, or NoOne
    request,    \* tab -> what its handler has read: [op, on]
    doomed,     \* person -> the grants their deletion has deleted, uncommitted
    deleting,   \* people whose deletion is in its transaction
    failed,     \* (history) operations that were answered by a 500
    spent       \* (history) how many spend records were ever committed

vars == <<users, tokens, accounts, expert, chats, uploads, links, grants, job, usage,
          building, request, doomed, deleting, failed, spent>>
rows == <<accounts, expert, chats, uploads, links, grants, job, usage>>
deletion == <<doomed, deleting>>
history == <<failed, spent>>

Idle == [op |-> "none", on |-> 0]
Init ==
    /\ users = Users /\ tokens = Users /\ accounts = {}
    /\ expert = [e \in Experts |-> NoOne]
    /\ chats = {} /\ uploads = {} /\ links = <<>> /\ grants = {}
    /\ job = [e \in Experts |-> "none"] /\ usage = {}
    /\ building = [e \in Experts |-> NoOne]
    /\ request = [t \in Tabs |-> Idle]
    /\ doomed = [u \in Users |-> {}] /\ deleting = {}
    /\ failed = {} /\ spent = 0

-----------------------------------------------------------------------------
LiveLinks(e) == {k \in DOMAIN links : links[k].expert = e /\ links[k].live}
Revoked(e) == [k \in DOMAIN links |-> [links[k] EXCEPT !.live = @ /\ links[k].expert # e]]
Mint(old, e) == Append(old, [expert |-> e, live |-> TRUE])

Owned(u, e) == expert[e] = u
Exists(e) == expert[e] \notin {NoOne, Gone}
Readable(u, e) == Owned(u, e) \/ \E k \in LiveLinks(e) : <<k, u>> \in grants

(* Mutant: a database without the foreign keys to auth.users.                  *)
RefersToAnyone(u) == TRUE
(* The foreign keys of experts, conversations and accounts; a row of a person  *)
(* whose deletion has locked it waits, and is refused once that commits.       *)
Refers(u) == u \in users

Begin(t, op, on) ==
    /\ Of[t] \in tokens /\ request[t].op = "none"
    /\ request' = [request EXCEPT ![t] = [op |-> op, on |-> on]]
    /\ UNCHANGED <<users, tokens, rows, building, deletion, history>>
End(t) == request' = [request EXCEPT ![t] = Idle]
Refused(t, op) ==
    /\ End(t) /\ failed' = failed \cup {op}
    /\ UNCHANGED <<users, tokens, rows, building, deletion, spent>>

-----------------------------------------------------------------------------
(* A first touch provisions the account; an expert is created for it, and its  *)
(* build starts.                                                               *)
AskForExpert(t) == Begin(t, "create", 0)
CreateExpert(t, e) ==
    /\ request[t].op = "create" /\ expert[e] = NoOne
    /\ \/ /\ Refers(Of[t]) /\ End(t)
          /\ accounts' = accounts \cup {Of[t]}
          /\ expert' = [expert EXCEPT ![e] = Of[t]]
          /\ job' = [job EXCEPT ![e] = "running"]
          /\ building' = [building EXCEPT ![e] = Of[t]]
          /\ UNCHANGED <<users, tokens, chats, uploads, links, grants, usage, deletion, history>>
       \/ ~Refers(Of[t]) /\ Refused(t, "create")

AskToChat(t, e) == Readable(Of[t], e) /\ Begin(t, "chat", e)
StartChat(t) ==
    LET e == request[t].on
    IN  /\ request[t].op = "chat"
        /\ \/ /\ Refers(Of[t]) /\ Exists(e) /\ End(t)
              /\ chats' = chats \cup {<<Of[t], e>>}
              /\ UNCHANGED <<users, tokens, accounts, expert, uploads, links, grants, job, usage,
                             building, deletion, history>>
           \/ (~Refers(Of[t]) \/ ~Exists(e)) /\ Refused(t, "chat")

AskToUpload(t, e) == Owned(Of[t], e) /\ Begin(t, "upload", e)
Upload(t) ==
    LET e == request[t].on
    IN  /\ request[t].op = "upload"
        /\ \/ /\ Exists(e) /\ End(t)
              /\ uploads' = uploads \cup {<<Of[t], e>>}
              /\ UNCHANGED <<users, tokens, accounts, expert, chats, links, grants, job, usage,
                             building, deletion, history>>
           \/ ~Exists(e) /\ Refused(t, "upload")

(* enable: the live link, or a new one; a minting that loses to another on the *)
(* partial unique index reads the winner's.                                    *)
AskToEnable(t, e) == Owned(Of[t], e) /\ LiveLinks(e) = {} /\ Begin(t, "enable", e)
Enable(t) ==
    LET e == request[t].on
    IN  /\ request[t].op = "enable"
        /\ \/ /\ Exists(e) /\ LiveLinks(e) = {} /\ Len(links) < MaxLinks
              /\ links' = Mint(links, e) /\ End(t)
              /\ UNCHANGED <<users, tokens, accounts, expert, chats, uploads, grants, job, usage,
                             building, deletion, history>>
           \/ /\ Exists(e) /\ LiveLinks(e) # {}
              /\ request' = [request EXCEPT ![t].op = "read winner"]
              /\ UNCHANGED <<users, tokens, rows, building, deletion, history>>
           \/ ~Exists(e) /\ Refused(t, "enable")
ReadWinner(t) ==
    /\ request[t].op = "read winner"
    /\ IF LiveLinks(request[t].on) = {} THEN Refused(t, "enable")
       ELSE End(t) /\ UNCHANGED <<users, tokens, rows, building, deletion, history>>

(* reset revokes the link that is live when it begins and mints another in one *)
(* transaction; that mint fails on a link minted by another meanwhile.         *)
AskToReset(t, e) ==
    /\ Owned(Of[t], e) /\ Len(links) < MaxLinks
    /\ \E k \in LiveLinks(e) \cup (IF LiveLinks(e) = {} THEN {0} ELSE {}) :
          Begin(t, "reset", <<e, k>>)
Reset(t) ==
    /\ request[t].op = "reset" /\ Len(links) < MaxLinks
    /\ LET e == request[t].on[1]
           k == request[t].on[2]
       IN  \/ /\ Exists(e) /\ LiveLinks(e) \subseteq {k} /\ End(t)
              /\ links' = Mint(Revoked(e), e)
              /\ UNCHANGED <<users, tokens, accounts, expert, chats, uploads, grants, job, usage,
                             building, deletion, history>>
           \/ (~Exists(e) \/ ~(LiveLinks(e) \subseteq {k})) /\ Refused(t, "reset")
Disable(u, e) ==
    /\ u \in tokens /\ Owned(u, e) /\ LiveLinks(e) # {}
    /\ links' = Revoked(e)
    /\ UNCHANGED <<users, tokens, accounts, expert, chats, uploads, grants, job, usage,
                   building, request, deletion, history>>

(* accept_share: a link that is live when it is resolved leaves a grant; a     *)
(* grant refers to a link, and to nobody.                                      *)
AskToAccept(t, k) == ~Owned(Of[t], links[k].expert) /\ links[k].live /\ Begin(t, "accept", k)
Accept(t) ==
    LET k == request[t].on
    IN  /\ request[t].op = "accept"
        /\ \/ /\ Exists(links[k].expert) /\ End(t)
              /\ grants' = grants \cup {<<k, Of[t]>>}
              /\ UNCHANGED <<users, tokens, accounts, expert, chats, uploads, links, job, usage,
                             building, deletion, history>>
           \/ ~Exists(links[k].expert) /\ Refused(t, "accept")
Leave(u, e) ==
    /\ u \in tokens /\ Readable(u, e) /\ ~Owned(u, e)
    /\ grants' = {g \in grants : ~(g[2] = u /\ links[g[1]].expert = e)}
    /\ UNCHANGED <<users, tokens, accounts, expert, chats, uploads, links, job, usage,
                   building, request, deletion, history>>

-----------------------------------------------------------------------------
(* The worker of a build: it records spend for the owner it was started for,   *)
(* and stops when a beat does not find its job running.                        *)
RecordUsage(e) ==
    /\ building[e] # NoOne /\ job[e] # "none" /\ spent < MaxUsage
    /\ usage' = usage \cup {<<e, building[e], spent>>}
    /\ spent' = spent + 1
    /\ UNCHANGED <<users, tokens, accounts, expert, chats, uploads, links, grants, job,
                   building, request, deletion, failed>>
Beat(e) ==
    /\ building[e] # NoOne /\ job[e] # "running"
    /\ building' = [building EXCEPT ![e] = NoOne]
    /\ UNCHANGED <<users, tokens, rows, request, deletion, history>>
BuildEnds(e) ==
    /\ building[e] # NoOne /\ job[e] = "running"
    /\ building' = [building EXCEPT ![e] = NoOne]
    /\ job' = [job EXCEPT ![e] = "done"]
    /\ UNCHANGED <<users, tokens, accounts, expert, chats, uploads, links, grants, usage,
                   request, deletion, history>>

-----------------------------------------------------------------------------
(* delete_account, one transaction.  It deletes the grants it sees, then       *)
(* everything that names the person or, by a foreign key's cascade, one of     *)
(* their experts; the last statement takes what came meanwhile.                *)
DeleteGrants(u) ==
    /\ u \in tokens \cap users /\ u \notin deleting
    /\ deleting' = deleting \cup {u}
    /\ doomed' = [doomed EXCEPT ![u] = {g \in grants : g[2] = u}]
    /\ UNCHANGED <<users, tokens, rows, building, request, history>>

DeleteAccount(u) ==
    /\ u \in deleting
    /\ deleting' = deleting \ {u} /\ doomed' = [doomed EXCEPT ![u] = {}]
    /\ LET theirs == {e \in Experts : Owned(u, e)}
       IN  /\ users' = users \ {u} /\ accounts' = accounts \ {u}
           /\ expert' = [e \in Experts |-> IF e \in theirs THEN Gone ELSE expert[e]]
           /\ job' = [e \in Experts |-> IF e \in theirs THEN "none" ELSE job[e]]
           /\ usage' = {r \in usage : r[1] \notin theirs}
           /\ chats' = {c \in chats : c[1] # u /\ c[2] \notin theirs}
           /\ uploads' = {p \in uploads : p[1] # u /\ p[2] \notin theirs}
           /\ links' = [k \in DOMAIN links |->
                           [links[k] EXCEPT !.live = @ /\ links[k].expert \notin theirs]]
           /\ grants' = {g \in grants \ doomed[u] : links[g[1]].expert \notin theirs}
    /\ UNCHANGED <<tokens, building, request, history>>

DeletionFails(u) ==
    /\ u \in deleting
    /\ deleting' = deleting \ {u} /\ doomed' = [doomed EXCEPT ![u] = {}]
    /\ UNCHANGED <<users, tokens, rows, building, request, history>>

TokenExpires(u) ==
    /\ u \in tokens \ users /\ tokens' = tokens \ {u}
    /\ UNCHANGED <<users, rows, building, request, deletion, history>>

Next ==
    \/ \E t \in Tabs, e \in Experts :
          \/ CreateExpert(t, e) \/ AskToChat(t, e) \/ AskToUpload(t, e)
          \/ AskToEnable(t, e) \/ AskToReset(t, e)
    \/ \E t \in Tabs :
          \/ AskForExpert(t) \/ StartChat(t) \/ Upload(t) \/ Enable(t) \/ ReadWinner(t)
          \/ Reset(t) \/ Accept(t)
    \/ \E t \in Tabs, k \in DOMAIN links : AskToAccept(t, k)
    \/ \E u \in Users, e \in Experts : Disable(u, e) \/ Leave(u, e)
    \/ \E u \in Users : DeleteGrants(u) \/ DeleteAccount(u) \/ DeletionFails(u) \/ TokenExpires(u)
    \/ \E e \in Experts : RecordUsage(e) \/ Beat(e) \/ BuildEnds(e)

Spec == Init /\ [][Next]_vars
-----------------------------------------------------------------------------
(* Once an account is deleted nothing names its person, but for an opened link:*)
(* no expert, chat, upload, credit or spend record, whatever requests and      *)
(* whatever build of theirs were in flight, and none comes back.               *)
GoneIsGone ==
    \A u \in Users \ users :
        /\ u \notin accounts
        /\ \A e \in Experts : expert[e] # u
        /\ \A row \in chats \cup uploads : row[1] # u
        /\ \A r \in usage : r[2] # u

(* At most one link of an expert is live, however enabling, resetting and      *)
(* turning off are interleaved, and none of an expert that is gone.            *)
OneLiveLink ==
    \A e \in Experts : Cardinality(LiveLinks(e)) <= IF Exists(e) THEN 1 ELSE 0

(* Not so: a link that is opened while, or after, the account is deleted leaves*)
(* its grant, which counts as a viewer for ever.                               *)
GrantsGoToo == \A g \in grants : g[2] \in users

(* Not so: what a deleted account's builds cost goes with their jobs.          *)
SpendIsKept == Cardinality(usage) = spent

(* Not so: turning a link on can fail when another request turns it off, and   *)
(* resetting it when another mints one.                                        *)
SharingAnswers == (\A e \in Experts : expert[e] # Gone) => failed \cap {"enable", "reset"} = {}

(* Not so: the job is gone together with its cancellation.                     *)
CancelIsSeen == \A e \in Experts : building[e] # NoOne => job[e] # "none"
=============================================================================
