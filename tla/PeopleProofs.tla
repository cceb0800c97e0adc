------------------------------ MODULE PeopleProofs ------------------------------
(* What Accounts promises for any number of people, experts, requests, links   *)
(* and spend records, and SignIn for any number of devices and sessions.       *)
EXTENDS Accounts, FiniteSetTheorems, TLAPS

CONSTANTS Devices, Passwords, Weak, MaxSessions, MaxCodes, MaxFailures
VARIABLES password, sessions, minted, codes, mailed, holds, handler, answers, failures, spoilt

Sign == INSTANCE SignIn WITH request <- handler

Operation == {"none", "create", "chat", "upload", "enable", "read winner", "reset", "accept"}
OfExpert  == {"chat", "upload", "enable", "read winner"}

Link == [expert : Experts, live : BOOLEAN]

Typed ==
    /\ users \subseteq Users /\ tokens \subseteq Users
    /\ expert \in [Experts -> Users \cup {NoOne, Gone}]
    /\ links \in Seq(Link)
    /\ job \in [Experts -> {"none", "running", "done"}]
    /\ usage \subseteq Experts \X Users \X Nat
    /\ building \in [Experts -> Users \cup {NoOne}]
    /\ request \in [Tabs -> [op : Operation, on : Experts \cup Nat \cup (Experts \X Nat)]]
    /\ deleting \subseteq Users /\ spent \in Nat

\* What a handler has read and acts on after: the expert it names, the link; and an
\* upload is for an expert that was the person's, which nobody else can come to own.
RequestsAreTheirs ==
    \A t \in Tabs :
        /\ request[t].op \in OfExpert => request[t].on \in Experts
        /\ request[t].op = "reset" => request[t].on \in Experts \X Nat
        /\ request[t].op = "upload" => expert[request[t].on] \in {Of[t], Gone}

\* A worker builds for the owner of its expert, as long as there is a job to build;
\* there is none without an expert.
BuildsAreOwners ==
    \A e \in Experts :
        /\ ~Exists(e) => job[e] = "none"
        /\ expert[e] = NoOne => building[e] = NoOne
        /\ Exists(e) => building[e] \in {NoOne, expert[e]}

\* Spend is recorded for the owner of the job's expert: it goes with the expert.
SpendIsOwners == \A r \in usage : r[2] = expert[r[1]]

\* The live link of an expert is the only one, and the expert is there.
LinksAreLive ==
    /\ \A j, k \in DOMAIN links :
          links[j].live /\ links[k].live /\ links[j].expert = links[k].expert => j = k
    /\ \A k \in DOMAIN links : links[k].live => Exists(links[k].expert)

Inv == Typed /\ RequestsAreTheirs /\ BuildsAreOwners /\ SpendIsOwners /\ LinksAreLive /\ GoneIsGone
-----------------------------------------------------------------------------
\* Links whose expert is one of S go dark, the others stay as they are.
Darkened(S) == [k \in DOMAIN links |-> [links[k] EXCEPT !.live = @ /\ links[k].expert \notin S]]

LEMMA DarkenedLinks ==
    ASSUME links \in Seq(Link), NEW S
    PROVE  /\ Darkened(S) \in Seq(Link) /\ DOMAIN Darkened(S) = DOMAIN links
           /\ \A k \in DOMAIN links :
                /\ Darkened(S)[k].expert = links[k].expert
                /\ Darkened(S)[k].live <=> links[k].live /\ links[k].expert \notin S
<1>1. \A k \in DOMAIN links :
         /\ Darkened(S)[k] \in Link
         /\ Darkened(S)[k].expert = links[k].expert
         /\ Darkened(S)[k].live <=> links[k].live /\ links[k].expert \notin S
  <2> SUFFICES ASSUME NEW k \in DOMAIN links
               PROVE  /\ Darkened(S)[k] \in Link
                      /\ Darkened(S)[k].expert = links[k].expert
                      /\ Darkened(S)[k].live <=> links[k].live /\ links[k].expert \notin S
    OBVIOUS
  <2>1. links[k] \in Link
    OBVIOUS
  <2>2. Darkened(S)[k] = [links[k] EXCEPT !.live = links[k].live /\ links[k].expert \notin S]
    BY DEF Darkened
  <2>3. QED
    BY <2>1, <2>2 DEF Link
<1>2. DOMAIN links = 1..Len(links) /\ Len(links) \in Nat
  OBVIOUS
<1>3. Darkened(S) \in [1..Len(links) -> Link]
  BY <1>1, <1>2 DEF Darkened
<1>4. QED
  BY <1>1, <1>2, <1>3

LEMMA RevokedLinks ==
    ASSUME links \in Seq(Link), NEW e
    PROVE  /\ Revoked(e) = Darkened({e})
           /\ Revoked(e) \in Seq(Link) /\ DOMAIN Revoked(e) = DOMAIN links
           /\ \A k \in DOMAIN links :
                /\ Revoked(e)[k].expert = links[k].expert
                /\ Revoked(e)[k].live => links[k].live /\ links[k].expert # e
<1>1. Revoked(e) = Darkened({e})
  BY DEF Revoked, Darkened, Link
<1>2. \A f : f \notin {e} <=> f # e
  OBVIOUS
<1>3. QED
  BY <1>1, <1>2, DarkenedLinks

LEMMA MintedLink ==
    ASSUME NEW old \in Seq(Link), NEW e \in Experts
    PROVE  /\ Mint(old, e) \in Seq(Link)
           /\ DOMAIN Mint(old, e) = DOMAIN old \cup {Len(old) + 1} /\ Len(old) + 1 \notin DOMAIN old
           /\ \A k \in DOMAIN old : Mint(old, e)[k] = old[k]
           /\ Mint(old, e)[Len(old) + 1].expert = e
<1>1. [expert |-> e, live |-> TRUE] \in Link /\ [expert |-> e, live |-> TRUE].expert = e
  BY DEF Link
<1>2. QED
  BY <1>1 DEF Mint

\* A request that is written down, and one that is answered.
LEMMA Request ==
    ASSUME Typed, NEW t \in Tabs, NEW op \in Operation,
           NEW on \in Experts \cup Nat \cup (Experts \X Nat)
    PROVE  LET after == [request EXCEPT ![t] = [op |-> op, on |-> on]]
           IN  /\ after \in [Tabs -> [op : Operation, on : Experts \cup Nat \cup (Experts \X Nat)]]
               /\ after[t].op = op /\ after[t].on = on
               /\ \A s \in Tabs \ {t} : after[s] = request[s]
BY DEF Typed

-----------------------------------------------------------------------------
\* Which steps change what: an expert and its job; the spend; the links; and what
\* names a person.
Creates == \E t \in Tabs, e \in Experts : CreateExpert(t, e) /\ Refers(Of[t])
Deletes == \E u \in Users : DeleteAccount(u)

LEMMA WhoChangesExperts ==
    ASSUME Next
    PROVE  \/ UNCHANGED <<expert, job, building>>
           \/ Creates \/ Deletes \/ \E e \in Experts : Beat(e) \/ BuildEnds(e)
<1> USE DEF rows, Begin, Refused
<1>1. ASSUME NEW t \in Tabs, NEW e \in Experts,
             \/ CreateExpert(t, e) \/ AskToChat(t, e) \/ AskToUpload(t, e)
             \/ AskToEnable(t, e) \/ AskToReset(t, e)
      PROVE  UNCHANGED <<expert, job, building>> \/ Creates
  BY <1>1 DEF Creates, CreateExpert, AskToChat, AskToUpload, AskToEnable, AskToReset
<1>2. ASSUME NEW t \in Tabs,
             \/ AskForExpert(t) \/ StartChat(t) \/ Upload(t) \/ Enable(t) \/ ReadWinner(t)
             \/ Reset(t) \/ Accept(t)
      PROVE  UNCHANGED <<expert, job, building>>
  BY <1>2 DEF AskForExpert, StartChat, Upload, Enable, ReadWinner, Reset, Accept
<1>3. ASSUME NEW t \in Tabs, NEW k \in DOMAIN links, AskToAccept(t, k)
      PROVE  UNCHANGED <<expert, job, building>>
  BY <1>3 DEF AskToAccept
<1>4. ASSUME NEW u \in Users, NEW e \in Experts, Disable(u, e) \/ Leave(u, e)
      PROVE  UNCHANGED <<expert, job, building>>
  BY <1>4 DEF Disable, Leave
<1>5. ASSUME NEW u \in Users,
             DeleteGrants(u) \/ DeleteAccount(u) \/ DeletionFails(u) \/ TokenExpires(u)
      PROVE  UNCHANGED <<expert, job, building>> \/ Deletes
  BY <1>5 DEF Deletes, DeleteGrants, DeletionFails, TokenExpires
<1>6. ASSUME NEW e \in Experts, RecordUsage(e) \/ Beat(e) \/ BuildEnds(e)
      PROVE  UNCHANGED <<expert, job, building>> \/ \E f \in Experts : Beat(f) \/ BuildEnds(f)
  BY <1>6 DEF RecordUsage
<1>7. QED
  BY <1>1, <1>2, <1>3, <1>4, <1>5, <1>6 DEF Next

LEMMA WhoChangesSpend ==
    ASSUME Next
    PROVE  \/ UNCHANGED <<expert, usage, spent>>
           \/ Creates \/ Deletes \/ \E e \in Experts : RecordUsage(e)
<1> USE DEF rows, history, Begin, Refused
<1>1. ASSUME NEW t \in Tabs, NEW e \in Experts,
             \/ CreateExpert(t, e) \/ AskToChat(t, e) \/ AskToUpload(t, e)
             \/ AskToEnable(t, e) \/ AskToReset(t, e)
      PROVE  UNCHANGED <<expert, usage, spent>> \/ Creates
  BY <1>1 DEF Creates, CreateExpert, AskToChat, AskToUpload, AskToEnable, AskToReset
<1>2. ASSUME NEW t \in Tabs,
             \/ AskForExpert(t) \/ StartChat(t) \/ Upload(t) \/ Enable(t) \/ ReadWinner(t)
             \/ Reset(t) \/ Accept(t)
      PROVE  UNCHANGED <<expert, usage, spent>>
  BY <1>2 DEF AskForExpert, StartChat, Upload, Enable, ReadWinner, Reset, Accept
<1>3. ASSUME NEW t \in Tabs, NEW k \in DOMAIN links, AskToAccept(t, k)
      PROVE  UNCHANGED <<expert, usage, spent>>
  BY <1>3 DEF AskToAccept
<1>4. ASSUME NEW u \in Users, NEW e \in Experts, Disable(u, e) \/ Leave(u, e)
      PROVE  UNCHANGED <<expert, usage, spent>>
  BY <1>4 DEF Disable, Leave
<1>5. ASSUME NEW u \in Users,
             DeleteGrants(u) \/ DeleteAccount(u) \/ DeletionFails(u) \/ TokenExpires(u)
      PROVE  UNCHANGED <<expert, usage, spent>> \/ Deletes
  BY <1>5 DEF Deletes, DeleteGrants, DeletionFails, TokenExpires
<1>6. ASSUME NEW e \in Experts, RecordUsage(e) \/ Beat(e) \/ BuildEnds(e)
      PROVE  UNCHANGED <<expert, usage, spent>> \/ \E f \in Experts : RecordUsage(f)
  BY <1>6 DEF Beat, BuildEnds
<1>7. QED
  BY <1>1, <1>2, <1>3, <1>4, <1>5, <1>6 DEF Next

LEMMA WhoChangesLinks ==
    ASSUME Next
    PROVE  \/ UNCHANGED <<expert, links>> \/ Creates \/ Deletes
           \/ \E t \in Tabs : Enable(t) \/ Reset(t)
           \/ \E u \in Users, e \in Experts : Disable(u, e)
<1> USE DEF rows, Begin, Refused
<1>1. ASSUME NEW t \in Tabs, NEW e \in Experts,
             \/ CreateExpert(t, e) \/ AskToChat(t, e) \/ AskToUpload(t, e)
             \/ AskToEnable(t, e) \/ AskToReset(t, e)
      PROVE  UNCHANGED <<expert, links>> \/ Creates
  BY <1>1 DEF Creates, CreateExpert, AskToChat, AskToUpload, AskToEnable, AskToReset
<1>2. ASSUME NEW t \in Tabs,
             AskForExpert(t) \/ StartChat(t) \/ Upload(t) \/ ReadWinner(t) \/ Accept(t)
      PROVE  UNCHANGED <<expert, links>>
  BY <1>2 DEF AskForExpert, StartChat, Upload, ReadWinner, Accept
<1>3. ASSUME NEW t \in Tabs, NEW k \in DOMAIN links, AskToAccept(t, k)
      PROVE  UNCHANGED <<expert, links>>
  BY <1>3 DEF AskToAccept
<1>4. ASSUME NEW u \in Users, NEW e \in Experts, Leave(u, e)
      PROVE  UNCHANGED <<expert, links>>
  BY <1>4 DEF Leave
<1>5. ASSUME NEW u \in Users,
             DeleteGrants(u) \/ DeleteAccount(u) \/ DeletionFails(u) \/ TokenExpires(u)
      PROVE  UNCHANGED <<expert, links>> \/ Deletes
  BY <1>5 DEF Deletes, DeleteGrants, DeletionFails, TokenExpires
<1>6. ASSUME NEW e \in Experts, RecordUsage(e) \/ Beat(e) \/ BuildEnds(e)
      PROVE  UNCHANGED <<expert, links>>
  BY <1>6 DEF RecordUsage, Beat, BuildEnds
<1>7. QED
  BY <1>1, <1>2, <1>3, <1>4, <1>5, <1>6 DEF Next

LEMMA WhoNamesPeople ==
    ASSUME Next
    PROVE  \/ UNCHANGED <<users, accounts, expert, chats, uploads, usage>>
           \/ Creates \/ Deletes \/ \E e \in Experts : RecordUsage(e)
           \/ \E t \in Tabs : StartChat(t) \/ Upload(t)
<1> DEFINE Same == UNCHANGED <<users, accounts, expert, chats, uploads, usage>>
<1> USE DEF rows, Begin, Refused
<1>1. ASSUME NEW t \in Tabs, NEW e \in Experts,
             \/ CreateExpert(t, e) \/ AskToChat(t, e) \/ AskToUpload(t, e)
             \/ AskToEnable(t, e) \/ AskToReset(t, e)
      PROVE  Same \/ Creates
  BY <1>1 DEF Creates, CreateExpert, AskToChat, AskToUpload, AskToEnable, AskToReset
<1>2. ASSUME NEW t \in Tabs,
             AskForExpert(t) \/ Enable(t) \/ ReadWinner(t) \/ Reset(t) \/ Accept(t)
      PROVE  Same
  BY <1>2 DEF AskForExpert, Enable, ReadWinner, Reset, Accept
<1>3. ASSUME NEW t \in Tabs, NEW k \in DOMAIN links, AskToAccept(t, k)
      PROVE  Same
  BY <1>3 DEF AskToAccept
<1>4. ASSUME NEW u \in Users, NEW e \in Experts, Disable(u, e) \/ Leave(u, e)
      PROVE  Same
  BY <1>4 DEF Disable, Leave
<1>5. ASSUME NEW u \in Users,
             DeleteGrants(u) \/ DeleteAccount(u) \/ DeletionFails(u) \/ TokenExpires(u)
      PROVE  Same \/ Deletes
  BY <1>5 DEF Deletes, DeleteGrants, DeletionFails, TokenExpires
<1>6. ASSUME NEW e \in Experts, RecordUsage(e) \/ Beat(e) \/ BuildEnds(e)
      PROVE  Same \/ \E f \in Experts : RecordUsage(f)
  BY <1>6 DEF Beat, BuildEnds
<1>7. QED
  BY <1>1, <1>2, <1>3, <1>4, <1>5, <1>6 DEF Next

-----------------------------------------------------------------------------
\* An expert that nobody owns yet gets its first owner, one that is owned keeps its
\* owner or goes, and one that is gone stays gone.
ExpertMoves ==
    /\ expert' \in [Experts -> Users \cup {NoOne, Gone}]
    /\ \A e \in Experts : \/ expert'[e] = expert[e]
                          \/ expert[e] = NoOne /\ expert'[e] \in users
                          \/ expert'[e] = Gone /\ Exists(e)

LEMMA ExpertsMove ==
    ASSUME PeopleAssumption, Typed, Next
    PROVE  ExpertMoves
<1>1. CASE Creates
  <2>1. PICK t \in Tabs, e \in Experts : CreateExpert(t, e) /\ Refers(Of[t])
    BY <1>1 DEF Creates
  <2>2. expert[e] = NoOne /\ expert' = [expert EXCEPT ![e] = Of[t]] /\ Of[t] \in users
    BY <2>1 DEF CreateExpert, Refers
  <2>3. QED
    BY <2>2 DEF ExpertMoves, PeopleAssumption, Typed
<1>2. CASE Deletes
  <2>1. PICK u \in Users : DeleteAccount(u)
    BY <1>2 DEF Deletes
  <2>2. expert' = [e \in Experts |-> IF Owned(u, e) THEN Gone ELSE expert[e]]
    BY <2>1 DEF DeleteAccount
  <2>3. \A e \in Experts : Owned(u, e) => Exists(e)
    BY DEF Owned, Exists, PeopleAssumption
  <2>4. QED
    BY <2>2, <2>3 DEF ExpertMoves, Typed
<1>3. CASE UNCHANGED expert
  BY <1>3 DEF ExpertMoves, Typed
<1>4. ASSUME NEW e \in Experts, Beat(e) \/ BuildEnds(e)
      PROVE  expert' = expert
  BY <1>4 DEF Beat, BuildEnds, rows
<1>5. QED
  BY <1>1, <1>2, <1>3, <1>4, WhoChangesExperts

\* Who a worker builds for.
LEMMA BuildsStep ==
    ASSUME PeopleAssumption, Typed, BuildsAreOwners, Next
    PROVE  /\ BuildsAreOwners'
           /\ job' \in [Experts -> {"none", "running", "done"}]
           /\ building' \in [Experts -> Users \cup {NoOne}]
<1> USE DEF PeopleAssumption, Typed, BuildsAreOwners, Exists
<1>1. CASE Creates
  <2>1. PICK t \in Tabs, e \in Experts : CreateExpert(t, e) /\ Refers(Of[t])
    BY <1>1 DEF Creates
  <2>2. /\ expert' = [expert EXCEPT ![e] = Of[t]] /\ job' = [job EXCEPT ![e] = "running"]
        /\ building' = [building EXCEPT ![e] = Of[t]] /\ Of[t] \in Users
    BY <2>1 DEF CreateExpert
  <2>3. QED
    BY <2>2
<1>2. CASE Deletes
  <2>1. PICK u \in Users : DeleteAccount(u)
    BY <1>2 DEF Deletes
  <2>2. /\ expert' = [e \in Experts |-> IF Owned(u, e) THEN Gone ELSE expert[e]]
        /\ job' = [e \in Experts |-> IF Owned(u, e) THEN "none" ELSE job[e]]
        /\ building' = building
    BY <2>1 DEF DeleteAccount
  <2>3. \A e \in Experts : expert'[e] \in {expert[e], Gone} /\ job'[e] \in {job[e], "none"}
    BY <2>2
  <2>4. \A e \in Experts : ~Exists(e)' => job'[e] = "none"
    BY <2>2
  <2>5. NoOne # Gone
    BY DEF NoOne, Gone
  <2>6. QED
    BY <2>2, <2>3, <2>4, <2>5
<1>3. ASSUME NEW e \in Experts, Beat(e)
      PROVE  /\ BuildsAreOwners' /\ job' = job
             /\ building' \in [Experts -> Users \cup {NoOne}]
  <2>1. /\ UNCHANGED <<expert, job>> /\ building' = [building EXCEPT ![e] = NoOne]
    BY <1>3 DEF Beat, rows
  <2>2. QED
    BY <2>1
<1>4. ASSUME NEW e \in Experts, BuildEnds(e)
      PROVE  /\ BuildsAreOwners' /\ job' \in [Experts -> {"none", "running", "done"}]
             /\ building' \in [Experts -> Users \cup {NoOne}]
  <2>1. /\ expert' = expert /\ building' = [building EXCEPT ![e] = NoOne]
        /\ job[e] = "running" /\ job' = [job EXCEPT ![e] = "done"]
    BY <1>4 DEF BuildEnds
  <2>2. QED
    BY <2>1
<1>5. CASE UNCHANGED <<expert, job, building>>
  BY <1>5
<1>6. QED
  BY <1>1, <1>2, <1>3, <1>4, <1>5, WhoChangesExperts

\* Whose the spend is.
LEMMA SpendStep ==
    ASSUME PeopleAssumption, Typed, BuildsAreOwners, SpendIsOwners, Next
    PROVE  /\ SpendIsOwners' /\ usage' \subseteq Experts \X Users \X Nat /\ spent' \in Nat
<1> USE DEF PeopleAssumption, Typed, SpendIsOwners
<1>1. CASE Creates
  <2>1. PICK t \in Tabs, e \in Experts : CreateExpert(t, e) /\ Refers(Of[t])
    BY <1>1 DEF Creates
  <2>2. /\ expert[e] = NoOne /\ expert' = [expert EXCEPT ![e] = Of[t]]
        /\ UNCHANGED <<usage, spent>>
    BY <2>1 DEF CreateExpert, Refused, Refers, history, rows
  <2>3. \A r \in usage : r[1] \in Experts /\ r[1] # e
    BY <2>2
  <2>4. QED
    BY <2>2, <2>3
<1>2. CASE Deletes
  <2>1. PICK u \in Users : DeleteAccount(u)
    BY <1>2 DEF Deletes
  <2>2. /\ expert' = [e \in Experts |-> IF Owned(u, e) THEN Gone ELSE expert[e]]
        /\ usage' = {r \in usage : r[1] \notin {e \in Experts : Owned(u, e)}}
        /\ spent' = spent
    BY <2>1 DEF DeleteAccount, history
  <2>3. \A r \in usage' : r \in usage /\ r[1] \in Experts /\ expert'[r[1]] = expert[r[1]]
    BY <2>2
  <2>4. QED
    BY <2>2, <2>3
<1>3. ASSUME NEW e \in Experts, RecordUsage(e)
      PROVE  /\ SpendIsOwners' /\ usage' \subseteq Experts \X Users \X Nat /\ spent' \in Nat
  <2>1. /\ expert' = expert /\ building[e] # NoOne /\ job[e] # "none"
        /\ usage' = usage \cup {<<e, building[e], spent>>} /\ spent' = spent + 1
    BY <1>3 DEF RecordUsage
  <2>2. building[e] \in Users /\ building[e] = expert[e]
    BY <2>1 DEF BuildsAreOwners
  <2>3. QED
    BY <2>1, <2>2
<1>4. CASE UNCHANGED <<expert, usage, spent>>
  BY <1>4
<1>5. QED
  BY <1>1, <1>2, <1>3, <1>4, WhoChangesSpend

\* The links.  A live link is one of an expert that is there, and the only one.
LEMMA LinksStep ==
    ASSUME PeopleAssumption, Typed, RequestsAreTheirs, LinksAreLive, Next
    PROVE  LinksAreLive' /\ links' \in Seq(Link)
<1> USE DEF LinksAreLive
<1>1. links \in Seq(Link) /\ \A k \in DOMAIN links : links[k].expert \in Experts
  <2>1. links \in Seq(Link)
    BY DEF Typed
  <2>2. \A k \in DOMAIN links : links[k] \in Link
    BY <2>1
  <2>3. QED
    BY <2>1, <2>2 DEF Link
<1>2. CASE Creates
  <2>1. PICK t \in Tabs, e \in Experts : CreateExpert(t, e) /\ Refers(Of[t])
    BY <1>2 DEF Creates
  <2>2. /\ links' = links /\ expert' = [expert EXCEPT ![e] = Of[t]]
        /\ Of[t] \in Users
    BY <2>1 DEF CreateExpert, Refused, Refers, rows, PeopleAssumption
  <2>3. \A f \in Experts : Exists(f) => Exists(f)'
    BY <2>2 DEF Exists, Typed, PeopleAssumption
  <2>4. QED
    BY <1>1, <2>2, <2>3
<1>3. CASE Deletes
  <2>1. PICK u \in Users : DeleteAccount(u)
    BY <1>3 DEF Deletes
  <2> DEFINE theirs == {e \in Experts : Owned(u, e)}
  <2>2. /\ links' = Darkened(theirs)
        /\ expert' = [e \in Experts |-> IF e \in theirs THEN Gone ELSE expert[e]]
    BY <2>1 DEF DeleteAccount, Darkened
  <2>3. \A e \in Experts \ theirs : Exists(e) => Exists(e)'
    BY <2>2 DEF Exists
  <2>4. /\ links' \in Seq(Link) /\ DOMAIN links' = DOMAIN links
        /\ \A k \in DOMAIN links :
             /\ links'[k].expert = links[k].expert
             /\ links'[k].live <=> links[k].live /\ links[k].expert \notin theirs
    BY <1>1, <2>2, DarkenedLinks
  <2>5. QED
    BY <1>1, <2>3, <2>4
<1>4. ASSUME NEW e \in Experts, links' = Darkened({e}), expert' = expert
      PROVE  LinksAreLive' /\ links' \in Seq(Link)
  BY <1>1, <1>4, DarkenedLinks DEF Exists
<1>5. ASSUME NEW e \in Experts, Exists(e), NEW old \in Seq(Link), links' = Mint(old, e),
             expert' = expert, DOMAIN old = DOMAIN links,
             \A k \in DOMAIN links : /\ old[k].expert = links[k].expert
                                     /\ old[k].live => links[k].live /\ links[k].expert # e
      PROVE  LinksAreLive' /\ links' \in Seq(Link)
  <2> DEFINE last == Len(old) + 1
  <2>0. /\ Mint(old, e) \in Seq(Link)
        /\ DOMAIN Mint(old, e) = DOMAIN old \cup {last} /\ last \notin DOMAIN old
        /\ \A k \in DOMAIN old : Mint(old, e)[k] = old[k]
        /\ Mint(old, e)[last].expert = e
    BY MintedLink
  <2>1. /\ links' \in Seq(Link) /\ DOMAIN links' = DOMAIN links \cup {last} /\ last \notin DOMAIN links
        /\ \A k \in DOMAIN links : links'[k] = old[k]
        /\ links'[last].expert = e
    <3> HIDE DEF last
    <3>1. QED
      BY <2>0, <1>5, Zenon
  <2> HIDE DEF last
  <2>2. \A k \in DOMAIN links :
          /\ links'[k].expert = links[k].expert
          /\ links'[k].live => links[k].live /\ links[k].expert # e
    BY <1>5, <2>1
  <2>4. ASSUME NEW j \in DOMAIN links', NEW k \in DOMAIN links', links'[j].live, links'[k].live,
               links'[j].expert = links'[k].expert
        PROVE  j = k
    <3>1. CASE j \in DOMAIN links /\ k \in DOMAIN links
      BY <2>2, <2>4, <3>1
    <3>2. CASE j = last \/ k = last
      BY <2>1, <2>2, <2>4, <3>2
    <3>3. QED
      BY <2>1, <3>1, <3>2
  <2>5. ASSUME NEW k \in DOMAIN links', links'[k].live
        PROVE  Exists(links[k].expert)'
    <3>1. CASE k \in DOMAIN links
      <4>1. links[k].live /\ links'[k].expert = links[k].expert
        BY <2>2, <2>5, <3>1
      <4>2. Exists(links[k].expert)
        BY <3>1, <4>1
      <4>3. QED
        BY <1>5, <4>1, <4>2 DEF Exists
    <3>2. CASE k = last
      BY <1>5, <2>1, <3>2 DEF Exists
    <3>3. QED
      BY <2>1, <3>1, <3>2
  <2>6. QED
    BY <2>1, <2>4, <2>5
<1>6. ASSUME NEW u \in Users, NEW e \in Experts, Disable(u, e)
      PROVE  LinksAreLive' /\ links' \in Seq(Link)
  <2>1. links' = Darkened({e}) /\ expert' = expert
    BY <1>1, <1>6, RevokedLinks DEF Disable
  <2>2. QED
    BY <1>4, <2>1
<1>7. ASSUME NEW t \in Tabs, Enable(t)
      PROVE  LinksAreLive' /\ links' \in Seq(Link)
  <2> DEFINE e == request[t].on
  <2>1. e \in Experts
    BY <1>7 DEF Enable, RequestsAreTheirs, OfExpert
  <2>2. CASE Exists(e) /\ LiveLinks(e) = {} /\ links' = Mint(links, e) /\ expert' = expert
    <3>1. \A k \in DOMAIN links : links[k].live => links[k].expert # e
      BY <2>2 DEF LiveLinks
    <3>2. QED
      BY <1>1, <1>5, <2>1, <2>2, <3>1
  <2>3. CASE UNCHANGED <<links, expert>>
    BY <1>1, <2>3 DEF Exists
  <2>4. QED
    BY <1>7, <2>2, <2>3 DEF Enable, Refused, rows
<1>8. ASSUME NEW t \in Tabs, Reset(t)
      PROVE  LinksAreLive' /\ links' \in Seq(Link)
  <2> DEFINE e == request[t].on[1]
  <2>1. e \in Experts
    BY <1>8 DEF Reset, RequestsAreTheirs
  <2>2. CASE Exists(e) /\ links' = Mint(Revoked(e), e) /\ expert' = expert
    <3>1. PICK old \in Seq(Link) : old = Revoked(e)
      BY <1>1, RevokedLinks
    <3>2. /\ DOMAIN old = DOMAIN links
          /\ \A k \in DOMAIN links : /\ old[k].expert = links[k].expert
                                     /\ old[k].live => links[k].live /\ links[k].expert # e
      BY <1>1, <3>1, RevokedLinks
    <3>3. Exists(e) /\ links' = Mint(old, e) /\ expert' = expert
      BY <2>2, <3>1
    <3> HIDE DEF e
    <3>4. QED
      BY <1>5, <2>1, <3>2, <3>3
  <2>3. CASE UNCHANGED <<links, expert>>
    BY <1>1, <2>3 DEF Exists
  <2>4. QED
    BY <1>8, <2>2, <2>3 DEF Reset, Refused, rows
<1>9. CASE UNCHANGED <<expert, links>>
  BY <1>1, <1>9 DEF Exists
<1>10. QED
  BY <1>2, <1>3, <1>6, <1>7, <1>8, <1>9, WhoChangesLinks

\* What names a person.
Forgotten(u) ==
    /\ u \notin accounts
    /\ \A e \in Experts : expert[e] # u
    /\ \A row \in chats \cup uploads : row[1] # u
    /\ \A r \in usage : r[2] # u

LEMMA GoneStep ==
    ASSUME PeopleAssumption, Inv, Next
    PROVE  GoneIsGone' /\ users' \subseteq users
<1>1. /\ users \subseteq Users /\ usage \subseteq Experts \X Users \X Nat
      /\ expert \in [Experts -> Users \cup {NoOne, Gone}]
  BY DEF Inv, Typed
<1>2. \A v \in Users \ users : Forgotten(v)
  BY DEF Forgotten, Inv, GoneIsGone
<1>3. CASE Creates
  <2>1. PICK t \in Tabs, e \in Experts : CreateExpert(t, e) /\ Refers(Of[t])
    BY <1>3 DEF Creates
  <2>2. /\ Of[t] \in users /\ accounts' = accounts \cup {Of[t]}
        /\ expert' = [expert EXCEPT ![e] = Of[t]]
        /\ users' = users /\ chats' = chats /\ uploads' = uploads /\ usage' = usage
    BY <2>1 DEF CreateExpert, Refused, Refers
  <2>3. \A v \in Users \ users : Forgotten(v)'
    BY <1>1, <1>2, <2>2 DEF Forgotten
  <2>4. QED
    BY <2>2, <2>3 DEF GoneIsGone, Forgotten
<1>4. CASE Deletes
  <2>1. PICK u \in Users : DeleteAccount(u)
    BY <1>4 DEF Deletes
  <2> DEFINE theirs == {e \in Experts : Owned(u, e)}
  <2>2. /\ users' = users \ {u} /\ accounts' = accounts \ {u}
        /\ expert' = [e \in Experts |-> IF e \in theirs THEN Gone ELSE expert[e]]
        /\ usage' = {r \in usage : r[1] \notin theirs}
        /\ chats' = {c \in chats : c[1] # u /\ c[2] \notin theirs}
        /\ uploads' = {p \in uploads : p[1] # u /\ p[2] \notin theirs}
    BY <2>1 DEF DeleteAccount
  <2>3. Forgotten(u)'
    <3>1. \A e \in Experts : expert'[e] # u
      BY <2>2 DEF Owned, PeopleAssumption
    <3>2. \A r \in usage : r[1] \in Experts /\ r[2] = expert[r[1]]
      BY <1>1 DEF Inv, SpendIsOwners
    <3>3. \A r \in usage' : r[2] # u
      BY <2>2, <3>2 DEF Owned
    <3>4. QED
      BY <2>2, <3>1, <3>3 DEF Forgotten
  <2>4. ASSUME NEW v \in Users \ users
        PROVE  Forgotten(v)'
    <3>1. Forgotten(v) /\ v # Gone
      BY <1>2 DEF PeopleAssumption
    <3>2. \A e \in Experts : expert'[e] # v
      BY <2>2, <3>1 DEF Forgotten
    <3>3. accounts' \subseteq accounts /\ chats' \subseteq chats /\ uploads' \subseteq uploads
          /\ usage' \subseteq usage
      BY <2>2
    <3>4. QED
      BY <3>1, <3>2, <3>3 DEF Forgotten
  <2>5. \A v \in Users \ users' : Forgotten(v)'
    BY <2>2, <2>3, <2>4
  <2>6. QED
    BY <2>2, <2>5 DEF GoneIsGone, Forgotten
<1>5. ASSUME NEW e \in Experts, RecordUsage(e)
      PROVE  GoneIsGone' /\ users' \subseteq users
  <2>1. /\ users' = users /\ accounts' = accounts /\ expert' = expert
        /\ chats' = chats /\ uploads' = uploads
        /\ building[e] # NoOne /\ job[e] # "none"
        /\ usage' = usage \cup {<<e, building[e], spent>>}
    BY <1>5 DEF RecordUsage
  <2>2. building[e] = expert[e]
    BY <2>1 DEF Inv, BuildsAreOwners
  <2>3. \A v \in Users \ users : Forgotten(v)'
    BY <1>2, <2>1, <2>2 DEF Forgotten
  <2>4. QED
    BY <2>1, <2>3 DEF GoneIsGone, Forgotten
<1>6. ASSUME NEW t \in Tabs, StartChat(t)
      PROVE  GoneIsGone' /\ users' \subseteq users
  <2>1. /\ users' = users /\ accounts' = accounts /\ expert' = expert
        /\ uploads' = uploads /\ usage' = usage
        /\ chats' = chats \/ (Of[t] \in users /\ chats' = chats \cup {<<Of[t], request[t].on>>})
    BY <1>6 DEF StartChat, Refused, Refers, rows
  <2>2. \A v \in Users \ users : Forgotten(v)'
    BY <1>2, <2>1 DEF Forgotten
  <2>3. QED
    BY <2>1, <2>2 DEF GoneIsGone, Forgotten
<1>7. ASSUME NEW t \in Tabs, Upload(t)
      PROVE  GoneIsGone' /\ users' \subseteq users
  <2> DEFINE e == request[t].on
  <2>1. /\ users' = users /\ accounts' = accounts /\ expert' = expert
        /\ chats' = chats /\ usage' = usage
        /\ uploads' = uploads \/ (Exists(e) /\ uploads' = uploads \cup {<<Of[t], e>>})
    BY <1>7 DEF Upload, Refused, rows
  <2>2. e \in Experts /\ expert[e] \in {Of[t], Gone} /\ Of[t] \in Users
    BY <1>7 DEF Upload, Inv, RequestsAreTheirs, OfExpert, PeopleAssumption
  <2>3. Exists(e) => Of[t] \in users
    BY <1>2, <2>2 DEF Exists, Forgotten
  <2>4. \A v \in Users \ users : Forgotten(v)'
    BY <1>2, <2>1, <2>3 DEF Forgotten
  <2>5. QED
    BY <2>1, <2>4 DEF GoneIsGone, Forgotten
<1>8. CASE UNCHANGED <<users, accounts, expert, chats, uploads, usage>>
  BY <1>2, <1>8 DEF GoneIsGone, Forgotten
<1>9. QED
  BY <1>3, <1>4, <1>5, <1>6, <1>7, <1>8, WhoNamesPeople

\* The requests.  Each tab's is left alone, answered, sent to read the winner of a
\* minting, or asked for with what the person's screen showed.
Requests == [Tabs -> [op : Operation, on : Experts \cup Nat \cup (Experts \X Nat)]]

Fitting(t, r) ==
    /\ r \in [op : Operation, on : Experts \cup Nat \cup (Experts \X Nat)]
    /\ r.op \in OfExpert => r.on \in Experts
    /\ r.op = "reset" => r.on \in Experts \X Nat
    /\ r.op = "upload" => expert[r.on] = Of[t]

LEMMA RequestsMove ==
    ASSUME Typed, RequestsAreTheirs, Next
    PROVE  \/ UNCHANGED request
           \/ \E t \in Tabs : \E r : /\ request' = [request EXCEPT ![t] = r]
                                     /\ Fitting(t, r) /\ expert' = expert
           \/ \E t \in Tabs : request' = [request EXCEPT ![t] = Idle]
<1> DEFINE Asks == \E t \in Tabs : \E r : /\ request' = [request EXCEPT ![t] = r]
                                          /\ Fitting(t, r) /\ expert' = expert
           Ends == \E t \in Tabs : request' = [request EXCEPT ![t] = Idle]
<1>1. ASSUME NEW t \in Tabs, NEW op \in Operation,
             NEW on \in Experts \cup Nat \cup (Experts \X Nat), Begin(t, op, on),
             op \in OfExpert => on \in Experts, op = "reset" => on \in Experts \X Nat,
             op = "upload" => expert[on] = Of[t]
      PROVE  Asks
  <2> DEFINE r == [op |-> op, on |-> on]
  <2>1. r \in [op : Operation, on : Experts \cup Nat \cup (Experts \X Nat)] /\ r.op = op /\ r.on = on
    OBVIOUS
  <2>2. request' = [request EXCEPT ![t] = r] /\ expert' = expert
    BY <1>1 DEF Begin, rows
  <2>3. Fitting(t, r)
    BY <1>1, <2>1 DEF Fitting
  <2>4. QED
    BY <2>2, <2>3
<1>2. ASSUME NEW t \in Tabs, NEW e \in Experts,
             \/ CreateExpert(t, e) \/ AskToChat(t, e) \/ AskToUpload(t, e)
             \/ AskToEnable(t, e) \/ AskToReset(t, e)
      PROVE  Asks \/ Ends
  <2>1. CASE CreateExpert(t, e)
    BY <2>1 DEF CreateExpert, End, Refused
  <2>2. CASE AskToChat(t, e)
    BY <1>1, <2>2 DEF AskToChat, Operation, OfExpert
  <2>3. CASE AskToUpload(t, e)
    BY <1>1, <2>3 DEF AskToUpload, Owned, Operation, OfExpert
  <2>4. CASE AskToEnable(t, e)
    BY <1>1, <2>4 DEF AskToEnable, Operation, OfExpert
  <2>5. CASE AskToReset(t, e)
    <3>1. PICK k \in LiveLinks(e) \cup (IF LiveLinks(e) = {} THEN {0} ELSE {}) :
            Begin(t, "reset", <<e, k>>)
      BY <2>5 DEF AskToReset
    <3>2. k \in Nat
      BY DEF LiveLinks, Typed
    <3>3. QED
      BY <1>1, <3>1, <3>2 DEF Operation, OfExpert
  <2>6. QED
    BY <1>2, <2>1, <2>2, <2>3, <2>4, <2>5
<1>3. ASSUME NEW t \in Tabs,
             \/ AskForExpert(t) \/ StartChat(t) \/ Upload(t) \/ Enable(t) \/ ReadWinner(t)
             \/ Reset(t) \/ Accept(t)
      PROVE  Asks \/ Ends
  <2>1. CASE AskForExpert(t)
    BY <1>1, <2>1 DEF AskForExpert, Operation, OfExpert
  <2>2. CASE StartChat(t) \/ Upload(t) \/ ReadWinner(t) \/ Reset(t) \/ Accept(t)
    BY <2>2 DEF StartChat, Upload, ReadWinner, Reset, Accept, Refused, End
  <2>3. CASE Enable(t) /\ request' = [request EXCEPT ![t].op = "read winner"] /\ UNCHANGED rows
    <3> DEFINE r == [request[t] EXCEPT !.op = "read winner"]
    <3>1. request[t] \in [op : Operation, on : Experts \cup Nat \cup (Experts \X Nat)]
      BY DEF Typed
    <3>2. request[t].op = "enable" /\ request[t].on \in Experts
      BY <2>3 DEF Enable, RequestsAreTheirs, OfExpert
    <3>3. /\ r \in [op : Operation, on : Experts \cup Nat \cup (Experts \X Nat)]
          /\ r.op = "read winner" /\ r.on = request[t].on
      BY <3>1 DEF Operation
    <3>4. Fitting(t, r)
      BY <3>2, <3>3 DEF Fitting
    <3>5. request' = [request EXCEPT ![t] = r] /\ expert' = expert
      BY <2>3 DEF rows
    <3>6. QED
      BY <3>4, <3>5
  <2>4. QED
    BY <1>3, <2>1, <2>2, <2>3 DEF Enable, End, Refused, rows
<1>4. ASSUME NEW t \in Tabs, NEW k \in DOMAIN links, AskToAccept(t, k)
      PROVE  Asks
  <2>1. k \in Nat
    BY DEF Typed
  <2>2. QED
    BY <1>1, <1>4, <2>1 DEF AskToAccept, Operation, OfExpert
<1>5. ASSUME NEW u \in Users, NEW e \in Experts, Disable(u, e) \/ Leave(u, e)
      PROVE  UNCHANGED request
  BY <1>5 DEF Disable, Leave
<1>6. ASSUME NEW u \in Users,
             DeleteGrants(u) \/ DeleteAccount(u) \/ DeletionFails(u) \/ TokenExpires(u)
      PROVE  UNCHANGED request
  BY <1>6 DEF DeleteGrants, DeleteAccount, DeletionFails, TokenExpires
<1>7. ASSUME NEW e \in Experts, RecordUsage(e) \/ Beat(e) \/ BuildEnds(e)
      PROVE  UNCHANGED request
  BY <1>7 DEF RecordUsage, Beat, BuildEnds
<1>8. QED
  BY <1>2, <1>3, <1>4, <1>5, <1>6, <1>7 DEF Next

LEMMA RequestsStep ==
    ASSUME PeopleAssumption, Typed, RequestsAreTheirs, Next
    PROVE  RequestsAreTheirs' /\ request' \in Requests
<1>1. request \in Requests
  BY DEF Typed, Requests
<1>2. ExpertMoves
  BY ExpertsMove
<1>3. ASSUME NEW t \in Tabs, request[t].op \in OfExpert => request[t].on \in Experts,
             request[t].op = "upload" => expert[request[t].on] \in {Of[t], Gone}
      PROVE  request[t].op = "upload" => expert'[request[t].on] \in {Of[t], Gone}
  <2> SUFFICES ASSUME request[t].op = "upload"
               PROVE  expert'[request[t].on] \in {Of[t], Gone}
    OBVIOUS
  <2> DEFINE e == request[t].on
  <2>1. e \in Experts /\ expert[e] \in {Of[t], Gone} /\ Of[t] \in Users
    BY <1>3 DEF OfExpert, PeopleAssumption
  <2>2. expert[e] # NoOne
    BY <2>1 DEF PeopleAssumption, NoOne, Gone
  <2>3. QED
    BY <1>2, <2>1, <2>2 DEF ExpertMoves
<1>4. CASE UNCHANGED request
  BY <1>1, <1>3, <1>4 DEF RequestsAreTheirs
<1>5. CASE \E t \in Tabs : \E r : /\ request' = [request EXCEPT ![t] = r]
                                  /\ Fitting(t, r) /\ expert' = expert
  <2>0. PICK t \in Tabs : \E r : /\ request' = [request EXCEPT ![t] = r]
                                 /\ Fitting(t, r) /\ expert' = expert
    BY <1>5
  <2>1. PICK r : request' = [request EXCEPT ![t] = r] /\ Fitting(t, r) /\ expert' = expert
    BY <2>0
  <2>2. request' \in Requests /\ request'[t] = r /\ \A s \in Tabs \ {t} : request'[s] = request[s]
    BY <1>1, <2>1 DEF Requests, Fitting
  <2>3. QED
    BY <2>1, <2>2 DEF RequestsAreTheirs, Fitting
<1>6. CASE \E t \in Tabs : request' = [request EXCEPT ![t] = Idle]
  <2>1. PICK t \in Tabs : request' = [request EXCEPT ![t] = Idle]
    BY <1>6
  <2>2. /\ request' \in Requests /\ request'[t].op = "none"
        /\ \A s \in Tabs \ {t} : request'[s] = request[s]
    BY <1>1, <2>1 DEF Requests, Idle, Operation
  <2>3. QED
    BY <1>3, <2>2 DEF RequestsAreTheirs, OfExpert
<1>7. QED
  BY <1>4, <1>5, <1>6, RequestsMove

-----------------------------------------------------------------------------
LEMMA Initially ==
    ASSUME PeopleAssumption, Init
    PROVE  Inv
<1> USE DEF Init, PeopleAssumption
<1>1. Typed
  <2>1. Idle \in [op : Operation, on : Experts \cup Nat \cup (Experts \X Nat)] /\ Idle.op = "none"
    BY DEF Idle, Operation
  <2>2. QED
    BY <2>1 DEF Typed
<1>2. RequestsAreTheirs
  BY DEF RequestsAreTheirs, Idle, OfExpert
<1>3. BuildsAreOwners /\ SpendIsOwners
  BY DEF BuildsAreOwners, SpendIsOwners, Exists
<1>4. LinksAreLive
  BY DEF LinksAreLive
<1>5. GoneIsGone
  BY DEF GoneIsGone
<1>6. QED
  BY <1>1, <1>2, <1>3, <1>4, <1>5 DEF Inv

LEMMA TokensStep ==
    ASSUME Typed, Next
    PROVE  tokens' \subseteq tokens /\ deleting' \subseteq deleting \cup tokens
<1> USE DEF rows, deletion, Begin, Refused
<1>1. ASSUME NEW t \in Tabs, NEW e \in Experts,
             \/ CreateExpert(t, e) \/ AskToChat(t, e) \/ AskToUpload(t, e)
             \/ AskToEnable(t, e) \/ AskToReset(t, e)
      PROVE  UNCHANGED <<tokens, deleting>>
  BY <1>1 DEF CreateExpert, AskToChat, AskToUpload, AskToEnable, AskToReset
<1>2. ASSUME NEW t \in Tabs,
             \/ AskForExpert(t) \/ StartChat(t) \/ Upload(t) \/ Enable(t) \/ ReadWinner(t)
             \/ Reset(t) \/ Accept(t)
      PROVE  UNCHANGED <<tokens, deleting>>
  BY <1>2 DEF AskForExpert, StartChat, Upload, Enable, ReadWinner, Reset, Accept
<1>3. ASSUME NEW t \in Tabs, NEW k \in DOMAIN links, AskToAccept(t, k)
      PROVE  UNCHANGED <<tokens, deleting>>
  BY <1>3 DEF AskToAccept
<1>4. ASSUME NEW u \in Users, NEW e \in Experts, Disable(u, e) \/ Leave(u, e)
      PROVE  UNCHANGED <<tokens, deleting>>
  BY <1>4 DEF Disable, Leave
<1>5. ASSUME NEW u \in Users,
             DeleteGrants(u) \/ DeleteAccount(u) \/ DeletionFails(u) \/ TokenExpires(u)
      PROVE  tokens' \subseteq tokens /\ deleting' \subseteq deleting \cup tokens
  BY <1>5 DEF DeleteGrants, DeleteAccount, DeletionFails, TokenExpires
<1>6. ASSUME NEW e \in Experts, RecordUsage(e) \/ Beat(e) \/ BuildEnds(e)
      PROVE  UNCHANGED <<tokens, deleting>>
  BY <1>6 DEF RecordUsage, Beat, BuildEnds
<1>7. QED
  BY <1>1, <1>2, <1>3, <1>4, <1>5, <1>6 DEF Next

LEMMA Inductive ==
    ASSUME PeopleAssumption, Inv, [Next]_vars
    PROVE  Inv'
<1>1. CASE Next
  <2>1. Typed /\ RequestsAreTheirs /\ BuildsAreOwners /\ SpendIsOwners /\ LinksAreLive
    BY DEF Inv
  <2>2. Typed'
    <3>1. users' \subseteq Users /\ tokens' \subseteq Users /\ deleting' \subseteq Users
      BY <1>1, <2>1, GoneStep, TokensStep DEF Typed
    <3>2. expert' \in [Experts -> Users \cup {NoOne, Gone}]
      BY <1>1, <2>1, ExpertsMove DEF ExpertMoves
    <3>3. links' \in Seq(Link)
      BY <1>1, <2>1, LinksStep
    <3>4. /\ job' \in [Experts -> {"none", "running", "done"}]
          /\ building' \in [Experts -> Users \cup {NoOne}]
      BY <1>1, <2>1, BuildsStep
    <3>5. usage' \subseteq Experts \X Users \X Nat /\ spent' \in Nat
      BY <1>1, <2>1, SpendStep
    <3>6. request' \in [Tabs -> [op : Operation, on : Experts \cup Nat \cup (Experts \X Nat)]]
      BY <1>1, <2>1, RequestsStep DEF Requests
    <3>7. QED
      BY <3>1, <3>2, <3>3, <3>4, <3>5, <3>6 DEF Typed
  <2>3. RequestsAreTheirs' /\ BuildsAreOwners' /\ SpendIsOwners' /\ LinksAreLive' /\ GoneIsGone'
    BY <1>1, <2>1, RequestsStep, BuildsStep, SpendStep, LinksStep, GoneStep
  <2>4. QED
    BY <2>2, <2>3 DEF Inv
<1>2. CASE UNCHANGED vars
  BY <1>2 DEF vars, Inv, Typed, RequestsAreTheirs, BuildsAreOwners, SpendIsOwners,
              LinksAreLive, GoneIsGone, Exists
<1>3. QED
  BY <1>1, <1>2

\* What the deletion of an account promises (accounts/repository.py): nothing names a
\* deleted person again, whatever requests of theirs and whatever build were in flight,
\* and however many.
THEOREM Forgetting ==
    ASSUME PeopleAssumption
    PROVE  Spec => []GoneIsGone
<1>1. Init => Inv
  BY Initially
<1>2. Inv /\ [Next]_vars => Inv'
  BY Inductive
<1>3. Inv => GoneIsGone
  BY DEF Inv
<1>4. QED
  BY <1>1, <1>2, <1>3, PTL DEF Spec

\* What the partial unique index on live links and the handlers over it promise: one
\* live link at most, and none of an expert that is gone, with any number of an owner's
\* requests to turn sharing on, off and over at once.
THEOREM OneLink ==
    ASSUME PeopleAssumption
    PROVE  Spec => []OneLiveLink
<1>1. Init => Inv
  BY Initially
<1>2. Inv /\ [Next]_vars => Inv'
  BY Inductive
<1>3. Inv => OneLiveLink
  <2> SUFFICES ASSUME Inv, NEW e \in Experts
               PROVE  Cardinality(LiveLinks(e)) <= IF Exists(e) THEN 1 ELSE 0
    BY DEF OneLiveLink
  <2>1. \A j, k \in LiveLinks(e) : j = k
    BY DEF LiveLinks, Inv, LinksAreLive
  <2>2. ~Exists(e) => LiveLinks(e) = {}
    BY DEF LiveLinks, Inv, LinksAreLive
  <2>3. CASE LiveLinks(e) = {}
    BY <2>3, FS_EmptySet
  <2>4. CASE LiveLinks(e) # {}
    <3>1. PICK k \in LiveLinks(e) : LiveLinks(e) = {k}
      BY <2>1, <2>4
    <3>2. Cardinality(LiveLinks(e)) = 1
      BY <3>1, FS_Singleton
    <3>3. QED
      BY <2>2, <2>4, <3>2
  <2>5. QED
    BY <2>3, <2>4
<1>4. QED
  BY <1>1, <1>2, <1>3, PTL DEF Spec

\* What Readable promises across deletions: nobody reads an expert that is gone, by a
\* token that outlives an account, a grant or a link.
NothingLeftToRead == \A u \in Users, e \in Experts : Readable(u, e) => Exists(e)

THEOREM NoGhosts ==
    ASSUME PeopleAssumption
    PROVE  Spec => []NothingLeftToRead
<1>1. Init => Inv
  BY Initially
<1>2. Inv /\ [Next]_vars => Inv'
  BY Inductive
<1>3. Inv => NothingLeftToRead
  BY DEF Inv, LinksAreLive, NothingLeftToRead, Readable, Owned, LiveLinks, Exists, PeopleAssumption
<1>4. QED
  BY <1>1, <1>2, <1>3, PTL DEF Spec
-----------------------------------------------------------------------------
\* SignIn.  Sessions are numbered as they are minted; a handler that resets a password
\* runs for a device that is signed out, one that changes it for the session held.
Handlers ==
    [op : {"none", "reset", "reset out", "check out", "change", "change out"},
     new : Passwords \cup {""}, session : Nat]

SignTyped ==
    /\ minted \in Nat /\ sessions \subseteq 1..minted
    /\ holds \in [Devices -> Nat] /\ handler \in [Devices -> Handlers]
    /\ failures \in Nat

OwnSession ==
    \A d \in Devices :
        /\ handler[d].op \in {"reset", "reset out"} => holds[d] = 0
        /\ handler[d].op \in {"change", "change out"} => handler[d].session = holds[d]

\* Where a session is looked after: on a device, or by the handler that opened it.
Kept(s, d) ==
    \/ holds[d] = s
    \/ handler[d].op \in {"reset", "reset out", "check out"} /\ handler[d].session = s

NoneAstray == failures = 0 => \A s \in sessions \ spoilt : \E d \in Devices : Kept(s, d)

SignInv == SignTyped /\ OwnSession /\ NoneAstray

\* A handler that goes on with an operation, and one that is answered.
LEMMA Handling ==
    ASSUME handler \in [Devices -> Handlers], NEW d \in Devices,
           NEW op \in {"reset", "reset out", "check out", "change", "change out"},
           NEW new \in Passwords \cup {""}, NEW session \in Nat, Sign!Go(d, op, new, session)
    PROVE  /\ handler' \in [Devices -> Handlers]
           /\ handler'[d].op = op /\ handler'[d].session = session
           /\ \A e \in Devices \ {d} : handler'[e] = handler[e]
BY DEF Sign!Go, Handlers

LEMMA Answering ==
    ASSUME handler \in [Devices -> Handlers], NEW d \in Devices, NEW a, Sign!Answer(d, a)
    PROVE  /\ handler' \in [Devices -> Handlers] /\ handler'[d].op = "none"
           /\ \A e \in Devices \ {d} : handler'[e] = handler[e]
BY DEF Sign!Answer, Sign!None, Sign!Nothing, Handlers

LEMMA HandlerFields ==
    ASSUME handler \in [Devices -> Handlers], NEW d \in Devices
    PROVE  /\ handler[d].op \in {"none", "reset", "reset out", "check out", "change", "change out"}
           /\ handler[d].new \in Passwords \cup {""} /\ handler[d].session \in Nat
BY DEF Handlers

\* Minting: the new session is not one that was.
LEMMA Minting ==
    ASSUME SignTyped, Sign!Mint
    PROVE  /\ minted' \in Nat /\ sessions' \subseteq 1..minted' /\ minted + 1 \in Nat
           /\ minted + 1 # 0 /\ sessions' = sessions \cup {minted + 1}
BY DEF SignTyped, Sign!Mint

\* A step that keeps the sessions, adds one that is looked after, or lets some go; that
\* looks after what was looked after; and that may lose a call.
LEMMA SignKeeps ==
    ASSUME SignInv, SignTyped', OwnSession',
           failures' = 0 => /\ failures = 0
                            /\ \A s \in sessions' \ spoilt' :
                                  \/ \E d \in Devices : Kept(s, d)'
                                  \/ /\ s \in sessions \ spoilt
                                     /\ \A d \in Devices : Kept(s, d) =>
                                            \E e \in Devices : Kept(s, e)'
    PROVE  SignInv'
BY DEF SignInv, NoneAstray

LEMMA SignStep ==
    ASSUME SignInv, Sign!Next
    PROVE  SignInv'
<1> USE DEF Sign!Nothing
<1>1. SignTyped /\ OwnSession /\ 0 \notin sessions
  BY DEF SignInv, SignTyped
<1>2. handler \in [Devices -> Handlers] /\ holds \in [Devices -> Nat] /\ failures \in Nat
  BY <1>1 DEF SignTyped
<1>3. ASSUME NEW d \in Devices, Sign!Lost
      PROVE  failures' \in Nat /\ failures' # 0
  BY <1>2, <1>3 DEF Sign!Lost
<1>4. ASSUME NEW d \in Devices, holds[d] = 0, Sign!Free(d), Sign!Mint,
             holds' = [holds EXCEPT ![d] = minted + 1], UNCHANGED <<handler, failures, spoilt>>
      PROVE  SignInv'
  <2>1. SignTyped'
    BY <1>1, <1>4, Minting DEF SignTyped
  <2>2. OwnSession'
    BY <1>1, <1>2, <1>4 DEF OwnSession, Sign!Free
  <2>3. \A s \in sessions' : \/ Kept(s, d)'
                             \/ s \in sessions /\ \A e \in Devices : Kept(s, e) => Kept(s, e)'
    BY <1>1, <1>2, <1>4, Minting DEF Kept
  <2>4. QED
    BY <1>4, <2>1, <2>2, <2>3, SignKeeps
<1>5. ASSUME NEW d \in Devices, NEW a, Sign!Answer(d, a), Sign!Free(d), Sign!Same
      PROVE  SignInv'
  <2>1. SignTyped'
    BY <1>1, <1>5, Answering DEF SignTyped, Sign!Same
  <2>2. OwnSession'
    BY <1>1, <1>2, <1>5, Answering DEF OwnSession, Sign!Same
  <2>3. \A s, e : e \in Devices /\ Kept(s, e) => Kept(s, e)'
    BY <1>2, <1>5, Answering DEF Kept, Sign!Free, Sign!Same
  <2>4. QED
    BY <1>5, <2>1, <2>2, <2>3, SignKeeps DEF Sign!Same
<1>6. CASE UNCHANGED <<sessions, minted, holds, handler, failures, spoilt>>
  BY <1>6 DEF SignInv, SignTyped, OwnSession, NoneAstray, Kept
<1>7. ASSUME NEW d \in Devices, NEW typed \in Passwords, Sign!Login(d, typed)
      PROVE  SignInv'
  BY <1>4, <1>5, <1>7 DEF Sign!Login
<1>8. ASSUME NEW d \in Devices, Sign!SignInOtherwise(d)
      PROVE  SignInv'
  BY <1>4, <1>8 DEF Sign!SignInOtherwise
<1>24. ASSUME NEW d \in Devices, Sign!SignInAgain(d)
       PROVE  SignInv'
  <2>1. /\ holds[d] # 0 /\ Sign!Free(d) /\ Sign!Mint
        /\ holds' = [holds EXCEPT ![d] = minted + 1]
        /\ spoilt' = spoilt \cup ({holds[d]} \cap sessions)
        /\ UNCHANGED <<handler, failures>>
    BY <1>24 DEF Sign!SignInAgain
  <2>2. SignTyped'
    BY <1>1, <2>1, Minting DEF SignTyped
  <2>3. OwnSession'
    BY <1>1, <1>2, <2>1 DEF OwnSession, Sign!Free
  <2>4. \A s \in sessions' \ spoilt' :
            \/ Kept(s, d)'
            \/ s \in sessions /\ \A e \in Devices : Kept(s, e) => Kept(s, e)'
    <3>1. ASSUME NEW s \in sessions, s # holds[d], NEW e \in Devices, Kept(s, e)
          PROVE  Kept(s, e)'
      BY <1>2, <2>1, <3>1 DEF Kept, Sign!Free
    <3>2. ASSUME NEW s, s = minted + 1
          PROVE  Kept(s, d)'
      BY <1>1, <1>2, <2>1, <3>2, Minting DEF Kept
    <3>3. QED
      BY <1>1, <2>1, <3>1, <3>2, Minting
  <2>5. QED
    BY <2>1, <2>2, <2>3, <2>4, SignKeeps
<1>9. ASSUME NEW d \in Devices, NEW code, NEW new \in Passwords, Sign!ResetVerify(d, code, new)
      PROVE  SignInv'
  <2>1. CASE Sign!Mint /\ Sign!Go(d, "reset", new, minted + 1) /\ UNCHANGED <<holds, failures, spoilt>>
    <3>1. /\ minted + 1 \in Nat /\ handler' \in [Devices -> Handlers]
          /\ handler'[d].op = "reset" /\ handler'[d].session = minted + 1
          /\ \A e \in Devices \ {d} : handler'[e] = handler[e]
      BY <1>1, <1>2, <2>1, Minting, Handling
    <3>2. SignTyped'
      BY <1>1, <2>1, <3>1, Minting DEF SignTyped
    <3>3. OwnSession'
      BY <1>1, <1>9, <2>1, <3>1 DEF OwnSession, Sign!ResetVerify
    <3>4. \A e \in Devices : \A s : Kept(s, e) => Kept(s, e)'
      BY <1>9, <2>1, <3>1 DEF Kept, Sign!ResetVerify, Sign!Free
    <3>5. \A s \in sessions' : Kept(s, d)' \/ s \in sessions
      BY <1>1, <2>1, <3>1, Minting DEF Kept
    <3>6. QED
      BY <2>1, <3>2, <3>3, <3>4, <3>5, SignKeeps
  <2>2. QED
    BY <1>5, <1>9, <2>1 DEF Sign!ResetVerify
\* Whatever a call that is lost leaves behind.
<1>10. ASSUME Sign!Lost, SignTyped', OwnSession'
       PROVE  SignInv'
  BY <1>2, <1>10, SignKeeps DEF Sign!Lost
\* A handler that goes on, for the session it has; and one that ends.
<1>11. ASSUME NEW d \in Devices, NEW a, Sign!Answer(d, a), minted' = minted,
              sessions' \subseteq sessions, failures' \in Nat,
              holds' = holds \/ holds' = [holds EXCEPT ![d] = handler[d].session]
       PROVE  SignTyped' /\ OwnSession'
  <2>1. SignTyped'
    BY <1>1, <1>2, <1>11, Answering, HandlerFields DEF SignTyped
  <2>2. OwnSession'
    BY <1>1, <1>2, <1>11, Answering DEF OwnSession
  <2>3. QED
    BY <2>1, <2>2
<1>12. ASSUME NEW d \in Devices,
              \/ handler[d].op = "reset" /\ Sign!Go(d, "reset out", handler[d].new, handler[d].session)
              \/ /\ handler[d].op = "change"
                 /\ Sign!Go(d, "change out", handler[d].new, handler[d].session),
              UNCHANGED <<sessions, minted, holds, failures, spoilt>>
       PROVE  SignInv'
  <2>1. /\ handler' \in [Devices -> Handlers]
        /\ handler'[d].session = handler[d].session
        /\ \/ handler[d].op = "reset" /\ handler'[d].op = "reset out"
           \/ handler[d].op = "change" /\ handler'[d].op = "change out"
        /\ \A e \in Devices \ {d} : handler'[e] = handler[e]
    BY <1>2, <1>12, Handling, HandlerFields
  <2>2. SignTyped' /\ OwnSession'
    BY <1>1, <1>12, <2>1 DEF SignTyped, OwnSession
  <2>3. \A e \in Devices : \A s : Kept(s, e) => Kept(s, e)'
    BY <1>12, <2>1 DEF Kept
  <2>4. QED
    BY <1>12, <2>2, <2>3, SignKeeps
<1>13. ASSUME NEW d \in Devices, Sign!ResetUpdate(d)
       PROVE  SignInv'
  <2>1. CASE /\ Sign!Answer(d, IF handler[d].session \in sessions THEN "choose another for the reset"
                              ELSE "refused")
             /\ spoilt' = spoilt \cup ({handler[d].session} \cap sessions)
             /\ UNCHANGED <<sessions, minted, holds, failures>>
    <3>1. SignTyped' /\ OwnSession'
      BY <1>2, <1>11, <2>1
    <3>2. \A s \in sessions' \ spoilt', e \in Devices : Kept(s, e) => Kept(s, e)'
      BY <1>2, <2>1, Answering DEF Kept
    <3>3. QED
      BY <2>1, <3>1, <3>2, SignKeeps
  <2>2. CASE Sign!Lost /\ Sign!Answer(d, "unavailable") /\ UNCHANGED <<sessions, minted, holds>>
    BY <1>3, <1>10, <1>11, <2>2
  <2>3. QED
    BY <1>12, <1>13, <2>1, <2>2 DEF Sign!ResetUpdate
<1>14. ASSUME NEW d \in Devices, Sign!SignOthersOut(d)
       PROVE  SignInv'
  <2> DEFINE mine == handler[d].session
  <2>1. handler[d].op \in {"reset out", "change out"} /\ UNCHANGED <<minted, spoilt>>
    BY <1>14 DEF Sign!SignOthersOut
  <2>2. CASE /\ sessions' = Sign!OthersOut(mine) /\ failures' = failures
             /\ holds' = [holds EXCEPT ![d] = mine] /\ Sign!Answer(d, "done")
    <3>1. sessions' \subseteq sessions /\ (mine \in sessions => sessions' = {mine})
      BY <2>2 DEF Sign!OthersOut
    <3>2. SignTyped' /\ OwnSession'
      BY <1>2, <1>11, <2>1, <2>2, <3>1
    <3>3. \A s \in sessions', e \in Devices : Kept(s, e) => Kept(s, e)' \/ Kept(s, d)'
      <4>1. holds'[d] = mine /\ \A e \in Devices \ {d} : holds'[e] = holds[e]
        BY <1>2, <2>2
      <4>2. \A e \in Devices \ {d} : handler'[e] = handler[e]
        BY <1>2, <2>2, Answering
      <4>3. ASSUME NEW s \in sessions', NEW e \in Devices \ {d}, Kept(s, e)
            PROVE  Kept(s, e)'
        BY <4>1, <4>2, <4>3 DEF Kept
      <4>4. ASSUME NEW s \in sessions', Kept(s, d)
            PROVE  Kept(s, d)'
        <5>1. s \in sessions /\ (mine \in sessions => s = mine)
          BY <3>1
        <5>2. s = mine
          BY <1>1, <2>1, <4>4, <5>1 DEF Kept, OwnSession
        <5>3. QED
          BY <4>1, <5>2 DEF Kept
      <4>5. QED
        BY <4>3, <4>4
    <3>4. \A s \in sessions', e \in Devices : Kept(s, e) => \E f \in Devices : Kept(s, f)'
      BY <3>3
    <3>5. QED
      BY <2>1, <2>2, <3>1, <3>2, <3>4, SignKeeps
  <2>3. CASE /\ Sign!Lost /\ UNCHANGED sessions
             /\ holds' = [holds EXCEPT ![d] = mine] /\ Sign!Answer(d, "done")
    BY <1>3, <1>10, <1>11, <2>1, <2>3
  <2>4. CASE Sign!Lost /\ Sign!Answer(d, "error") /\ UNCHANGED <<sessions, holds>>
    BY <1>3, <1>10, <1>11, <2>1, <2>4
  <2>5. QED
    BY <1>14, <2>2, <2>3, <2>4 DEF Sign!SignOthersOut
<1>15. ASSUME NEW d \in Devices, NEW typed \in Passwords, NEW new \in Passwords,
              Sign!ChangeCheck(d, typed, new)
       PROVE  SignInv'
  <2>1. CASE /\ Sign!Go(d, "change", new, holds[d])
             /\ UNCHANGED <<sessions, minted, holds, failures, spoilt>>
    <3>1. /\ handler' \in [Devices -> Handlers]
          /\ handler'[d].op = "change" /\ handler'[d].session = holds[d]
          /\ \A e \in Devices \ {d} : handler'[e] = handler[e]
      BY <1>2, <2>1, Handling
    <3>2. SignTyped' /\ OwnSession'
      BY <1>1, <2>1, <3>1 DEF SignTyped, OwnSession
    <3>3. \A e \in Devices : \A s : Kept(s, e) => Kept(s, e)'
      BY <1>15, <2>1, <3>1 DEF Kept, Sign!ChangeCheck, Sign!Free
    <3>4. QED
      BY <2>1, <3>2, <3>3, SignKeeps
  <2>2. CASE /\ Sign!Mint /\ Sign!Go(d, "check out", new, minted + 1)
             /\ UNCHANGED <<holds, failures, spoilt>>
    <3>1. /\ minted + 1 \in Nat /\ handler' \in [Devices -> Handlers]
          /\ handler'[d].op = "check out" /\ handler'[d].session = minted + 1
          /\ \A e \in Devices \ {d} : handler'[e] = handler[e]
      BY <1>1, <1>2, <2>2, Minting, Handling
    <3>2. SignTyped' /\ OwnSession'
      BY <1>1, <2>2, <3>1, Minting DEF SignTyped, OwnSession
    <3>3. \A e \in Devices : \A s : Kept(s, e) => Kept(s, e)'
      BY <1>15, <2>2, <3>1 DEF Kept, Sign!ChangeCheck, Sign!Free
    <3>4. \A s \in sessions' : Kept(s, d)' \/ s \in sessions
      BY <1>1, <2>2, <3>1, Minting DEF Kept
    <3>5. QED
      BY <2>2, <3>2, <3>3, <3>4, SignKeeps
  <2>3. QED
    BY <1>5, <1>15, <2>1, <2>2 DEF Sign!ChangeCheck
<1>16. ASSUME NEW d \in Devices, Sign!ChangeCheckOut(d)
       PROVE  SignInv'
  <2> DEFINE opened == handler[d].session
  <2>1. handler[d].op = "check out" /\ UNCHANGED <<minted, holds, spoilt>>
    BY <1>16 DEF Sign!ChangeCheckOut
  <2>2. CASE /\ Sign!Go(d, "change", handler[d].new, holds[d])
             /\ \/ sessions' = sessions \ {opened} /\ failures' = failures
                \/ Sign!Lost /\ sessions' = sessions
    <3>1. /\ handler' \in [Devices -> Handlers]
          /\ handler'[d].op = "change" /\ handler'[d].session = holds[d]
          /\ \A e \in Devices \ {d} : handler'[e] = handler[e]
      BY <1>2, <2>2, Handling, HandlerFields
    <3>2. failures' \in Nat
      BY <1>2, <1>3, <2>2
    <3>3. SignTyped' /\ OwnSession'
      BY <1>1, <2>1, <2>2, <3>1, <3>2 DEF SignTyped, OwnSession
    <3>4. CASE sessions' = sessions \ {opened} /\ failures' = failures
      <4>1. \A s \in sessions', e \in Devices : Kept(s, e) => Kept(s, e)'
        BY <2>1, <3>1, <3>4 DEF Kept
      <4>2. QED
        BY <2>1, <3>3, <3>4, <4>1, SignKeeps
    <3>5. QED
      BY <1>10, <2>2, <3>3, <3>4
  <2>3. CASE Sign!Lost /\ Sign!Answer(d, "error") /\ sessions' = sessions
    BY <1>3, <1>10, <1>11, <2>1, <2>3
  <2>4. QED
    BY <1>16, <2>2, <2>3 DEF Sign!ChangeCheckOut, Sign!CheckOut
<1>17. ASSUME NEW d \in Devices, Sign!ChangeUpdate(d)
       PROVE  SignInv'
  <2>1. CASE Sign!Same /\ \E a : Sign!Answer(d, a)
    <3>1. PICK a : Sign!Answer(d, a)
      BY <2>1
    <3>2. SignTyped' /\ OwnSession'
      BY <1>2, <1>11, <2>1, <3>1 DEF Sign!Same
    <3>3. \A e \in Devices : \A s : Kept(s, e) => Kept(s, e)'
      BY <1>2, <1>17, <2>1, <3>1, Answering DEF Kept, Sign!Same, Sign!ChangeUpdate
    <3>4. QED
      BY <2>1, <3>2, <3>3, SignKeeps DEF Sign!Same
  <2>2. CASE Sign!Lost /\ Sign!Answer(d, "unavailable") /\ UNCHANGED <<sessions, minted, holds>>
    BY <1>3, <1>10, <1>11, <2>2
  <2>3. QED
    BY <1>12, <1>17, <2>1, <2>2 DEF Sign!ChangeUpdate
<1>18. ASSUME NEW d \in Devices, handler[d].op = "none", handler' = handler,
              UNCHANGED <<minted, spoilt>>, sessions' \subseteq sessions,
              holds' = holds \/ holds' = [holds EXCEPT ![d] = 0],
              \/ Sign!Lost
              \/ failures' = failures /\ (holds' = holds \/ holds[d] \notin sessions')
       PROVE  SignInv'
  <2> failures' \in Nat /\ holds' \in [Devices -> Nat]
    BY <1>2, <1>3, <1>18
  <2>0. SignTyped'
    BY <1>1, <1>18 DEF SignTyped
  <2>1. SignTyped' /\ OwnSession'
    BY <1>1, <1>18, <2>0 DEF OwnSession
  <2>2. CASE failures' = failures /\ (holds' = holds \/ holds[d] \notin sessions')
    <3>1. \A s \in sessions', e \in Devices : Kept(s, e) => Kept(s, e)'
      BY <1>2, <1>18, <2>2 DEF Kept
    <3>2. QED
      BY <1>18, <2>1, <2>2, <3>1, SignKeeps
  <2>3. QED
    BY <1>10, <1>18, <2>1, <2>2
<1>19. ASSUME NEW d \in Devices, NEW scope \in {"local", "others", "global"}, Sign!Logout(d, scope)
       PROVE  SignInv'
  <2>1. /\ handler[d].op = "none" /\ handler' = handler /\ UNCHANGED <<minted, spoilt>>
        /\ holds' = IF scope = "others" THEN holds ELSE [holds EXCEPT ![d] = 0]
    BY <1>19 DEF Sign!Logout, Sign!Free
  <2>2. CASE Sign!Lost /\ sessions' = sessions
    BY <1>18, <2>1, <2>2
  <2>3. CASE /\ failures' = failures
             /\ sessions' = IF holds[d] \notin sessions THEN sessions
                            ELSE CASE scope = "local" -> sessions \ {holds[d]}
                                   [] scope = "others" -> {holds[d]}
                                   [] scope = "global" -> {}
    <3>1. sessions' \subseteq sessions
      BY <2>3
    <3>2. scope # "others" => holds[d] \notin sessions'
      BY <2>3
    <3>3. QED
      BY <1>18, <2>1, <2>3, <3>1, <3>2
  <2>4. QED
    BY <1>19, <2>2, <2>3 DEF Sign!Logout
<1>20. ASSUME NEW d \in Devices, NEW s \in sessions, Sign!Revoke(d, s)
       PROVE  SignInv'
  <2>1. /\ handler[d].op = "none" /\ handler' = handler /\ UNCHANGED <<minted, spoilt>>
        /\ holds' = holds /\ failures' = failures /\ sessions' \subseteq sessions
    BY <1>20 DEF Sign!Revoke, Sign!Free
  <2>2. QED
    BY <1>18, <2>1
<1>21. ASSUME NEW d \in Devices, Sign!Refresh(d)
       PROVE  SignInv'
  <2>1. /\ handler[d].op = "none" /\ handler' = handler /\ UNCHANGED <<minted, spoilt, sessions>>
        /\ \/ holds[d] \notin sessions /\ holds' = [holds EXCEPT ![d] = 0] /\ failures' = failures
           \/ Sign!Lost /\ holds' = holds
    BY <1>21 DEF Sign!Refresh, Sign!Free
  <2>2. QED
    BY <1>18, <2>1
<1>22. ASSUME NEW d \in Devices, Sign!Forgot(d)
       PROVE  SignInv'
  BY <1>6, <1>22 DEF Sign!Forgot
<1>23. QED
  BY <1>7, <1>8, <1>9, <1>13, <1>14, <1>15, <1>16, <1>17, <1>19, <1>20, <1>21, <1>22, <1>24
  DEF Sign!Next

\* What the handlers of a sign-in promise by the sessions they open and close: when none
\* runs and no call was lost, every session is one a device holds, but for those of a
\* reset whose new password was refused and those put aside for the session of a changed
\* address or a linked identity; with any number of devices.
THEOREM NoStrays == Sign!Spec => []Sign!NoStraySession
<1>1. Sign!Init => SignInv
  <2> SUFFICES ASSUME Sign!Init PROVE SignInv
    OBVIOUS
  <2>1. Sign!None \in Handlers /\ Sign!None.op = "none"
    BY DEF Sign!None, Sign!Nothing, Handlers
  <2>2. SignTyped
    BY <2>1 DEF Sign!Init, Sign!Nothing, SignTyped
  <2>3. OwnSession /\ NoneAstray
    BY <2>1 DEF Sign!Init, OwnSession, NoneAstray
  <2>4. QED
    BY <2>2, <2>3 DEF SignInv, Sign!Init
<1>2. SignInv /\ [Sign!Next]_Sign!vars => SignInv'
  <2>1. SignInv /\ UNCHANGED Sign!vars => SignInv'
    BY DEF Sign!vars, SignInv, SignTyped, OwnSession, NoneAstray, Kept
  <2>2. QED
    BY <2>1, SignStep
<1>3. SignInv => Sign!NoStraySession
  BY DEF SignInv, NoneAstray, Kept, Sign!NoStraySession, Sign!Free
<1>4. QED
  BY <1>1, <1>2, <1>3, PTL DEF Sign!Spec
=============================================================================
