--------------------------- MODULE EventTailProofs ---------------------------
(* What a client of the tail receives, for any jobs, events, page length, lost *)
(* connections, and order in which INSERTs commit.                             *)
EXTENDS EventTail, FiniteSetTheorems, SequenceTheorems, TLAPS

(* A non-empty set of numbers has a least one.  Were there none, the elements  *)
(* up to one of them would have as many different ranks as there are elements, *)
(* all of them positive and less than that number.                             *)
LEMMA LeastNumber ==
  ASSUME NEW S \in SUBSET Nat, S # {}
  PROVE  \E m \in S : \A n \in S : m <= n
<1>1. SUFFICES ASSUME \A m \in S : \E n \in S : n < m PROVE FALSE
  OBVIOUS
<1>2. PICK k \in S : TRUE
  OBVIOUS
<1> DEFINE A == {n \in S : n <= k}
           R == [n \in A |-> Cardinality({i \in A : i < n})]
<1>3. IsFiniteSet(A) /\ Cardinality(A) \in Nat
  BY FS_BoundedSetOfNaturals, FS_CardinalityType
<1>4. ASSUME NEW n \in A PROVE R[n] \in 1 .. Cardinality(A) - 1
  <2> DEFINE B == {i \in A : i < n}
  <2>1. /\ IsFiniteSet(B) /\ Cardinality(B) \in Nat
        /\ Cardinality(B) <= Cardinality(A)
        /\ Cardinality(B) = Cardinality(A) => B = A
    BY <1>3, FS_Subset, FS_CardinalityType
  <2>2. B # A
    OBVIOUS
  <2>3. B # {}
    BY <1>1
  <2>4. Cardinality(B) # 0
    BY <2>1, <2>3, FS_EmptySet
  <2> HIDE DEF A, B
  <2>5. Cardinality(B) \in 1 .. Cardinality(A) - 1
    BY <1>3, <2>1, <2>2, <2>4
  <2> QED
    BY <2>5 DEF B
<1>5. ASSUME NEW m \in A, NEW n \in A, m < n PROVE R[m] # R[n]
  <2>0. {i \in A : i < m} \in SUBSET {i \in A : i < n}
    <3>1. \A i \in A : i < m => i < n
      BY <1>5, m \in Nat, n \in Nat
    <3> HIDE DEF A
    <3> QED BY <3>1
  <2>1. IsFiniteSet({i \in A : i < n})
    <3>1. {i \in A : i < n} \in SUBSET A
      OBVIOUS
    <3> HIDE DEF A
    <3> QED BY <1>3, <3>1, FS_Subset
  <2>2. {i \in A : i < m} # {i \in A : i < n}
    <3>1. m \in {i \in A : i < n} /\ m \notin {i \in A : i < m}
      BY <1>5
    <3> QED BY <3>1
  <2> HIDE DEF A
  <2>3. Cardinality({i \in A : i < m}) # Cardinality({i \in A : i < n})
    BY <2>0, <2>1, <2>2, FS_Subset
  <2> QED
    BY <2>3
<1>6. Cardinality(1 .. Cardinality(A) - 1) < Cardinality(A) /\ IsFiniteSet(1 .. Cardinality(A) - 1)
  <2>1. Cardinality(A) # 0
    BY <1>2, <1>3, FS_EmptySet
  <2> HIDE DEF A
  <2>2. Cardinality(A) - 1 \in Int
    BY <1>3
  <2>3. /\ IsFiniteSet(1 .. Cardinality(A) - 1)
        /\ Cardinality(1 .. Cardinality(A) - 1)
             = IF 1 > Cardinality(A) - 1 THEN 0 ELSE Cardinality(A) - 1 - 1 + 1
    BY <2>2, FS_Interval
  <2> QED
    BY <1>3, <2>1, <2>3
<1>7. R \in [A -> 1 .. Cardinality(A) - 1]
  BY <1>4
<1>8. PICK m \in A, n \in A : m # n /\ R[m] = R[n]
  <2> HIDE DEF A, R
  <2> QED BY <1>3, <1>6, <1>7, FS_PigeonHole
<1>9. m < n \/ n < m
  BY <1>8
<1> QED
  BY <1>5, <1>8, <1>9

-----------------------------------------------------------------------------
(* Events that are inserted have different numbers, all of them drawn.         *)
Numbers ==
  /\ pending \subseteq Event /\ log \subseteq Event /\ nextSeq \in Nat \ {0}
  /\ \A e \in log \cup pending : e.seq < nextSeq
  /\ \A e, f \in log \cup pending : e.seq = f.seq => e = f

(* A connection sends what lies after its cursor, which is where the client    *)
(* is.  What a terminal event leaves of a batch is not sent.                   *)
Ahead ==
  /\ cursor \in Nat /\ last \in Nat
  /\ conn # "closed" => cursor = last
  /\ conn = "send" => /\ batch # {} /\ batch \subseteq log
                      /\ \A e \in batch : e.seq > cursor

(* The client has the number of the last event, and they came in order.        *)
Received ==
  /\ got \in Seq(Event)
  /\ \A i \in 1 .. Len(got) : got[i].seq <= last
  /\ InOrderAndOnce

IInv == Numbers /\ Ahead /\ Received

-----------------------------------------------------------------------------
(* The log. *)

LEMMA InsertNumbers ==
  ASSUME Numbers, NEW j \in Jobs, NEW by \in {"worker", "route"},
         NEW type \in {"progress", "terminal"}, Insert(j, by, type), log' = log
  PROVE  Numbers'
<1> DEFINE e == [seq |-> nextSeq, job |-> j, type |-> type, by |-> by]
<1>1. e \in Event /\ e.seq = nextSeq
  BY DEF Numbers, Event
<1>2. pending' = pending \cup {e} /\ nextSeq' = nextSeq + 1
  BY DEF Insert
<1>3. \A f \in log \cup pending : f.seq \in Nat /\ f.seq < nextSeq
  BY DEF Numbers, Event
<1> HIDE DEF e
<1>4. pending' \subseteq Event /\ nextSeq' \in Nat \ {0}
  BY <1>1, <1>2 DEF Numbers
<1>5. \A f \in log' \cup pending' : f.seq < nextSeq'
  BY <1>1, <1>2, <1>3 DEF Numbers
<1>6. \A f, g \in log' \cup pending' : f.seq = g.seq => f = g
  BY <1>1, <1>2, <1>3 DEF Numbers
<1> QED
  BY <1>4, <1>5, <1>6 DEF Numbers

LEMMA NumbersStep ==
  ASSUME Numbers, [Next]_vars
  PROVE  Numbers' /\ log \subseteq log'
<1>1. ASSUME NEW j \in Jobs, AppendProgress(j) PROVE Numbers' /\ log' = log
  BY <1>1, InsertNumbers DEF AppendProgress
<1>2. ASSUME NEW j \in Jobs, WorkerAppendsTerminal(j) PROVE Numbers' /\ log' = log
  BY <1>2, InsertNumbers DEF WorkerAppendsTerminal
<1>3. ASSUME NEW j \in Jobs, RouteAppendsTerminal(j) PROVE Numbers' /\ log' = log
  BY <1>3, InsertNumbers DEF RouteAppendsTerminal
<1>4. ASSUME NEW e \in pending, Commit(e) PROVE Numbers' /\ log \subseteq log'
  <2>1. /\ pending' = pending \ {e} /\ log' = log \cup {e} /\ nextSeq' = nextSeq
    BY <1>4 DEF Commit
  <2> QED  BY <2>1 DEF Numbers
<1>5. CASE UNCHANGED <<pending, log, nextSeq>>
  BY <1>5 DEF Numbers
<1> QED
  BY <1>1, <1>2, <1>3, <1>4, <1>5
  DEF Next, Log, Ends, Stream, InsertJob, Claim, EndJob, Cancel, Reap, Connect, Read, Send,
      CheckJob, Drop, vars, rows

-----------------------------------------------------------------------------
(* The tail and the client. *)

(* What a page holds is unsent, and a page of something holds something: the   *)
(* first of it is on the page, which has room for one.                         *)
LEMMA PageIsAhead ==
  ASSUME Numbers, Read
  PROVE  /\ batch' \subseteq Unsent
         /\ Unsent # {} => batch' # {}
<1>1. batch' = {e \in Unsent : Cardinality({f \in Unsent : f.seq < e.seq}) < Limit}
  BY DEF Read
<1>2. ASSUME Unsent # {} PROVE batch' # {}
  <2> DEFINE S == {e.seq : e \in Unsent}
  <2>1. S \in SUBSET Nat /\ S # {}
    BY <1>2 DEF Numbers, Event, Unsent
  <2>2. PICK m \in S : \A n \in S : m <= n
    <3> HIDE DEF S
    <3> QED  BY <2>1, LeastNumber
  <2>3. PICK e \in Unsent : e.seq = m
    BY <2>2
  <2>4. ASSUME NEW f \in Unsent PROVE ~(f.seq < e.seq)
    <3>1. f.seq \in S
      OBVIOUS
    <3> HIDE DEF S
    <3>2. m \in Nat /\ f.seq \in Nat /\ m <= f.seq
      BY <2>1, <2>2, <3>1
    <3> QED  BY <2>3, <3>2
  <2>5. {f \in Unsent : f.seq < e.seq} = {}
    BY <2>4
  <2>6. Cardinality({f \in Unsent : f.seq < e.seq}) < Limit
    <3>1. Cardinality({}) = 0
      BY FS_EmptySet
    <3>2. Cardinality({f \in Unsent : f.seq < e.seq}) = 0
      BY <2>5, <3>1
    <3>3. QED
      BY <3>2, EventTailAssumption
  <2> QED  BY <1>1, <2>6
<1> QED
  BY <1>1, <1>2

(* What a send does: the least event of the batch goes out, and the client's   *)
(* number becomes that event's.                                                *)
LEMMA SendsTheFirst ==
  ASSUME Numbers, Ahead, Send
  PROVE  \E e \in batch :
           /\ e \in Event /\ e.seq > cursor /\ cursor = last
           /\ \A f \in batch : e.seq <= f.seq /\ (f.seq = e.seq => f = e)
           /\ cursor' = e.seq /\ last' = e.seq
           /\ batch' = batch \ {e} /\ got' = Append(got, e)
           /\ conn' = "send" => batch' # {}
           /\ log' = log /\ tailJob' = tailJob /\ pending' = pending
<1> DEFINE S == {e.seq : e \in batch}
           First(e) == \A f \in batch : e.seq <= f.seq
           x == CHOOSE e \in batch : \A f \in batch : e.seq <= f.seq
<1>1. conn = "send" /\ cursor = last /\ batch # {} /\ batch \subseteq log
  BY DEF Send, Ahead
<1>2. S \in SUBSET Nat /\ S # {}
  BY <1>1 DEF Numbers, Event
<1>3. PICK m \in S : \A n \in S : m <= n
  <2> HIDE DEF S
  <2> QED  BY <1>2, LeastNumber
<1>4. \E e \in batch : \A f \in batch : e.seq <= f.seq
  BY <1>3
<1>5. x \in batch /\ \A f \in batch : x.seq <= f.seq
  BY <1>4
<1>6. x \in Event /\ x.seq \in Nat /\ x.seq > cursor
  BY <1>1, <1>5 DEF Numbers, Ahead, Event
<1>7. Max({last, x.seq}) = x.seq
  <2> HIDE DEF x
  <2>1. last \in Nat /\ last < x.seq
    BY <1>1, <1>6 DEF Ahead
  <2> QED  BY <1>6, <2>1 DEF Max
<1>8. \A f \in batch : f.seq = x.seq => f = x
  BY <1>1, <1>5 DEF Numbers
<1>9. /\ cursor' = x.seq /\ last' = Max({last, x.seq})
      /\ batch' = batch \ {x} /\ got' = Append(got, x)
      /\ conn' = "send" => batch' # {}
      /\ log' = log /\ tailJob' = tailJob /\ pending' = pending
  BY DEF Send, rows
<1> HIDE DEF x
<1> QED
  BY <1>1, <1>5, <1>6, <1>7, <1>8, <1>9

LEMMA SendKeepsOrder ==
  ASSUME Numbers, Ahead, Received, Send
  PROVE  Ahead' /\ Received'
<1>1. PICK e \in batch :
        /\ e \in Event /\ e.seq > cursor /\ cursor = last
        /\ \A f \in batch : e.seq <= f.seq /\ (f.seq = e.seq => f = e)
        /\ cursor' = e.seq /\ last' = e.seq
        /\ batch' = batch \ {e} /\ got' = Append(got, e)
        /\ conn' = "send" => batch' # {}
        /\ log' = log /\ tailJob' = tailJob /\ pending' = pending
  BY SendsTheFirst
<1>2. conn = "send" /\ batch \subseteq log /\ \A f \in batch : f.seq \in Nat
  BY DEF Send, Ahead, Numbers, Event
<1>3. Ahead'
  BY <1>1, <1>2 DEF Ahead, Event
<1>4. /\ got' \in Seq(Event) /\ Len(got') = Len(got) + 1 /\ Len(got) \in Nat
      /\ \A i \in 1 .. Len(got) : got'[i] = got[i]
      /\ got'[Len(got) + 1] = e
  <2>1. got \in Seq(Event) /\ e \in Event /\ got' = Append(got, e)
    BY <1>1 DEF Received
  <2> QED  BY <2>1, AppendProperties, LenProperties
<1>5. ASSUME NEW i \in 1 .. Len(got) PROVE got[i].seq \in Nat /\ got[i].seq <= last
  <2>1. got[i] \in Event
    BY ElementOfSeq DEF Received
  <2> QED  BY <2>1 DEF Received, Event
<1>6. e.seq \in Nat /\ last \in Nat
  BY <1>1 DEF Event, Ahead
<1>7. \A i \in 1 .. Len(got') : got'[i].seq <= last'
  BY <1>1, <1>4, <1>5, <1>6
<1>8. InOrderAndOnce'
  <2> SUFFICES ASSUME NEW i \in 1 .. Len(got') - 1 PROVE got'[i].seq < got'[i + 1].seq
    BY DEF InOrderAndOnce
  <2>1. CASE i = Len(got)
    BY <1>1, <1>4, <1>5, <1>6, <2>1
  <2>2. CASE i \in 1 .. Len(got) - 1
    BY <1>4, <2>2 DEF Received, InOrderAndOnce
  <2> QED  BY <1>4, <2>1, <2>2
<1> QED
  BY <1>3, <1>4, <1>7, <1>8 DEF Received

LEMMA TailStep ==
  ASSUME Numbers, Ahead, Received, [Next]_vars
  PROVE  Ahead' /\ Received'
<1>1. log \subseteq log'
  BY NumbersStep
<1>2. CASE Send
  BY <1>2, SendKeepsOrder
<1>3. CASE Read
  <2>1. batch' \subseteq Unsent /\ (Unsent # {} => batch' # {})
    BY <1>3, PageIsAhead
  <2>2. conn = "read" /\ cursor' = cursor /\ last' = last /\ got' = got /\ log' = log
    BY <1>3 DEF Read, client, rows
  <2>3. conn' = "send" => Unsent # {}
    BY <1>3 DEF Read
  <2> QED  BY <2>1, <2>2, <2>3 DEF Ahead, Received, InOrderAndOnce, Unsent
<1>4. CASE Connect
  BY <1>4 DEF Connect, client, rows, Ahead, Received, InOrderAndOnce
<1>5. CASE CheckJob
  BY <1>5 DEF CheckJob, client, rows, Ahead, Received, InOrderAndOnce
<1>6. CASE Drop
  BY <1>6 DEF Drop, client, rows, Ahead, Received, InOrderAndOnce
<1>7. CASE UNCHANGED <<tail, client>>
  BY <1>1, <1>7 DEF tail, client, Ahead, Received, InOrderAndOnce
<1> QED
  BY <1>2, <1>3, <1>4, <1>5, <1>6, <1>7
  DEF Next, Log, Ends, Stream, InsertJob, AppendProgress, WorkerAppendsTerminal,
      RouteAppendsTerminal, Claim, EndJob, Cancel, Reap, Commit, vars

LEMMA Invariance == Spec => []IInv
<1>1. Init => IInv
  <2> SUFFICES ASSUME Init PROVE IInv
    OBVIOUS
  <2>1. got = <<>> /\ got \in Seq(Event) /\ Len(got) = 0
    BY EmptySeq DEF Init
  <2> QED  BY <2>1 DEF Init, IInv, Numbers, Ahead, Received, InOrderAndOnce
<1>2. IInv /\ [Next]_vars => IInv'
  BY NumbersStep, TailStep DEF IInv
<1> QED
  BY <1>1, <1>2, PTL DEF Spec

(* The client receives the events of its jobs in the order of their numbers    *)
(* and none twice, for any jobs and pages, through every lost connection,      *)
(* every later job the connection moves to, and INSERTs that commit in another *)
(* order than they were numbered.                                              *)
THEOREM InOrder == Spec => []InOrderAndOnce
<1>1. IInv => InOrderAndOnce
  BY DEF IInv, Received
<1> QED
  BY <1>1, Invariance, PTL

-----------------------------------------------------------------------------
(* What a reconnecting client has: with one job, and commits in the order of   *)
(* the numbers.                                                                *)

OneJob == \A i, j \in Jobs : i = j

(* An INSERT that waits to commit is alone and behind everything committed.    *)
InTurn ==
  /\ IsFiniteSet(log)
  /\ \A e, f \in pending : e = f
  /\ \A e \in pending, f \in log : f.seq < e.seq

(* The client's number is that of a row, and what a connection has not put on  *)
(* its page comes after what it has.                                           *)
PageHasNoGap ==
  /\ last = 0 \/ \E f \in log : f.seq = last
  /\ conn # "closed" => tailJob \in Jobs
  /\ conn = "send" =>
       \A e \in log \ batch : e.seq > cursor => \A f \in batch : f.seq < e.seq

NoGap == InTurn /\ PageHasNoGap /\ NothingSkipped

LEMMA InTurnStep ==
  ASSUME ~Skews, Numbers, InTurn, [Next]_vars
  PROVE  InTurn'
<1>1. ASSUME NEW j \in Jobs, NEW by \in {"worker", "route"},
             NEW type \in {"progress", "terminal"}, Insert(j, by, type), log' = log
      PROVE  InTurn'
  <2> DEFINE e == [seq |-> nextSeq, job |-> j, type |-> type, by |-> by]
  <2>1. pending = {} /\ pending' = pending \cup {e} /\ e.seq = nextSeq
    BY <1>1 DEF Insert
  <2>2. \A f \in log : f.seq < nextSeq
    BY DEF Numbers
  <2> HIDE DEF e
  <2> QED  BY <1>1, <2>1, <2>2 DEF InTurn
<1>2. ASSUME NEW e \in pending, Commit(e) PROVE InTurn'
  <2>1. pending' = pending \ {e} /\ log' = log \cup {e}
    BY <1>2 DEF Commit
  <2>2. IsFiniteSet(log')
    BY <2>1, FS_AddElement DEF InTurn
  <2> QED  BY <2>1, <2>2 DEF InTurn
<1>3. CASE UNCHANGED <<pending, log>>
  BY <1>3 DEF InTurn
<1> QED
  BY <1>1, <1>2, <1>3
  DEF Next, Log, Ends, Stream, InsertJob, AppendProgress, WorkerAppendsTerminal,
      RouteAppendsTerminal, Claim, EndJob, Cancel, Reap, Connect, Read, Send, CheckJob,
      Drop, vars, rows

(* Nothing that a page leaves out comes before anything it holds: it would     *)
(* have no more rows before it than that, and be on the page.                  *)
LEMMA PageIsPrefix ==
  ASSUME Numbers, InTurn, Read, NEW e \in Unsent, e \notin batch', NEW f \in batch'
  PROVE  f.seq < e.seq
<1> DEFINE A == {g \in Unsent : g.seq < e.seq}
           B == {g \in Unsent : g.seq < f.seq}
<1>1. /\ f \in Unsent /\ Cardinality(B) < Limit /\ ~(Cardinality(A) < Limit)
  BY DEF Read
<1>2. \A g \in Unsent : g \in log /\ g.seq \in Nat
  BY DEF Unsent, Numbers, Event
<1>3. SUFFICES ASSUME e.seq <= f.seq PROVE FALSE
  BY <1>1, <1>2
<1>4. \A g \in Unsent : g.seq < e.seq => g.seq < f.seq
  BY <1>1, <1>2, <1>3
<1>5. B \in SUBSET log /\ A \in SUBSET B
  BY <1>2, <1>4
<1> HIDE DEF A, B
<1>6. IsFiniteSet(B)
  BY <1>5, FS_Subset DEF InTurn
<1>7. IsFiniteSet(A) /\ Cardinality(A) <= Cardinality(B)
  BY <1>5, <1>6, FS_Subset
<1>8. Cardinality(A) \in Nat /\ Cardinality(B) \in Nat
  BY <1>6, <1>7, FS_CardinalityType
<1> QED
  BY <1>1, <1>7, <1>8, EventTailAssumption

LEMMA CommitSkipsNothing ==
  ASSUME Numbers, Ahead, Received, NoGap, NEW e \in pending, Commit(e)
  PROVE  PageHasNoGap' /\ NothingSkipped'
<1>1. /\ log' = log \cup {e} /\ UNCHANGED <<conn, tailJob, cursor, batch, last, got>>
  BY DEF Commit, tail, client
<1>2. \A f \in log : f.seq \in Nat /\ f.seq < e.seq
  BY DEF NoGap, InTurn, Numbers, Event
<1>3. e.seq \in Nat /\ e.seq > last
  BY <1>2 DEF NoGap, PageHasNoGap, Numbers, Event
<1>4. NothingSkipped'
  BY <1>1, <1>3 DEF NoGap, NothingSkipped, Ahead
<1>5. conn = "send" => \A f \in batch : f.seq < e.seq
  BY <1>2 DEF Ahead
<1>6. PageHasNoGap'
  BY <1>1, <1>5 DEF NoGap, PageHasNoGap
<1> QED
  BY <1>4, <1>6

LEMMA SendSkipsNothing ==
  ASSUME Numbers, Ahead, Received, NoGap, Send
  PROVE  PageHasNoGap' /\ NothingSkipped'
<1>1. PICK e \in batch :
        /\ e \in Event /\ e.seq > cursor /\ cursor = last
        /\ \A f \in batch : e.seq <= f.seq /\ (f.seq = e.seq => f = e)
        /\ cursor' = e.seq /\ last' = e.seq
        /\ batch' = batch \ {e} /\ got' = Append(got, e)
        /\ conn' = "send" => batch' # {}
        /\ log' = log /\ tailJob' = tailJob /\ pending' = pending
  BY SendsTheFirst
<1>2. /\ conn = "send" /\ batch \subseteq log /\ e.seq \in Nat /\ cursor \in Nat
      /\ \A f \in log : f.seq \in Nat
  BY <1>1 DEF Send, Ahead, Numbers, Event
<1>3. /\ Len(got') = Len(got) + 1 /\ Len(got) \in Nat
      /\ \A i \in 1 .. Len(got) : got'[i] = got[i]
      /\ got'[Len(got) + 1] = e
  <2>1. got \in Seq(Event) /\ e \in Event /\ got' = Append(got, e)
    BY <1>1 DEF Received
  <2> QED  BY <2>1, AppendProperties, LenProperties
<1>4. NothingSkipped'
  <2> SUFFICES ASSUME NEW x \in log, x.seq <= e.seq
               PROVE  \E i \in 1 .. Len(got') : got'[i] = x
    BY <1>1 DEF NothingSkipped
  <2>1. CASE x.seq <= last
    <3>1. PICK i \in 1 .. Len(got) : got[i] = x
      BY <2>1 DEF NoGap, NothingSkipped
    <3> QED  BY <1>3, <3>1
  <2>2. CASE x.seq > last
    <3>1. x \in batch
      BY <1>1, <1>2, <2>2 DEF NoGap, PageHasNoGap
    <3>2. x = e
      BY <1>1, <1>2, <3>1
    <3>3. Len(got') \in 1 .. Len(got') /\ got'[Len(got')] = x
      BY <1>3, <3>2
    <3> QED  BY <3>3
  <2> QED  BY <1>1, <1>2, <2>1, <2>2
<1>5. conn' = "send" =>
        \A x \in log' \ batch' : x.seq > cursor' => \A f \in batch' : f.seq < x.seq
  <2> SUFFICES ASSUME NEW x \in log, x \notin batch', x.seq > e.seq, NEW f \in batch
               PROVE  f.seq < x.seq
    BY <1>1
  <2>1. x \notin batch
    BY <1>1, <1>2
  <2>2. x.seq > cursor
    BY <1>1, <1>2
  <2> QED  BY <1>2, <2>1, <2>2 DEF NoGap, PageHasNoGap
<1>6. conn' # "closed" => tailJob' \in Jobs
  BY <1>1, <1>2 DEF NoGap, PageHasNoGap
<1> QED
  BY <1>1, <1>2, <1>4, <1>5, <1>6 DEF PageHasNoGap

LEMMA SkipsNothingStep ==
  ASSUME OneJob, Numbers, Ahead, Received, NoGap, [Next]_vars
  PROVE  PageHasNoGap' /\ NothingSkipped'
<1>1. CASE Send
  BY <1>1, SendSkipsNothing
<1>2. ASSUME NEW e \in pending, Commit(e) PROVE PageHasNoGap' /\ NothingSkipped'
  BY <1>2, CommitSkipsNothing
<1>3. CASE Read
  <2>1. /\ conn = "read" /\ UNCHANGED <<log, tailJob, cursor, last, got>>
    BY <1>3 DEF Read, client, rows
  <2>2. ASSUME NEW e \in log \ batch', e.seq > cursor, NEW f \in batch' PROVE f.seq < e.seq
    <3>1. e.job = tailJob
      BY <2>1 DEF OneJob, Numbers, Event, NoGap, PageHasNoGap
    <3>2. e \in Unsent
      BY <2>2, <3>1 DEF Unsent
    <3> QED  BY <1>3, <2>2, <3>2, PageIsPrefix DEF NoGap
  <2> QED  BY <2>1, <2>2 DEF NoGap, PageHasNoGap, NothingSkipped
<1>4. CASE Connect
  <2>1. PICK j \in Inserted : TRUE
    BY <1>4 DEF Connect
  <2>2. Inserted = {j} /\ j \in Nat /\ j \in Jobs
    BY <2>1, EventTailAssumption DEF OneJob, Inserted
  <2>3. Max(Inserted) = j
    BY <2>2 DEF Max
  <2>4. tailJob' = j /\ conn' = "read" /\ UNCHANGED <<log, last, got>>
    BY <1>4, <2>3 DEF Connect, rows, client
  <2> QED  BY <2>2, <2>4 DEF NoGap, PageHasNoGap, NothingSkipped
<1>5. CASE CheckJob
  BY <1>5 DEF CheckJob, rows, client, NoGap, PageHasNoGap, NothingSkipped
<1>6. CASE Drop
  BY <1>6 DEF Drop, rows, NoGap, PageHasNoGap, NothingSkipped
<1>7. CASE UNCHANGED <<log, tail, client>>
  BY <1>7 DEF tail, client, NoGap, PageHasNoGap, NothingSkipped
<1> QED
  BY <1>1, <1>2, <1>3, <1>4, <1>5, <1>6, <1>7
  DEF Next, Log, Ends, Stream, InsertJob, AppendProgress, WorkerAppendsTerminal, Insert,
      RouteAppendsTerminal, Claim, EndJob, Cancel, Reap, vars, rows

(* With one job, and INSERTs that commit in the order of their numbers, a      *)
(* client that resumes after its last event misses nothing, however many       *)
(* connections are lost, whatever the length of a page, and whatever is        *)
(* appended between two reads.                                                 *)
THEOREM Resumed == ~Skews /\ OneJob => (Spec => []NothingSkipped)
<1> SUFFICES ASSUME ~Skews, OneJob PROVE Spec => []NothingSkipped
  OBVIOUS
<1>1. Init => NoGap
  BY FS_EmptySet DEF Init, NoGap, InTurn, PageHasNoGap, NothingSkipped
<1>2. IInv /\ NoGap /\ [Next]_vars => NoGap'
  <2> SUFFICES ASSUME IInv, NoGap, [Next]_vars PROVE NoGap'
    OBVIOUS
  <2>1. InTurn'
    BY InTurnStep DEF IInv, NoGap
  <2>2. PageHasNoGap' /\ NothingSkipped'
    BY SkipsNothingStep DEF IInv
  <2> QED  BY <2>1, <2>2 DEF NoGap
<1>3. NoGap => NothingSkipped
  BY DEF NoGap
<1> QED
  BY <1>1, <1>2, <1>3, Invariance, PTL DEF Spec

=============================================================================
