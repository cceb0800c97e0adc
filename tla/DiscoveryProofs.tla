--------------------------- MODULE DiscoveryProofs ---------------------------
(* Discovery for any hits, scores, texts, prices and budgets.  First the fetch *)
(* stage by itself: IInv of FetchWaves is inductive, one lemma per part of it, *)
(* one step per action.  Then what the passes over lists return (merged hits,  *)
(* ranks, the fetch order, texts kept apart), by induction over their length.  *)
(* Then the loop: LoopShape says what its stages hand each other, and from it  *)
(* follow the money, the ledger, the texts and the end of the loop.            *)
EXTENDS Discovery, FiniteSetTheorems, SequenceTheorems, WellFoundedInduction, TLAPS

\* A set of numbers that is not empty has a least one.
LEMMA LeastNumber ==
    ASSUME NEW T \in SUBSET Nat, T # {}
    PROVE  \E m \in T : \A y \in T : m <= y
<1> DEFINE R == OpToRel(<, Nat)
<1>1. IsWellFoundedOn(R, Nat)
  BY NatLessThanWellFounded
<1> HIDE DEF R
<1>2. PICK m \in T : \A y \in T : ~(<<y, m>> \in R)
  BY <1>1, WFMin
<1>3. \A y \in T : <<y, m>> \in R <=> y < m
  BY DEF R, OpToRel
<1>4. ASSUME NEW y \in T PROVE m <= y
  <2>1. m \in Nat /\ y \in Nat /\ ~(y < m)
    BY <1>2, <1>3
  <2>2. QED  BY <2>1
<1>5. QED
  BY <1>4

-----------------------------------------------------------------------------
\* sorted() on the places of a sequence.
Earlier(I, before, i) == {j \in I : <<j, i>> \in before}

IsOrder(I, before) ==
    /\ \A i \in I : <<i, i>> \notin before
    /\ \A i, j \in I : i # j => <<i, j>> \in before \/ <<j, i>> \in before
    /\ \A i, j, k \in I : <<i, j>> \in before /\ <<j, k>> \in before => <<i, k>> \in before

\* As many places come before a place as its rank says.
LEMMA EveryRank ==
    ASSUME NEW I, IsFiniteSet(I), NEW before, IsOrder(I, before)
    PROVE  \A k \in 0..(Cardinality(I) - 1) : \E i \in I : Cardinality(Earlier(I, before, i)) = k
<1> DEFINE size == Cardinality(I)
           rank == [i \in I |-> Cardinality(Earlier(I, before, i))]
<1>1. \A i \in I : Earlier(I, before, i) \in SUBSET I
  BY DEF Earlier
<1>2. size \in Nat /\ \A i \in I : IsFiniteSet(Earlier(I, before, i)) /\ rank[i] \in Nat
  BY <1>1, FS_Subset, FS_CardinalityType
<1>3. ASSUME NEW i \in I PROVE rank[i] \in 0..(size - 1)
  <2>1. i \notin Earlier(I, before, i)
    BY DEF Earlier, IsOrder
  <2>2. rank[i] <= size /\ rank[i] # size
    BY <1>1, <2>1, FS_Subset
  <2>3. QED  BY <1>2, <2>2
<1>4. ASSUME NEW i \in I, NEW j \in I, <<i, j>> \in before PROVE rank[i] # rank[j]
  <2>1. Earlier(I, before, i) \in SUBSET Earlier(I, before, j)
    BY <1>4 DEF Earlier, IsOrder
  <2>2. i \in Earlier(I, before, j) /\ i \notin Earlier(I, before, i)
    BY <1>4 DEF Earlier, IsOrder
  <2>3. QED  BY <1>2, <2>1, <2>2, FS_Subset
<1>5. rank \in Injection(I, 0..(size - 1))
  <2>1. rank \in [I -> 0..(size - 1)]
    BY <1>3
  <2>2. \A i, j \in I : i # j => rank[i] # rank[j]
    BY <1>4 DEF IsOrder
  <2> HIDE DEF rank
  <2>3. QED  BY <2>1, <2>2 DEF Injection, IsInjective
<1>6. IsFiniteSet(0..(size - 1)) /\ Cardinality(0..(size - 1)) = size
  BY <1>2, FS_Interval
<1>7. rank \in Surjection(I, 0..(size - 1))
  BY <1>5, <1>6, FS_Injection
<1>8. \A k \in 0..(size - 1) : \E i \in I : rank[i] = k
  <2> HIDE DEF rank
  <2>1. QED  BY <1>7 DEF Surjection
<1>9. QED
  BY <1>8

\* Each rank has one place.
LEMMA NthFacts ==
    ASSUME NEW I, IsFiniteSet(I), NEW before, IsOrder(I, before)
    PROVE  /\ Cardinality(I) \in Nat
           /\ \A k \in 1..Cardinality(I) : Nth(I, before, k) \in I
           /\ \A k, l \in 1..Cardinality(I) : Nth(I, before, k) = Nth(I, before, l) => k = l
<1>1. Cardinality(I) \in Nat
  BY FS_CardinalityType
<1>2. ASSUME NEW k \in 1..Cardinality(I)
      PROVE  Nth(I, before, k) \in I /\ Cardinality(Earlier(I, before, Nth(I, before, k))) = k - 1
  <2>1. k - 1 \in 0..(Cardinality(I) - 1)
    BY <1>1
  <2>2. \E i \in I : Cardinality(Earlier(I, before, i)) = k - 1
    BY <2>1, EveryRank
  <2>3. Nth(I, before, k) = CHOOSE i \in I : Cardinality(Earlier(I, before, i)) = k - 1
    BY DEF Nth, Earlier
  <2>4. QED  BY <2>2, <2>3, Zenon
<1>3. ASSUME NEW k \in 1..Cardinality(I), NEW l \in 1..Cardinality(I),
             Nth(I, before, k) = Nth(I, before, l)
      PROVE  k = l
  <2>1. k - 1 = l - 1
    BY <1>2, <1>3
  <2>2. QED  BY <1>1, <2>1
<1>4. QED
  BY <1>1, <1>2, <1>3

\* q is a sequence of members of s, from different places of I.
Lists(q, s, I) ==
    /\ Cardinality(I) \in Nat /\ DOMAIN q = 1..Cardinality(I) /\ Len(q) = Cardinality(I)
    /\ \A S : (\A i \in I : s[i] \in S) => q \in Seq(S)
    /\ \A k \in DOMAIN q : \E i \in I : q[k] = s[i]
    /\ \A k, l \in DOMAIN q : k # l => \E i, j \in I : i # j /\ q[k] = s[i] /\ q[l] = s[j]

\* A sorted sequence has different members at different places.
LEMMA SortedFacts ==
    ASSUME NEW s, NEW I, IsFiniteSet(I), NEW before, IsOrder(I, before)
    PROVE  Lists(Sorted(s, I, before), s, I)
<1> DEFINE sorted == Sorted(s, I, before)
<1>1. sorted = [k \in 1..Cardinality(I) |-> s[Nth(I, before, k)]]
  BY DEF Sorted
<1>2. Cardinality(I) \in Nat /\ DOMAIN sorted = 1..Cardinality(I)
  BY <1>1, NthFacts
<1>3. \A k \in 1..Cardinality(I) : sorted[k] = s[Nth(I, before, k)]
  BY <1>1
<1> HIDE DEF sorted
<1>4. \A S : (\A i \in I : s[i] \in S) => sorted \in Seq(S)
  <2> SUFFICES ASSUME NEW S, \A i \in I : s[i] \in S
               PROVE  sorted \in Seq(S)
    OBVIOUS
  <2>1. sorted \in [1..Cardinality(I) -> S]
    BY <1>1, <1>2, <1>3, NthFacts
  <2>2. QED  BY <1>2, <2>1, SeqDef
<1>5. Len(sorted) = Cardinality(I)
  <2>1. sorted \in Seq({s[i] : i \in I})
    BY <1>4
  <2>2. 1..Len(sorted) = 1..Cardinality(I) /\ Len(sorted) \in Nat
    BY <1>2, <2>1, LenProperties
  <2>3. QED  BY <1>2, <2>2
<1>6. QED
  BY <1>2, <1>3, <1>4, <1>5, NthFacts DEF sorted, Lists

\* So has the sequence of the members at some places.
LEMMA PlacesFacts ==
    ASSUME NEW s, NEW I \in SUBSET Nat, IsFiniteSet(I)
    PROVE  Lists(Places(s, I), s, I)
<1> DEFINE before == {p \in I \X I : p[1] < p[2]}
<1>1. IsOrder(I, before)
  BY DEF IsOrder
<1>2. Places(s, I) = Sorted(s, I, before)
  BY DEF Places
<1> HIDE DEF before
<1>3. QED
  BY <1>1, <1>2, SortedFacts

-----------------------------------------------------------------------------
\* Induction.  A set of numbers with 0 in it, and every number's successor, has them all.
LEMMA SetInduction ==
    ASSUME NEW T, 0 \in T, \A i \in Nat : i \in T => i + 1 \in T
    PROVE  Nat \subseteq T
<1>1. SUFFICES ASSUME Nat \ T # {} PROVE FALSE
  OBVIOUS
<1>2. PICK m \in Nat \ T : \A y \in Nat \ T : m <= y
  BY <1>1, LeastNumber
<1>3. m - 1 \in Nat /\ m - 1 < m
  BY <1>2
<1>4. QED
  BY <1>2, <1>3

\* Recursion over 1..size, with a step that stays in a set S.
Steps(size, S) == [1..size -> [S -> S]]

Recursion(f, size, S, a, step) ==
    f \in [0..size -> S] /\ f[0] = a /\ \A i \in 1..size : f[i] = step[i][f[i - 1]]

\* There is such a function,
LEMMA RecursionExists ==
    ASSUME NEW size \in Nat, NEW S, NEW a \in S, NEW step \in Steps(size, S)
    PROVE  \E f : Recursion(f, size, S, a, step)
<1> USE DEF Steps
<1> DEFINE Up(f, k) == f[0] = a /\ \A i \in 1..k : f[i] = step[i][f[i - 1]]
           T == {k \in Nat : k <= size => \E f \in [0..k -> S] : Up(f, k)}
<1>1. 0 \in T
  <2>1. [i \in 0..0 |-> a] \in [0..0 -> S] /\ Up([i \in 0..0 |-> a], 0)
    OBVIOUS
  <2>2. QED  BY <2>1
<1>2. ASSUME NEW k \in Nat, k \in T PROVE k + 1 \in T
  <2> SUFFICES ASSUME k + 1 <= size PROVE \E f \in [0..(k + 1) -> S] : Up(f, k + 1)
    OBVIOUS
  <2>1. PICK f \in [0..k -> S] : Up(f, k)
    BY <1>2
  <2> DEFINE last == step[k + 1][f[k]]
             g == [i \in 0..(k + 1) |-> IF i = k + 1 THEN last ELSE f[i]]
  <2>2. last \in S
    OBVIOUS
  <2> HIDE DEF last
  <2>3. g \in [0..(k + 1) -> S] /\ g[0] = a
    BY <2>1, <2>2
  <2>4. ASSUME NEW i \in 1..(k + 1)
        PROVE  g[i] = step[i][g[i - 1]]
    <3>1. g[i - 1] = f[i - 1]
      OBVIOUS
    <3>2. CASE i = k + 1
      <4>1. g[i] = last /\ i - 1 = k
        BY <3>2
      <4>2. QED  BY <3>1, <3>2, <4>1 DEF last
    <3>3. CASE i # k + 1
      <4>1. i \in 1..k /\ g[i] = f[i]
        BY <3>3
      <4>2. QED  BY <2>1, <3>1, <4>1
    <3>4. QED  BY <3>2, <3>3
  <2> HIDE DEF g
  <2>5. QED  BY <2>3, <2>4
<1>3. size \in T
  BY <1>1, <1>2, SetInduction
<1>4. QED
  BY <1>3 DEF Recursion

\* and keeps what its step keeps.
LEMMA RecursionKeeps ==
    ASSUME NEW size \in Nat, NEW S, NEW f, f[0] \in S,
           \A i \in 1..size : f[i - 1] \in S => f[i] \in S
    PROVE  \A i \in 0..size : f[i] \in S
<1> DEFINE T == {k \in Nat : k <= size => f[k] \in S}
<1>1. 0 \in T
  OBVIOUS
<1>2. ASSUME NEW k \in Nat, k \in T PROVE k + 1 \in T
  <2>1. CASE k + 1 <= size
    <3>1. k + 1 \in 1..size /\ (k + 1) - 1 = k /\ f[k] \in S
      BY <1>2, <2>1
    <3>2. QED  BY <3>1
  <2>2. QED  BY <2>1
<1>3. Nat \subseteq T
  BY <1>1, <1>2, SetInduction
<1>4. QED
  BY <1>3

-----------------------------------------------------------------------------
\* The members of the groups a record joins, one group after another.
LEMMA JoinedType ==
    ASSUME NEW P, NEW size \in Nat, NEW groups \in [1..size -> Seq(P)], NEW sharing
    PROVE  Joined(groups, sharing) \in Seq(P)
<1> DEFINE Added(g, s) == IF g \in sharing THEN s \o groups[g] ELSE s
           Step(f) == [g \in 0..size |-> IF g = 0 THEN <<>> ELSE Added(g, f[g - 1])]
           joined == CHOOSE f : f = Step(f)
           S == Seq(P)
           none == <<>>
<1>0. Len(groups) = size
  <2>1. groups \in Seq(Seq(P))
    BY SeqDef
  <2>2. 1..Len(groups) = 1..size /\ Len(groups) \in Nat
    BY <2>1, LenProperties
  <2>3. QED  BY <2>2
<1>1. Joined(groups, sharing) = joined[size]
  BY <1>0 DEF Joined
<1>2. none \in S /\ \A g \in 1..size, s \in S : Added(g, s) \in S
  BY ConcatProperties, EmptySeq
<1> HIDE DEF Added, none, S
<1>3. joined = Step(joined)
  <2> DEFINE step == [g \in 1..size |-> [s \in S |-> Added(g, s)]]
  <2>1. step \in Steps(size, S) /\ \A g \in 1..size, s \in S : step[g][s] = Added(g, s)
    BY <1>2 DEF Steps
  <2> HIDE DEF step
  <2>2. PICK f : Recursion(f, size, S, none, step)
    BY <1>2, <2>1, RecursionExists
  <2>3. \A g \in 1..size : f[g] = Added(g, f[g - 1])
    BY <2>1, <2>2 DEF Recursion
  <2>4. f = Step(f)
    BY <2>2, <2>3 DEF none, Recursion
  <2> HIDE DEF Step
  <2>5. QED  BY <2>4, Zenon
<1> HIDE DEF joined
<1>4. joined[0] = none /\ \A g \in 1..size : joined[g] = Added(g, joined[g - 1])
  BY <1>3 DEF none
<1>5. \A g \in 0..size : joined[g] \in S
  BY <1>2, <1>4, RecursionKeeps
<1>6. QED
  BY <1>1, <1>5 DEF S

\* Groups of places of a pool stay that.
LEMMA AbsorbType ==
    ASSUME NEW hits, NEW size \in Nat, NEW groups \in [1..size -> Seq(1..size)], NEW i \in 1..size
    PROVE  Absorb(hits, groups, i) \in [1..size -> Seq(1..size)]
<1> DEFINE sharing == {g \in DOMAIN groups :
                         \E j \in Range(groups[g]) : SameWork(hits[j], hits[i])}
           first == IF sharing = {} THEN i ELSE Min(sharing)
<1>1. Absorb(hits, groups, i) =
        [g \in 1..size |-> IF Keys(hits[i]) = {} THEN groups[g]
                        ELSE IF g = first THEN Append(Joined(groups, sharing), i)
                        ELSE IF g \in sharing THEN <<>> ELSE groups[g]]
  BY DEF Absorb
<1> HIDE DEF first, sharing
<1>2. Joined(groups, sharing) \in Seq(1..size)
  BY JoinedType
<1>3. Append(Joined(groups, sharing), i) \in Seq(1..size) /\ <<>> \in Seq(1..size)
  BY <1>2, AppendProperties, EmptySeq
<1>4. QED
  BY <1>1, <1>3

\* So do the groups of a whole pool.
LEMMA GroupsType ==
    ASSUME NEW hits, Len(hits) \in Nat
    PROVE  IdentityGroups(hits) \in [1..Len(hits) -> Seq(1..Len(hits))]
<1> DEFINE size == Len(hits)
           none == [g \in 1..size |-> <<>>]
           S == [1..size -> Seq(1..size)]
           Step(f) == [i \in 0..size |-> IF i = 0 THEN none ELSE Absorb(hits, f[i - 1], i)]
           groups == CHOOSE f : f = Step(f)
           step == [i \in 1..size |-> [s \in S |-> Absorb(hits, s, i)]]
<1>1. IdentityGroups(hits) = groups[size]
  BY DEF IdentityGroups
<1>2. none \in S
  BY EmptySeq
<1>3. \A i \in 1..size, s \in S : Absorb(hits, s, i) \in S
  BY AbsorbType
<1> HIDE DEF none, S, size
<1>4. step \in Steps(size, S) /\ \A i \in 1..size, s \in S : step[i][s] = Absorb(hits, s, i)
  BY <1>3 DEF Steps
<1> HIDE DEF step
<1>5. size \in Nat
  BY DEF size
<1>6. groups = Step(groups)
  <2>1. PICK f : Recursion(f, size, S, none, step)
    BY <1>2, <1>4, <1>5, RecursionExists
  <2>2. \A i \in 1..size : f[i] = Absorb(hits, f[i - 1], i)
    BY <1>4, <1>5, <2>1 DEF Recursion
  <2>3. f = Step(f)
    BY <1>5, <2>1, <2>2 DEF Recursion
  <2> HIDE DEF Step
  <2>4. QED  BY <2>3, Zenon
<1> HIDE DEF groups
<1>7. groups[0] = none /\ \A i \in 1..size : groups[i] = Absorb(hits, groups[i - 1], i)
  BY <1>5, <1>6
<1>8. \A i \in 0..size : groups[i] \in S
  BY <1>2, <1>3, <1>5, <1>7, RecursionKeeps
<1>9. QED
  BY <1>1, <1>5, <1>8 DEF S, size

-----------------------------------------------------------------------------
\* What a merged record still has of the hit it came from.
Hit(x) ==
    /\ x.id \in Candidate
    /\ x.url = Record[x.id].url /\ x.prior = Record[x.id].prior
    /\ x.stamps = Record[x.id].stamps /\ x.cost = Record[x.id].cost

Found(p) == /\ Len(p) \in Nat /\ DOMAIN p = 1..Len(p)
            /\ \A i \in 1..Len(p) : \E c \in Candidate : p[i] = Record[c]

\* The member a group keeps is one of its pool.
LEMMA WinnerIn ==
    ASSUME NEW hits, NEW g \in Seq(DOMAIN hits), g # <<>>, Found(hits)
    PROVE  Winner(hits, g) \in DOMAIN hits
<1> DEFINE pref == [i \in DOMAIN g |-> Preference(hits[g[i]])]
           prefs == {pref[i] : i \in DOMAIN g}
           First(k) == \A j \in DOMAIN g :
                          \/ Preference(hits[g[k]]) < Preference(hits[g[j]])
                          \/ Preference(hits[g[k]]) = Preference(hits[g[j]]) /\ k <= j
<1>1. DOMAIN g = 1..Len(g) /\ Len(g) \in Nat \ {0}
  BY LenProperties, EmptySeq
<1>2. pref \in [DOMAIN g -> Nat]
  <2>1. ASSUME NEW c \in Candidate PROVE Preference(Record[c]) \in Nat
    BY RecordAssumption DEF Preference
  <2>2. ASSUME NEW i \in DOMAIN g PROVE \E c \in Candidate : hits[g[i]] = Record[c]
    <3>1. g[i] \in 1..Len(hits)
      BY <1>1 DEF Found
    <3>2. QED  BY <3>1 DEF Found
  <2>3. \A i \in DOMAIN g : Preference(hits[g[i]]) \in Nat
    BY <2>1, <2>2
  <2>4. QED  BY <2>3
<1>3. \A k \in DOMAIN g : pref[k] = Preference(hits[g[k]])
  OBVIOUS
<1> HIDE DEF pref
<1>4. PICK m \in prefs : \A y \in prefs : m <= y
  <2>1. prefs \in SUBSET Nat
    BY <1>1, <1>2
  <2>2. prefs # {}
    <3>1. 1 \in DOMAIN g
      BY <1>1
    <3>2. pref[1] \in prefs
      BY <3>1
    <3>3. QED  BY <3>2
  <2> HIDE DEF prefs
  <2>3. QED  BY <2>1, <2>2, LeastNumber
<1> DEFINE best == {i \in DOMAIN g : pref[i] = m}
<1>5. PICK i \in best : \A j \in best : i <= j
  <2>1. best \in SUBSET Nat /\ best # {}
    BY <1>1, <1>4
  <2> HIDE DEF best
  <2>2. QED  BY <2>1, LeastNumber
<1>6. First(i)
  <2> SUFFICES ASSUME NEW j \in DOMAIN g
               PROVE  pref[i] < pref[j] \/ (pref[i] = pref[j] /\ i <= j)
    BY <1>3, <1>5
  <2>1. pref[i] = m /\ pref[j] \in prefs /\ m <= pref[j] /\ m \in Nat /\ pref[j] \in Nat
    BY <1>2, <1>4, <1>5
  <2>2. CASE pref[j] = m
    BY <1>5, <2>1, <2>2
  <2>3. CASE pref[j] # m
    BY <2>1, <2>3
  <2>4. QED  BY <2>2, <2>3
<1>7. Winner(hits, g) = g[CHOOSE k \in DOMAIN g : First(k)]
  BY ONLY DEF Winner
<1>8. i \in DOMAIN g
  BY <1>5
<1> HIDE DEF First
<1>9. (CHOOSE k \in DOMAIN g : First(k)) \in DOMAIN g
  BY <1>6, <1>8, Zenon
<1>10. QED
  BY <1>1, <1>7, <1>9

\* and what is merged into it leaves what identifies the hit.
LEMMA MergedHit ==
    ASSUME NEW hits, NEW g \in Seq(DOMAIN hits), g # <<>>, Found(hits)
    PROVE  Hit(MergeGroup(hits, g))
<1> DEFINE w == hits[Winner(hits, g)]
<1>1. PICK c \in Candidate : w = Record[c]
  BY WinnerIn DEF Found
<1>2. {"id", "url", "prior", "stamps", "cost"} \subseteq DOMAIN w /\ Record[c].id = c
  BY <1>1, RecordAssumption
<1>3. MergeGroup(hits, g) = [w EXCEPT !.ids = [k \in DOMAIN w.ids |-> MergedId(hits, g, k)],
                                      !.marks = UNION {hits[i].marks : i \in Range(g)}]
  BY DEF MergeGroup
<1> DEFINE ids == [k \in DOMAIN w.ids |-> MergedId(hits, g, k)]
           marks == UNION {hits[i].marks : i \in Range(g)}
<1> HIDE DEF w, ids, marks
<1>4. /\ MergeGroup(hits, g).id = w.id /\ MergeGroup(hits, g).url = w.url
      /\ MergeGroup(hits, g).prior = w.prior /\ MergeGroup(hits, g).stamps = w.stamps
      /\ MergeGroup(hits, g).cost = w.cost
  BY <1>2, <1>3 DEF ids, marks
<1>5. QED
  BY <1>1, <1>2, <1>4 DEF Hit

\* Sets of places.
LEMMA FirstNumbers ==
    ASSUME NEW size \in Nat, NEW I \in SUBSET (1..size)
    PROVE  IsFiniteSet(I) /\ I \in SUBSET Nat
<1>1. IsFiniteSet(1..size)
  BY FS_Interval
<1>2. IsFiniteSet(I)
  BY ONLY <1>1, I \in SUBSET (1..size), FS_Subset
<1>3. QED
  BY <1>2

\* Members of two lists, one after the other.
LEMMA OrderedHits ==
    ASSUME NEW hits, Found(hits)
    PROVE  \E S : Ordered(hits) \in Seq(S) /\ \A x \in S : Hit(x)
<1> DEFINE groups == IdentityGroups(hits)
           opened == {g \in DOMAIN groups : groups[g] # <<>>}
           merged == [g \in opened |-> MergeGroup(hits, groups[g])]
           bare == {i \in DOMAIN hits : Keys(hits[i]) = {}}
           S == {merged[g] : g \in opened} \cup {hits[i] : i \in bare}
           size == Len(hits)
<1>0. size \in Nat /\ DOMAIN hits = 1..size /\ IsFiniteSet(1..size)
  BY FS_Interval DEF Found
<1>1. groups \in [1..size -> Seq(1..size)]
  BY <1>0, GroupsType
<1>2. Ordered(hits) = Places(merged, opened) \o Places(hits, bare)
  BY DEF Ordered
<1> HIDE DEF groups, size
<1>3. opened \in SUBSET (1..size) /\ bare \in SUBSET (1..size)
  BY <1>0, <1>1
<1>4. opened \in SUBSET Nat /\ bare \in SUBSET Nat /\ IsFiniteSet(opened) /\ IsFiniteSet(bare)
  BY <1>0, <1>3, FS_Subset
<1>5. ASSUME NEW g \in opened PROVE Hit(merged[g])
  <2>1. groups[g] \in Seq(DOMAIN hits) /\ groups[g] # <<>>
    BY <1>0, <1>1, <1>3
  <2>2. merged[g] = MergeGroup(hits, groups[g])
    OBVIOUS
  <2> HIDE DEF merged
  <2>3. QED  BY <2>1, <2>2, MergedHit
<1>6. ASSUME NEW i \in bare PROVE Hit(hits[i])
  <2>1. PICK c \in Candidate : hits[i] = Record[c]
    BY <1>0, <1>3 DEF Found
  <2>2. QED  BY <2>1, RecordAssumption DEF Hit
<1> HIDE DEF merged, opened, bare
<1>7. \A x \in S : Hit(x)
  BY <1>5, <1>6
<1>8. Lists(Places(merged, opened), merged, opened) /\ Lists(Places(hits, bare), hits, bare)
  BY <1>4, PlacesFacts
<1>9. (\A i \in opened : merged[i] \in S) /\ (\A i \in bare : hits[i] \in S)
  OBVIOUS
<1> HIDE DEF S
<1>10. Places(merged, opened) \in Seq(S) /\ Places(hits, bare) \in Seq(S)
  BY <1>8, <1>9 DEF Lists
<1>11. Ordered(hits) \in Seq(S)
  BY <1>2, <1>10, ConcatProperties
<1>12. QED
  BY <1>7, <1>11

\* A round's pool: hits, each once.
PoolOK(p) ==
    /\ Len(p) \in Nat /\ DOMAIN p = 1..Len(p)
    /\ \A i \in 1..Len(p) : Hit(p[i])
    /\ \A i, j \in 1..Len(p) : i # j => p[i].id # p[j].id

\* What deduplicate_candidates leaves is a pool.
LEMMA DedupFacts ==
    ASSUME NEW hits, Found(hits), NEW was
    PROVE  PoolOK(DeduplicateCandidates(hits, was))
<1> DEFINE all == Ordered(hits)
           fresh == {i \in DOMAIN all : ~Has(was, all[i])}
           again == {i \in fresh : all[i].url # 0 /\ \E j \in fresh : j < i /\ all[j].url = all[i].url}
           left == fresh \ again
           p == Places(all, left)
<1>1. DeduplicateCandidates(hits, was) = p
  BY DEF DeduplicateCandidates
<1>2. PICK S : all \in Seq(S) /\ \A x \in S : Hit(x)
  BY OrderedHits
<1> HIDE DEF all
<1>3. Len(all) \in Nat /\ DOMAIN all = 1..Len(all) /\ \A i \in 1..Len(all) : Hit(all[i])
  BY <1>2, LenProperties
<1>4. left \in SUBSET (1..Len(all)) /\ left \in SUBSET Nat
  BY <1>3
<1>5. IsFiniteSet(left)
  <2> HIDE DEF left
  <2>1. QED  BY <1>3, <1>4, FirstNumbers
<1>6. ASSUME NEW i \in left, NEW j \in left, i # j
      PROVE  all[i].id # all[j].id
  <2>1. Hit(all[i]) /\ Hit(all[j])
    BY <1>3, <1>4
  <2>2. all[i].url # 0 /\ all[j].url # 0
    BY <2>1, RecordAssumption DEF Hit
  <2>3. all[i].url # all[j].url
    <3>1. i < j \/ j < i
      BY <1>4, <1>6
    <3>2. QED  BY <2>2, <3>1
  <2>4. QED  BY <2>1, <2>3 DEF Hit
<1> HIDE DEF left
<1>7. Lists(p, all, left)
  BY <1>4, <1>5, PlacesFacts
<1> HIDE DEF p
<1>8. Len(p) \in Nat /\ DOMAIN p = 1..Len(p)
  BY <1>7 DEF Lists
<1>9. \A i \in 1..Len(p) : Hit(p[i])
  BY <1>3, <1>4, <1>7, <1>8 DEF Lists
<1>10. \A i, j \in 1..Len(p) : i # j => p[i].id # p[j].id
  BY <1>6, <1>7, <1>8 DEF Lists
<1>11. QED
  BY <1>1, <1>8, <1>9, <1>10 DEF PoolOK

-----------------------------------------------------------------------------
\* A scored candidate, with what the fetch order reads of it.
Scored(t) ==
    /\ t.id \in Candidate /\ t.score \in Int
    /\ t.stamps = Record[t.id].stamps /\ t.cost = Record[t.id].cost

ScoredOK(q) ==
    /\ Len(q) \in Nat /\ DOMAIN q = 1..Len(q)
    /\ \A i \in 1..Len(q) : Scored(q[i])
    /\ \A i, j \in 1..Len(q) : i # j => q[i].id # q[j].id

\* Members of such a sequence, at different places, are such a sequence.
LEMMA ListedScored ==
    ASSUME NEW q, NEW s, ScoredOK(s), NEW I \in SUBSET (1..Len(s)), Lists(q, s, I)
    PROVE  ScoredOK(q) /\ \A k \in 1..Len(q) : \E i \in I : q[k] = s[i]
<1>1. Len(q) \in Nat /\ DOMAIN q = 1..Len(q)
  BY DEF Lists
<1>2. \A i \in 1..Len(q) : Scored(q[i])
  BY <1>1 DEF Lists, ScoredOK
<1>3. \A i, j \in 1..Len(q) : i # j => q[i].id # q[j].id
  BY <1>1 DEF Lists, ScoredOK
<1>4. QED
  BY <1>1, <1>2, <1>3 DEF ScoredOK, Lists

\* rank_candidates leaves scored candidates of those it was given.
LEMMA RankFacts ==
    ASSUME NEW s, ScoredOK(s)
    PROVE  /\ ScoredOK(RankCandidates(s))
           /\ \A k \in 1..Len(RankCandidates(s)) : \E i \in 1..Len(s) : RankCandidates(s)[k] = s[i]
<1> DEFINE I == DOMAIN s
           better == {p \in I \X I :
                       \/ s[p[1]].score > s[p[2]].score
                       \/ s[p[1]].score = s[p[2]].score /\ p[1] < p[2]}
           order == Sorted(s, I, better)
           ranked == RankCandidates(s)
<1>1. \E K \in SUBSET DOMAIN order : ranked = Places(order, K)
  BY DEF RankCandidates
<1>2. I = 1..Len(s) /\ Len(s) \in Nat /\ IsFiniteSet(I) /\ \A i \in I : s[i].score \in Int
  BY FS_Interval DEF ScoredOK, Scored
<1>3. IsOrder(I, better)
  BY <1>2 DEF IsOrder
<1> HIDE DEF better
<1>4. Lists(order, s, I)
  BY <1>2, <1>3, SortedFacts
<1> HIDE DEF order, ranked
<1>5. ScoredOK(order) /\ \A k \in 1..Len(order) : \E i \in I : order[k] = s[i]
  BY <1>2, <1>4, ListedScored
<1>6. PICK K \in SUBSET (1..Len(order)) : ranked = Places(order, K)
  BY <1>1, <1>5 DEF ScoredOK
<1>7. K \in SUBSET Nat /\ IsFiniteSet(K)
  BY <1>5, FirstNumbers DEF ScoredOK
<1>8. Lists(ranked, order, K)
  BY <1>6, <1>7, PlacesFacts
<1>9. ScoredOK(ranked) /\ \A k \in 1..Len(ranked) : \E i \in K : ranked[k] = order[i]
  BY <1>5, <1>8, ListedScored
<1>10. QED
  BY <1>2, <1>5, <1>9 DEF ranked

\* Keys compare like Python's tuples.
LEMMA KeyBeforeIs ==
    ASSUME NEW a \in Int, NEW b \in Int, NEW c \in Int, NEW d \in Int, NEW e \in Int, NEW f \in Int
    PROVE  KeyBefore(<<a, b, c>>, <<d, e, f>>) <=>
              a < d \/ (a = d /\ b < e) \/ (a = d /\ b = e /\ c < f)
<1>1. /\ (1..(1 - 1)) = {} /\ (1..(2 - 1)) = {1} /\ (1..(3 - 1)) = {1, 2} /\ 1..3 = {1, 2, 3}
  OBVIOUS
<1>2. KeyBefore(<<a, b, c>>, <<d, e, f>>) <=>
        \E i \in {1, 2, 3} : /\ <<a, b, c>>[i] < <<d, e, f>>[i]
                             /\ \A h \in 1..(i - 1) : <<a, b, c>>[h] = <<d, e, f>>[h]
  BY <1>1 DEF KeyBefore
<1>3. QED
  BY <1>1, <1>2

ByKeys(i, j, key1, key2, key3) ==
    \/ key1[i] < key1[j]
    \/ key1[i] = key1[j] /\ key2[i] < key2[j]
    \/ key1[i] = key1[j] /\ key2[i] = key2[j] /\ key3[i] < key3[j]
    \/ key1[i] = key1[j] /\ key2[i] = key2[j] /\ key3[i] = key3[j] /\ i < j

\* Keys of three numbers, and then the place, order places.
LEMMA KeysOrder ==
    ASSUME NEW I \in SUBSET Nat, NEW key1 \in [I -> Int], NEW key2 \in [I -> Int],
           NEW key3 \in [I -> Int], NEW before,
           \A i, j \in I : <<i, j>> \in before <=> ByKeys(i, j, key1, key2, key3)
    PROVE  IsOrder(I, before)
<1>1. \A i \in I : <<i, i>> \notin before
  BY DEF ByKeys
<1>2. \A i, j \in I : i # j => <<i, j>> \in before \/ <<j, i>> \in before
  BY DEF ByKeys
<1>3. \A i, j, k \in I : <<i, j>> \in before /\ <<j, k>> \in before => <<i, k>> \in before
  BY DEF ByKeys
<1>4. QED
  BY <1>1, <1>2, <1>3 DEF IsOrder

\* round() gives a number.
LEMMA RoundTyped ==
    ASSUME NEW x \in Int
    PROVE  RoundHalfEven(x) \in Int
BY DEF RoundHalfEven

\* The fetch takes the ranked candidates, each once.
LEMMA FetchOrderFacts ==
    ASSUME NEW q, ScoredOK(q)
    PROVE  ScoredOK(FetchOrder(q)) /\ \A k \in 1..Len(FetchOrder(q)) : \E i \in 1..Len(q) : FetchOrder(q)[k] = q[i]
<1> DEFINE I == 1..Len(q)
           prior(i) == "priority" \in q[i].marks
           key1 == [i \in I |-> IF prior(i) THEN 0 ELSE 1]
           key2 == [i \in I |-> IF prior(i) THEN q[i].stamps.rank ELSE 0 - RoundHalfEven(q[i].score)]
           key3 == [i \in I |-> IF prior(i) THEN 0 ELSE q[i].cost]
           before == {p \in (DOMAIN q) \X (DOMAIN q) :
                        \/ KeyBefore(FetchSortKey(q[p[1]]), FetchSortKey(q[p[2]]))
                        \/ FetchSortKey(q[p[1]]) = FetchSortKey(q[p[2]]) /\ p[1] < p[2]}
<1>0. FetchOrder(q) = Sorted(q, DOMAIN q, before)
  BY DEF FetchOrder
<1>1. /\ DOMAIN q = I /\ I \in SUBSET Nat /\ Len(q) \in Nat
      /\ \A i \in I : Scored(q[i])
  BY DEF ScoredOK
<1>2. IsFiniteSet(I)
  BY <1>1, FS_Interval
<1>3. \A i \in I : FetchSortKey(q[i]) = <<key1[i], key2[i], key3[i]>>
  BY DEF FetchSortKey
<1>4. ASSUME NEW i \in I
      PROVE  /\ q[i].score \in Int /\ RoundHalfEven(q[i].score) \in Int
             /\ q[i].stamps.rank \in Int /\ q[i].cost \in Int
  <2>1. q[i].score \in Int /\ q[i].id \in Candidate
    BY <1>1 DEF Scored
  <2>2. Record[q[i].id].stamps.rank \in Int /\ Record[q[i].id].cost \in Int
    BY <2>1, RecordAssumption
  <2>3. q[i].stamps = Record[q[i].id].stamps /\ q[i].cost = Record[q[i].id].cost
    BY <1>1 DEF Scored
  <2>4. QED  BY <2>1, <2>2, <2>3, RoundTyped
<1>5. key1 \in [I -> Int] /\ key2 \in [I -> Int] /\ key3 \in [I -> Int]
  BY <1>4
<1> HIDE DEF key1, key2, key3
<1>6. ASSUME NEW i \in I, NEW j \in I
      PROVE  <<i, j>> \in before <=> ByKeys(i, j, key1, key2, key3)
  <2>1. <<i, j>> \in before <=> \/ KeyBefore(FetchSortKey(q[i]), FetchSortKey(q[j]))
                                \/ FetchSortKey(q[i]) = FetchSortKey(q[j]) /\ i < j
    BY <1>1
  <2>2. /\ key1[i] \in Int /\ key2[i] \in Int /\ key3[i] \in Int
        /\ key1[j] \in Int /\ key2[j] \in Int /\ key3[j] \in Int
    BY <1>5
  <2> HIDE DEF before
  <2>3. FetchSortKey(q[i]) = FetchSortKey(q[j])
          <=> key1[i] = key1[j] /\ key2[i] = key2[j] /\ key3[i] = key3[j]
    BY <1>3
  <2>4. KeyBefore(FetchSortKey(q[i]), FetchSortKey(q[j])) <=>
              \/ key1[i] < key1[j]
              \/ key1[i] = key1[j] /\ key2[i] < key2[j]
              \/ key1[i] = key1[j] /\ key2[i] = key2[j] /\ key3[i] < key3[j]
    <3>1. /\ FetchSortKey(q[i]) = <<key1[i], key2[i], key3[i]>>
          /\ FetchSortKey(q[j]) = <<key1[j], key2[j], key3[j]>>
      BY <1>3
    <3>2. KeyBefore(<<key1[i], key2[i], key3[i]>>, <<key1[j], key2[j], key3[j]>>) <=>
              \/ key1[i] < key1[j]
              \/ key1[i] = key1[j] /\ key2[i] < key2[j]
              \/ key1[i] = key1[j] /\ key2[i] = key2[j] /\ key3[i] < key3[j]
      <4> DEFINE a == key1[i]  b == key2[i]  c == key3[i]
                 e == key1[j]  f == key2[j]  h == key3[j]
      <4>1. /\ a \in Int /\ b \in Int /\ c \in Int
            /\ e \in Int /\ f \in Int /\ h \in Int
        BY ONLY <2>2
      <4> HIDE DEF a, b, c, e, f, h
      <4>2. KeyBefore(<<a, b, c>>, <<e, f, h>>) <=>
              \/ a < e
              \/ a = e /\ b < f
              \/ a = e /\ b = f /\ c < h
        BY ONLY <4>1, KeyBeforeIs
      <4>3. QED  BY ONLY <4>2 DEF a, b, c, e, f, h
    <3>3. QED  BY ONLY <3>1, <3>2
  <2>5. QED  BY <2>1, <2>3, <2>4 DEF ByKeys
<1> HIDE DEF before
<1>7. IsOrder(I, before)
  <2>1. I \in SUBSET Nat
    BY <1>1
  <2> HIDE DEF I
  <2>2. QED  BY ONLY <1>5, <1>6, <2>1, KeysOrder
<1>8. Lists(FetchOrder(q), q, I)
  BY <1>0, <1>1, <1>2, <1>7, SortedFacts
<1>9. QED
  BY <1>8, ListedScored

\* What a round's money and places come to.
LEMMA BudgetTyped ==
    ASSUME remaining \in Nat, committedUsd \in Nat, committedUsd < BudgetUsd
    PROVE  RoundBudget \in Nat /\ RoundUsd \in Nat
<1>1. CeilDiv(BaseBudget, 2) \in Nat
  BY LoopAssumption DEF CeilDiv
<1>2. RoundBudget \in Nat
  BY <1>1, LoopAssumption DEF RoundBudget
<1>3. BudgetUsd - committedUsd \in Nat /\ (65 * BudgetUsd) \div 100 \in Nat
  BY LoopAssumption
<1>4. RoundUsd \in Nat
  BY <1>3 DEF RoundUsd
<1>5. QED
  BY <1>2, <1>4

\* The record of a candidate by its id.
LEMMA OfFacts ==
    ASSUME NEW q, ScoredOK(q), NEW c \in Ids(q)
    PROVE  Of(q, c).id = c /\ Scored(Of(q, c))
<1>1. \E i \in DOMAIN q : q[i].id = c
  BY DEF Ids
<1> DEFINE at == CHOOSE i \in DOMAIN q : q[i].id = c
<1>2. at \in DOMAIN q /\ q[at].id = c
  BY <1>1, Zenon
<1>3. Of(q, c) = q[at]
  BY DEF Of
<1> HIDE DEF at
<1>4. QED
  BY <1>2, <1>3 DEF ScoredOK

\* A round's fetch is called as _fetch_with_refill expects.
LEMMA RoundOfFacts ==
    ASSUME NEW ranked, ScoredOK(ranked), NEW floor, counts \in [Type -> Nat],
           remaining \in Nat, committedUsd \in Nat, committedUsd < BudgetUsd
    PROVE  /\ RoundOK(RoundOf(ranked, floor))
           /\ Range(RoundOf(ranked, floor).queue) \subseteq Ids(ranked)
<1> DEFINE r == RoundOf(ranked, floor)
           order == FetchOrder(ranked)
           ids == Ids(ranked)
           Marked(c, mark) == c \in ids /\ mark \in Of(ranked, c).marks
           queue == [i \in 1..Len(order) |-> order[i].id]
           priority == [c \in Candidate |-> Marked(c, "priority")]
           must == [c \in Candidate |-> Marked(c, "must")]
           low == [c \in Candidate |-> c \in ids /\ Of(ranked, c).score < floor]
           type == [c \in Candidate |-> Record[c].type]
           reserve == [c \in Candidate |-> IF c \in ids THEN PriorityReservation(Of(ranked, c)) ELSE 1]
<1>1. r = [queue |-> queue, priority |-> priority, must |-> must, low |-> low, type |-> type,
           reserve |-> reserve, cap |-> TypeCap, tally |-> counts, budget |-> RoundBudget,
           usd |-> RoundUsd]
  BY DEF RoundOf
<1>2. ScoredOK(order) /\ \A k \in 1..Len(order) : \E i \in 1..Len(ranked) : order[k] = ranked[i]
  BY FetchOrderFacts
<1>3. /\ Len(order) \in Nat /\ queue = [i \in 1..Len(order) |-> queue[i]]
      /\ \A i \in 1..Len(order) : queue[i] = order[i].id
  BY <1>2 DEF ScoredOK
<1> HIDE DEF order, queue
<1>4. queue \in Seq(Candidate) /\ DOMAIN queue = 1..Len(order)
  <2>1. \A i \in 1..Len(order) : queue[i] \in Candidate
    BY <1>2, <1>3 DEF ScoredOK, Scored
  <2>2. queue \in [1..Len(order) -> Candidate]
    BY <1>3, <2>1
  <2>3. QED  BY <1>3, <2>2, SeqDef
<1>5. IsInjective(queue)
  BY <1>2, <1>3, <1>4 DEF IsInjective, ScoredOK
<1>6. Range(queue) \subseteq ids
  <2>1. \A i \in 1..Len(order) : queue[i] \in ids
    BY <1>2, <1>3 DEF ScoredOK, Ids
  <2>2. QED  BY <1>4, <2>1 DEF Range
<1>7. /\ priority \in [Candidate -> BOOLEAN] /\ must \in [Candidate -> BOOLEAN]
      /\ low \in [Candidate -> BOOLEAN]
  OBVIOUS
<1>8. type \in [Candidate -> Type]
  BY RecordAssumption
<1>9. reserve \in [Candidate -> Nat \ {0}]
  <2>1. ASSUME NEW c \in ids
        PROVE  PriorityReservation(Of(ranked, c)) \in Nat \ {0}
    <3>1. Of(ranked, c).id = c /\ Scored(Of(ranked, c))
      BY OfFacts
    <3>2. Record[c].stamps.ceiling \in Nat /\ Record[c].cost \in Nat \ {0}
      BY <3>1, RecordAssumption DEF Scored
    <3>3. QED  BY <3>1, <3>2 DEF Scored, PriorityReservation
  <2>2. QED  BY <2>1
<1>10. TypeCap \in [Type -> Nat] /\ RoundBudget \in Nat /\ RoundUsd \in Nat
  BY BudgetTyped, SearchAssumption
<1> HIDE DEF priority, must, low, type, reserve
<1>11. r \in RoundArgs
  BY <1>1, <1>4, <1>7, <1>8, <1>9, <1>10 DEF RoundArgs
<1>12. r.queue = queue
  BY <1>1
<1>13. QED
  BY <1>5, <1>6, <1>11, <1>12 DEF RoundOK

-----------------------------------------------------------------------------
USE ConcurrencyAssumption, MaxCostAssumption, CandidatesAssumption

\* What a well-formed round gives.
LEMMA RoundFacts ==
    ASSUME RoundOK(round)
    PROVE  /\ round.queue \in Seq(Candidate)
           /\ \A i, j \in 1..Len(round.queue) : round.queue[i] = round.queue[j] => i = j
           /\ round.priority \in [Candidate -> BOOLEAN] /\ round.must \in [Candidate -> BOOLEAN]
           /\ round.low \in [Candidate -> BOOLEAN] /\ round.type \in [Candidate -> Type]
           /\ round.reserve \in [Candidate -> Nat \ {0}]
           /\ round.cap \in [Type -> Nat] /\ round.tally \in [Type -> Nat]
           /\ round.budget \in Nat /\ round.usd \in Nat
<1>1. round \in RoundArgs /\ IsInjective(round.queue)
  BY DEF RoundOK
<1>2. round.queue \in Seq(Candidate)
  BY <1>1 DEF RoundArgs
<1>3. DOMAIN round.queue = 1..Len(round.queue)
  BY <1>2
<1>4. \A i, j \in 1..Len(round.queue) : round.queue[i] = round.queue[j] => i = j
  BY <1>1, <1>3 DEF IsInjective
<1>5. QED
  BY <1>1, <1>2, <1>4 DEF RoundArgs

\* A wave loses its head.
LEMMA TailFacts ==
    ASSUME NEW S, NEW s \in Seq(S), s # <<>>
    PROVE  /\ Head(s) = s[1] /\ 1 \in 1..Len(s)
           /\ Tail(s) \in Seq(S) /\ Len(Tail(s)) = Len(s) - 1 /\ Len(s) \in Nat \ {0}
           /\ \A i \in 1..Len(Tail(s)) : Tail(s)[i] = s[i + 1]
           /\ Tail(s) = <<>> <=> Len(s) = 1
<1>1. Len(s) \in Nat \ {0} /\ Head(s) = s[1]
  OBVIOUS
<1>2. Tail(s) \in Seq(S) /\ Len(Tail(s)) = Len(s) - 1
      /\ \A i \in 1..Len(Tail(s)) : Tail(s)[i] = s[i + 1]
  BY HeadTailProperties
<1>3. Tail(s) = <<>> <=> Len(Tail(s)) = 0
  BY <1>2, EmptySeq
<1>4. QED
  BY <1>1, <1>2, <1>3

\* A sequence and its next element.
LEMMA AppendFacts ==
    ASSUME NEW S, NEW s \in Seq(S), NEW e \in S
    PROVE  /\ Append(s, e) \in Seq(S) /\ Len(Append(s, e)) = Len(s) + 1 /\ Len(s) \in Nat
           /\ Append(s, e)[Len(s) + 1] = e
           /\ \A i \in 1..Len(s) : Append(s, e)[i] = s[i]
  OBVIOUS

\* One source more, at most the dearest, costs no more than the place it held.
LEMMA PlacePays ==
    ASSUME NEW w \in Nat \ {0}, NEW cost \in 0..MaxCost
    PROVE  cost + MaxCost * (w - 1) <= MaxCost * w
<1>1. MaxCost * (w - 1) = MaxCost * w - MaxCost
  OBVIOUS
<1>2. QED
  BY <1>1

\* A wave no wider than the concurrency costs no more than the widest.
LEMMA WavePays ==
    ASSUME NEW w \in Nat, w <= Concurrency
    PROVE  MaxCost * w <= Concurrency * MaxCost
<1>1. PICK d \in Nat : Concurrency = w + d
  <2>1. Concurrency - w \in Nat /\ Concurrency = w + (Concurrency - w)
    OBVIOUS
  <2>2. QED  BY <2>1
<1>2. Concurrency * MaxCost = MaxCost * w + MaxCost * d /\ MaxCost * d \in Nat
  BY <1>1
<1>3. MaxCost * w \in Nat
  OBVIOUS
<1>4. QED
  BY <1>2, <1>3

-----------------------------------------------------------------------------
LEMMA BeginInv == \A r : RoundOK(r) /\ Begin(r) => IInv
<1> SUFFICES ASSUME NEW r, RoundOK(r), Begin(r) PROVE IInv
  OBVIOUS
<1>1. RoundOK(round) /\ round = r
  BY DEF Begin
<1>0. /\ round.queue \in Seq(Candidate) /\ round.tally \in [Type -> Nat]
      /\ round.budget \in Nat /\ round.usd \in Nat
      /\ \A i \in 1..Len(round.queue) : round.queue[i] \in Candidate
  BY <1>1, RoundFacts
<1> USE <1>0, <1>1 DEF Begin
<1>2. TypeOK
  <2>1. record \in [Candidate -> Outcome \cup {NoOutcome}] /\ reserved \in [Candidate -> Nat]
    OBVIOUS
  <2>2. counts \in [Type -> Int]
    BY <1>0
  <2>3. wave \in Seq(Candidate) /\ results \in Seq(Candidate)
    BY EmptySeq
  <2>4. pc = "wave" /\ idx = 1 /\ stopped = FALSE /\ committed = 0 /\ held = 0
    OBVIOUS
  <2>5. idx \in 1..Len(round.queue) + 1
    <3>1. Len(round.queue) \in Nat
      BY <1>0
    <3>2. QED  BY <2>4, <3>1
  <2>6. RoundOK(round) /\ pc \in {"wave", "admit", "settle", "tail", "done"}
        /\ committed \in Nat /\ held \in Int
    BY ONLY <1>1, <2>4
  <2>7. stopped \in BOOLEAN
    BY ONLY <2>4, Zenon
  <2>8. QED  BY ONLY <2>1, <2>2, <2>3, <2>5, <2>6, <2>7 DEF TypeOK
<1>3. WaveShape /\ QueueShape /\ WithinCount /\ TallyIsTrue /\ LedgerIsTrue
  BY DEF NoOutcome, WaveShape, QueueShape, WithinCount, TallyIsTrue, LedgerIsTrue
<1>4. MoneyShape
  <2>0. Len(wave) = 0 /\ committed = 0
    OBVIOUS
  <2>1. MaxCost * 0 = 0 /\ Concurrency * MaxCost \in Nat
    OBVIOUS
  <2>2. QED  BY <2>0, <2>1 DEF MoneyShape, Limited
<1>5. CountShape
  <2>1. \A t : Counted(t) = {}
    BY DEF Counted, NoOutcome
  <2>2. Cardinality({}) = 0
    BY FS_EmptySet
  <2>3. \A t \in Type : round.tally[t] \in Nat /\ counts[t] = round.tally[t]
    BY <1>0, <1>1
  <2>4. \A t \in Type : Cardinality(Counted(t)) = 0
    BY <2>1, <2>2
  <2>5. QED  BY <2>3, <2>4 DEF CountShape
<1>6. QED
  BY <1>2, <1>3, <1>4, <1>5 DEF IInv

\* So does the first.
LEMMA InitInv == Init => IInv
  BY BeginInv, RoundsAssumption DEF Init

\* The call of a later round is the same, one step on.
LEMMA StartInv == \A r : RoundOK(r) /\ StartRound(r) => IInv'
<1>1. (\A r : RoundOK(r) /\ Begin(r) => IInv)'
  BY BeginInv, PTL
<1>2. \A r : StartRound(r) => Begin(r)'
  BY DEF StartRound, Begin
<1>3. \A r : RoundOK(r) => RoundOK(r)'
  BY DEF RoundOK
<1>4. QED
  BY <1>1, <1>2, <1>3

\* Every step keeps the types.
LEMMA TypeStep ==
    ASSUME TypeOK, WaveShape, [FetchStep]_vars
    PROVE  TypeOK'
<1>r. RoundOK(round)
  BY DEF TypeOK
<1>0. /\ round.queue \in Seq(Candidate) /\ Len(round.queue) \in Nat
      /\ round.type \in [Candidate -> Type] /\ round.reserve \in [Candidate -> Nat \ {0}]
      /\ \A c \in Candidate : Takes(c) \in {0, 1}
  BY <1>r, RoundFacts DEF TypeOK, Takes
<1> USE <1>0 DEF TypeOK, Outcome
<1>1. CASE StopFetching  BY <1>1 DEF StopFetching, QueueLeft
<1>2. CASE OpenWave      BY <1>2 DEF OpenWave
<1>3. CASE Launch        BY <1>3 DEF Launch
<1>4. CASE CloseLedger   BY <1>4 DEF CloseLedger
<1>5. ASSUME NEW c \in Candidate, SkipLow(c) \/ SkipCapped(c) PROVE TypeOK'
  <2>1. /\ idx <= Len(round.queue) /\ idx' = idx + 1
        /\ UNCHANGED <<round, pc, results, committed, stopped, wave, counts, held, reserved>>
    BY <1>5 DEF SkipLow, SkipCapped, Consider, QueueLeft
  <2>2. PICK why \in {"below_floor", "capped"} : record' = [record EXCEPT ![c] = why]
    BY <1>5 DEF SkipLow, SkipCapped
  <2>3. idx' \in 1..Len(round'.queue) + 1
    BY <2>1
  <2>4. record' \in [Candidate -> Outcome \cup {NoOutcome}]
    BY <2>2
  <2>5. QED  BY <2>1, <2>3, <2>4
<1>7. ASSUME NEW c \in Candidate, Admit(c) PROVE TypeOK'
  <2>1. reserved' \in [Candidate -> Nat] /\ held' \in Int
    BY <1>7 DEF Admit
  <2>2. counts' \in [Type -> Int]
    <3>1. counts[round.type[c]] + Takes(c) \in Int
      <4>1. round.type[c] \in Type
        BY <1>0
      <4>2. counts[round.type[c]] \in Int
        BY <4>1
      <4>3. Takes(c) \in {0, 1}
        BY <1>0
      <4>4. QED  BY <4>2, <4>3
    <3>2. counts' = [counts EXCEPT ![round.type[c]] = counts[round.type[c]] + Takes(c)]
      BY <1>7 DEF Admit
    <3>3. QED  BY <3>1, <3>2
  <2>3. /\ idx <= Len(round.queue) /\ idx' = idx + 1 /\ wave' = Append(wave, c)
        /\ record' = [record EXCEPT ![c] = "not_reached"]
        /\ UNCHANGED <<round, pc, results, committed, stopped>>
    BY <1>7 DEF Admit, Consider, QueueLeft
  <2>4. idx' \in 1..Len(round'.queue) + 1
    BY <2>3
  <2>5. wave' \in Seq(Candidate)
    BY <2>3, AppendFacts
  <2>6. record' \in [Candidate -> Outcome \cup {NoOutcome}]
    BY <2>3
  <2>7. /\ RoundOK(round') /\ pc' \in {"wave", "admit", "settle", "tail", "done"}
        /\ results' \in Seq(Candidate) /\ committed' \in Nat /\ stopped' \in BOOLEAN
    BY <2>3
  <2>8. QED  BY ONLY <2>1, <2>2, <2>4, <2>5, <2>6, <2>7 DEF TypeOK, Outcome
<1>8. ASSUME NEW c \in Candidate, NEW why \in {"failed", "not_english"}, Lose(c, why)
      PROVE  TypeOK'
  <2>1. wave' \in Seq(Candidate)
    BY <1>8, TailFacts DEF Lose, Settle
  <2>2. counts' \in [Type -> Int]
    <3>1. counts[round.type[c]] - Takes(c) \in Int
      <4>1. round.type[c] \in Type
        BY <1>0
      <4>2. counts[round.type[c]] \in Int
        BY <4>1
      <4>3. Takes(c) \in {0, 1}
        BY <1>0
      <4>4. QED  BY <4>2, <4>3
    <3>2. counts' = [counts EXCEPT ![round.type[c]] = counts[round.type[c]] - Takes(c)]
      BY <1>8 DEF Lose
    <3>3. QED  BY <3>1, <3>2
  <2>3. record' \in [Candidate -> Outcome \cup {NoOutcome}] /\ held' \in Int
    BY <1>8 DEF Lose
  <2>4. reserved' \in [Candidate -> Nat] /\ pc' \in {"wave", "settle"}
    BY <1>8 DEF Lose, Settle
  <2>5. QED  BY <1>8, <2>1, <2>2, <2>3, <2>4 DEF Lose, Settle
<1>9. ASSUME NEW c \in Candidate, NEW cost \in 1..MaxCost, Keep(c, cost)
      PROVE  TypeOK'
  <2>1. wave' \in Seq(Candidate) /\ results' \in Seq(Candidate)
    BY <1>9, TailFacts, AppendFacts DEF Keep, Settle
  <2>2. held' \in Int /\ committed' \in Nat
    <3>1. reserved[c] \in Nat /\ cost \in Nat
      OBVIOUS
    <3>2. QED  BY <1>9, <3>1 DEF Keep
  <2>3. QED  BY <1>9, <2>1, <2>2 DEF Keep, Settle
<1>10. CASE UNCHANGED vars  BY <1>10 DEF vars
<1>11. QED
  BY <1>1, <1>2, <1>3, <1>4, <1>5, <1>7, <1>8, <1>9, <1>10 DEF FetchStep

-----------------------------------------------------------------------------
\* The wave stays what the ledger calls "not_reached".
LEMMA WaveStep ==
    ASSUME TypeOK, WaveShape, QueueShape, [FetchStep]_vars
    PROVE  WaveShape'
<1>r. RoundOK(round)
  BY DEF TypeOK
<1>0. /\ round.queue \in Seq(Candidate) /\ Len(round.queue) \in Nat
      /\ wave \in Seq(Candidate) /\ Len(wave) \in Nat
      /\ idx \in 1..Len(round.queue) + 1
      /\ record \in [Candidate -> Outcome \cup {NoOutcome}]
  BY <1>r, RoundFacts DEF TypeOK
<1>1. CASE StopFetching  BY <1>1 DEF StopFetching, WaveShape
<1>2. CASE OpenWave      BY <1>2 DEF OpenWave, WaveShape
<1>3. CASE Launch
  <2>1. /\ UNCHANGED <<wave, record>> /\ pc = "admit"
        /\ pc' = IF wave = <<>> THEN "tail" ELSE "settle"
    BY <1>3 DEF Launch
  <2>2. QED  BY <2>1 DEF WaveShape
<1>4. CASE CloseLedger   BY <1>4 DEF CloseLedger, WaveShape
<1>5. ASSUME NEW c \in Candidate, SkipLow(c) \/ SkipCapped(c) PROVE WaveShape'
  <2>1. record[c] = NoOutcome /\ pc = "admit" /\ pc' = pc /\ wave' = wave
    BY <1>0, <1>5 DEF SkipLow, SkipCapped, Consider, QueueLeft, QueueShape
  <2>2. PICK out \in {"below_floor", "capped"} : record' = [record EXCEPT ![c] = out]
    BY <1>5 DEF SkipLow, SkipCapped
  <2>3. \A d \in Candidate : record'[d] = "not_reached" <=> record[d] = "not_reached"
    BY <1>0, <2>1, <2>2 DEF NoOutcome
  <2>4. QED  BY <2>1, <2>3 DEF WaveShape
<1>7. ASSUME NEW c \in Candidate, Admit(c) PROVE WaveShape'
  <2>1. /\ record[c] = NoOutcome /\ pc = "admit" /\ pc' = pc
        /\ wave' = Append(wave, c) /\ record' = [record EXCEPT ![c] = "not_reached"]
    BY <1>0, <1>7 DEF Admit, Consider, QueueLeft, QueueShape
  <2>2. \A i \in 1..Len(wave) : wave[i] \in Candidate /\ wave[i] # c
    BY <1>0, <2>1 DEF WaveShape, NoOutcome
  <2>3. /\ Len(wave') = Len(wave) + 1 /\ wave'[Len(wave) + 1] = c
        /\ \A i \in 1..Len(wave) : wave'[i] = wave[i]
    BY <1>0, <2>1, AppendFacts
  <2>4. \A i, j \in 1..Len(wave') : wave'[i] = wave'[j] => i = j
    BY <1>0, <2>2, <2>3 DEF WaveShape
  <2>5. \A d \in Candidate : record'[d] = "not_reached" <=> \E i \in 1..Len(wave') : wave'[i] = d
    <3> SUFFICES ASSUME NEW d \in Candidate
                 PROVE  record'[d] = "not_reached" <=> \E i \in 1..Len(wave') : wave'[i] = d
      OBVIOUS
    <3>1. CASE d = c
      BY <1>0, <2>1, <2>3, <3>1
    <3>2. CASE d # c
      <4>1. record'[d] = record[d]
        BY <1>0, <2>1, <3>2
      <4>2. (\E i \in 1..Len(wave') : wave'[i] = d) <=> \E i \in 1..Len(wave) : wave[i] = d
        BY <1>0, <2>3, <3>2
      <4>3. QED  BY <2>1, <4>1, <4>2 DEF WaveShape
    <3>3. QED  BY <3>1, <3>2
  <2>6. QED  BY <2>1, <2>4, <2>5 DEF WaveShape
<1>8. ASSUME NEW c \in Candidate, NEW out \in {"failed", "not_english", "fetched"},
             Settle(c), record' = [record EXCEPT ![c] = out]
      PROVE  WaveShape'
  <2>1. /\ Head(wave) = wave[1] /\ 1 \in 1..Len(wave)
        /\ Tail(wave) \in Seq(Candidate) /\ Len(Tail(wave)) = Len(wave) - 1
        /\ \A i \in 1..Len(Tail(wave)) : Tail(wave)[i] = wave[i + 1]
        /\ wave' = Tail(wave) /\ c = wave[1]
    BY <1>0, <1>8, TailFacts DEF Settle
  <2>2. /\ pc = "settle" /\ pc' = IF Tail(wave) = <<>> THEN "wave" ELSE "settle"
    BY <1>8 DEF Settle
  <2>3. \A i, j \in 1..Len(wave') : wave'[i] = wave'[j] => i = j
    BY <1>0, <2>1 DEF WaveShape
  <2>4. \A d \in Candidate : record'[d] = "not_reached" <=> \E i \in 1..Len(wave') : wave'[i] = d
    <3> SUFFICES ASSUME NEW d \in Candidate
                 PROVE  record'[d] = "not_reached" <=> \E i \in 1..Len(wave') : wave'[i] = d
      OBVIOUS
    <3>1. CASE d = c
      <4>1. record'[d] # "not_reached"
        BY <1>0, <1>8, <3>1
      <4>2. \A i \in 1..Len(wave') : wave'[i] # c
        BY <1>0, <2>1 DEF WaveShape
      <4>3. QED  BY <3>1, <4>1, <4>2
    <3>2. CASE d # c
      <4>1. record'[d] = record[d]
        BY <1>0, <1>8, <3>2
      <4>2. ASSUME NEW i \in 1..Len(wave), wave[i] = d PROVE \E j \in 1..Len(wave') : wave'[j] = d
        <5>1. i - 1 \in 1..Len(wave') /\ wave'[i - 1] = d
          BY <1>0, <2>1, <3>2, <4>2
        <5>2. QED  BY <5>1
      <4>3. ASSUME NEW i \in 1..Len(wave'), wave'[i] = d PROVE \E j \in 1..Len(wave) : wave[j] = d
        <5>1. i + 1 \in 1..Len(wave) /\ wave[i + 1] = d
          BY <1>0, <2>1, <4>3
        <5>2. QED  BY <5>1
      <4>4. QED  BY <2>2, <4>1, <4>2, <4>3 DEF WaveShape
    <3>3. QED  BY <3>1, <3>2
  <2>5. QED  BY <2>1, <2>2, <2>3, <2>4 DEF WaveShape
<1>9. CASE UNCHANGED vars  BY <1>9 DEF vars, WaveShape
<1>10. QED
  BY <1>1, <1>2, <1>3, <1>4, <1>5, <1>7, <1>8, <1>9 DEF FetchStep, Lose, Keep

-----------------------------------------------------------------------------
\* The money: a wave opens under the limit, and each place pays one ingest.
LEMMA MoneyStep ==
    ASSUME TypeOK, WaveShape, MoneyShape, [FetchStep]_vars
    PROVE  MoneyShape'
<1>r. RoundOK(round)
  BY DEF TypeOK
<1>0. /\ wave \in Seq(Candidate) /\ Len(wave) \in Nat /\ committed \in Nat
      /\ round.usd \in Nat /\ Concurrency \in Nat /\ MaxCost \in Nat \ {0}
  BY <1>r, RoundFacts DEF TypeOK
<1> DEFINE Top == round.usd - 1 + Concurrency * MaxCost
<1>1. CASE StopFetching  BY <1>1 DEF StopFetching, MoneyShape, Limited
<1>2. CASE OpenWave
  <2>1. Limited => committed <= round.usd - 1
    BY <1>0, <1>2 DEF OpenWave, OutOfMoney
  <2>2. wave = <<>> /\ Len(wave) <= Concurrency
    BY <1>0, <1>2, EmptySeq DEF OpenWave, WaveShape
  <2>3. QED  BY <1>2, <2>1, <2>2 DEF OpenWave, MoneyShape, Limited
<1>3. CASE Launch
  <2>1. SUFFICES ASSUME Limited PROVE committed + MaxCost * Len(wave) <= Top
    BY <1>3 DEF Launch, MoneyShape, Limited
  <2>2. committed <= round.usd - 1 /\ Len(wave) <= Concurrency
    BY <1>3, <2>1 DEF Launch, MoneyShape
  <2>3. MaxCost * Len(wave) <= Concurrency * MaxCost
    BY <1>0, <2>2, WavePays
  <2>4. MaxCost * Len(wave) \in Nat /\ Concurrency * MaxCost \in Nat
    BY <1>0
  <2>5. QED  BY <1>0, <2>2, <2>3, <2>4
<1>4. CASE CloseLedger   BY <1>4 DEF CloseLedger, MoneyShape, Limited
<1>5. ASSUME NEW c \in Candidate, SkipLow(c) \/ SkipCapped(c) PROVE MoneyShape'
  BY <1>5 DEF SkipLow, SkipCapped, Consider, MoneyShape, Limited
<1>7. ASSUME NEW c \in Candidate, Admit(c) PROVE MoneyShape'
  <2>1. Len(wave') = Len(wave) + 1 /\ Len(wave) < Concurrency
    BY <1>0, <1>7, AppendFacts DEF Admit, Consider, RoomInWave
  <2>2. Len(wave') <= Concurrency
    BY <1>0, <2>1
  <2>3. QED  BY <1>7, <2>2 DEF Admit, Consider, MoneyShape, Limited
<1>8. ASSUME NEW c \in Candidate, NEW cost \in 0..MaxCost, Settle(c), committed' = committed + cost
      PROVE  MoneyShape'
  <2>1. Len(wave') = Len(wave) - 1 /\ Len(wave) \in Nat \ {0}
    BY <1>0, <1>8, TailFacts DEF Settle
  <2>2. SUFFICES ASSUME Limited PROVE committed' + MaxCost * Len(wave') <= Top
    BY <1>8 DEF Settle, MoneyShape, Limited
  <2>3. committed + MaxCost * Len(wave) <= Top
    BY <1>8, <2>2 DEF Settle, MoneyShape
  <2>4. cost + MaxCost * (Len(wave) - 1) <= MaxCost * Len(wave)
    BY <2>1, PlacePays
  <2>5. MaxCost * Len(wave) \in Nat /\ MaxCost * (Len(wave) - 1) \in Nat /\ Top \in Int /\ cost \in Nat
    BY <1>0, <2>1
  <2>6. committed + cost + MaxCost * (Len(wave) - 1) <= Top
    BY <1>0, <2>3, <2>4, <2>5
  <2>7. QED  BY <1>8, <2>1, <2>6
<1>9. ASSUME NEW c \in Candidate, NEW why, Lose(c, why) PROVE MoneyShape'
  <2>1. Settle(c) /\ committed' = committed + 0 /\ 0 \in 0..MaxCost
    BY <1>0, <1>9 DEF Lose
  <2>2. QED  BY <1>8, <2>1
<1>10. ASSUME NEW c \in Candidate, NEW cost \in 1..MaxCost, Keep(c, cost) PROVE MoneyShape'
  <2>1. Settle(c) /\ committed' = committed + cost /\ cost \in 0..MaxCost
    BY <1>0, <1>10 DEF Keep
  <2>2. QED  BY <1>8, <2>1
<1>11. CASE UNCHANGED vars  BY <1>11 DEF vars, MoneyShape, Limited
<1>12. QED
  BY <1>1, <1>2, <1>3, <1>4, <1>5, <1>7, <1>9, <1>10, <1>11 DEF FetchStep

\* No wave is wider than the sources still wanted.
LEMMA CountStep ==
    ASSUME TypeOK, WithinCount, [FetchStep]_vars
    PROVE  WithinCount'
<1>r. RoundOK(round)
  BY DEF TypeOK
<1>0. /\ wave \in Seq(Candidate) /\ Len(wave) \in Nat /\ results \in Seq(Candidate)
      /\ Len(results) \in Nat /\ round.budget \in Nat
  BY <1>r, RoundFacts DEF TypeOK
<1>1. ASSUME NEW c \in Candidate, Admit(c) PROVE WithinCount'
  <2>1. Len(wave') = Len(wave) + 1 /\ Len(wave) < round.budget - Len(results)
        /\ results' = results /\ round' = round
    BY <1>0, <1>1, AppendFacts DEF Admit, Consider, RoomInWave
  <2>2. QED  BY <1>0, <2>1 DEF WithinCount
<1>2. ASSUME NEW c \in Candidate, NEW why, Lose(c, why) PROVE WithinCount'
  <2>1. Len(wave') = Len(wave) - 1 /\ results' = results /\ round' = round
    BY <1>0, <1>2, TailFacts DEF Lose, Settle
  <2>2. QED  BY <1>0, <2>1 DEF WithinCount
<1>3. ASSUME NEW c \in Candidate, NEW cost, Keep(c, cost) PROVE WithinCount'
  <2>1. Len(wave') = Len(wave) - 1 /\ Len(results') = Len(results) + 1 /\ round' = round
    BY <1>0, <1>3, TailFacts, AppendFacts DEF Keep, Settle
  <2>2. QED  BY <1>0, <2>1 DEF WithinCount
<1>4. ASSUME UNCHANGED <<round, wave, results>> PROVE WithinCount'
  BY <1>4 DEF WithinCount
<1>5. QED
  BY <1>1, <1>2, <1>3, <1>4
     DEF FetchStep, StopFetching, OpenWave, Launch, CloseLedger, SkipLow, SkipCapped, Consider, vars

\* The position in the queue, the ledger and the results agree.
LEMMA QueueStep ==
    ASSUME TypeOK, WaveShape, QueueShape, [FetchStep]_vars
    PROVE  QueueShape'
<1>0. /\ round.queue \in Seq(Candidate) /\ Len(round.queue) \in Nat
      /\ \A i \in 1..Len(round.queue) : round.queue[i] \in Candidate
      /\ \A i, j \in 1..Len(round.queue) : round.queue[i] = round.queue[j] => i = j
      /\ wave \in Seq(Candidate) /\ results \in Seq(Candidate)
      /\ Len(results) \in Nat /\ round.budget \in Nat
      /\ idx \in 1..Len(round.queue) + 1
      /\ record \in [Candidate -> Outcome \cup {NoOutcome}]
  <2>1. /\ RoundOK(round) /\ wave \in Seq(Candidate) /\ results \in Seq(Candidate)
        /\ idx \in 1..Len(round.queue) + 1
        /\ record \in [Candidate -> Outcome \cup {NoOutcome}]
    BY DEF TypeOK
  <2>2. /\ round.queue \in Seq(Candidate) /\ round.budget \in Nat
        /\ \A i, j \in 1..Len(round.queue) : round.queue[i] = round.queue[j] => i = j
    BY ONLY <2>1, RoundFacts
  <2>3. Len(round.queue) \in Nat /\ \A i \in 1..Len(round.queue) : round.queue[i] \in Candidate
    BY <2>2
  <2>4. QED  BY <2>1, <2>2, <2>3
<1>1. CASE StopFetching
  <2>1. /\ round' = round /\ results' = results /\ committed' = committed
        /\ idx' = idx /\ record' = record /\ pc = "wave" /\ pc' = "tail"
    BY <1>1 DEF StopFetching
  <2>2. stopped' => OutOfMoney /\ Len(results) < round.budget
    <3>1. Len(results) >= round.budget <=> ~(Len(results) < round.budget)
      BY <1>0
    <3>2. stopped' = (Len(results) < round.budget /\ QueueLeft)
          /\ (Len(results) >= round.budget \/ ~QueueLeft \/ OutOfMoney)
      BY <1>1 DEF StopFetching
    <3>3. QED  BY ONLY <3>1, <3>2, Zenon
  <2>3. QED  BY <2>1, <2>2 DEF QueueShape, OutOfMoney, Limited
<1>2. CASE OpenWave      BY <1>2 DEF OpenWave, QueueShape, OutOfMoney, Limited
<1>3. CASE Launch        BY <1>3 DEF Launch, QueueShape, OutOfMoney, Limited
<1>4. CASE CloseLedger
  <2>1. \A c \in Candidate : record'[c] = "fetched" <=> record[c] = "fetched"
    <3> SUFFICES ASSUME NEW c \in Candidate PROVE record'[c] = "fetched" <=> record[c] = "fetched"
      OBVIOUS
    <3>1. CASE \E i \in idx..Len(round.queue) : round.queue[i] = c
      <4>1. PICK i \in idx..Len(round.queue) : round.queue[i] = c
        BY <3>1
      <4>2. record[c] = NoOutcome
        BY <1>0, <1>4, <4>1 DEF CloseLedger, QueueShape
      <4>3. record'[c] \in {"below_floor", "budget", "not_reached"}
        BY <1>4, <3>1 DEF CloseLedger
      <4>4. QED  BY <4>2, <4>3 DEF NoOutcome
    <3>2. CASE ~ \E i \in idx..Len(round.queue) : round.queue[i] = c
      BY <1>4, <3>2 DEF CloseLedger
    <3>3. QED  BY <3>1, <3>2
  <2>2. QED  BY <1>4, <2>1 DEF CloseLedger, QueueShape, OutOfMoney, Limited
<1>5. ASSUME NEW c \in Candidate, NEW out \in {"below_floor", "capped", "not_reached"},
             Consider(c), record' = [record EXCEPT ![c] = out]
      PROVE  QueueShape'
  <2>1. /\ idx \in 1..Len(round.queue) /\ idx' = idx + 1 /\ c = round.queue[idx]
        /\ pc = "admit" /\ pc' = pc /\ round' = round /\ results' = results
        /\ stopped' = stopped /\ committed' = committed
    BY <1>0, <1>5 DEF Consider, QueueLeft
  <2>2. record[c] = NoOutcome
    BY <1>0, <2>1 DEF QueueShape
  <2>3. \A i \in 1..Len(round.queue) : record'[round.queue[i]] = NoOutcome <=> i >= idx'
    <3> SUFFICES ASSUME NEW i \in 1..Len(round.queue)
                 PROVE  record'[round.queue[i]] = NoOutcome <=> i >= idx + 1
      BY <2>1
    <3>1. CASE i = idx
      BY <1>0, <1>5, <2>1, <3>1 DEF NoOutcome
    <3>2. CASE i # idx
      <4>1. round.queue[i] # c /\ round.queue[i] \in Candidate
        BY <1>0, <2>1, <3>2
      <4>2. record'[round.queue[i]] = record[round.queue[i]]
        BY <1>0, <1>5, <4>1
      <4>3. i >= idx <=> i >= idx + 1
        BY <1>0, <3>2
      <4>4. QED  BY <2>1, <4>2, <4>3 DEF QueueShape
    <3>3. QED  BY <3>1, <3>2
  <2>4. \A d \in Candidate : /\ record'[d] # "budget"
                             /\ record'[d] = "fetched" <=> record[d] = "fetched"
    BY <1>0, <1>5, <2>1, <2>2 DEF QueueShape, NoOutcome
  <2>5. QED  BY <2>1, <2>3, <2>4 DEF QueueShape, OutOfMoney, Limited
<1>6. ASSUME NEW c \in Candidate, SkipLow(c) \/ SkipCapped(c) \/ Admit(c) PROVE QueueShape'
  BY <1>5, <1>6 DEF SkipLow, SkipCapped, Admit
<1>7. ASSUME NEW c \in Candidate, NEW out \in {"failed", "not_english", "fetched"},
             Settle(c), record' = [record EXCEPT ![c] = out]
      PROVE  /\ pc' # "done" /\ pc # "done" /\ stopped' = stopped /\ round' = round
             /\ record[c] = "not_reached"
             /\ \A i \in 1..Len(round.queue) : record'[round.queue[i]] = NoOutcome <=> i >= idx'
             /\ \A d \in Candidate : record'[d] # "budget"
             /\ \A d \in Candidate : d # c => record'[d] = record[d]
             /\ record'[c] = out
  <2>1. /\ pc = "settle" /\ pc' \in {"wave", "settle"} /\ round' = round
        /\ idx' = idx /\ stopped' = stopped /\ c = wave[1] /\ 1 \in 1..Len(wave)
    BY <1>0, <1>7, TailFacts DEF Settle
  <2>2. record[c] = "not_reached"
    BY <2>1 DEF WaveShape
  <2>3. \A d \in Candidate : record'[d] = NoOutcome <=> record[d] = NoOutcome
    BY <1>0, <1>7, <2>2 DEF NoOutcome
  <2>4. \A d \in Candidate : record'[d] # "budget" /\ (d # c => record'[d] = record[d])
    BY <1>0, <1>7, <2>1 DEF QueueShape
  <2>5. record'[c] = out
    BY <1>0, <1>7
  <2>6. QED  BY <1>0, <2>1, <2>2, <2>3, <2>4, <2>5 DEF QueueShape
<1>8. ASSUME NEW c \in Candidate, NEW why \in {"failed", "not_english"}, Lose(c, why)
      PROVE  QueueShape'
  <2>1. /\ Settle(c) /\ record' = [record EXCEPT ![c] = why]
        /\ results' = results /\ committed' = committed
    BY <1>8 DEF Lose
  <2>2. \A d \in Candidate : record'[d] = "fetched" <=> record[d] = "fetched"
    BY <1>7, <2>1
  <2>3. /\ pc' # "done" /\ pc # "done" /\ stopped' = stopped /\ round' = round
        /\ \A i \in 1..Len(round.queue) : record'[round.queue[i]] = NoOutcome <=> i >= idx'
        /\ \A d \in Candidate : record'[d] # "budget"
    BY <1>7, <2>1
  <2>4. ~stopped
    BY <2>1 DEF Settle, QueueShape
  <2>5. QED  BY <2>1, <2>2, <2>3, <2>4 DEF QueueShape
<1>9. ASSUME NEW c \in Candidate, NEW cost \in 1..MaxCost, Keep(c, cost)
      PROVE  QueueShape'
  <2>1. /\ Settle(c) /\ record' = [record EXCEPT ![c] = "fetched"]
        /\ results' = Append(results, c)
    BY <1>9 DEF Keep
  <2>2. ~stopped
    <3>1. pc = "settle" /\ wave # <<>>
      BY <2>1 DEF Settle
    <3>2. QED  BY <3>1 DEF QueueShape
  <2>3. /\ pc' # "done" /\ pc # "done" /\ stopped' = stopped /\ round' = round
        /\ \A i \in 1..Len(round.queue) : record'[round.queue[i]] = NoOutcome <=> i >= idx'
        /\ \A d \in Candidate : record'[d] # "budget"
        /\ \A d \in Candidate : d # c => record'[d] = record[d]
        /\ record'[c] = "fetched"
    BY <1>7, <2>1
  <2>4. /\ Len(results') = Len(results) + 1 /\ results'[Len(results) + 1] = c
        /\ \A i \in 1..Len(results) : results'[i] = results[i]
    BY <1>0, <2>1, AppendFacts
  <2>5. \A d \in Candidate : record'[d] = "fetched" <=> \E i \in 1..Len(results') : results'[i] = d
    <3> SUFFICES ASSUME NEW d \in Candidate
                 PROVE  record'[d] = "fetched" <=> \E i \in 1..Len(results') : results'[i] = d
      OBVIOUS
    <3>1. CASE d = c
      BY <1>0, <2>3, <2>4, <3>1
    <3>2. CASE d # c
      <4>1. (\E i \in 1..Len(results') : results'[i] = d) <=> \E i \in 1..Len(results) : results[i] = d
        BY <1>0, <2>4, <3>2
      <4>2. QED  BY <2>3, <3>2, <4>1 DEF QueueShape
    <3>3. QED  BY <3>1, <3>2
  <2>6. QED  BY <2>2, <2>3, <2>5 DEF QueueShape
<1>10. CASE UNCHANGED vars  BY <1>10 DEF vars, QueueShape, OutOfMoney, Limited
<1>11. CASE FetchStep
  BY <1>1, <1>2, <1>3, <1>4, <1>6, <1>8, <1>9, <1>11 DEF FetchStep
<1>12. QED
  BY <1>10, <1>11

-----------------------------------------------------------------------------
\* The tally counts the kept and the flying, by one set element a step.
LEMMA TallyStep ==
    ASSUME TypeOK, WaveShape, QueueShape, CountShape, [FetchStep]_vars
    PROVE  CountShape'
<1>r. RoundOK(round)
  BY DEF TypeOK
<1>0. /\ round.must \in [Candidate -> BOOLEAN] /\ round.type \in [Candidate -> Type]
      /\ round.cap \in [Type -> Nat] /\ round.tally \in [Type -> Nat]
      /\ counts \in [Type -> Int] /\ record \in [Candidate -> Outcome \cup {NoOutcome}]
      /\ wave \in Seq(Candidate) /\ idx \in 1..Len(round.queue) + 1
      /\ Len(round.queue) \in Nat
  BY <1>r, RoundFacts DEF TypeOK
<1>1. \A t \in Type : IsFiniteSet(Counted(t)) /\ Cardinality(Counted(t)) \in Nat
  <2>1. \A t \in Type : Counted(t) \subseteq Candidate
    BY DEF Counted
  <2>2. QED  BY <2>1, FS_Subset, FS_CardinalityType
<1>2. ASSUME NEW c \in Candidate, NEW out \in {"below_floor", "capped"},
             Consider(c), record' = [record EXCEPT ![c] = out], counts' = counts
      PROVE  CountShape'
  <2>1. record[c] = NoOutcome /\ round' = round /\ pc = "admit" /\ pc' = pc
    BY <1>0, <1>2 DEF Consider, QueueLeft, QueueShape
  <2>2. \A t \in Type : Counted(t)' = Counted(t)
    BY <1>0, <1>2, <2>1 DEF Counted, NoOutcome
  <2>3. QED  BY <1>2, <2>1, <2>2 DEF CountShape
<1>3. ASSUME NEW c \in Candidate, SkipLow(c) \/ SkipCapped(c) PROVE CountShape'
  BY <1>2, <1>3 DEF SkipLow, SkipCapped
<1>4. ASSUME NEW c \in Candidate, Admit(c) PROVE CountShape'
  <2>1. /\ record[c] = NoOutcome /\ round' = round /\ pc = "admit" /\ pc' = pc
        /\ record' = [record EXCEPT ![c] = "not_reached"]
        /\ counts' = [counts EXCEPT ![round.type[c]] = counts[round.type[c]] + Takes(c)]
    BY <1>0, <1>4 DEF Admit, Consider, QueueLeft, QueueShape
  <2>2. ASSUME NEW t \in Type
        PROVE  /\ counts'[t] = round.tally[t] + Cardinality(Counted(t)')
               /\ counts'[t] <= round.cap[t] \/ counts'[t] <= round.tally[t]
    <3>0. /\ counts[t] = round.tally[t] + Cardinality(Counted(t))
          /\ counts[t] <= round.cap[t] \/ counts[t] <= round.tally[t]
      BY <2>1 DEF CountShape
    <3>1. CASE t = round.type[c] /\ ~round.must[c]
      <4>1. c \notin Counted(t) /\ Counted(t)' = Counted(t) \cup {c}
        BY <1>0, <2>1, <3>1 DEF Counted, NoOutcome
      <4>2. Cardinality(Counted(t)') = Cardinality(Counted(t)) + 1
        BY <1>1, <4>1, FS_AddElement
      <4>3. counts'[t] = counts[t] + 1
        BY <1>0, <2>1, <3>1 DEF Takes
      <4>4. counts[t] < round.cap[t]
        BY <1>0, <1>4, <3>1 DEF Admit, TypeFull
      <4>5. counts[t] \in Int /\ round.cap[t] \in Nat /\ round.tally[t] \in Nat
            /\ Cardinality(Counted(t)) \in Nat
        BY <1>0, <1>1
      <4>6. QED  BY ONLY <3>0, <4>2, <4>3, <4>4, <4>5
    <3>2. CASE ~(t = round.type[c] /\ ~round.must[c])
      <4>1. Counted(t)' = Counted(t)
        BY <1>0, <2>1, <3>2 DEF Counted, NoOutcome
      <4>2. counts'[t] = counts[t]
        BY <1>0, <2>1, <3>2 DEF Takes
      <4>3. QED  BY <3>0, <4>1, <4>2
    <3>3. QED  BY <3>1, <3>2
  <2>3. QED  BY <2>1, <2>2 DEF CountShape
<1>5. ASSUME NEW c \in Candidate, NEW why \in {"failed", "not_english"}, Lose(c, why)
      PROVE  CountShape'
  <2>1. /\ pc = "settle" /\ pc' \in {"wave", "settle"} /\ round' = round
        /\ c = wave[1] /\ 1 \in 1..Len(wave)
        /\ record' = [record EXCEPT ![c] = why]
        /\ counts' = [counts EXCEPT ![round.type[c]] = counts[round.type[c]] - Takes(c)]
    BY <1>0, <1>5, TailFacts DEF Lose, Settle
  <2>2. record[c] = "not_reached"
    BY <2>1 DEF WaveShape
  <2>3. ASSUME NEW t \in Type
        PROVE  /\ counts'[t] = round.tally[t] + Cardinality(Counted(t)')
               /\ counts'[t] <= round.cap[t] \/ counts'[t] <= round.tally[t]
    <3>0. /\ counts[t] = round.tally[t] + Cardinality(Counted(t))
          /\ counts[t] <= round.cap[t] \/ counts[t] <= round.tally[t]
      BY <2>1 DEF CountShape
    <3>1. CASE t = round.type[c] /\ ~round.must[c]
      <4>1. c \in Counted(t) /\ Counted(t)' = Counted(t) \ {c}
        BY <1>0, <2>1, <2>2, <3>1 DEF Counted
      <4>f. IsFiniteSet(Counted(t))
        BY <1>1
      <4>2. Cardinality(Counted(t)') = Cardinality(Counted(t)) - 1
        BY ONLY <4>1, <4>f, FS_RemoveElement
      <4>3. counts'[t] = counts[t] - 1
        BY <1>0, <2>1, <3>1 DEF Takes
      <4>4. counts[t] \in Int /\ round.cap[t] \in Nat /\ round.tally[t] \in Nat
            /\ Cardinality(Counted(t)) \in Nat
        BY <1>0, <1>1
      <4>5. QED  BY ONLY <3>0, <4>2, <4>3, <4>4
    <3>2. CASE ~(t = round.type[c] /\ ~round.must[c])
      <4>1. Counted(t)' = Counted(t)
        BY <1>0, <2>1, <2>2, <3>2 DEF Counted
      <4>2. counts'[t] = counts[t]
        BY <1>0, <2>1, <3>2 DEF Takes
      <4>3. QED  BY <3>0, <4>1, <4>2
    <3>3. QED  BY <3>1, <3>2
  <2>4. QED  BY <2>1, <2>3 DEF CountShape
<1>6. ASSUME NEW c \in Candidate, NEW cost \in 1..MaxCost, Keep(c, cost)
      PROVE  CountShape'
  <2>1. /\ pc = "settle" /\ pc' \in {"wave", "settle"} /\ round' = round
        /\ c = wave[1] /\ 1 \in 1..Len(wave) /\ counts' = counts
        /\ record' = [record EXCEPT ![c] = "fetched"]
    BY <1>0, <1>6, TailFacts DEF Keep, Settle
  <2>2. record[c] = "not_reached"
    BY <2>1 DEF WaveShape
  <2>3. \A t \in Type : Counted(t)' = Counted(t)
    BY <1>0, <2>1, <2>2 DEF Counted
  <2>4. QED  BY <2>1, <2>3 DEF CountShape
<1>7. CASE CloseLedger  BY <1>7 DEF CloseLedger, CountShape
<1>8. CASE StopFetching \/ OpenWave \/ Launch \/ UNCHANGED vars
  <2>1. /\ round' = round /\ record' = record /\ counts' = counts
        /\ pc' # "done" => pc # "done"
    BY <1>8 DEF StopFetching, OpenWave, Launch, vars
  <2>2. \A t \in Type : Counted(t)' = Counted(t)
    BY <2>1 DEF Counted
  <2>3. QED  BY <2>1, <2>2 DEF CountShape
<1>9. CASE FetchStep
  BY <1>3, <1>4, <1>5, <1>6, <1>7, <1>8, <1>9 DEF FetchStep
<1>10. QED
  BY <1>8, <1>9

\* The ledger and the tally are true when they are closed, and stay so.
LEMMA ClosingStep ==
    ASSUME TypeOK, WaveShape, QueueShape, CountShape, TallyIsTrue, LedgerIsTrue, [FetchStep]_vars
    PROVE  TallyIsTrue' /\ LedgerIsTrue'
<1>r. RoundOK(round)
  BY DEF TypeOK
<1>0. /\ round.cap \in [Type -> Nat] /\ round.tally \in [Type -> Nat]
      /\ round.queue \in Seq(Candidate) /\ Len(round.queue) \in Nat
      /\ counts \in [Type -> Int] /\ record \in [Candidate -> Outcome \cup {NoOutcome}]
      /\ results \in Seq(Candidate) /\ idx \in 1..Len(round.queue) + 1
  BY <1>r, RoundFacts DEF TypeOK
<1>1. CASE CloseLedger
  <2>1. /\ pc = "tail" /\ round' = round /\ counts' = counts /\ results' = results
        /\ committed' = committed /\ stopped' = stopped
        /\ \A c \in Candidate : record'[c] =
              IF \E i \in idx..Len(round.queue) : round.queue[i] = c
              THEN IF BelowFloor(c) THEN "below_floor"
                   ELSE IF stopped THEN "budget" ELSE "not_reached"
              ELSE record[c]
    BY <1>1 DEF CloseLedger
  <2>2. \A c \in Candidate : record[c] # "not_reached"
    BY <1>0, <2>1 DEF WaveShape
  <2>3. \A c \in Candidate : (\E i \in idx..Len(round.queue) : round.queue[i] = c)
                               => record[c] = NoOutcome
    BY <1>0, <2>1 DEF QueueShape
  <2>4. \A c \in Candidate : record'[c] = "fetched" <=> record[c] = "fetched"
    BY <2>1, <2>3 DEF NoOutcome
  <2>5. \A t \in Type : HeldByType(t)' = Counted(t)
    BY <2>1, <2>2, <2>4 DEF HeldByType, Counted
  <2>6. TallyIsTrue'
    <3> SUFFICES ASSUME NEW t \in Type
                 PROVE  /\ counts[t] = round.tally[t] + Cardinality(HeldByType(t)')
                        /\ counts[t] <= round.cap[t] \/ counts[t] = round.tally[t]
      BY <2>1 DEF TallyIsTrue
    <3>1. /\ counts[t] = round.tally[t] + Cardinality(Counted(t))
          /\ counts[t] <= round.cap[t] \/ counts[t] <= round.tally[t]
      BY <2>1 DEF CountShape
    <3>2. Cardinality(Counted(t)) \in Nat
      <4>1. Counted(t) \subseteq Candidate
        BY DEF Counted
      <4>2. QED  BY <4>1, FS_Subset, FS_CardinalityType
    <3>3. QED  BY <1>0, <2>5, <3>1, <3>2
  <2>7. \A c \in Candidate : record'[c] = "fetched" <=> c \in Range(results')
    <3>1. \A c \in Candidate : c \in Range(results) <=> \E i \in 1..Len(results) : results[i] = c
      BY <1>0 DEF Range
    <3>2. QED  BY <2>1, <2>4, <3>1 DEF QueueShape
  <2>8. \A c \in Range(round.queue) : record'[c] # NoOutcome
    <3>a. ASSUME NEW c \in Range(round.queue)
          PROVE  \E i \in 1..Len(round.queue) : c = round.queue[i]
      BY <1>0, <3>a DEF Range
    <3> SUFFICES ASSUME NEW i \in 1..Len(round.queue) PROVE record'[round.queue[i]] # NoOutcome
      BY <3>a
    <3>0. round.queue[i] \in Candidate
      BY <1>0
    <3>1. CASE \E j \in idx..Len(round.queue) : round.queue[j] = round.queue[i]
      BY <2>1, <3>0, <3>1 DEF NoOutcome
    <3>2. CASE ~ \E j \in idx..Len(round.queue) : round.queue[j] = round.queue[i]
      <4>1. ~(i >= idx)
        BY <1>0, <3>2
      <4>2. QED  BY <2>1, <3>0, <3>2, <4>1 DEF QueueShape
    <3>3. QED  BY <3>1, <3>2
  <2>9. (\E c \in Candidate : record'[c] = "budget") => OutOfMoney /\ Len(results) < round.budget
    <3>1. \A c \in Candidate : record[c] # "budget"
      BY <2>1 DEF QueueShape
    <3>2. QED  BY <2>1, <3>1 DEF QueueShape
  <2>10. LedgerIsTrue'
    BY <2>1, <2>7, <2>8, <2>9 DEF LedgerIsTrue, OutOfMoney, Limited
  <2>11. QED  BY <2>6, <2>10
<1>2. CASE FetchStep /\ ~CloseLedger
  <2>1. pc' # "done"
    BY <1>2 DEF FetchStep, StopFetching, OpenWave, Launch, SkipLow, SkipCapped, Admit,
                Consider, Lose, Keep, Settle
  <2>2. QED  BY <2>1 DEF TallyIsTrue, LedgerIsTrue
<1>3. CASE UNCHANGED vars
  <2>1. \A t \in Type : HeldByType(t)' = HeldByType(t)
    BY <1>3 DEF HeldByType, vars
  <2>2. QED  BY <1>3, <2>1 DEF vars, TallyIsTrue, LedgerIsTrue, OutOfMoney, Limited
<1>4. QED
  BY <1>1, <1>2, <1>3

\* All of it, in every step.
LEMMA IInvStep == IInv /\ [FetchStep]_vars => IInv'
  BY TypeStep, WaveStep, MoneyStep, CountStep, QueueStep, TallyStep, ClosingStep DEF IInv

\* Every reachable state of a fetch stage satisfies the inductive invariant.
THEOREM FetchInvariant == FetchSpec => []IInv
  BY InitInv, IInvStep, PTL DEF FetchSpec

\* A round keeps no more sources than its budget, whatever fails on the way.
THEOREM NeverMoreThanWanted == FetchSpec => []WithinCount
<1>1. IInv => WithinCount
  BY DEF IInv
<1>2. QED
  BY <1>1, FetchInvariant, PTL

\* A wave is paid for with money the stage had when the wave opened, but for the last.
LEMMA WaveOver == IInv => OneWaveOver
<1> SUFFICES ASSUME IInv, Limited
             PROVE  committed + MaxCost * Len(wave) <= round.usd - 1 + Concurrency * MaxCost
  BY DEF OneWaveOver
<1>0. /\ Len(wave) \in Nat /\ committed \in Nat /\ round.usd \in Nat
      /\ Concurrency \in Nat /\ MaxCost \in Nat \ {0}
  BY RoundFacts DEF IInv, TypeOK
<1>1. CASE pc = "admit"
  <2>1. committed <= round.usd - 1 /\ Len(wave) <= Concurrency
    BY <1>1 DEF IInv, MoneyShape
  <2>2. MaxCost * Len(wave) <= Concurrency * MaxCost
    BY <1>0, <2>1, WavePays
  <2>3. MaxCost * Len(wave) \in Nat /\ Concurrency * MaxCost \in Nat
    BY <1>0
  <2>4. QED  BY <1>0, <2>1, <2>2, <2>3
<1>2. CASE pc # "admit"
  BY <1>2 DEF IInv, MoneyShape
<1>3. QED  BY <1>1, <1>2

\* The estimated money is passed by no more than the last wave's sources.
THEOREM NeverMoreThanAWaveOver == FetchSpec => []OneWaveOver
  BY WaveOver, FetchInvariant, PTL

\* What a round hands on as its types' tally is what it found plus what it kept.
THEOREM TallyStaysTrue == FetchSpec => []TallyIsTrue
<1>1. IInv => TallyIsTrue
  BY DEF IInv
<1>2. QED
  BY <1>1, FetchInvariant, PTL

\* When the stage ends the ledger explains every candidate of its queue.
THEOREM LedgerStaysTrue == FetchSpec => []LedgerIsTrue
<1>1. IInv => LedgerIsTrue
  BY DEF IInv
<1>2. QED
  BY <1>1, FetchInvariant, PTL

-----------------------------------------------------------------------------
\* The money of the loop.  What it has spent and committed is less than its budget
\* when it goes round again.
BeforeFetch == {"plan", "search", "pool", "triage"}
Going == BeforeFetch \cup {"fetch", "fetched"}

LoopMoney ==
    /\ stage \in Going \cup {"stopped", "failed"} /\ n \in Nat
    /\ stage \in Going => committedUsd \in Nat /\ spentUsd \in Nat
    /\ stage \in BeforeFetch => committedUsd < BudgetUsd
    /\ MoneyLimitHolds

\* The price of a set of sources is a number.
LEMMA PricesAddUp ==
    ASSUME NEW S
    PROVE  SumPrice(S) \in Nat
<1>1. IsFiniteSet(1..MaxCost)
  BY FS_Interval
<1>2. IsFiniteSet(Candidate \X (1..MaxCost))
  BY <1>1, FS_Product
<1>3. IsFiniteSet({u \in Candidate \X (1..MaxCost) : u[1] \in S /\ u[2] <= Price(u[1])})
  BY <1>2, FS_Subset
<1>4. QED
  BY <1>3, FS_CardinalityType DEF SumPrice

\* What is left of the money.
LEMMA Remainder == \A spent, kept, all \in Nat : ~(spent + kept >= all) => kept < all
OBVIOUS

\* The limit of a round's money, when less than the budget is committed.
LEMMA LimitIsPositive ==
    ASSUME committedUsd \in Nat, committedUsd < BudgetUsd
    PROVE  RoundUsd > 0
<1>1. BudgetUsd - committedUsd > 0 /\ (65 * BudgetUsd) \div 100 > 0
  BY LoopAssumption
<1>2. QED
  BY <1>1 DEF RoundUsd

\* Every step of the loop keeps its money.
LEMMA LoopMoneyStep == LoopMoney /\ [DiscoveryNext \/ Ended]_allVars => LoopMoney'
<1> SUFFICES ASSUME LoopMoney, [DiscoveryNext \/ Ended]_allVars
             PROVE  LoopMoney'
  OBVIOUS
<1> USE LoopAssumption DEF LoopMoney, MoneyLimitHolds, BeforeFetch, Going
<1>1. ASSUME NEW chs, NEW found, PlanRound(chs, found)
      PROVE  LoopMoney'
  BY <1>1 DEF PlanRound, Stop, corpus
<1>2. CASE Plan
  BY <1>1, <1>2 DEF Plan
<1>3. ASSUME NEW answer, Search(answer)
      PROVE  LoopMoney'
  BY <1>3 DEF Search, corpus
<1>4. ASSUME NEW ch, NEW status, RetryChannel(ch, status)
      PROVE  LoopMoney'
  BY <1>4 DEF RetryChannel, control, corpus
<1>5. CASE Pool
  BY <1>5 DEF Pool, corpus
<1>6. ASSUME NEW models, TriagePool(models)
      PROVE  LoopMoney'
  <2>1. /\ stage = "triage" /\ stage' = "fetch" /\ n' = n
        /\ UNCHANGED <<committedUsd, spentUsd>> /\ \E ranked, floor : round' = RoundOf(ranked, floor)
    BY <1>6 DEF TriagePool, StartRound, corpus
  <2>2. \A ranked, floor : RoundOf(ranked, floor).usd = RoundUsd
    BY DEF RoundOf
  <2>3. round'.usd > 0
    BY <2>1, <2>2, LimitIsPositive
  <2>4. QED
    BY <2>1, <2>3
<1>7. CASE ProviderDown \/ ValidatorDown
  BY <1>7 DEF ProviderDown, ValidatorDown, corpus
<1>8. CASE Fetch
  <2>1. round' = round
    BY <1>8 DEF Fetch, StopFetching, OpenWave, Launch, CloseLedger, SkipLow, SkipCapped, Admit,
                Consider, Lose, Keep, Settle
  <2>2. QED
    BY <1>8, <2>1 DEF Fetch, control, corpus
<1>9. CASE DropCopies
  BY <1>9 DEF DropCopies, corpus
<1>10. CASE NoSources
  BY <1>10 DEF NoSources, Stop
<1>11. ASSUME NEW good, NEW unjudged, NEW cost \in LiveCost, NEW met \in BOOLEAN,
              Validate(good, unjudged, cost, met)
       PROVE  LoopMoney'
  <2> DEFINE why == StopReason(met, Cardinality(raw) - Cardinality(unjudged), Cardinality(good))
  <2>1. /\ stage = "fetched" /\ committedUsd' = committedUsd + SumPrice(good)
        /\ spentUsd' = spentUsd + cost
        /\ \/ why = "none" /\ stage' = "plan" /\ n' = n + 1
           \/ why # "none" /\ stage' = "stopped" /\ n' = n
    BY <1>11 DEF Validate, Stop
  <2>2. committedUsd' \in Nat /\ spentUsd' \in Nat
    BY <2>1, PricesAddUp
  <2>3. why = "none" => ~(spentUsd' + committedUsd' >= BudgetUsd)
    BY DEF StopReason
  <2> HIDE DEF why
  <2>4. CASE why = "none" /\ stage' = "plan" /\ n' = n + 1
    <3>1. committedUsd' < BudgetUsd
      <4>1. ~(spentUsd' + committedUsd' >= BudgetUsd) /\ BudgetUsd \in Nat
        BY <2>3, <2>4
      <4>2. QED
        BY <2>2, <4>1, Remainder
    <3>2. QED
      BY <2>2, <2>4, <3>1
  <2>5. CASE why # "none" /\ stage' = "stopped" /\ n' = n
    BY <2>2, <2>5
  <2>6. QED
    BY <2>1, <2>4, <2>5
<1>12. CASE UNCHANGED allVars
  BY <1>12 DEF allVars, vars, control, corpus
<1>13. CASE DiscoveryNext
  BY ONLY <1>2, <1>3, <1>4, <1>5, <1>6, <1>7, <1>8, <1>9, <1>10, <1>11, <1>13
     DEF DiscoveryNext
<1>14. QED
  BY <1>12, <1>13 DEF Ended

\* What _run_discovery promises by its order of stopping conditions: a round never
\* begins with a limit of zero, which _fetch_with_refill would take for no limit.
THEOREM RoundsAreLimited == DiscoverySpec => []MoneyLimitHolds
<1>1. DiscoveryInit => LoopMoney
  BY LoopAssumption DEF DiscoveryInit, LoopMoney, MoneyLimitHolds, BeforeFetch, Going
<1>2. LoopMoney /\ [DiscoveryNext \/ Ended]_allVars => LoopMoney'
  BY LoopMoneyStep
<1>3. LoopMoney => MoneyLimitHolds
  BY DEF LoopMoney
<1>4. QED
  BY <1>1, <1>2, <1>3, PTL DEF DiscoverySpec

-----------------------------------------------------------------------------
\* Copies of one text.
\* What the texts taken in turn leave, as an equation.
Added(order, i, kept, texts, short, close) ==
    kept \cup {s \in {order[i]} : Apart(s, texts \cup kept, short, close)}

Pass(f, m, order, texts, short, close) ==
    /\ f = [i \in 0..m |-> f[i]] /\ f[0] = {}
    /\ \A i \in 1..m : f[i] = Added(order, i, f[i - 1], texts, short, close)

\* There is such a pass over every prefix.
LEMMA PassExists ==
    ASSUME NEW order, NEW texts, NEW short, NEW close, NEW m \in Nat
    PROVE  \E f : Pass(f, m, order, texts, short, close)
<1> DEFINE T == {k \in Nat : \E f : Pass(f, k, order, texts, short, close)}
<1>1. 0 \in T
  <2> DEFINE f == [i \in 0..0 |-> {}]
  <2>1. Pass(f, 0, order, texts, short, close)
    BY DEF Pass
  <2>2. QED  BY <2>1
<1>2. ASSUME NEW k \in Nat, k \in T PROVE k + 1 \in T
  <2>1. PICK f : Pass(f, k, order, texts, short, close)
    BY <1>2
  <2> DEFINE last == Added(order, k + 1, f[k], texts, short, close)
             g == [i \in 0..(k + 1) |-> IF i = k + 1 THEN last ELSE f[i]]
  <2>2. g = [i \in 0..(k + 1) |-> g[i]] /\ g[0] = {}
    BY <2>1 DEF Pass
  <2>3. ASSUME NEW i \in 1..(k + 1)
        PROVE  g[i] = Added(order, i, g[i - 1], texts, short, close)
    <3> HIDE DEF last
    <3>1. g[i - 1] = f[i - 1]
      OBVIOUS
    <3>2. CASE i = k + 1
      <4>1. g[i] = last /\ i - 1 = k
        BY <3>2
      <4>2. QED  BY <3>1, <3>2, <4>1 DEF last
    <3>3. CASE i # k + 1
      <4>1. i \in 1..k /\ g[i] = f[i]
        BY <3>3
      <4>2. QED  BY <2>1, <3>1, <4>1 DEF Pass
    <3>4. QED  BY <3>2, <3>3
  <2>4. Pass(g, k + 1, order, texts, short, close)
    BY <2>2, <2>3 DEF Pass
  <2>5. QED  BY <2>4
<1>3. QED
  BY <1>1, <1>2, SetInduction

\* ContentKept is the end of one.
LEMMA KeptByPass ==
    ASSUME NEW order, NEW texts, NEW short, NEW close, Len(order) \in Nat
    PROVE  \E f : /\ Pass(f, Len(order), order, texts, short, close)
                  /\ ContentKept(order, texts, short, close) = f[Len(order)]
<1> DEFINE Step(f) == [i \in 0..Len(order) |->
              IF i = 0 THEN {}
              ELSE f[i - 1] \cup {s \in {order[i]} : Apart(s, texts \cup f[i - 1], short, close)}]
           kept == CHOOSE f : f = Step(f)
<1>1. ContentKept(order, texts, short, close) = kept[Len(order)]
  BY DEF ContentKept
<1>2. PICK f : Pass(f, Len(order), order, texts, short, close)
  BY PassExists
<1>3. f = Step(f)
  <2>1. f = [i \in 0..Len(order) |-> f[i]]
    BY <1>2 DEF Pass
  <2>2. ASSUME NEW i \in 0..Len(order)
        PROVE  f[i] = Step(f)[i]
    <3>1. CASE i = 0
      BY <1>2, <3>1 DEF Pass
    <3>2. CASE i # 0
      <4>1. i \in 1..Len(order)
        BY <3>2
      <4>2. QED  BY <1>2, <3>2, <4>1 DEF Pass, Added
    <3>3. QED  BY <3>1, <3>2
  <2>3. QED  BY <2>1, <2>2
<1>4. kept = Step(kept)
  <2>1. \E g : g = Step(g)
    BY <1>3
  <2> HIDE DEF Step
  <2>2. QED  BY <2>1, Zenon
<1> HIDE DEF kept
<1>5. kept = [i \in 0..Len(order) |-> kept[i]]
  BY <1>4
<1>6. kept[0] = {}
  BY <1>4
<1>7. ASSUME NEW i \in 1..Len(order)
      PROVE  kept[i] = Added(order, i, kept[i - 1], texts, short, close)
  <2>1. i \in 0..Len(order) /\ i # 0
    OBVIOUS
  <2>2. kept[i] = Step(kept)[i]
    BY <1>4
  <2>3. Step(kept)[i] = Added(order, i, kept[i - 1], texts, short, close)
    BY <2>1 DEF Added
  <2> HIDE DEF Step
  <2>4. QED  BY <2>2, <2>3
<1> HIDE DEF Step
<1>8. Pass(kept, Len(order), order, texts, short, close)
  BY <1>5, <1>6, <1>7 DEF Pass
<1>9. QED
  BY <1>1, <1>8

\* What a pass keeps is apart from the texts it was given, and from each other.
LEMMA KeptAreApart ==
    ASSUME NEW order, NEW texts, NEW short, NEW close, Len(order) \in Nat,
           \A s, t : <<s, t>> \in close => <<t, s>> \in close
    PROVE  LET kept == ContentKept(order, texts, short, close)
           IN  \A s \in kept \ short, t \in (texts \cup kept) \ short :
                  s # t => <<s, t>> \notin close
<1> DEFINE Good(K) == \A s \in K \ short, t \in (texts \cup K) \ short :
                          s # t => <<s, t>> \notin close
<1>1. PICK f : /\ Pass(f, Len(order), order, texts, short, close)
               /\ ContentKept(order, texts, short, close) = f[Len(order)]
  BY KeptByPass
<1> DEFINE T == {m \in Nat : m <= Len(order) => Good(f[m])}
<1>2. 0 \in T
  BY <1>1 DEF Pass
<1>3. ASSUME NEW m \in Nat, m \in T PROVE m + 1 \in T
  <2>1. SUFFICES ASSUME m + 1 <= Len(order) PROVE Good(f[m + 1])
    OBVIOUS
  <2>2. Good(f[m])
    BY <1>3, <2>1
  <2>3. f[m + 1] = Added(order, m + 1, f[m], texts, short, close)
    <3>1. m + 1 \in 1..Len(order) /\ (m + 1) - 1 = m
      BY <2>1
    <3>2. QED  BY <1>1, <3>1 DEF Pass
  <2>4. QED
    BY <2>2, <2>3 DEF Added, Apart
<1>4. Len(order) \in T
  BY <1>2, <1>3, SetInduction
<1>5. QED
  BY <1>1, <1>4

-----------------------------------------------------------------------------
\* What the rounds know of texts: every accepted one was seen, and what a round has
\* left of its own is apart from all of them.
Distinct(A, B) == \A c \in A \ TextShort, d \in B \ TextShort : c # d => <<c, d>> \notin TextClose

TextsKnown ==
    /\ DOMAIN seen = {"keys", "urls", "texts"}
    /\ results \in Seq(Candidate)
    /\ passed \subseteq seen.texts
    /\ Distinct(passed, passed)
    /\ stage = "fetched" => Distinct(raw, raw) /\ Distinct(raw, seen.texts)

\* Closeness has no direction.
LEMMA CloseBothWays == \A c, d : <<c, d>> \in TextClose => <<d, c>> \in TextClose
<1> SUFFICES ASSUME NEW c \in Candidate, NEW d \in Candidate, <<c, d>> \in TextClose
             PROVE  <<d, c>> \in TextClose
  BY DEF TextClose
<1>1. TextOf(c).print \in Int /\ TextOf(d).print \in Int
  BY RecordAssumption DEF TextOf
<1>2. TextOf(c).print - TextOf(d).print \in {-1, 0, 1}
  BY DEF TextClose
<1>3. TextOf(d).print - TextOf(c).print \in {-1, 0, 1}
  BY <1>1, <1>2
<1>4. QED
  BY <1>3 DEF TextClose

\* What is left of a round's sources when copies and second editions are dropped.
LEMMA OriginalsAreDistinct ==
    ASSUME NEW sources, Len(sources) \in Nat
    PROVE  Distinct(Originals(sources), Originals(sources))
           /\ Distinct(Originals(sources), seen.texts)
<1> DEFINE order == ByLength(sources, TextLength)
           kept  == ContentKept(order, seen.texts, TextShort, TextClose)
<1>1. Originals(sources) \subseteq kept
  BY DEF Originals, EditionsKept
<1>2. Len(order) \in Nat
  BY DEF ByLength
<1> HIDE DEF order
<1>3. \A s \in kept \ TextShort, t \in (seen.texts \cup kept) \ TextShort :
         s # t => <<s, t>> \notin TextClose
  BY <1>2, CloseBothWays, KeptAreApart
<1> HIDE DEF kept
<1>4. QED
  BY <1>1, <1>3 DEF Distinct

\* Every step keeps what is known of the texts.
LEMMA TextsStep == TextsKnown /\ [DiscoveryNext \/ Ended]_allVars => TextsKnown'
<1> SUFFICES ASSUME TextsKnown, [DiscoveryNext \/ Ended]_allVars
             PROVE  TextsKnown'
  OBVIOUS
<1>0. TextShort' = TextShort /\ TextClose' = TextClose
  BY DEF TextShort, TextClose, TextOf
<1>1. ASSUME UNCHANGED <<seen, results, passed>>, stage' = "fetched" => stage = "fetched" /\ raw' = raw
      PROVE  TextsKnown'
  BY <1>0, <1>1 DEF TextsKnown, Distinct
<1>2. ASSUME NEW chs, NEW found, PlanRound(chs, found)
      PROVE  TextsKnown'
  BY <1>1, <1>2 DEF PlanRound, Stop, screening, corpus, vars
<1>3. CASE Plan
  BY <1>2, <1>3 DEF Plan
<1>4. ASSUME NEW answer, Search(answer)
      PROVE  TextsKnown'
  BY <1>1, <1>4 DEF Search, screening, corpus, vars
<1>5. ASSUME NEW ch, NEW status, RetryChannel(ch, status)
      PROVE  TextsKnown'
  BY <1>1, <1>5 DEF RetryChannel, control, screening, corpus, vars
<1>6. CASE Pool
  <2>1. UNCHANGED <<seen, results, passed>> /\ raw' = {}
    BY <1>6 DEF Pool, corpus, vars
  <2>2. QED
    BY <1>0, <2>1 DEF TextsKnown, Distinct
<1>7. ASSUME NEW models, TriagePool(models)
      PROVE  TextsKnown'
  <2>1. /\ stage' = "fetch" /\ results' = <<>> /\ passed' = passed
        /\ \E cs : seen' = AddCandidates(seen, cs)
    BY <1>7 DEF TriagePool, StartRound, corpus
  <2>2. seen'.texts = seen.texts /\ DOMAIN seen' = DOMAIN seen
    BY <2>1 DEF AddCandidates, TextsKnown
  <2>3. QED
    BY <1>0, <2>1, <2>2, EmptySeq DEF TextsKnown, Distinct
<1>8. CASE ProviderDown \/ ValidatorDown
  BY <1>1, <1>8 DEF ProviderDown, ValidatorDown, screening, corpus, vars
<1>9. CASE Fetch
  <2>1. stage = "fetch" /\ stage' = "fetch" /\ UNCHANGED <<seen, passed>>
    BY <1>9 DEF Fetch, control, screening, corpus
  <2>2. results' = results \/ \E c \in Candidate : results' = Append(results, c)
    BY <1>9 DEF Fetch, StopFetching, OpenWave, Launch, CloseLedger, SkipLow, SkipCapped, Admit,
                Consider, Lose, Keep, Settle
  <2>3. results' \in Seq(Candidate)
    BY <2>2, AppendFacts DEF TextsKnown
  <2>4. QED
    BY <1>0, <2>1, <2>3 DEF TextsKnown, Distinct
<1>10. CASE DropCopies
  <2>1. UNCHANGED <<seen, results, passed>> /\ raw' = Originals(results)
    BY <1>10 DEF DropCopies, corpus, vars
  <2>2. Len(results) \in Nat
    BY DEF TextsKnown
  <2>3. Distinct(raw', raw') /\ Distinct(raw', seen.texts)
    BY <2>1, <2>2, OriginalsAreDistinct
  <2>4. QED
    BY <1>0, <2>1, <2>3 DEF TextsKnown, Distinct
<1>11. CASE NoSources
  BY <1>1, <1>11 DEF NoSources, Stop, screening, vars
<1>12. ASSUME NEW good \in SUBSET raw, NEW unjudged, NEW cost \in LiveCost, NEW met \in BOOLEAN,
              Validate(good, unjudged, cost, met)
       PROVE  TextsKnown'
  <2>1. /\ stage = "fetched" /\ stage' # "fetched" /\ results' = results
        /\ passed' = passed \cup good /\ \E cs : seen' = AddSources(seen, cs, raw)
    BY <1>12 DEF Validate, Stop, vars
  <2>2. seen'.texts = seen.texts \cup raw /\ DOMAIN seen' = DOMAIN seen
    BY <2>1 DEF AddSources, AddCandidates, TextsKnown
  <2>3. Distinct(passed', passed')
    <3> SUFFICES ASSUME NEW c \in passed' \ TextShort, NEW d \in passed' \ TextShort, c # d
                 PROVE  <<c, d>> \notin TextClose
      BY DEF Distinct
    <3>1. CASE c \in passed /\ d \in passed
      BY <3>1 DEF TextsKnown, Distinct
    <3>2. CASE c \in good
      BY <2>1, <3>2 DEF TextsKnown, Distinct
    <3>3. CASE d \in good /\ c \in passed
      <4>1. <<d, c>> \notin TextClose
        BY <2>1, <3>3 DEF TextsKnown, Distinct
      <4>2. QED  BY <4>1, CloseBothWays
    <3>4. QED  BY <2>1, <3>1, <3>2, <3>3
  <2>4. QED
    BY <1>0, <2>1, <2>2, <2>3 DEF TextsKnown, Distinct
<1>13. CASE UNCHANGED allVars \/ Ended
  BY <1>1, <1>13 DEF Ended, allVars, vars, control, screening, corpus
<1>14. CASE DiscoveryNext
  BY ONLY <1>3, <1>4, <1>5, <1>6, <1>7, <1>8, <1>9, <1>10, <1>11, <1>12, <1>14
     DEF DiscoveryNext
<1>15. QED
  BY <1>13, <1>14

\* Over all rounds, and whatever is found and fetched, no two accepted sources are one
\* text: deduplicate_sources_by_content compares each with its own round and with the
\* fingerprints the SeenSet keeps of every round before.
THEOREM NoTextTwice == DiscoverySpec => []NoTwins
<1>1. DiscoveryInit => TextsKnown
  BY EmptySeq DEF DiscoveryInit, Begin, NothingSeen, TextsKnown, Distinct
<1>2. TextsKnown /\ [DiscoveryNext \/ Ended]_allVars => TextsKnown'
  BY TextsStep
<1>3. TextsKnown => NoTwins
  BY DEF TextsKnown, Distinct, NoTwins
<1>4. QED
  BY <1>1, <1>2, <1>3, PTL DEF DiscoverySpec
-----------------------------------------------------------------------------
\* The fetch stage within the loop.  Every round starts it on what its triage ranked,
\* with the tally earlier rounds left: what holds of one call then holds of them all.
SearchShape ==
    /\ channel = [ch \in Channel |-> channel[ch]]
    /\ asked \subseteq Channel /\ extras \in Seq(Candidate)
    /\ PoolOK(pool) /\ ScoredOK(triaged)

FetchShape ==
    /\ stage = "fetch" => /\ Range(round.queue) \subseteq Ids(triaged)
                          /\ Range(wave) \subseteq Ids(triaged)
    /\ stage = "fetched" => raw \subseteq Candidate
    /\ stage = "fetched" /\ triaged # <<>> => pc = "done" /\ raw \subseteq Range(results)
    /\ stage \in Going => remaining \in Int
    /\ stage \in BeforeFetch => remaining \in Nat

LoopShape == IInv /\ LoopMoney /\ SearchShape /\ FetchShape

\* What the channels answered, one channel after another.
LEMMA AnsweredType ==
    ASSUME asked \subseteq Channel
    PROVE  Answered \in Seq(Candidate)
<1> DEFINE size == Cardinality(asked)
           order == SetToSeq(asked)
           More(i, s) == s \o (IF channel[order[i]] = "ok" THEN Hits[order[i]] ELSE <<>>)
           none == <<>>
           S == Seq(Candidate)
           Step(f) == [i \in 0..size |-> IF i = 0 THEN none ELSE More(i, f[i - 1])]
           pooled == CHOOSE f : f = Step(f)
           step == [i \in 1..size |-> [s \in S |-> More(i, s)]]
<1>1. Answered = pooled[size]
  BY DEF Answered
<1>2. IsFiniteSet(asked) /\ size \in Nat
  BY SearchAssumption, FS_Subset, FS_CardinalityType
<1>3. order \in [1..size -> asked]
  <2>1. \E f : f \in Bijection(1..size, asked)
    <3>1. IsFiniteSet(asked)
      BY <1>2
    <3>2. QED  BY ONLY <3>1, FS_CardinalityType DEF ExistsBijection
  <2>2. \E f \in [1..size -> asked] : IsInjective(f)
    BY <2>1 DEF Bijection, Injection
  <2>3. order = CHOOSE f \in [1..size -> asked] : IsInjective(f)
    BY DEF SetToSeq
  <2>4. QED  BY <2>2, <2>3, Zenon
<1> HIDE DEF size, order
<1>4. none \in S /\ \A i \in 1..size, s \in S : More(i, s) \in S
  <2>1. \A i \in 1..size : Hits[order[i]] \in S
    BY <1>3, SearchAssumption
  <2>2. QED  BY <2>1, ConcatProperties, EmptySeq
<1> HIDE DEF none, S, More
<1>5. step \in Steps(size, S) /\ \A i \in 1..size, s \in S : step[i][s] = More(i, s)
  BY <1>4 DEF Steps
<1> HIDE DEF step
<1>6. pooled = Step(pooled)
  <2>1. PICK f : Recursion(f, size, S, none, step)
    BY <1>2, <1>4, <1>5, RecursionExists
  <2>2. \A i \in 1..size : f[i] = More(i, f[i - 1])
    BY <1>2, <1>5, <2>1 DEF Recursion
  <2>3. f = Step(f)
    BY <1>2, <2>1, <2>2 DEF Recursion
  <2> HIDE DEF Step
  <2>4. QED  BY <2>3, Zenon
<1> HIDE DEF pooled
<1>7. pooled[0] = none /\ \A i \in 1..size : pooled[i] = More(i, pooled[i - 1])
  BY <1>2, <1>6
<1>8. \A i \in 0..size : pooled[i] \in S
  BY <1>2, <1>4, <1>7, RecursionKeeps
<1>9. QED
  BY <1>1, <1>2, <1>8 DEF S

\* The canonical works searched for again.
LEMMA LookAgainType == LookAgain \in Seq(Candidate)
<1> DEFINE I == {i \in DOMAIN Canonical : /\ Record[Canonical[i]].url \notin rankedUrls
                                          /\ Canonical[i] \notin passed}
<1>1. Canonical \in Seq(Candidate)
  BY SearchAssumption
<1>2. DOMAIN Canonical = 1..Len(Canonical) /\ Len(Canonical) \in Nat
      /\ \A i \in 1..Len(Canonical) : Canonical[i] \in Candidate
  BY <1>1, LenProperties
<1>3. LookAgain = Places(Canonical, I)
  BY DEF LookAgain
<1>4. I \in SUBSET (1..Len(Canonical))
  BY <1>2
<1> HIDE DEF I
<1>5. I \in SUBSET Nat /\ IsFiniteSet(I)
  BY <1>2, <1>4, FirstNumbers
<1>6. Lists(LookAgain, Canonical, I)
  BY <1>3, <1>5, PlacesFacts
<1>7. \A i \in I : Canonical[i] \in Candidate
  BY <1>2, <1>4
<1>8. QED
  BY <1>6, <1>7 DEF Lists

\* The texts left are among the sources they were taken from.
LEMMA OriginalsAmong ==
    ASSUME NEW sources \in Seq(Candidate)
    PROVE  Originals(sources) \subseteq Range(sources)
<1> DEFINE order == ByLength(sources, TextLength)
           kept == ContentKept(order, seen.texts, TextShort, TextClose)
<1>1. Originals(sources) \subseteq kept
  BY DEF Originals, EditionsKept
<1>2. DOMAIN sources = 1..Len(sources) /\ Len(sources) \in Nat
      /\ \A i \in 1..Len(sources) : sources[i] \in Candidate
  BY LenProperties
<1>3. Lists(order, sources, DOMAIN sources)
  <2> DEFINE longer == {p \in (DOMAIN sources) \X (DOMAIN sources) :
                     \/ TextLength[sources[p[1]]] > TextLength[sources[p[2]]]
                     \/ TextLength[sources[p[1]]] = TextLength[sources[p[2]]] /\ p[1] < p[2]}
  <2>1. order = Sorted(sources, DOMAIN sources, longer)
    BY DEF ByLength
  <2>2. \A c \in Candidate : TextLength[c] \in Nat
    BY RecordAssumption DEF TextLength, TextOf
  <2>3. \A i \in DOMAIN sources : TextLength[sources[i]] \in Nat
    BY <1>2, <2>2
  <2>4. IsOrder(DOMAIN sources, longer)
    BY <1>2, <2>3 DEF IsOrder
  <2> HIDE DEF longer
  <2>5. IsFiniteSet(DOMAIN sources)
    BY <1>2, FS_Interval
  <2>6. QED  BY <2>1, <2>4, <2>5, SortedFacts
<1> HIDE DEF order
<1>4. Len(order) \in Nat /\ \A k \in 1..Len(order) : order[k] \in Range(sources)
  BY <1>2, <1>3 DEF Lists, Range
<1>5. PICK f : Pass(f, Len(order), order, seen.texts, TextShort, TextClose) /\ kept = f[Len(order)]
  BY <1>4, KeptByPass
<1> HIDE DEF kept
<1> DEFINE S == SUBSET Range(sources)
<1>6. f[0] \in S
  BY <1>5 DEF Pass
<1>7. ASSUME NEW i \in 1..Len(order), f[i - 1] \in S PROVE f[i] \in S
  <2>1. f[i] = Added(order, i, f[i - 1], seen.texts, TextShort, TextClose)
    BY <1>5 DEF Pass
  <2>2. f[i] \subseteq f[i - 1] \cup {order[i]}
    BY <2>1 DEF Added
  <2>3. QED  BY <1>4, <1>7, <2>2
<1> HIDE DEF S
<1>8. \A i \in 0..Len(order) : f[i] \in S
  BY <1>4, <1>6, <1>7, RecursionKeeps
<1>9. kept \in S
  BY <1>4, <1>5, <1>8
<1>10. QED
  BY <1>1, <1>9 DEF S

\* The tally that a round hands on counts no type below nothing.
LEMMA TallyCounts ==
    ASSUME IInv
    PROVE  counts \in [Type -> Nat]
<1>1. counts \in [Type -> Int] /\ round.tally \in [Type -> Nat] /\ pc \in {"wave", "admit", "settle", "tail", "done"}
  BY RoundFacts DEF IInv, TypeOK
<1>2. ASSUME NEW t \in Type PROVE counts[t] \in Nat
  <2>1. Counted(t) \subseteq Candidate /\ HeldByType(t) \subseteq Candidate
    BY DEF Counted, HeldByType
  <2>2. Cardinality(Counted(t)) \in Nat /\ Cardinality(HeldByType(t)) \in Nat
    <3>1. IsFiniteSet(Counted(t)) /\ IsFiniteSet(HeldByType(t))
      BY <2>1, CandidatesAssumption, FS_Subset
    <3>2. QED  BY ONLY <3>1, FS_CardinalityType
  <2>3. counts[t] = round.tally[t] + Cardinality(Counted(t))
        \/ counts[t] = round.tally[t] + Cardinality(HeldByType(t))
    BY DEF IInv, CountShape, TallyIsTrue
  <2>4. round.tally[t] \in Nat
    BY <1>1
  <2>5. QED  BY <2>2, <2>3, <2>4
<1>3. QED
  BY <1>1, <1>2

\* What a fetched candidate costs is within the bound of a cost.
LEMMA PriceTyped ==
    ASSUME ScoredOK(triaged), NEW c \in Ids(triaged)
    PROVE  c \in Candidate /\ Price(c) \in 1..MaxCost
<1>1. Of(triaged, c).id = c /\ Scored(Of(triaged, c))
  BY OfFacts
<1>2. c \in Candidate /\ Of(triaged, c).stamps = Record[c].stamps
  BY <1>1 DEF Scored
<1>3. Record[c].stamps.ceiling \in Nat /\ Record[c].text.price \in 1..MaxCost
  BY <1>2, RecordAssumption
<1>4. QED
  BY <1>2, <1>3, MaxCostAssumption DEF Price

\* A turn of the loop's fetch is a turn of the fetch stage, on the round's candidates.
LEMMA FetchIsFetchStep ==
    ASSUME LoopShape, Fetch
    PROVE  FetchStep /\ round' = round /\ Range(wave') \subseteq Ids(triaged)
<1>0. /\ stage = "fetch" /\ ScoredOK(triaged)
      /\ Range(round.queue) \subseteq Ids(triaged) /\ Range(wave) \subseteq Ids(triaged)
  BY DEF LoopShape, SearchShape, FetchShape, Fetch
<1>1. wave \in Seq(Candidate) /\ round.queue \in Seq(Candidate)
      /\ idx \in 1..Len(round.queue) + 1
  BY RoundFacts DEF LoopShape, IInv, TypeOK
<1>2. CASE StopFetching \/ OpenWave \/ Launch \/ CloseLedger
  BY <1>0, <1>2 DEF StopFetching, OpenWave, Launch, CloseLedger, FetchStep
<1>3. ASSUME NEW c \in Candidate, SkipLow(c) \/ SkipCapped(c)
      PROVE  FetchStep /\ round' = round /\ Range(wave') \subseteq Ids(triaged)
  <2>1. FetchStep
    BY <1>3 DEF FetchStep
  <2>2. QED  BY <1>0, <1>3, <2>1 DEF SkipLow, SkipCapped, Consider
<1>4. ASSUME NEW c \in Candidate, Admit(c)
      PROVE  FetchStep /\ round' = round /\ Range(wave') \subseteq Ids(triaged)
  <2>1. FetchStep
    BY <1>4 DEF FetchStep
  <2>2. round' = round /\ c = round.queue[idx] /\ idx <= Len(round.queue) /\ wave' = Append(wave, c)
    BY <1>4 DEF Admit, Consider, QueueLeft
  <2>3. c \in Ids(triaged)
    <3>1. idx \in DOMAIN round.queue
      BY <1>1, <2>2
    <3>2. QED  BY <1>0, <2>2, <3>1 DEF Range
  <2>4. Range(wave') \subseteq Ids(triaged)
    <3>1. DOMAIN wave' = 1..(Len(wave) + 1) /\ DOMAIN wave = 1..Len(wave)
          /\ wave'[Len(wave) + 1] = c /\ \A i \in 1..Len(wave) : wave'[i] = wave[i]
      BY <1>1, <2>2, AppendFacts
    <3>2. QED  BY <1>0, <1>1, <2>3, <3>1 DEF Range
  <2>5. QED  BY <2>1, <2>2, <2>4
<1>5. ASSUME NEW c \in Candidate, Lose(c, "failed") \/ Keep(c, Price(c))
      PROVE  FetchStep /\ round' = round /\ Range(wave') \subseteq Ids(triaged)
  <2>1. wave # <<>> /\ c = Head(wave) /\ wave' = Tail(wave) /\ round' = round
    BY <1>5 DEF Lose, Keep, Settle
  <2>2. /\ c = wave[1] /\ 1 \in 1..Len(wave) /\ wave' \in Seq(Candidate)
        /\ Len(wave') = Len(wave) - 1 /\ Len(wave) \in Nat
        /\ \A i \in 1..Len(wave') : wave'[i] = wave[i + 1]
    BY <1>1, <2>1, TailFacts
  <2>3. DOMAIN wave = 1..Len(wave) /\ DOMAIN wave' = 1..Len(wave')
    BY <1>1, <2>2, LenProperties
  <2>4. c \in Ids(triaged)
    BY <1>0, <2>2, <2>3 DEF Range
  <2>5. Price(c) \in 1..MaxCost
    BY <1>0, <2>4, PriceTyped
  <2>6. FetchStep
    BY <1>5, <2>5 DEF FetchStep
  <2>7. Range(wave') \subseteq Ids(triaged)
    BY <1>0, <2>2, <2>3 DEF Range
  <2>8. QED  BY <2>1, <2>6, <2>7
<1>6. QED
  BY <1>2, <1>3, <1>4, <1>5 DEF Fetch

\* The scores of a pool.
LEMMA TriagedScored ==
    ASSUME PoolOK(pool), NEW models \in [1..Len(pool) -> Scores],
           NEW scored,
           scored = [i \in 1..Len(pool) |-> Triaged(pool[i], models[i], pool[i].prior, Boosted)]
    PROVE  ScoredOK(scored)
<1>1. Len(pool) \in Nat /\ DOMAIN scored = 1..Len(pool) /\ Len(scored) = Len(pool)
  <2>1. scored \in Seq({scored[i] : i \in 1..Len(pool)}) /\ DOMAIN scored = 1..Len(pool)
    BY SeqDef DEF PoolOK
  <2>2. QED  BY <2>1, LenProperties DEF PoolOK
<1>2. ASSUME NEW i \in 1..Len(pool)
      PROVE  Scored(scored[i]) /\ scored[i].id = pool[i].id
  <2>1. models[i] \in Int
    BY SearchAssumption
  <2>2. Hit(pool[i])
    BY DEF PoolOK
  <2>3. pool[i].prior \in Int
    BY <2>2, RecordAssumption DEF Hit
  <2>4. \A must : TriageScore(models[i], pool[i].prior, must) \in Int
    BY <2>1, <2>3 DEF TriageScore, Clamp, MaxScore, Unscored, MustHaveScore
  <2>5. /\ scored[i].id = pool[i].id /\ scored[i].stamps = pool[i].stamps
        /\ scored[i].cost = pool[i].cost
        /\ \E must : scored[i].score = TriageScore(models[i], pool[i].prior, must)
    BY DEF Triaged
  <2>6. QED  BY <2>2, <2>4, <2>5 DEF Hit, Scored
<1>3. QED
  BY <1>1, <1>2 DEF ScoredOK, PoolOK

\* The fetch stage that a round's triage starts.
LEMMA TriageStarts ==
    ASSUME LoopShape, NEW models \in [1..Len(pool) -> Scores], TriagePool(models)
    PROVE  /\ IInv' /\ ScoredOK(triaged')
           /\ stage' = "fetch" /\ wave' = <<>> /\ Range(round'.queue) \subseteq Ids(triaged')
<1> DEFINE scored == [i \in 1..Len(pool) |->
                        Triaged(pool[i], models[i], pool[i].prior, Boosted)]
           ranked == RankCandidates(scored)
<1>1. PICK floor : /\ stage = "triage" /\ triaged' = scored /\ stage' = "fetch"
                   /\ StartRound(RoundOf(ranked, floor))
  BY DEF TriagePool
<1>2. ScoredOK(scored)
  BY TriagedScored DEF LoopShape, SearchShape
<1> HIDE DEF scored
<1>3. ScoredOK(ranked) /\ \A k \in 1..Len(ranked) : \E i \in 1..Len(scored) : ranked[k] = scored[i]
  BY <1>2, RankFacts
<1> HIDE DEF ranked
<1>4. remaining \in Nat /\ committedUsd \in Nat /\ committedUsd < BudgetUsd
  BY <1>1 DEF LoopShape, FetchShape, LoopMoney, BeforeFetch, Going
<1>5. counts \in [Type -> Nat]
  BY TallyCounts DEF LoopShape
<1>6. PICK r : r = RoundOf(ranked, floor)
  OBVIOUS
<1>7. RoundOK(r) /\ Range(r.queue) \subseteq Ids(ranked)
  BY <1>3, <1>4, <1>5, <1>6, RoundOfFacts
<1>8. StartRound(r)
  BY <1>1, <1>6
<1>9. IInv'
  BY <1>7, <1>8, StartInv
<1>10. Ids(ranked) \subseteq Ids(scored)
  BY <1>2, <1>3 DEF Ids, ScoredOK
<1>11. round' = r /\ wave' = <<>>
  BY <1>8 DEF StartRound
<1>12. ScoredOK(triaged')
  BY <1>1, <1>2 DEF ScoredOK, Scored
<1>13. QED
  BY <1>1, <1>7, <1>9, <1>10, <1>11, <1>12

\* The pool of a round.
LEMMA PoolStarts ==
    ASSUME LoopShape, Pool
    PROVE  PoolOK(pool') /\ stage' \in {"fetched", "triage"}
<1> DEFINE hits == extras \o Answered
           found == [i \in 1..Len(hits) |-> Record[hits[i]]]
<1>1. pool' = DeduplicateCandidates(found, seen) /\ stage' \in {"fetched", "triage"}
  BY DEF Pool
<1>2. hits \in Seq(Candidate)
  BY AnsweredType, ConcatProperties DEF LoopShape, SearchShape
<1> HIDE DEF hits
<1>3. Len(hits) \in Nat /\ \A i \in 1..Len(hits) : hits[i] \in Candidate
  BY <1>2
<1>4. DOMAIN found = 1..Len(hits) /\ Len(found) = Len(hits)
  <2>1. found \in Seq({found[i] : i \in 1..Len(hits)}) /\ DOMAIN found = 1..Len(hits)
    BY <1>3, SeqDef
  <2>2. QED  BY <1>3, <2>1, LenProperties
<1>5. Found(found)
  BY <1>3, <1>4 DEF Found
<1> HIDE DEF found
<1>6. PoolOK(DeduplicateCandidates(found, seen))
  BY <1>5, DedupFacts
<1>7. QED
  BY <1>1, <1>6 DEF PoolOK, Hit

\* Every step of the loop keeps its shape.
LEMMA LoopShapeStep ==
    ASSUME LoopShape, [DiscoveryNext \/ Ended]_allVars
    PROVE  IInv' /\ SearchShape' /\ FetchShape'
<1> DEFINE Kept == IInv' /\ SearchShape' /\ FetchShape'
<1> SUFFICES Kept
  OBVIOUS
<1>0. stage \in Going \cup {"stopped", "failed"}
  BY DEF LoopShape, LoopMoney
<1>i. ASSUME UNCHANGED vars PROVE IInv'
  BY <1>i, IInvStep DEF LoopShape
<1>1. ASSUME UNCHANGED <<vars, channel, asked, extras, pool, triaged, raw, remaining>>,
             stage' = "fetch" => stage = "fetch", stage' = "fetched" => stage = "fetched",
             stage' \in BeforeFetch => stage \in BeforeFetch,
             stage' \in Going => stage \in Going
      PROVE  Kept
  <2>1. SearchShape'
    BY <1>1 DEF LoopShape, SearchShape, PoolOK, ScoredOK, Hit, Scored
  <2>2. FetchShape'
    BY <1>1 DEF LoopShape, FetchShape, vars, Ids
  <2>3. QED  BY <1>1, <1>i, <2>1, <2>2
<1>2. ASSUME NEW chs \in SUBSET Channel, NEW found \in Seq(Candidate), PlanRound(chs, found)
      PROVE  Kept
  <2>1. /\ UNCHANGED <<vars, channel, pool, triaged, raw, remaining>> /\ stage = "plan"
        /\ asked' = chs /\ extras' = found /\ stage' \in {"stopped", "search"}
    BY <1>2 DEF PlanRound, Stop, screening, corpus
  <2>2. SearchShape'
    BY <2>1 DEF LoopShape, SearchShape, PoolOK, ScoredOK, Hit, Scored
  <2>3. FetchShape'
    BY <2>1 DEF LoopShape, FetchShape, Going, BeforeFetch
  <2>4. QED  BY <2>1, <1>i, <2>2, <2>3
<1>3. CASE Plan
  <2>1. LoopFetchers \in SUBSET Channel /\ {} \in SUBSET Channel
    BY SearchAssumption DEF LoopFetchers
  <2>2. <<>> \in Seq(Candidate) /\ Canonical \in Seq(Candidate) /\ Snowball \in Seq(Candidate)
    BY SearchAssumption, EmptySeq
  <2>3. ASSUME n = 0 PROVE Kept
    <3>1. \E found \in {<<>>, Canonical} : PlanRound(LoopFetchers, found)
      BY <1>3, <2>3 DEF Plan
    <3> HIDE DEF Kept
    <3>2. QED  BY <1>2, <2>1, <2>2, <3>1
  <2>4. ASSUME n # 0 PROVE Kept
    <3>1. PICK chs \in {{}, LoopFetchers}, again \in {<<>>, LookAgain}, cited \in {<<>>, Snowball} :
             PlanRound(chs, cited \o (IF n = 1 THEN again ELSE <<>>))
      BY <1>3, <2>4 DEF Plan
    <3>2. (IF n = 1 THEN again ELSE <<>>) \in Seq(Candidate) /\ cited \in Seq(Candidate)
      BY <2>2, LookAgainType
    <3>3. cited \o (IF n = 1 THEN again ELSE <<>>) \in Seq(Candidate)
      BY <3>2, ConcatProperties
    <3>4. chs \in SUBSET Channel
      BY <2>1
    <3> HIDE DEF Kept
    <3>5. QED  BY <1>2, <3>1, <3>3, <3>4
  <2>5. QED  BY <2>3, <2>4
<1>4. ASSUME NEW answer, Search(answer) PROVE Kept
  <2>1. /\ UNCHANGED <<vars, asked, extras, pool, triaged, raw, remaining>>
        /\ stage = "search" /\ stage' = "pool"
        /\ channel' = [ch \in Channel |-> IF ch \in asked THEN answer[ch] ELSE channel[ch]]
    BY <1>4 DEF Search, screening, corpus
  <2>2. SearchShape'
    <3>1. channel' = [ch \in Channel |-> channel'[ch]]
      BY <2>1
    <3>2. QED  BY <2>1, <3>1 DEF LoopShape, SearchShape, PoolOK, ScoredOK, Hit, Scored
  <2>3. FetchShape'
    BY <2>1 DEF LoopShape, FetchShape, Going, BeforeFetch
  <2>4. QED  BY <2>1, <1>i, <2>2, <2>3
<1>5. ASSUME NEW ch \in Channel, NEW status, RetryChannel(ch, status) PROVE Kept
  <2>1. /\ UNCHANGED <<vars, stage, asked, extras, pool, triaged, raw, remaining>>
        /\ channel' = [channel EXCEPT ![ch] = status]
    BY <1>5 DEF RetryChannel, control, screening, corpus
  <2>2. SearchShape'
    <3>1. channel' = [c \in Channel |-> channel'[c]]
      BY <2>1 DEF LoopShape, SearchShape
    <3>2. QED  BY <2>1, <3>1 DEF LoopShape, SearchShape, PoolOK, ScoredOK, Hit, Scored
  <2>3. FetchShape'
    BY <2>1 DEF LoopShape, FetchShape, Going, BeforeFetch, vars, Ids
  <2>4. QED  BY <2>1, <1>i, <2>2, <2>3
<1>6. CASE Pool
  <2>1. /\ UNCHANGED <<vars, channel, asked, extras, remaining>> /\ stage = "pool"
        /\ triaged' = <<>> /\ raw' = {}
    BY <1>6 DEF Pool, searching, corpus
  <2>2. PoolOK(pool') /\ stage' \in {"fetched", "triage"}
    BY <1>6, PoolStarts
  <2>3. ScoredOK(triaged')
    BY <2>1 DEF ScoredOK
  <2>4. SearchShape'
    BY <2>1, <2>2, <2>3 DEF LoopShape, SearchShape, PoolOK, ScoredOK, Hit, Scored
  <2>5. FetchShape'
    BY <2>1, <2>2 DEF LoopShape, FetchShape, Going, BeforeFetch
  <2>6. QED  BY <2>1, <1>i, <2>4, <2>5
<1>7. ASSUME NEW models \in [1..Len(pool) -> Scores], TriagePool(models) PROVE Kept
  <2>1. /\ IInv' /\ ScoredOK(triaged')
        /\ stage' = "fetch" /\ wave' = <<>> /\ Range(round'.queue) \subseteq Ids(triaged')
    BY <1>7, TriageStarts
  <2>2. UNCHANGED <<channel, asked, extras, pool, remaining>> /\ stage = "triage"
    BY <1>7 DEF TriagePool, searching, corpus
  <2>3. SearchShape'
    BY <2>1, <2>2 DEF LoopShape, SearchShape, PoolOK, ScoredOK, Hit, Scored
  <2>4. Range(wave') = {}
    BY <2>1 DEF Range
  <2>5. FetchShape'
    BY <2>1, <2>2, <2>4 DEF LoopShape, FetchShape, Going, BeforeFetch, Ids
  <2>6. QED  BY <2>1, <2>3, <2>5
<1>8. CASE ProviderDown \/ ValidatorDown
  BY <1>1, <1>8 DEF ProviderDown, ValidatorDown, searching, screening, corpus, Going, BeforeFetch
<1>9. CASE Fetch
  <2>1. FetchStep /\ round' = round /\ Range(wave') \subseteq Ids(triaged)
    BY <1>9, FetchIsFetchStep
  <2>2. IInv'
    BY <2>1, IInvStep DEF LoopShape
  <2>3. /\ UNCHANGED <<stage, channel, asked, extras, pool, triaged, raw, remaining>>
        /\ stage = "fetch"
    BY <1>9 DEF Fetch, control, searching, screening, corpus
  <2>4. SearchShape'
    BY <2>3 DEF LoopShape, SearchShape, PoolOK, ScoredOK, Hit, Scored
  <2>5. FetchShape'
    BY <2>1, <2>3 DEF LoopShape, FetchShape, Going, BeforeFetch, Ids
  <2>6. QED  BY <2>2, <2>4, <2>5
<1>10. CASE DropCopies
  <2>1. /\ UNCHANGED <<vars, channel, asked, extras, pool, triaged, remaining>>
        /\ stage = "fetch" /\ stage' = "fetched" /\ pc = "done" /\ raw' = Originals(results)
    BY <1>10 DEF DropCopies, searching, corpus
  <2>2. results \in Seq(Candidate)
    BY DEF LoopShape, IInv, TypeOK
  <2>3. raw' \subseteq Range(results) /\ Range(results) \subseteq Candidate
    BY <2>1, <2>2, OriginalsAmong DEF Range
  <2>4. SearchShape'
    BY <2>1 DEF LoopShape, SearchShape, PoolOK, ScoredOK, Hit, Scored
  <2>5. FetchShape'
    BY <2>1, <2>3 DEF LoopShape, FetchShape, Going, BeforeFetch, vars
  <2>6. QED  BY <2>1, <1>i, <2>4, <2>5
<1>11. CASE NoSources
  BY <1>1, <1>11 DEF NoSources, Stop, searching, screening, Going, BeforeFetch
<1>12. ASSUME NEW good \in SUBSET raw, NEW unjudged, NEW cost \in LiveCost, NEW met \in BOOLEAN,
              Validate(good, unjudged, cost, met)
       PROVE  Kept
  <2> DEFINE why == StopReason(met, Cardinality(raw) - Cardinality(unjudged), Cardinality(good))
  <2>1. /\ UNCHANGED <<vars, channel, asked, extras, pool, triaged, raw>>
        /\ stage = "fetched" /\ stage' \in {"plan", "stopped"}
        /\ stage' = "plan" => why = "none"
        /\ remaining' = remaining - Cardinality(raw)
    BY <1>12 DEF Validate, Stop, searching
  <2>2. why = "none" => ~(remaining' <= 0)
    BY DEF StopReason
  <2> HIDE DEF why
  <2>3. remaining \in Int /\ Cardinality(raw) \in Nat
    <3>1. remaining \in Int /\ raw \subseteq Candidate
      BY <2>1 DEF LoopShape, FetchShape, Going
    <3>2. IsFiniteSet(raw)
      BY <3>1, CandidatesAssumption, FS_Subset
    <3>3. QED  BY <3>1, <3>2, FS_CardinalityType
  <2>4. remaining' \in Int /\ (stage' = "plan" => remaining' \in Nat)
    BY <2>1, <2>2, <2>3
  <2>5. SearchShape'
    BY <2>1 DEF LoopShape, SearchShape, PoolOK, ScoredOK, Hit, Scored
  <2>6. FetchShape'
    BY <2>1, <2>4 DEF FetchShape, Going, BeforeFetch
  <2>7. QED  BY <2>1, <1>i, <2>5, <2>6
<1>13. CASE UNCHANGED allVars \/ Ended
  BY <1>1, <1>13 DEF Ended, allVars, control, searching, screening, corpus
<1>14. ASSUME DiscoveryNext PROVE Kept
  <2>1. CASE \E answer \in [Channel -> Answers] : Search(answer)
    BY <1>4, <2>1
  <2>2. CASE \E ch \in Channel, status \in Answers : RetryChannel(ch, status)
    BY <1>5, <2>2
  <2>3. CASE \E models \in [1..Len(pool) -> Scores] : TriagePool(models)
    BY <1>7, <2>3
  <2>4. CASE \E good \in SUBSET raw, cost \in LiveCost, met \in BOOLEAN :
                \E unjudged \in {{}, raw \ good} : Validate(good, unjudged, cost, met)
    BY <1>12, <2>4
  <2> HIDE DEF Kept
  <2>5. QED
    BY ONLY <1>3, <1>6, <1>8, <1>9, <1>10, <1>11, <1>14, <2>1, <2>2, <2>3, <2>4
       DEF DiscoveryNext
<1>15. QED
  BY <1>13, <1>14

\* Every round of the loop keeps what a fetch stage keeps, whatever earlier rounds left.
THEOREM EveryRoundKeepsIInv == DiscoverySpec => []LoopShape
<1>1. DiscoveryInit => LoopShape
  <2> SUFFICES ASSUME DiscoveryInit PROVE LoopShape
    OBVIOUS
  <2>1. RoundOK(Idle) /\ Idle.tally = [t \in Type |-> 0]
    <3>1. /\ Idle.queue = <<>> /\ <<>> \in Seq(Candidate) /\ IsInjective(<<>>)
      BY EmptySeq DEF Idle, IsInjective
    <3>2. Idle \in RoundArgs
      BY <3>1, RecordAssumption, SearchAssumption DEF Idle, RoundArgs
    <3>3. QED  BY <3>1, <3>2 DEF RoundOK, Idle
  <2>2. IInv
    BY <2>1, BeginInv DEF DiscoveryInit
  <2>3. LoopMoney
    BY LoopAssumption DEF DiscoveryInit, LoopMoney, MoneyLimitHolds, BeforeFetch, Going
  <2>4. SearchShape
    <3>1. PoolOK(<<>>) /\ ScoredOK(<<>>) /\ <<>> \in Seq(Candidate)
      BY EmptySeq DEF PoolOK, ScoredOK
    <3>2. QED  BY <3>1 DEF DiscoveryInit, SearchShape
  <2>5. FetchShape
    BY LoopAssumption DEF DiscoveryInit, FetchShape, Going, BeforeFetch
  <2>6. QED  BY <2>2, <2>3, <2>4, <2>5 DEF LoopShape
<1>2. LoopShape /\ [DiscoveryNext \/ Ended]_allVars => LoopShape'
  <2>1. LoopShape => LoopMoney
    BY DEF LoopShape
  <2>2. QED  BY <2>1, LoopMoneyStep, LoopShapeStep DEF LoopShape
<1>3. QED
  BY <1>1, <1>2, PTL DEF DiscoverySpec

\* In every round of the loop, the estimated money is passed by one wave at most.
THEOREM NoRoundPaysMore == DiscoverySpec => []OneWaveOver
<1>1. LoopShape => OneWaveOver
  BY WaveOver DEF LoopShape
<1>2. QED
  BY <1>1, EveryRoundKeepsIInv, PTL

\* A round that reached validation has a row for every scored candidate.
LEMMA RowsTell ==
    ASSUME LoopShape
    PROVE  LedgerTellsAll
<1> SUFFICES ASSUME stage = "fetched", pool # <<>>, NEW i \in DOMAIN triaged
             PROVE  /\ Row(triaged[i]) = "fetched" <=> triaged[i].id \in raw
                    /\ Row(triaged[i]) \in Outcome \cup {"near_duplicate", "content_duplicate"}
  BY DEF LedgerTellsAll
<1> DEFINE t == triaged[i]
           row == record[t.id]
<1>1. t.id \in Candidate /\ t.score \in Int /\ triaged # <<>>
  <2>1. Scored(t) /\ i \in 1..Len(triaged) /\ Len(triaged) \in Nat
    BY DEF LoopShape, SearchShape, ScoredOK
  <2>2. triaged # <<>>
    BY <2>1, EmptySeq
  <2>3. QED  BY <2>1, <2>2 DEF Scored
<1>2. pc = "done" /\ raw \subseteq Range(results)
  BY <1>1 DEF LoopShape, FetchShape
<1>3. row = "fetched" <=> t.id \in Range(results)
  BY <1>1, <1>2 DEF LoopShape, IInv, LedgerIsTrue
<1>4. row \in Outcome \cup {NoOutcome}
  BY <1>1 DEF LoopShape, IInv, TypeOK
<1>5. t.score < MinTriageScore \/ t.score >= MinTriageScore
  BY <1>1 DEF MinTriageScore
<1> HIDE DEF row
<1>6. Row(t) = CASE row = "fetched" /\ t.id \notin raw -> "content_duplicate"
                 [] row = "fetched" /\ t.id \in raw    -> "fetched"
                 [] row = NoOutcome /\ t.score < MinTriageScore -> "below_floor"
                 [] row = NoOutcome /\ t.score >= MinTriageScore -> "near_duplicate"
                 [] OTHER -> row
  BY DEF Row, row
<1> HIDE DEF t
<1>7. CASE row = "fetched"
  <2>1. row # NoOutcome /\ "fetched" \in Outcome
    BY <1>7 DEF NoOutcome, Outcome
  <2>2. CASE t.id \in raw
    <3>1. Row(t) = "fetched"
      BY <1>6, <1>7, <2>1, <2>2
    <3>2. QED  BY <2>1, <2>2, <3>1 DEF t
  <2>3. CASE t.id \notin raw
    <3>1. Row(t) = "content_duplicate"
      BY <1>6, <1>7, <2>1, <2>3
    <3>2. QED  BY <2>3, <3>1 DEF t
  <2>4. QED  BY <2>2, <2>3
<1>8. CASE row = NoOutcome
  <2>1. row # "fetched" /\ t.id \notin raw
    BY <1>2, <1>3, <1>8 DEF NoOutcome
  <2>2. Row(t) = "below_floor" \/ Row(t) = "near_duplicate"
    BY <1>5, <1>6, <1>8, <2>1
  <2>3. QED  BY <2>1, <2>2 DEF t, Outcome
<1>9. CASE row \in Outcome \ {"fetched"}
  <2>1. row # "fetched" /\ row # NoOutcome /\ t.id \notin raw
    BY <1>2, <1>3, <1>9 DEF Outcome, NoOutcome
  <2>2. Row(t) = row
    BY <1>6, <2>1
  <2>3. QED  BY <1>9, <2>1, <2>2 DEF t
<1>10. QED
  BY <1>4, <1>7, <1>8, <1>9 DEF Outcome

\* In every round the screening ledger has a row for every scored candidate, and says
\* "fetched" exactly of the sources that go on to validation.
THEOREM LedgerToldInEveryRound == DiscoverySpec => []LedgerTellsAll
  BY RowsTell, EveryRoundKeepsIInv, PTL

-----------------------------------------------------------------------------
\* What a turn of the fetch stage takes off.
LEMMA FetchRankFalls ==
    ASSUME LoopShape, Fetch
    PROVE  FetchRank \in Int /\ FetchRank' \in Int /\ FetchRank' < FetchRank
<1> DEFINE turn == [wave |-> 4, admit |-> 3, settle |-> 2, tail |-> 1, done |-> 0]
           queue == Len(round.queue)
<1>1. /\ queue \in Nat /\ idx \in Int /\ Len(wave) \in Nat /\ wave \in Seq(Candidate)
      /\ pc \in {"wave", "admit", "settle", "tail", "done"}
  BY RoundFacts DEF LoopShape, IInv, TypeOK
<1>2. round' = round
  BY FetchIsFetchStep
<1>3. IInv'
  BY FetchIsFetchStep, IInvStep DEF LoopShape
<1>4. /\ idx' \in Int /\ Len(wave') \in Nat
      /\ pc' \in {"wave", "admit", "settle", "tail", "done"}
  BY <1>3 DEF IInv, TypeOK
<1>5. /\ turn["wave"] = 4 /\ turn["admit"] = 3 /\ turn["settle"] = 2 /\ turn["tail"] = 1
      /\ turn["done"] = 0
  OBVIOUS
<1>6. FetchRank = 4 * (queue + 1 - idx) + 3 * Len(wave) + turn[pc]
  BY DEF FetchRank
<1>7. FetchRank' = 4 * (queue + 1 - idx') + 3 * Len(wave') + turn[pc']
  BY <1>2 DEF FetchRank
<1> HIDE DEF turn, queue
<1>8. \A p \in {"wave", "admit", "settle", "tail", "done"} : turn[p] \in 0..4
  BY <1>5
<1>9. turn[pc] \in 0..4 /\ turn[pc'] \in 0..4
  BY <1>1, <1>4, <1>8
<1>10. FetchRank \in Int /\ FetchRank' \in Int
  BY <1>1, <1>4, <1>6, <1>7, <1>9
<1>11. \/ idx' = idx /\ wave' = wave /\ turn[pc'] < turn[pc]
       \/ idx' = idx + 1 /\ Len(wave') <= Len(wave) + 1 /\ pc' = pc
       \/ idx' = idx /\ Len(wave') = Len(wave) - 1 /\ turn[pc'] <= turn[pc] + 2
  <2>1. CASE StopFetching \/ OpenWave \/ Launch \/ CloseLedger
    BY <1>5, <2>1 DEF StopFetching, OpenWave, Launch, CloseLedger
  <2>2. ASSUME NEW c \in Candidate, SkipLow(c) \/ SkipCapped(c)
        PROVE  idx' = idx + 1 /\ Len(wave') <= Len(wave) + 1 /\ pc' = pc
    BY <1>1, <2>2 DEF SkipLow, SkipCapped, Consider
  <2>3. ASSUME NEW c \in Candidate, Admit(c)
        PROVE  idx' = idx + 1 /\ Len(wave') <= Len(wave) + 1 /\ pc' = pc
    <3>1. idx' = idx + 1 /\ wave' = Append(wave, c) /\ pc' = pc
      BY <2>3 DEF Admit, Consider
    <3>2. Len(wave') = Len(wave) + 1
      BY <1>1, <3>1, AppendFacts
    <3>3. QED  BY <1>1, <3>1, <3>2
  <2>4. ASSUME NEW c \in Candidate, Lose(c, "failed") \/ Keep(c, Price(c))
        PROVE  idx' = idx /\ Len(wave') = Len(wave) - 1 /\ turn[pc'] <= turn[pc] + 2
    <3>1. wave # <<>> /\ wave' = Tail(wave) /\ idx' = idx /\ pc = "settle"
          /\ pc' \in {"wave", "settle"}
      BY <2>4 DEF Lose, Keep, Settle
    <3>2. Len(wave') = Len(wave) - 1
      BY <1>1, <3>1, TailFacts
    <3>3. turn[pc'] <= turn[pc] + 2
      BY <1>5, <3>1
    <3>4. QED  BY <3>1, <3>2, <3>3
  <2>5. QED  BY <2>1, <2>2, <2>3, <2>4 DEF Fetch
<1>12. FetchRank' < FetchRank
  <2>0. \A q, i, j, w, v \in Int, s, t \in 0..4 :
          (j = i /\ v = w /\ t < s) \/ (j = i + 1 /\ v <= w + 1 /\ t = s)
          \/ (j = i /\ v = w - 1 /\ t <= s + 2)
          => 4 * (q + 1 - j) + 3 * v + t < 4 * (q + 1 - i) + 3 * w + s
    OBVIOUS
  <2>t. /\ queue \in Int /\ idx \in Int /\ idx' \in Int /\ Len(wave) \in Int /\ Len(wave') \in Int
        /\ turn[pc] \in 0..4 /\ turn[pc'] \in 0..4
    BY <1>1, <1>4, <1>9
  <2>1. CASE idx' = idx /\ wave' = wave /\ turn[pc'] < turn[pc]
    BY ONLY <1>6, <1>7, <2>0, <2>t, <2>1
  <2>2. CASE idx' = idx + 1 /\ Len(wave') <= Len(wave) + 1 /\ pc' = pc
    BY ONLY <1>6, <1>7, <2>0, <2>t, <2>2
  <2>3. CASE idx' = idx /\ Len(wave') = Len(wave) - 1 /\ turn[pc'] <= turn[pc] + 2
    BY ONLY <1>6, <1>7, <2>0, <2>t, <2>3
  <2>4. QED  BY <1>11, <2>1, <2>2, <2>3
<1>13. QED
  BY <1>10, <1>12

\* The two halves together.
LEMMA LoopShapeKept == LoopShape /\ [DiscoveryNext \/ Ended]_allVars => LoopShape'
<1>1. LoopShape => LoopMoney
  BY DEF LoopShape
<1>2. QED  BY <1>1, LoopMoneyStep, LoopShapeStep DEF LoopShape

\* The stages of a round count down.
LEMMA StageRanks ==
    /\ stage = "plan" => StageRank = 6
    /\ stage = "search" => StageRank = 5
    /\ stage = "pool" => StageRank = 4
    /\ stage = "triage" => StageRank = 3
    /\ stage = "fetch" => StageRank = 2
    /\ stage = "fetched" => StageRank = 1
    /\ stage = "stopped" => StageRank = 0
    /\ stage = "failed" => StageRank = 0
BY DEF StageRank

Within == IF stage = "pool" THEN Cardinality(Unanswered)
          ELSE IF stage = "fetch" THEN FetchRank ELSE 0

\* The parts of the measure are natural numbers.
LEMMA MeasureTyped == LoopShape => n \in Nat /\ StageRank \in Nat /\ Within \in Nat
<1> SUFFICES ASSUME LoopShape PROVE n \in Nat /\ StageRank \in Nat /\ Within \in Nat
  OBVIOUS
<1>1. n \in Nat /\ stage \in Going \cup {"stopped", "failed"}
  BY DEF LoopShape, LoopMoney
<1>2. StageRank \in Nat
  BY <1>1, StageRanks DEF Going, BeforeFetch
<1>3. Cardinality(Unanswered) \in Nat
  <2>1. Unanswered \subseteq Channel
    BY DEF LoopShape, SearchShape, Unanswered
  <2>2. IsFiniteSet(Unanswered)
    BY <2>1, SearchAssumption, FS_Subset
  <2>3. QED  BY <2>2, FS_CardinalityType
<1>4. FetchRank \in Nat
  <2>1. /\ Len(round.queue) \in Nat /\ idx \in 1..(Len(round.queue) + 1) /\ Len(wave) \in Nat
        /\ pc \in {"wave", "admit", "settle", "tail", "done"}
    BY RoundFacts DEF LoopShape, IInv, TypeOK
  <2> DEFINE turn == [wave |-> 4, admit |-> 3, settle |-> 2, tail |-> 1, done |-> 0][pc]
  <2>2. turn \in Nat
    BY <2>1
  <2>3. FetchRank = 4 * (Len(round.queue) + 1 - idx) + 3 * Len(wave) + turn
    BY DEF FetchRank
  <2> DEFINE size == Len(round.queue)  width == Len(wave)
  <2>4. /\ size \in Nat /\ width \in Nat /\ idx \in 1..(size + 1) /\ turn \in Nat
        /\ FetchRank = 4 * (size + 1 - idx) + 3 * width + turn
    BY <2>1, <2>2, <2>3
  <2> HIDE DEF turn, size, width
  <2>5. QED  BY ONLY <2>4
<1>5. QED
  BY <1>1, <1>2, <1>3, <1>4 DEF Within

\* One more channel has been searched twice.
LEMMA RetryShrinks ==
    ASSUME LoopShape, NEW ch \in Channel, NEW status, RetryChannel(ch, status)
    PROVE  Cardinality(Unanswered') < Cardinality(Unanswered)
<1>1. /\ ch \in Unanswered /\ channel' = [channel EXCEPT ![ch] = status]
      /\ retried' = retried \cup {ch} /\ asked' = asked
  BY DEF RetryChannel
<1>2. channel = [c \in Channel |-> channel[c]] /\ asked \subseteq Channel
  BY DEF LoopShape, SearchShape
<1>3. \A c \in Channel \ {ch} : channel'[c] = channel[c]
  BY <1>1, <1>2
<1>4. Unanswered' \subseteq Unanswered \ {ch}
  BY <1>1, <1>2, <1>3 DEF Unanswered
<1>5. IsFiniteSet(Unanswered)
  <2>1. Unanswered \subseteq Channel
    BY <1>2 DEF Unanswered
  <2>2. QED  BY <2>1, SearchAssumption, FS_Subset
<1>6. /\ IsFiniteSet(Unanswered \ {ch})
      /\ Cardinality(Unanswered \ {ch}) = Cardinality(Unanswered) - 1
  BY <1>1, <1>5, FS_RemoveElement, FS_Subset
<1>7. Cardinality(Unanswered') <= Cardinality(Unanswered \ {ch})
  BY <1>4, <1>6, FS_Subset
<1>8. /\ Cardinality(Unanswered) \in Nat /\ Cardinality(Unanswered') \in Nat
  BY <1>4, <1>5, <1>6, FS_Subset, FS_CardinalityType
<1>9. QED
  BY <1>6, <1>7, <1>8

Progress == KeyBefore(Measure', Measure) /\ (n' = n \/ n' <= MaxRounds)

\* Every step of the loop brings its end closer.
LEMMA StepProgresses ==
    ASSUME LoopShape, DiscoveryNext
    PROVE  Progress
<1>1. n \in Nat /\ StageRank \in Nat /\ Within \in Nat
  BY MeasureTyped
<1>2. n' \in Nat /\ StageRank' \in Nat /\ Within' \in Nat
  <2>1. LoopShape'
    BY LoopShapeKept
  <2>2. (LoopShape => n \in Nat /\ StageRank \in Nat /\ Within \in Nat)'
    BY MeasureTyped, PTL
  <2>3. QED  BY <2>1, <2>2
<1>3. KeyBefore(Measure', Measure) <=>
        \/ MaxRounds - n' < MaxRounds - n
        \/ (MaxRounds - n' = MaxRounds - n /\ StageRank' < StageRank)
        \/ (MaxRounds - n' = MaxRounds - n /\ StageRank' = StageRank /\ Within' < Within)
  <2>1. /\ Measure = <<MaxRounds - n, StageRank, Within>>
        /\ Measure' = <<MaxRounds - n', StageRank', Within'>>
    BY DEF Measure, Within
  <2>2. MaxRounds - n \in Int /\ MaxRounds - n' \in Int
    BY <1>1, <1>2, LoopAssumption
  <2>3. QED  BY ONLY <1>1, <1>2, <2>1, <2>2, KeyBeforeIs
<1>r. /\ stage' = "plan" => StageRank' = 6
      /\ stage' = "search" => StageRank' = 5
      /\ stage' = "pool" => StageRank' = 4
      /\ stage' = "triage" => StageRank' = 3
      /\ stage' = "fetch" => StageRank' = 2
      /\ stage' = "fetched" => StageRank' = 1
      /\ stage' = "stopped" => StageRank' = 0
      /\ stage' = "failed" => StageRank' = 0
  BY DEF StageRank
<1>s. ASSUME n' = n, StageRank' < StageRank PROVE Progress
  BY <1>3, <1>s DEF Progress
<1> SUFFICES Progress
  OBVIOUS
<1>4. ASSUME NEW chs, NEW found, PlanRound(chs, found) PROVE Progress
  <2>1. n' = n /\ stage = "plan" /\ stage' \in {"stopped", "search"}
    BY <1>4 DEF PlanRound, Stop
  <2>2. QED  BY <2>1, <1>s, <1>r, StageRanks
<1>5. ASSUME NEW answer, Search(answer) PROVE Progress
  <2>1. n' = n /\ stage = "search" /\ stage' = "pool"
    BY <1>5 DEF Search
  <2>2. QED  BY <2>1, <1>s, <1>r, StageRanks
<1>6. ASSUME NEW ch \in Channel, NEW status, RetryChannel(ch, status) PROVE Progress
  <2>1. n' = n /\ stage = "pool" /\ stage' = "pool"
    BY <1>6 DEF RetryChannel, control
  <2>2. StageRank' = StageRank
    BY <2>1, <1>r, StageRanks
  <2>3. Within = Cardinality(Unanswered) /\ Within' = Cardinality(Unanswered')
    BY <2>1 DEF Within
  <2>4. Within' < Within
    BY <1>6, <2>3, RetryShrinks
  <2>5. QED  BY <1>3, <2>1, <2>2, <2>4 DEF Progress
<1>7. CASE Pool
  <2>1. n' = n /\ stage = "pool" /\ stage' \in {"fetched", "triage"}
    BY <1>7 DEF Pool
  <2>2. QED  BY <2>1, <1>s, <1>r, StageRanks
<1>8. ASSUME NEW models, TriagePool(models) PROVE Progress
  <2>1. n' = n /\ stage = "triage" /\ stage' = "fetch"
    BY <1>8 DEF TriagePool
  <2>2. QED  BY <2>1, <1>s, <1>r, StageRanks
<1>9. CASE ProviderDown \/ ValidatorDown
  <2>1. n' = n /\ stage \in {"triage", "fetched"} /\ stage' = "failed"
    BY <1>9 DEF ProviderDown, ValidatorDown
  <2>2. QED  BY <2>1, <1>s, <1>r, StageRanks
<1>10. CASE Fetch
  <2>1. n' = n /\ stage = "fetch" /\ stage' = "fetch"
    BY <1>10 DEF Fetch, control
  <2>2. StageRank' = StageRank
    BY <2>1, <1>r, StageRanks
  <2>3. Within = FetchRank /\ Within' = FetchRank'
    BY <2>1 DEF Within
  <2>4. Within' < Within
    BY <1>10, <2>3, FetchRankFalls
  <2>5. QED  BY <1>3, <2>1, <2>2, <2>4 DEF Progress
<1>11. CASE DropCopies
  <2>1. n' = n /\ stage = "fetch" /\ stage' = "fetched"
    BY <1>11 DEF DropCopies
  <2>2. QED  BY <2>1, <1>s, <1>r, StageRanks
<1>12. CASE NoSources
  <2>1. n' = n /\ stage = "fetched" /\ stage' \in {"failed", "stopped"}
    BY <1>12 DEF NoSources, Stop
  <2>2. QED  BY <2>1, <1>s, <1>r, StageRanks
<1>13. ASSUME NEW good \in SUBSET raw, NEW unjudged, NEW cost \in LiveCost, NEW met \in BOOLEAN,
              Validate(good, unjudged, cost, met)
       PROVE  Progress
  <2> DEFINE why == StopReason(met, Cardinality(raw) - Cardinality(unjudged), Cardinality(good))
  <2>1. /\ stage = "fetched"
        /\ \/ why = "none" /\ n' = n + 1
           \/ stage' = "stopped" /\ n' = n
    BY <1>13 DEF Validate, Stop
  <2>2. why = "none" => ~(n >= MaxRounds)
    BY DEF StopReason
  <2> HIDE DEF why
  <2>3. CASE why = "none" /\ n' = n + 1
    <3>1. MaxRounds - n' < MaxRounds - n /\ n' <= MaxRounds
      BY <1>1, <2>2, <2>3, LoopAssumption
    <3>2. QED  BY <1>3, <3>1 DEF Progress
  <2>4. CASE stage' = "stopped" /\ n' = n
    BY <2>1, <2>4, <1>s, <1>r, StageRanks
  <2>5. QED  BY <2>1, <2>3, <2>4
<1>14. CASE Plan
  BY <1>4, <1>14 DEF Plan
<1>15. CASE \E good \in SUBSET raw, cost \in LiveCost, met \in BOOLEAN :
                \E unjudged \in {{}, raw \ good} : Validate(good, unjudged, cost, met)
  BY <1>13, <1>15
<1>16. QED
  BY ONLY DiscoveryNext, <1>5, <1>6, <1>7, <1>8, <1>9, <1>10, <1>11, <1>12, <1>14, <1>15
     DEF DiscoveryNext

\* Every step of the loop lowers the measure, of _run_discovery whatever is found,
\* refused or lost.
THEOREM LoopTerminates == DiscoverySpec => EveryStepProgresses
<1>1. LoopShape /\ [DiscoveryNext \/ Ended]_allVars
        => [KeyBefore(Measure', Measure) /\ (n' = n \/ n' <= MaxRounds)]_allVars
  BY StepProgresses DEF Ended, Progress
<1>2. QED
  BY <1>1, EveryRoundKeepsIInv, PTL DEF DiscoverySpec, EveryStepProgresses

\* And the measure cannot fall for ever: rounds are numbered up to MaxRounds, so that
\* its three parts are natural numbers in every reachable state.
Numbered == MaxRounds - n \in Nat

Bounded == Numbered /\ StageRank \in Nat /\ Within \in Nat

THEOREM MeasureIsBounded == DiscoverySpec => []Bounded
<1>1. DiscoveryInit => Numbered
  BY LoopAssumption DEF DiscoveryInit, Numbered
<1>2. LoopShape /\ LoopShape' /\ Numbered /\ [DiscoveryNext \/ Ended]_allVars => Numbered'
  <2> SUFFICES ASSUME LoopShape, LoopShape', Numbered, [DiscoveryNext \/ Ended]_allVars
               PROVE  Numbered'
    OBVIOUS
  <2>1. n' \in Nat
    BY DEF LoopShape, LoopMoney
  <2>2. CASE DiscoveryNext
    <3>1. n' = n \/ n' <= MaxRounds
      BY <2>2, StepProgresses DEF Progress
    <3>2. MaxRounds \in Nat
      BY LoopAssumption
    <3>3. \A m \in Nat : m <= MaxRounds => MaxRounds - m \in Nat
      BY ONLY <3>2
    <3>4. CASE n' = n
      BY <3>4 DEF Numbered
    <3>5. CASE n' <= MaxRounds
      BY <2>1, <3>3, <3>5 DEF Numbered
    <3>6. QED  BY <3>1, <3>4, <3>5
  <2>3. CASE Ended \/ UNCHANGED allVars
    <3>1. n' = n
      BY <2>3 DEF Ended, allVars, control
    <3>2. QED  BY <3>1 DEF Numbered
  <2>4. QED  BY <2>2, <2>3
<1>3. LoopShape /\ Numbered => Bounded
  BY MeasureTyped DEF Bounded
<1>4. QED
  BY <1>1, <1>2, <1>3, EveryRoundKeepsIInv, PTL DEF DiscoverySpec
=============================================================================
