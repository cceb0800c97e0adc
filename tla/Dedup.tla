-------------------------------- MODULE Dedup --------------------------------
(* sources/dedup.py: when are two search hits, or two fetched texts, the same  *)
(* work.  A candidate is a record                                              *)
(*   ids   : identifier kind -> its value, 0 when absent                       *)
(*   url   : its normalised URL, 0 when it has none                            *)
(*   fetcher, route : what _preference reads (1 is preferred to 2)             *)
(*   marks : the metadata a loser hands to the winner (priority, must-have)    *)
(*   stamps: the metadata it does not hand on (text ceiling, priority rank)    *)
EXTENDS BuildPolicy, FiniteSetsExt, Functions

Keys(c) == {<<k, c.ids[k]>> : k \in {k \in DOMAIN c.ids : c.ids[k] # 0}}

SameWork(c, d) == Keys(c) \cap Keys(d) # {}

-----------------------------------------------------------------------------
(* Pass 1 of deduplicate_candidates: records that share any identifier are one *)
(* group.  A record that shares keys with several groups joins them into the   *)
(* first of them; by_key is the groups' members' keys, read back.  A group is  *)
(* the sequence of its members, at the place of the record that opened it.     *)
Joined(groups, sharing) ==
    LET joined[g \in 0..Len(groups)] ==
          IF g = 0 THEN <<>>
          ELSE IF g \in sharing THEN joined[g - 1] \o groups[g] ELSE joined[g - 1]
    IN  joined[Len(groups)]

Absorb(pool, groups, i) ==
    LET sharing == {g \in DOMAIN groups : \E j \in Range(groups[g]) : SameWork(pool[j], pool[i])}
        first == IF sharing = {} THEN i ELSE Min(sharing)
    IN  [g \in DOMAIN groups |->
            IF Keys(pool[i]) = {} THEN groups[g]
            ELSE IF g = first THEN Append(Joined(groups, sharing), i)
            ELSE IF g \in sharing THEN <<>> ELSE groups[g]]

IdentityGroups(pool) ==
    LET groups[i \in 0..Len(pool)] ==
          IF i = 0 THEN [g \in 1..Len(pool) |-> <<>>] ELSE Absorb(pool, groups[i - 1], i)
    IN  groups[Len(pool)]

(* _preference, as one number; of a group's members in their order the first   *)
(* best.                                                                       *)
Preference(c) == 2 * c.fetcher + IF c.route THEN 0 ELSE 1

Winner(pool, g) ==
    g[CHOOSE i \in DOMAIN g :
        \A j \in DOMAIN g : \/ Preference(pool[g[i]]) < Preference(pool[g[j]])
                            \/ Preference(pool[g[i]]) = Preference(pool[g[j]]) /\ i <= j]

(* Identifiers.merge over the members: the winner's own value of each kind,    *)
(* else the first one a member has.                                            *)
MergedId(pool, g, k) ==
    LET own == pool[Winner(pool, g)].ids[k]
        at == SelectInSeq(g, LAMBDA i : pool[i].ids[k] # 0)
    IN  IF own # 0 \/ at = 0 THEN own ELSE pool[g[at]].ids[k]

MergeGroup(pool, g) ==
    LET w == pool[Winner(pool, g)]
    IN  [w EXCEPT !.ids = [k \in DOMAIN w.ids |-> MergedId(pool, g, k)],
                  !.marks = UNION {pool[i].marks : i \in Range(g)}]

(* One record per group, in the order of first appearance, then the records    *)
(* without identifiers.                                                        *)
Ordered(pool) ==
    LET groups == IdentityGroups(pool)
        opened == {g \in DOMAIN groups : groups[g] # <<>>}
    IN  Places([g \in opened |-> MergeGroup(pool, groups[g])], opened)
        \o Places(pool, {i \in DOMAIN pool : Keys(pool[i]) = {}})

-----------------------------------------------------------------------------
(* SeenSet: the identifiers, URLs and texts the build already considered.      *)
NothingSeen == [keys |-> {}, urls |-> {}, texts |-> {}]

Has(seen, c) == Keys(c) \cap seen.keys # {} \/ (c.url # 0 /\ c.url \in seen.urls)

AddCandidates(seen, cs) ==
    [seen EXCEPT !.keys = @ \cup UNION {Keys(c) : c \in cs},
                 !.urls = @ \cup ({c.url : c \in cs} \ {0})]

AddSources(seen, cs, texts) == [AddCandidates(seen, cs) EXCEPT !.texts = @ \cup texts]

(* Pass 2: the first record of a URL, unless an earlier round saw the work.    *)
DeduplicateCandidates(pool, seen) ==
    LET all == Ordered(pool)
        fresh == {i \in DOMAIN all : ~Has(seen, all[i])}
        again == {i \in fresh : all[i].url # 0 /\ \E j \in fresh : j < i /\ all[j].url = all[i].url}
    IN  Places(all, fresh \ again)

-----------------------------------------------------------------------------
(* The order both passes over the fetched texts take: the longest first.       *)
ByLength(sources, length) ==
    LET longer == {p \in (DOMAIN sources) \X (DOMAIN sources) :
                     \/ length[sources[p[1]]] > length[sources[p[2]]]
                     \/ length[sources[p[1]]] = length[sources[p[2]]] /\ p[1] < p[2]}
    IN  Sorted(sources, DOMAIN sources, longer)

(* deduplicate_sources_by_content: a text close to one kept in this round or   *)
(* seen in an earlier one is dropped.  "close" holds the pairs whose Hamming   *)
(* distance is within the threshold: it is not transitive.  "short" texts have *)
(* no fingerprint: they are kept, and nothing is dropped for them.             *)
Apart(s, texts, short, close) == s \in short \/ \A t \in texts \ short : <<s, t>> \notin close

ContentKept(order, texts, short, close) ==
    LET kept[i \in 0..Len(order)] ==
          IF i = 0 THEN {}
          ELSE kept[i - 1] \cup {s \in {order[i]} : Apart(s, texts \cup kept[i - 1], short, close)}
    IN  kept[Len(order)]

(* deduplicate_editions: each of the sources is compared with the kept ones in *)
(* the order they were kept until one of three things stops the scan: it is an *)
(* excerpt, it is the more foreign edition, or it is the less foreign one and  *)
(* takes the other's place.                                                    *)
EditionsKept(sources, order, excerpt, foreign) ==
    LET Take(kept, s) ==
          LET Loses(o) == <<s, o>> \in excerpt \cup foreign
              at == SelectInSeq(kept, LAMBDA o : Loses(o) \/ <<o, s>> \in foreign)
          IN  IF at = 0 THEN Append(kept, s)
              ELSE IF Loses(kept[at]) THEN kept
              ELSE Append(RemoveAt(kept, at), s)
    IN  sources \cap Range(FoldLeft(Take, <<>>, SelectSeq(order, LAMBDA s : s \in sources)))

=============================================================================
