----------------------------- MODULE RecordList -----------------------------
(***************************************************************************)
(* The list of record clusters of a session (reclists.c, record.c) and the *)
(* part of the relevance ranking that lives in clusters (relevance.c), as  *)
(* operators on values.                                                    *)
(*                                                                         *)
(* A list is a record: the hash chains, whose buckets each point to a      *)
(* cluster; every cluster ever made, a cluster being named by its place;   *)
(* sorted_list; num_records.  The cursor sorted_ptr is left out: it is set *)
(* to the head of sorted_list whenever the mutex of the list is entered.   *)
(*                                                                         *)
(* Merge keys are tuples that compare like the strings of get_mergekey:    *)
(* <<0, words...>> is "content: ...", <<1, client, position>> is           *)
(* "position: client-position".  A text value is [word, len]: what it is   *)
(* normalised to, and the length of the text as it came; a date is         *)
(* [min, max].                                                             *)
(***************************************************************************)
EXTENDS Integers, FiniteSets, SequencesExt

CONSTANTS
    Fields,         \* the metadata fields of the service
    HashSize,       \* hash_size
    Hash(_),        \* jenkins_hash modulo hash_size
    RankCluster     \* the service's rank setting "cluster"

Buckets == 0 .. HashSize - 1

Absent == [none |-> TRUE]   \* a sort key that was never set

EmptyList ==
    [chains |-> [b \in Buckets |-> <<>>], clusters |-> <<>>, sorted |-> <<>>, num |-> 0]

Elems(s) == {s[i] : i \in DOMAIN s}

(* append_merge_keys: what is not there yet, at the end.                   *)
Union(keys, more) ==
    FoldLeft(LAMBDA ks, k : IF k \in Elems(ks) THEN ks ELSE Append(ks, k), keys, more)

(* record_compare: the values of two records, field by field.              *)
SameMetadata(r1, r2) == r1.md = r2.md

-----------------------------------------------------------------------------
(* Inserting a record: st is the progress of reclist_insert through the    *)
(* merge keys of a record, cluster 0 until there is one.                   *)

(* new_cluster.                                                            *)
NewCluster(st, rec, keys) ==
    LET cluster == [records |-> <<rec>>, keys |-> Union(<<>>, keys), recid |-> Head(keys),
                    live |-> TRUE, retrieval |-> st.list.num,
                    md |-> [f \in Fields |-> <<>>], sortkey |-> [f \in Fields |-> Absent],
                    tf |-> 0, score |-> 0]
        list == [st.list EXCEPT !.clusters = Append(@, cluster), !.num = @ + 1, !.sorted = <<>>]
    IN  [st EXCEPT !.list = list, !.cluster = Len(list.clusters), !.total = @ + 1]

NewBucket(st, key) ==
    [st EXCEPT !.list.chains[Hash(key)] = Append(@, st.cluster)]

(* The record is put at the end of a cluster that has its key, unless the  *)
(* same client brought the same one before.                                *)
JoinCluster(st, c, rec) ==
    IF \E r \in Elems(st.list.clusters[c].records) : r.client = rec.client /\ SameMetadata(rec, r)
    THEN [st EXCEPT !.duplicate = TRUE]
    ELSE [st EXCEPT !.list.clusters[c].records = Append(@, rec), !.cluster = c]

(* Faulty: the frequencies of its words are lost.                          *)
CombinedNoTf(cluster, from) ==
    [cluster EXCEPT !.records = @ \o from.records, !.keys = Union(@, from.keys)]

(* What is moved to a cluster: all but metadata and sort keys.             *)
Combined(cluster, from) ==
    [cluster EXCEPT !.records = @ \o from.records, !.keys = Union(@, from.keys),
                    !.tf = @ + from.tf]

(* Faulty: buckets go on pointing to the cluster that was merged.          *)
NoRepoint(list, src, dst) == list.chains

(* The buckets in the chains of src's keys follow.                         *)
Repoint(list, src, dst) ==
    [b \in Buckets |->
        LET chain == list.chains[b]
            follows == \E k \in Elems(list.clusters[src].keys) : Hash(k) = b
        IN  [i \in DOMAIN chain |-> IF chain[i] = src /\ follows THEN dst ELSE chain[i]]]

(* merge_cluster: src is merged into st.cluster.                           *)
MergeCluster(st, src) ==
    LET dst == st.cluster
        cs == st.list.clusters
    IN  [st EXCEPT !.list = [@ EXCEPT
                                !.clusters = [cs EXCEPT ![dst] = Combined(cs[dst], cs[src]),
                                                        ![src] = [cs[src] EXCEPT !.live = FALSE]],
                                !.chains = Repoint(st.list, src, dst)],
                   !.total = @ - 1]

(* One bucket of the chain of `key`.  The chain is scanned to its end.     *)
MeetBucket(st, i, rec, key) ==
    LET c == st.list.chains[Hash(key)][i]
    IN  IF st.duplicate \/ key \notin Elems(st.list.clusters[c].keys) THEN st
        ELSE IF st.cluster = 0 THEN [JoinCluster(st, c, rec) EXCEPT !.found = TRUE]
        ELSE IF st.cluster = c THEN [st EXCEPT !.found = TRUE]
        ELSE [MergeCluster(st, c) EXCEPT !.found = TRUE]

(* One merge key: a key that leads to no cluster gets a bucket.            *)
MeetKey(st, rec, key, keys) ==
    LET met == FoldLeft(LAMBDA s, i : MeetBucket(s, i, rec, key), [st EXCEPT !.found = FALSE],
                        [i \in DOMAIN st.list.chains[Hash(key)] |-> i])
    IN  IF met.duplicate \/ met.found THEN met
        ELSE NewBucket(IF met.cluster = 0 THEN NewCluster(met, rec, keys) ELSE met, key)

(* reclist_insert: cluster 0 and duplicate when the record is dropped.     *)
Insert(list, total, rec, keys) ==
    FoldLeft(LAMBDA st, key : MeetKey(st, rec, key, keys),
             [list |-> list, total |-> total, cluster |-> 0, duplicate |-> FALSE,
              found |-> FALSE],
             keys)

-----------------------------------------------------------------------------
(* Limiting and sorting                                                    *)

(* What the buckets lead to, chain after chain.                            *)
Walk(list) ==
    FoldLeft(LAMBDA s, b : s \o list.chains[b], <<>>, [i \in 1 .. HashSize |-> i - 1])

(* Faulty: a cluster each time a bucket leads to it.                       *)
KeepTwice(walk, passing) ==
    FoldLeft(LAMBDA s, c : IF c \in passing THEN Append(s, c) ELSE s, <<>>, walk)

(* Those that pass, each the first time a bucket leads to it.              *)
Keep(walk, passing) ==
    FoldLeft(LAMBDA s, c : IF c \in passing /\ c \notin Elems(s) THEN Append(s, c) ELSE s,
             <<>>, walk)

(* reclist_limit.  With lazy set, a list that is there is kept, and        *)
(* num_records becomes 0.                                                  *)
Limit(list, passing, lazy) ==
    IF lazy /\ list.sorted # <<>> THEN [list EXCEPT !.num = 0]
    ELSE LET shown == Keep(Walk(list), passing)
         IN  [list EXCEPT !.sorted = shown, !.num = Len(shown)]

(* strcmp on merge keys.                                                   *)
Strcmp(k1, k2) ==
    IF k1 = k2 THEN 0
    ELSE LET diff == {i \in DOMAIN k1 \cap DOMAIN k2 : k1[i] # k2[i]}
         IN  IF diff = {} THEN Len(k1) - Len(k2)
             ELSE LET i == Min(diff) IN k1[i] - k2[i]

Position(cluster) == Min({r.pos : r \in Elems(cluster.records)})

(* A sort parameter is [type, field, increasing].  The comparison of one   *)
(* of them, inverted or not: a missing date is last, and a position is not *)
(* inverted, in either direction.                                          *)
CompareBy(s, c1, c2) ==
    LET v1 == c1.sortkey[s.field]
        v2 == c2.sortkey[s.field]
        turn == IF s.increasing THEN 1 ELSE -1
        word(v) == IF v = Absent THEN 0 ELSE v.word
    IN  CASE s.type = "relevance" -> turn * (c1.score - c2.score)
          [] s.type = "retrieval" -> turn * (c1.retrieval - c2.retrieval)
          [] s.type = "position"  -> Position(c1) - Position(c2)
          [] s.type = "generic"   -> turn * (word(v1) - word(v2))
          [] s.type = "date" ->
               IF v1 # Absent /\ v2 # Absent
               THEN turn * (IF s.increasing THEN v1.min - v2.min ELSE v1.max - v2.max)
               ELSE (IF v1 = Absent THEN 1 ELSE 0) - (IF v2 = Absent THEN 1 ELSE 0)

(* Faulty: clusters that compare alike stay as the hash table had them.    *)
CompareNoTie(params, c1, c2) ==
    FoldLeft(LAMBDA res, s : IF res # 0 THEN res ELSE CompareBy(s, c1, c2), 0, params)

(* reclist_cmp.                                                            *)
Compare(params, c1, c2) ==
    LET res == FoldLeft(LAMBDA r, s : IF r # 0 THEN r ELSE CompareBy(s, c1, c2), 0, params)
    IN  IF res # 0 THEN res ELSE Strcmp(c1.recid, c2.recid)

(* reclist_sort.                                                           *)
Sort(list, params) ==
    [list EXCEPT !.sorted =
        SortSeq(@, LAMBDA a, b : Compare(params, list.clusters[a], list.clusters[b]) < 0)]

-----------------------------------------------------------------------------
(* Relevance                                                               *)

(* The query has one term, which occurs in `df` of `total` records: so it  *)
(* weighs the same in every cluster, and only how often it occurs there,   *)
(* tf, tells them apart.  Scale is 100000 * idf, any positive number.      *)
Scale == 12

(* relevance_prepare_read, for the clusters that are to be sorted.         *)
PrepareRead(list, rel) ==
    LET score(c) == LET sum == IF rel.df = 0 THEN 0 ELSE Scale * c.tf
                    IN  IF RankCluster THEN sum ELSE sum \div Len(c.records)
        Ranked(c) == [c EXCEPT !.score = score(c)]
    IN  [list EXCEPT !.clusters = [i \in DOMAIN @ |->
            IF i \in Elems(list.sorted) THEN Ranked(list.clusters[i]) ELSE @[i]]]

(* relevance_donerecord: the cluster, not the record, is looked at.        *)
DoneRecord(rel, cluster) ==
    [rel EXCEPT !.df = IF cluster.tf > 0 THEN @ + 1 ELSE @, !.total = @ + 1]

(* relevance_clear.                                                        *)
ClearRelevance == [df |-> 0, total |-> 0]
=============================================================================
