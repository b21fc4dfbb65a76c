---------------------------- MODULE Records_proofs ----------------------------
(***************************************************************************)
(* Proofs about Records: whatever the targets, their records, the merge    *)
(* keys and the hash function, and in whatever order searches, answers,    *)
(* failures, sorts, limits and pages follow one another, the hash chains   *)
(* lead from each key to the one cluster that has it, the counters count   *)
(* what there is, a page shows every cluster that passes the limits, the   *)
(* ranking goes by how often the term is in the records of a cluster, what *)
(* a cluster shows and is sorted by is what its records have, no two       *)
(* clusters compare alike and the comparison is transitive.                *)
(*                                                                         *)
(* The argument is about reclist_insert.  While a record is inserted, its  *)
(* keys are of two kinds: those that are done, which lead to the cluster   *)
(* of the record and belong to no other, and those still to come, which    *)
(* that cluster may share and its buckets may miss (Underway).  A key is   *)
(* done when its chain was scanned to the end (Scanned).  A cluster that   *)
(* was merged into another has no bucket in the chains of its keys any     *)
(* more (KeysGone), so that a bucket which matches by key leads to a       *)
(* cluster that is alive.  The rest is bookkeeping: whatever reaches the   *)
(* list otherwise, on the way from the commands of a session, leaves keys, *)
(* records and chains alone (SameCluster, SameGood, ListKept).             *)
(* The frequencies take a second walk through reclist_insert (Rating):     *)
(* only the cluster of the record lacks the record's term, until           *)
(* ingest_to_cluster adds it, and clusters that are merged add up.  What   *)
(* is shown goes along with them (AllShown): a cluster gets values from    *)
(* ingest_to_cluster only, for the fields of a record that has joined it,  *)
(* and the records of two clusters that are merged stay together.          *)
(* The comparison of clusters is a chain of orders, each asked where the   *)
(* one before says nothing (Orders, ThenOrders), the last of them by keys, *)
(* which no two clusters share.                                            *)
(*                                                                         *)
(* The model's loops are folds.  What a fold computes is shown here once,  *)
(* for a step that is chosen by name (FoldIs), because a fold over a LAMBDA*)
(* cannot be cited; each loop of the model is then a sequence of values,   *)
(* from its start to its result, that the step leads through.              *)
(***************************************************************************)
EXTENDS RecordsProps, FiniteSetTheorems, WellFoundedInduction, SequenceTheorems, TLAPS

(* The bodies of the loops of the model, those that have no operator of    *)
(* their own: a key that is added, a field and a record that are merged, a *)
(* client that starts, a chain that is walked, a cluster that is kept, a   *)
(* field and a record whose terms are counted, a sort key that is compared,*)
(* a field and a value whose facet terms are added, a facet of a target.   *)
AppendKey(s, l) == IF l \in Elems(s) THEN s ELSE Append(s, l)
FieldStep(s, l, sub) == MergeField(l, s, sub.md[l])
SubStep(s, l, sess, c, pos, keys, term) ==
    IF s.rc # "ok" THEN s ELSE IngestSub(s.set, sess, c, pos, l, keys, term)
StartStep(s, l, sess, connect) == StartSearch(s, sess, l, connect[l])
WalkStep(s, l, list) == s \o list.chains[l]
KeepStep(s, l, passing) == IF l \in passing /\ l \notin Elems(s) THEN Append(s, l) ELSE s
CountStep(s, l, term, md) ==
    s + Service[l].rank * Cardinality({i \in DOMAIN md[l] : Value(l, md[l][i]) = <<term>>})
TfStep(s, l, asked) == s + CountWords(asked[l.client], l.md)
CompareStep(s, l, c1, c2) == IF s # 0 THEN s ELSE CompareBy(l, c1, c2)
TermsOver(base, L, f) == FoldLeft(LAMBDA hs, t : AddFacet(hs, f, t), base, L)
TermsStep(s, l, f) == TermsOver(s, FacetTerms(f, l), f)
FacetsOver(base, L, f) ==
    FoldLeft(LAMBDA gs, v : FoldLeft(LAMBDA hs, t : AddFacet(hs, f, t), gs, FacetTerms(f, v)), base, L)
FacetStep(s, l, c, sub) ==
    IF ~Service[l].termlist \/ l \in FacetMap[c] THEN s ELSE FacetsOver(s, sub.md[l], l)
ReportStep(s, l, c) == IF l[1] \in FacetMap[c] THEN AddFacet(s, l[1], l[2]) ELSE s

(* One turn of a loop, the loop being named by a.fold.                     *)
FoldStep(s, l, a) ==
    CASE a.fold = "append" -> AppendKey(s, l)
      [] a.fold = "bucket" -> MeetBucket(s, l, a.rec, a.key)
      [] a.fold = "key"    -> MeetKey(s, a.rec, l, a.keys)
      [] a.fold = "field"  -> FieldStep(s, l, a.sub)
      [] a.fold = "value"  -> MergeValue(a.f, s, l, a.was)
      [] a.fold = "sub"    -> SubStep(s, l, a.sess, a.c, a.pos, a.keys, a.term)
      [] a.fold = "again"  -> RecordIngest(s, a.sess, a.c)
      [] a.fold = "start"  -> StartStep(s, l, a.sess, a.connect)
      [] a.fold = "walk"   -> WalkStep(s, l, a.list)
      [] a.fold = "keep"   -> KeepStep(s, l, a.passing)
      [] a.fold = "count"  -> CountStep(s, l, a.term, a.md)
      [] a.fold = "tf"     -> TfStep(s, l, a.asked)
      [] a.fold = "compare" -> CompareStep(s, l, a.c1, a.c2)
      [] a.fold = "term"   -> AddFacet(s, a.f, l)
      [] a.fold = "terms"  -> TermsStep(s, l, a.f)
      [] a.fold = "facet"  -> FacetStep(s, l, a.c, a.sub)
      [] a.fold = "report" -> ReportStep(s, l, a.c)

(* A loop over L, as MapThenFoldSet defines iteration: a function          *)
(* of the set of indices that were met.                                    *)
Iter(base, L, n, a, f) ==
    [s \in SUBSET (1 .. n) |->
        IF s = {} THEN base ELSE FoldStep(f[s \ {Max(s)}], L[Max(s)], a)]

Fold(base, L, n, a) == CHOOSE f : f = Iter(base, L, n, a, f)

-----------------------------------------------------------------------------
(* The folds of the model, by name.                                        *)
BucketOver(base, L, rec, key) ==
    FoldLeft(LAMBDA s, i : MeetBucket(s, i, rec, key), base, L)

KeyOver(base, L, rec, keys) ==
    FoldLeft(LAMBDA st, key : MeetKey(st, rec, key, keys), base, L)

FieldOver(base, L, sub) ==
    FoldLeft(LAMBDA cl, f : MergeField(f, cl, sub.md[f]), base, L)

ValueOver(base, L, f, was) ==
    FoldLeft(LAMBDA vs, v : MergeValue(f, vs, v, was), base, L)

SubOver(base, L, sess, c, pos, keys, term) ==
    FoldLeft(LAMBDA st, sub : IF st.rc # "ok" THEN st
                              ELSE IngestSub(st.set, sess, c, pos, sub, keys, term),
             base, L)

AgainOver(base, L, sess, c) ==
    FoldLeft(LAMBDA s, i : RecordIngest(s, sess, c), base, L)

StartOver(base, L, sess, connect) ==
    FoldLeft(LAMBDA s, c : StartSearch(s, sess, c, connect[c]), base, L)

WalkOver(base, L, list) ==
    FoldLeft(LAMBDA s, b : s \o list.chains[b], base, L)

KeepOver(base, L, passing) ==
    FoldLeft(LAMBDA s, c : IF c \in passing /\ c \notin Elems(s) THEN Append(s, c) ELSE s,
             base, L)

CountOver(base, L, term, md) ==
    FoldLeft(LAMBDA n, f :
                 n + Service[f].rank * Cardinality({i \in DOMAIN md[f] : Value(f, md[f][i]) = <<term>>}),
             base, L)

TfOver(base, L, asked) ==
    FoldLeft(LAMBDA n, r : n + CountWords(asked[r.client], r.md), base, L)

CompareOver(base, L, c1, c2) ==
    FoldLeft(LAMBDA r, s : IF r # 0 THEN r ELSE CompareBy(s, c1, c2), base, L)

FacetOver(base, L, c, sub) ==
    FoldLeft(LAMBDA fs, f :
                 IF ~Service[f].termlist \/ f \in FacetMap[c] THEN fs
                 ELSE FoldLeft(LAMBDA gs, v :
                                   FoldLeft(LAMBDA hs, t : AddFacet(hs, f, t), gs,
                                            FacetTerms(f, v)),
                               fs, sub.md[f]),
             base, L)

ReportOver(base, L, c) ==
    FoldLeft(LAMBDA fs, p : IF p[1] \in FacetMap[c] THEN AddFacet(fs, p[1], p[2]) ELSE fs, base, L)

(* The numbers below one another are well-founded, ...                     *)
Below == {ss \in Nat \X Nat : ss[1] < ss[2]}

(* The numbers are well-founded.                                           *)
LEMMA BelowWellFounded == IsWellFoundedOn(Below, Nat)
  BY NatLessThanWellFounded DEF OpToRel, Below

(* ... so the least number for which something fails can be picked.        *)
LEMMA NatMin ==
    ASSUME NEW T, T \subseteq Nat, T # {}
    PROVE  \E x \in T : \A y \in T : x <= y
<1>1. PICK x \in T : \A y \in T : ~ (<<y, x>> \in Below)
  BY BelowWellFounded, WFMin
<1>2. ASSUME NEW y \in T PROVE x <= y
  <2>1. x \in Nat /\ y \in Nat /\ <<y, x>> \notin Below
    BY <1>1
  <2>2. <<y, x>> \in Nat \X Nat /\ <<y, x>>[1] = y /\ <<y, x>>[2] = x
    BY <2>1
  <2>3. ~(y < x)
    BY <2>1, <2>2 DEF Below
  <2> QED
    BY <2>1, <2>3
<1> QED
  BY <1>2

(* Max is the element that is above all.                                   *)
LEMMA MaxIs ==
    ASSUME NEW S, NEW m \in S, S \subseteq Int, \A x \in S : m >= x
    PROVE  Max(S) = m
<1>1. \E x \in S : \A y \in S : x >= y
  OBVIOUS
<1>2. Max(S) \in S /\ \A y \in S : Max(S) >= y
  BY <1>1 DEF Max
<1>3. Max(S) \in Int /\ m \in Int /\ Max(S) >= m /\ m >= Max(S)
  BY <1>2
<1> HIDE <1>1, <1>2
<1> QED  BY <1>3

(* Of numbers that are bounded there is a greatest.                        *)
LEMMA SetMax ==
    ASSUME NEW n \in Nat, NEW s \in SUBSET (1 .. n), s # {}
    PROVE  Max(s) \in s /\ \A x \in s : x <= Max(s)
<1> DEFINE T == {m \in 0 .. n : \A x \in s : x <= m}
<1>1. T \subseteq Nat /\ n \in T
  OBVIOUS
<1>2. PICK m \in T : \A y \in T : m <= y
  <2> HIDE DEF T
  <2> QED  BY <1>1, NatMin
<1>3. m \in s
  <2> SUFFICES ASSUME m \notin s PROVE FALSE
    OBVIOUS
  <2>1. \A x \in s : x <= m /\ x # m /\ x \in 1 .. n
    BY <1>2
  <2>2. \A x \in s : x <= m - 1
    BY <2>1, <1>2
  <2>3. PICK x \in s : TRUE
    OBVIOUS
  <2>4. m \in 1 .. n
    BY <2>1, <2>3, <1>2
  <2>5. m - 1 \in T
    BY <2>2, <2>4
  <2> QED  BY <1>2, <2>4, <2>5
<1>4. \A x \in s : m >= x
  BY <1>2
<1>5. s \subseteq Int
  OBVIOUS
<1>6. Max(s) = m
  BY <1>3, <1>4, <1>5, MaxIs
<1>7. \A x \in s : x <= m
  BY <1>2
<1> QED  BY <1>3, <1>6, <1>7

(* The greatest of 1 .. k.                                                 *)
LEMMA PrefixMax ==
    ASSUME NEW k \in Nat, k > 0
    PROVE  Max(1 .. k) = k /\ (1 .. k) \ {k} = 1 .. k - 1 /\ 1 .. k # {}
<1>1. k \in 1 .. k /\ 1 .. k \subseteq Int /\ \A x \in 1 .. k : k >= x
  OBVIOUS
<1>2. Max(1 .. k) = k
  BY <1>1, MaxIs
<1>3. (1 .. k) \ {k} = 1 .. k - 1
  OBVIOUS
<1> QED  BY <1>1, <1>2, <1>3

-----------------------------------------------------------------------------
(* A fold is the last of a sequence of values.  (Stated with quantifiers,  *)
(* which the provers instantiate more easily here.)                        *)
LEMMA FoldIs ==
    \A base, L, a : \A n \in Nat : DOMAIN L = 1 .. n =>
           \E h : /\ h[0] = base
                  /\ \A k \in 1 .. n : h[k] = FoldStep(h[k - 1], L[k], a)
                  /\ Fold(base, L, n, a)[1 .. n] = h[n]
<1> TAKE base, L, a
<1> TAKE n \in Nat
<1> HAVE DOMAIN L = 1 .. n
<1> DEFINE Sol(m) == \E f : f = [s \in SUBSET (1 .. m) |->
                         IF s = {} THEN base ELSE FoldStep(f[s \ {Max(s)}], L[Max(s)], a)]
           T == {m \in 0 .. n : ~ Sol(m)}
<1>1. T = {}
  <2> SUFFICES ASSUME T # {} PROVE FALSE
    OBVIOUS
  <2>1. T \subseteq Nat
    OBVIOUS
  <2> HIDE DEF Sol
  <2>2. PICK m \in T : \A y \in T : m <= y
    <3> HIDE DEF T
    <3> QED  BY <2>1, NatMin
  <2>3. Sol(0)
    <3> DEFINE f == [s \in SUBSET (1 .. 0) |-> base]
    <3>1. 1 .. 0 = {}
      OBVIOUS
    <3>2. f = [s \in SUBSET (1 .. 0) |->
                  IF s = {} THEN base ELSE FoldStep(f[s \ {Max(s)}], L[Max(s)], a)]
      BY <3>1
    <3> QED  BY <3>2 DEF Sol
  <2>4. m \in 1 .. n /\ m - 1 \in 0 .. n /\ Sol(m - 1) /\ ~ Sol(m)
    <3>1. m \in 0 .. n /\ ~ Sol(m) /\ m # 0
      BY <2>2, <2>3
    <3>2. m - 1 \in 0 .. n /\ ~(m <= m - 1)
      BY <3>1
    <3>3. m - 1 \notin T
      BY <2>2, <3>2
    <3> QED  BY <3>1, <3>2, <3>3
  <2>5. PICK f : f = [s \in SUBSET (1 .. m - 1) |->
                         IF s = {} THEN base ELSE FoldStep(f[s \ {Max(s)}], L[Max(s)], a)]
    BY <2>4 DEF Sol
  <2>6. \A s \in SUBSET (1 .. m - 1) :
           f[s] = IF s = {} THEN base ELSE FoldStep(f[s \ {Max(s)}], L[Max(s)], a)
    BY <2>5
  <2> DEFINE g == [s \in SUBSET (1 .. m) |->
                      IF m \in s THEN FoldStep(f[s \ {m}], L[m], a) ELSE f[s]]
  <2>7. ASSUME NEW s \in SUBSET (1 .. m)
        PROVE  g[s] = IF s = {} THEN base ELSE FoldStep(g[s \ {Max(s)}], L[Max(s)], a)
    <3>1. CASE m \in s
      <4>1. Max(s) = m
        <5>1. s \subseteq Int /\ \A x \in s : m >= x
          BY <2>4
        <5> QED  BY <3>1, <5>1, MaxIs
      <4>2. g[s \ {m}] = f[s \ {m}]
        <5>1. s \ {m} \in SUBSET (1 .. m)
          OBVIOUS
        <5> QED  BY <5>1
      <4> QED  BY <3>1, <4>1, <4>2
    <3>2. CASE m \notin s
      <4>1. s \in SUBSET (1 .. m - 1)
        BY <2>4, <3>2
      <4>2. g[s] = f[s]
        BY <3>2
      <4>3. g[s \ {Max(s)}] = f[s \ {Max(s)}]
        <5>1. s \ {Max(s)} \in SUBSET (1 .. m) /\ m \notin s \ {Max(s)}
          BY <3>2
        <5> QED  BY <5>1
      <4>4. f[s] = IF s = {} THEN base ELSE FoldStep(f[s \ {Max(s)}], L[Max(s)], a)
        BY <2>6, <4>1
      <4> HIDE DEF g
      <4> QED  BY <4>2, <4>3, <4>4
    <3> QED  BY <3>1, <3>2
  <2>8. g = [s \in SUBSET (1 .. m) |->
                IF s = {} THEN base ELSE FoldStep(g[s \ {Max(s)}], L[Max(s)], a)]
    <3>1. g = [s \in SUBSET (1 .. m) |-> g[s]]
      OBVIOUS
    <3> HIDE DEF g
    <3> QED  BY <2>7, <3>1
  <2> HIDE DEF g
  <2> QED  BY <2>4, <2>8 DEF Sol
<1>2. PICK f0 : f0 = Iter(base, L, n, a, f0)
  <2>1. n \in 0 .. n
    OBVIOUS
  <2>2. Sol(n)
    <3> HIDE DEF Sol
    <3> QED  BY <1>1, <2>1
  <2> QED  BY <2>2 DEF Iter
<1> HIDE DEF T
<1> DEFINE f == CHOOSE f : f = Iter(base, L, n, a, f)
<1>3. f = Iter(base, L, n, a, f)
  BY <1>2
<1>4. Fold(base, L, n, a)[1 .. n] = f[1 .. n]
  BY DEF Fold, Iter
<1> HIDE DEF f
<1>5. \A s \in SUBSET (1 .. n) :
         f[s] = IF s = {} THEN base ELSE FoldStep(f[s \ {Max(s)}], L[Max(s)], a)
  <2>1. \A s \in SUBSET (1 .. n) : f[s] = Iter(base, L, n, a, f)[s]
    BY <1>3
  <2> QED  BY <2>1 DEF Iter
<1> DEFINE h == [k \in 0 .. n |-> f[1 .. k]]
<1>6. h[0] = base
  <2>1. 1 .. 0 = {} /\ {} \in SUBSET (1 .. n) /\ 0 \in 0 .. n
    OBVIOUS
  <2>2. f[{}] = base
    BY <1>5
  <2> QED  BY <2>1, <2>2
<1>7. ASSUME NEW k \in 1 .. n PROVE h[k] = FoldStep(h[k - 1], L[k], a)
  <2>1. k \in Nat /\ k > 0 /\ 1 .. k \in SUBSET (1 .. n) /\ k \in 0 .. n /\ k - 1 \in 0 .. n
    OBVIOUS
  <2>2. Max(1 .. k) = k /\ (1 .. k) \ {k} = 1 .. k - 1 /\ 1 .. k # {}
    BY <2>1, PrefixMax
  <2>3. f[1 .. k] = FoldStep(f[(1 .. k) \ {Max(1 .. k)}], L[Max(1 .. k)], a)
    BY <1>5, <2>1, <2>2
  <2>4. h[k] = f[1 .. k] /\ h[k - 1] = f[1 .. k - 1]
    BY <2>1
  <2> QED  BY <2>2, <2>3, <2>4
<1>8. h[n] = f[1 .. n]
  <2>1. n \in 0 .. n
    OBVIOUS
  <2> QED  BY <2>1
<1> HIDE DEF h
<1> QED  BY <1>4, <1>6, <1>7, <1>8

(* append_merge_keys, key by key.                                          *)
LEMMA UnionFold ==
    ASSUME NEW base, NEW n \in Nat, NEW L, DOMAIN L = 1 .. n
    PROVE  \E h : /\ h[0] = base
                  /\ \A k \in 1 .. n : h[k] = AppendKey(h[k - 1], L[k])
                  /\ Union(base, L) = h[n]
<1> DEFINE a == [fold |-> "append"]
           A(f) == f = [s \in SUBSET (DOMAIN L) |->
                    IF s = {} THEN base ELSE AppendKey(f[s \ {Max(s)}], L[Max(s)])]
           B(f) == f = [s \in SUBSET (1 .. n) |->
                    IF s = {} THEN base ELSE FoldStep(f[s \ {Max(s)}], L[Max(s)], a)]
<1>1. \A x, y : FoldStep(x, y, a) = AppendKey(x, y)
  BY DEF FoldStep
<1>2. Union(base, L) = (CHOOSE f : A(f))[DOMAIN L]
  BY DEF Union, AppendKey, FoldLeft, MapThenFoldSet
<1>3. Fold(base, L, n, a) = CHOOSE f : B(f)
  BY DEF Fold, Iter
<1>4. \A f : A(f) <=> B(f)
  BY <1>1
<1> HIDE DEF A, B, a
<1>5. (CHOOSE f : A(f)) = CHOOSE f : B(f)
  BY <1>4
<1>6. PICK h : /\ h[0] = base
               /\ \A k \in 1 .. n : h[k] = FoldStep(h[k - 1], L[k], a)
               /\ Fold(base, L, n, a)[1 .. n] = h[n]
  BY FoldIs
<1>7. Union(base, L) = h[n]
  BY <1>2, <1>3, <1>5, <1>6
<1>8. \A k \in 1 .. n : h[k] = AppendKey(h[k - 1], L[k])
  BY <1>1, <1>6
<1> QED  BY <1>6, <1>7, <1>8

(* A chain, bucket by bucket.                                              *)
LEMMA BucketFold ==
    ASSUME NEW base, NEW n \in Nat, NEW L, DOMAIN L = 1 .. n, NEW rec, NEW key
    PROVE  \E h : /\ h[0] = base
                  /\ \A k \in 1 .. n : h[k] = MeetBucket(h[k - 1], L[k], rec, key)
                  /\ BucketOver(base, L, rec, key) = h[n]
<1> DEFINE a == [fold |-> "bucket", rec |-> rec, key |-> key]
           A(f) == f = [s \in SUBSET (DOMAIN L) |->
                    IF s = {} THEN base ELSE MeetBucket(f[s \ {Max(s)}], L[Max(s)], rec, key)]
           B(f) == f = [s \in SUBSET (1 .. n) |->
                    IF s = {} THEN base ELSE FoldStep(f[s \ {Max(s)}], L[Max(s)], a)]
<1>1. \A x, y : FoldStep(x, y, a) = MeetBucket(x, y, rec, key)
  BY DEF FoldStep
<1>2. BucketOver(base, L, rec, key) = (CHOOSE f : A(f))[DOMAIN L]
  BY DEF BucketOver, FoldLeft, MapThenFoldSet
<1>3. Fold(base, L, n, a) = CHOOSE f : B(f)
  BY DEF Fold, Iter
<1>4. \A f : A(f) <=> B(f)
  BY <1>1
<1> HIDE DEF A, B, a
<1>5. (CHOOSE f : A(f)) = CHOOSE f : B(f)
  BY <1>4
<1>6. PICK h : /\ h[0] = base
               /\ \A k \in 1 .. n : h[k] = FoldStep(h[k - 1], L[k], a)
               /\ Fold(base, L, n, a)[1 .. n] = h[n]
  BY FoldIs
<1>7. BucketOver(base, L, rec, key) = h[n]
  BY <1>2, <1>3, <1>5, <1>6
<1>8. \A k \in 1 .. n : h[k] = MeetBucket(h[k - 1], L[k], rec, key)
  BY <1>1, <1>6
<1> QED  BY <1>6, <1>7, <1>8

(* A record, merge key by merge key.                                       *)
LEMMA KeyFold ==
    ASSUME NEW base, NEW n \in Nat, NEW L, DOMAIN L = 1 .. n, NEW rec, NEW keys
    PROVE  \E h : /\ h[0] = base
                  /\ \A k \in 1 .. n : h[k] = MeetKey(h[k - 1], rec, L[k], keys)
                  /\ KeyOver(base, L, rec, keys) = h[n]
<1> DEFINE a == [fold |-> "key", rec |-> rec, keys |-> keys]
           A(f) == f = [s \in SUBSET (DOMAIN L) |->
                    IF s = {} THEN base ELSE MeetKey(f[s \ {Max(s)}], rec, L[Max(s)], keys)]
           B(f) == f = [s \in SUBSET (1 .. n) |->
                    IF s = {} THEN base ELSE FoldStep(f[s \ {Max(s)}], L[Max(s)], a)]
<1>1. \A x, y : FoldStep(x, y, a) = MeetKey(x, rec, y, keys)
  BY DEF FoldStep
<1>2. KeyOver(base, L, rec, keys) = (CHOOSE f : A(f))[DOMAIN L]
  BY DEF KeyOver, FoldLeft, MapThenFoldSet
<1>3. Fold(base, L, n, a) = CHOOSE f : B(f)
  BY DEF Fold, Iter
<1>4. \A f : A(f) <=> B(f)
  BY <1>1
<1> HIDE DEF A, B, a
<1>5. (CHOOSE f : A(f)) = CHOOSE f : B(f)
  BY <1>4
<1>6. PICK h : /\ h[0] = base
               /\ \A k \in 1 .. n : h[k] = FoldStep(h[k - 1], L[k], a)
               /\ Fold(base, L, n, a)[1 .. n] = h[n]
  BY FoldIs
<1>7. KeyOver(base, L, rec, keys) = h[n]
  BY <1>2, <1>3, <1>5, <1>6
<1>8. \A k \in 1 .. n : h[k] = MeetKey(h[k - 1], rec, L[k], keys)
  BY <1>1, <1>6
<1> QED  BY <1>6, <1>7, <1>8

(* The metadata of a cluster, field by field.                              *)
LEMMA FieldFold ==
    ASSUME NEW base, NEW n \in Nat, NEW L, DOMAIN L = 1 .. n, NEW sub
    PROVE  \E h : /\ h[0] = base
                  /\ \A k \in 1 .. n : h[k] = FieldStep(h[k - 1], L[k], sub)
                  /\ FieldOver(base, L, sub) = h[n]
<1> DEFINE a == [fold |-> "field", sub |-> sub]
           A(f) == f = [s \in SUBSET (DOMAIN L) |->
                    IF s = {} THEN base ELSE FieldStep(f[s \ {Max(s)}], L[Max(s)], sub)]
           B(f) == f = [s \in SUBSET (1 .. n) |->
                    IF s = {} THEN base ELSE FoldStep(f[s \ {Max(s)}], L[Max(s)], a)]
<1>1. \A x, y : FoldStep(x, y, a) = FieldStep(x, y, sub)
  BY DEF FoldStep
<1>2. FieldOver(base, L, sub) = (CHOOSE f : A(f))[DOMAIN L]
  BY DEF FieldOver, FieldStep, FoldLeft, MapThenFoldSet
<1>3. Fold(base, L, n, a) = CHOOSE f : B(f)
  BY DEF Fold, Iter
<1>4. \A f : A(f) <=> B(f)
  BY <1>1
<1> HIDE DEF A, B, a
<1>5. (CHOOSE f : A(f)) = CHOOSE f : B(f)
  BY <1>4
<1>6. PICK h : /\ h[0] = base
               /\ \A k \in 1 .. n : h[k] = FoldStep(h[k - 1], L[k], a)
               /\ Fold(base, L, n, a)[1 .. n] = h[n]
  BY FoldIs
<1>7. FieldOver(base, L, sub) = h[n]
  BY <1>2, <1>3, <1>5, <1>6
<1>8. \A k \in 1 .. n : h[k] = FieldStep(h[k - 1], L[k], sub)
  BY <1>1, <1>6
<1> QED  BY <1>6, <1>7, <1>8

(* The values of a field, one by one.                                      *)
LEMMA ValueFold ==
    ASSUME NEW base, NEW n \in Nat, NEW L, DOMAIN L = 1 .. n, NEW f, NEW was
    PROVE  \E h : /\ h[0] = base
                  /\ \A k \in 1 .. n : h[k] = MergeValue(f, h[k - 1], L[k], was)
                  /\ ValueOver(base, L, f, was) = h[n]
<1> DEFINE a == [fold |-> "value", f |-> f, was |-> was]
           A(g) == g = [s \in SUBSET (DOMAIN L) |->
                    IF s = {} THEN base ELSE MergeValue(f, g[s \ {Max(s)}], L[Max(s)], was)]
           B(g) == g = [s \in SUBSET (1 .. n) |->
                    IF s = {} THEN base ELSE FoldStep(g[s \ {Max(s)}], L[Max(s)], a)]
<1>1. \A x, y : FoldStep(x, y, a) = MergeValue(f, x, y, was)
  BY DEF FoldStep
<1>2. ValueOver(base, L, f, was) = (CHOOSE g : A(g))[DOMAIN L]
  BY DEF ValueOver, FoldLeft, MapThenFoldSet
<1>3. Fold(base, L, n, a) = CHOOSE g : B(g)
  BY DEF Fold, Iter
<1>4. \A g : A(g) <=> B(g)
  BY <1>1
<1> HIDE DEF A, B, a
<1>5. (CHOOSE g : A(g)) = CHOOSE g : B(g)
  BY <1>4
<1>6. PICK h : /\ h[0] = base
               /\ \A k \in 1 .. n : h[k] = FoldStep(h[k - 1], L[k], a)
               /\ Fold(base, L, n, a)[1 .. n] = h[n]
  BY FoldIs
<1>7. ValueOver(base, L, f, was) = h[n]
  BY <1>2, <1>3, <1>5, <1>6
<1>8. \A k \in 1 .. n : h[k] = MergeValue(f, h[k - 1], L[k], was)
  BY <1>1, <1>6
<1> QED  BY <1>6, <1>7, <1>8

(* A document, record by record.                                           *)
LEMMA SubFold ==
    ASSUME NEW base, NEW n \in Nat, NEW L, DOMAIN L = 1 .. n, NEW sess, NEW c, NEW pos, NEW keys, NEW term
    PROVE  \E h : /\ h[0] = base
                  /\ \A k \in 1 .. n : h[k] = SubStep(h[k - 1], L[k], sess, c, pos, keys, term)
                  /\ SubOver(base, L, sess, c, pos, keys, term) = h[n]
<1> DEFINE a == [fold |-> "sub", sess |-> sess, c |-> c, pos |-> pos, keys |-> keys, term |-> term]
           A(f) == f = [s \in SUBSET (DOMAIN L) |->
                    IF s = {} THEN base ELSE SubStep(f[s \ {Max(s)}], L[Max(s)], sess, c, pos, keys, term)]
           B(f) == f = [s \in SUBSET (1 .. n) |->
                    IF s = {} THEN base ELSE FoldStep(f[s \ {Max(s)}], L[Max(s)], a)]
<1>1. \A x, y : FoldStep(x, y, a) = SubStep(x, y, sess, c, pos, keys, term)
  BY DEF FoldStep
<1>2. SubOver(base, L, sess, c, pos, keys, term) = (CHOOSE f : A(f))[DOMAIN L]
  BY DEF SubOver, SubStep, FoldLeft, MapThenFoldSet
<1>3. Fold(base, L, n, a) = CHOOSE f : B(f)
  BY DEF Fold, Iter
<1>4. \A f : A(f) <=> B(f)
  BY <1>1
<1> HIDE DEF A, B, a
<1>5. (CHOOSE f : A(f)) = CHOOSE f : B(f)
  BY <1>4
<1>6. PICK h : /\ h[0] = base
               /\ \A k \in 1 .. n : h[k] = FoldStep(h[k - 1], L[k], a)
               /\ Fold(base, L, n, a)[1 .. n] = h[n]
  BY FoldIs
<1>7. SubOver(base, L, sess, c, pos, keys, term) = h[n]
  BY <1>2, <1>3, <1>5, <1>6
<1>8. \A k \in 1 .. n : h[k] = SubStep(h[k - 1], L[k], sess, c, pos, keys, term)
  BY <1>1, <1>6
<1> QED  BY <1>6, <1>7, <1>8

(* client_reingest, record by record.                                      *)
LEMMA AgainFold ==
    ASSUME NEW base, NEW n \in Nat, NEW L, DOMAIN L = 1 .. n, NEW sess, NEW c
    PROVE  \E h : /\ h[0] = base
                  /\ \A k \in 1 .. n : h[k] = RecordIngest(h[k - 1], sess, c)
                  /\ AgainOver(base, L, sess, c) = h[n]
<1> DEFINE a == [fold |-> "again", sess |-> sess, c |-> c]
           A(f) == f = [s \in SUBSET (DOMAIN L) |->
                    IF s = {} THEN base ELSE RecordIngest(f[s \ {Max(s)}], sess, c)]
           B(f) == f = [s \in SUBSET (1 .. n) |->
                    IF s = {} THEN base ELSE FoldStep(f[s \ {Max(s)}], L[Max(s)], a)]
<1>1. \A x, y : FoldStep(x, y, a) = RecordIngest(x, sess, c)
  BY DEF FoldStep
<1>2. AgainOver(base, L, sess, c) = (CHOOSE f : A(f))[DOMAIN L]
  BY DEF AgainOver, FoldLeft, MapThenFoldSet
<1>3. Fold(base, L, n, a) = CHOOSE f : B(f)
  BY DEF Fold, Iter
<1>4. \A f : A(f) <=> B(f)
  BY <1>1
<1> HIDE DEF A, B, a
<1>5. (CHOOSE f : A(f)) = CHOOSE f : B(f)
  BY <1>4
<1>6. PICK h : /\ h[0] = base
               /\ \A k \in 1 .. n : h[k] = FoldStep(h[k - 1], L[k], a)
               /\ Fold(base, L, n, a)[1 .. n] = h[n]
  BY FoldIs
<1>7. AgainOver(base, L, sess, c) = h[n]
  BY <1>2, <1>3, <1>5, <1>6
<1>8. \A k \in 1 .. n : h[k] = RecordIngest(h[k - 1], sess, c)
  BY <1>1, <1>6
<1> QED  BY <1>6, <1>7, <1>8

(* The start of a search, client by client.                                *)
LEMMA StartFold ==
    ASSUME NEW base, NEW n \in Nat, NEW L, DOMAIN L = 1 .. n, NEW sess, NEW connect
    PROVE  \E h : /\ h[0] = base
                  /\ \A k \in 1 .. n : h[k] = StartStep(h[k - 1], L[k], sess, connect)
                  /\ StartOver(base, L, sess, connect) = h[n]
<1> DEFINE a == [fold |-> "start", sess |-> sess, connect |-> connect]
           A(f) == f = [s \in SUBSET (DOMAIN L) |->
                    IF s = {} THEN base ELSE StartStep(f[s \ {Max(s)}], L[Max(s)], sess, connect)]
           B(f) == f = [s \in SUBSET (1 .. n) |->
                    IF s = {} THEN base ELSE FoldStep(f[s \ {Max(s)}], L[Max(s)], a)]
<1>1. \A x, y : FoldStep(x, y, a) = StartStep(x, y, sess, connect)
  BY DEF FoldStep
<1>2. StartOver(base, L, sess, connect) = (CHOOSE f : A(f))[DOMAIN L]
  BY DEF StartOver, StartStep, FoldLeft, MapThenFoldSet
<1>3. Fold(base, L, n, a) = CHOOSE f : B(f)
  BY DEF Fold, Iter
<1>4. \A f : A(f) <=> B(f)
  BY <1>1
<1> HIDE DEF A, B, a
<1>5. (CHOOSE f : A(f)) = CHOOSE f : B(f)
  BY <1>4
<1>6. PICK h : /\ h[0] = base
               /\ \A k \in 1 .. n : h[k] = FoldStep(h[k - 1], L[k], a)
               /\ Fold(base, L, n, a)[1 .. n] = h[n]
  BY FoldIs
<1>7. StartOver(base, L, sess, connect) = h[n]
  BY <1>2, <1>3, <1>5, <1>6
<1>8. \A k \in 1 .. n : h[k] = StartStep(h[k - 1], L[k], sess, connect)
  BY <1>1, <1>6
<1> QED  BY <1>6, <1>7, <1>8

(* The hash table, chain by chain.                                         *)
LEMMA WalkFold ==
    ASSUME NEW base, NEW n \in Nat, NEW L, DOMAIN L = 1 .. n, NEW list
    PROVE  \E h : /\ h[0] = base
                  /\ \A k \in 1 .. n : h[k] = WalkStep(h[k - 1], L[k], list)
                  /\ WalkOver(base, L, list) = h[n]
<1> DEFINE a == [fold |-> "walk", list |-> list]
           A(f) == f = [s \in SUBSET (DOMAIN L) |->
                    IF s = {} THEN base ELSE WalkStep(f[s \ {Max(s)}], L[Max(s)], list)]
           B(f) == f = [s \in SUBSET (1 .. n) |->
                    IF s = {} THEN base ELSE FoldStep(f[s \ {Max(s)}], L[Max(s)], a)]
<1>1. \A x, y : FoldStep(x, y, a) = WalkStep(x, y, list)
  BY DEF FoldStep
<1>2. WalkOver(base, L, list) = (CHOOSE f : A(f))[DOMAIN L]
  BY DEF WalkOver, WalkStep, FoldLeft, MapThenFoldSet
<1>3. Fold(base, L, n, a) = CHOOSE f : B(f)
  BY DEF Fold, Iter
<1>4. \A f : A(f) <=> B(f)
  BY <1>1
<1> HIDE DEF A, B, a
<1>5. (CHOOSE f : A(f)) = CHOOSE f : B(f)
  BY <1>4
<1>6. PICK h : /\ h[0] = base
               /\ \A k \in 1 .. n : h[k] = FoldStep(h[k - 1], L[k], a)
               /\ Fold(base, L, n, a)[1 .. n] = h[n]
  BY FoldIs
<1>7. WalkOver(base, L, list) = h[n]
  BY <1>2, <1>3, <1>5, <1>6
<1>8. \A k \in 1 .. n : h[k] = WalkStep(h[k - 1], L[k], list)
  BY <1>1, <1>6
<1> QED  BY <1>6, <1>7, <1>8

(* What the walk keeps, bucket by bucket.                                  *)
LEMMA KeepFold ==
    ASSUME NEW base, NEW n \in Nat, NEW L, DOMAIN L = 1 .. n, NEW passing
    PROVE  \E h : /\ h[0] = base
                  /\ \A k \in 1 .. n : h[k] = KeepStep(h[k - 1], L[k], passing)
                  /\ KeepOver(base, L, passing) = h[n]
<1> DEFINE a == [fold |-> "keep", passing |-> passing]
           A(f) == f = [s \in SUBSET (DOMAIN L) |->
                    IF s = {} THEN base ELSE KeepStep(f[s \ {Max(s)}], L[Max(s)], passing)]
           B(f) == f = [s \in SUBSET (1 .. n) |->
                    IF s = {} THEN base ELSE FoldStep(f[s \ {Max(s)}], L[Max(s)], a)]
<1>1. \A x, y : FoldStep(x, y, a) = KeepStep(x, y, passing)
  BY DEF FoldStep
<1>2. KeepOver(base, L, passing) = (CHOOSE f : A(f))[DOMAIN L]
  BY DEF KeepOver, KeepStep, FoldLeft, MapThenFoldSet
<1>3. Fold(base, L, n, a) = CHOOSE f : B(f)
  BY DEF Fold, Iter
<1>4. \A f : A(f) <=> B(f)
  BY <1>1
<1> HIDE DEF A, B, a
<1>5. (CHOOSE f : A(f)) = CHOOSE f : B(f)
  BY <1>4
<1>6. PICK h : /\ h[0] = base
               /\ \A k \in 1 .. n : h[k] = FoldStep(h[k - 1], L[k], a)
               /\ Fold(base, L, n, a)[1 .. n] = h[n]
  BY FoldIs
<1>7. KeepOver(base, L, passing) = h[n]
  BY <1>2, <1>3, <1>5, <1>6
<1>8. \A k \in 1 .. n : h[k] = KeepStep(h[k - 1], L[k], passing)
  BY <1>1, <1>6
<1> QED  BY <1>6, <1>7, <1>8

(* The occurrences of a term in a record, field by field.                  *)
LEMMA CountFold ==
    ASSUME NEW base, NEW n \in Nat, NEW L, DOMAIN L = 1 .. n, NEW term, NEW md
    PROVE  \E h : /\ h[0] = base
                  /\ \A k \in 1 .. n : h[k] = CountStep(h[k - 1], L[k], term, md)
                  /\ CountOver(base, L, term, md) = h[n]
<1> DEFINE a == [fold |-> "count", term |-> term, md |-> md]
           A(f) == f = [s \in SUBSET (DOMAIN L) |->
                    IF s = {} THEN base ELSE CountStep(f[s \ {Max(s)}], L[Max(s)], term, md)]
           B(f) == f = [s \in SUBSET (1 .. n) |->
                    IF s = {} THEN base ELSE FoldStep(f[s \ {Max(s)}], L[Max(s)], a)]
<1>1. \A x, y : FoldStep(x, y, a) = CountStep(x, y, term, md)
  BY DEF FoldStep
<1>2. CountOver(base, L, term, md) = (CHOOSE f : A(f))[DOMAIN L]
  BY DEF CountOver, CountStep, FoldLeft, MapThenFoldSet
<1>3. Fold(base, L, n, a) = CHOOSE f : B(f)
  BY DEF Fold, Iter
<1>4. \A f : A(f) <=> B(f)
  BY <1>1
<1> HIDE DEF A, B, a
<1>5. (CHOOSE f : A(f)) = CHOOSE f : B(f)
  BY <1>4
<1>6. PICK h : /\ h[0] = base
               /\ \A k \in 1 .. n : h[k] = FoldStep(h[k - 1], L[k], a)
               /\ Fold(base, L, n, a)[1 .. n] = h[n]
  BY FoldIs
<1>7. CountOver(base, L, term, md) = h[n]
  BY <1>2, <1>3, <1>5, <1>6
<1>8. \A k \in 1 .. n : h[k] = CountStep(h[k - 1], L[k], term, md)
  BY <1>1, <1>6
<1> QED  BY <1>6, <1>7, <1>8

(* The terms of a value that are added to the facets, one by one.          *)
LEMMA TermFold ==
    ASSUME NEW base, NEW n \in Nat, NEW L, DOMAIN L = 1 .. n, NEW f
    PROVE  \E h : /\ h[0] = base
                  /\ \A k \in 1 .. n : h[k] = AddFacet(h[k - 1], f, L[k])
                  /\ TermsOver(base, L, f) = h[n]
<1> DEFINE a == [fold |-> "term", f |-> f]
           A(g) == g = [s \in SUBSET (DOMAIN L) |->
                    IF s = {} THEN base ELSE AddFacet(g[s \ {Max(s)}], f, L[Max(s)])]
           B(g) == g = [s \in SUBSET (1 .. n) |->
                    IF s = {} THEN base ELSE FoldStep(g[s \ {Max(s)}], L[Max(s)], a)]
<1>1. \A x, y : FoldStep(x, y, a) = AddFacet(x, f, y)
  BY DEF FoldStep
<1>2. TermsOver(base, L, f) = (CHOOSE g : A(g))[DOMAIN L]
  BY DEF TermsOver, FoldLeft, MapThenFoldSet
<1>3. Fold(base, L, n, a) = CHOOSE g : B(g)
  BY DEF Fold, Iter
<1>4. \A g : A(g) <=> B(g)
  BY <1>1
<1> HIDE DEF A, B, a
<1>5. (CHOOSE g : A(g)) = CHOOSE g : B(g)
  BY <1>4
<1>6. PICK h : /\ h[0] = base
               /\ \A k \in 1 .. n : h[k] = FoldStep(h[k - 1], L[k], a)
               /\ Fold(base, L, n, a)[1 .. n] = h[n]
  BY FoldIs
<1>7. TermsOver(base, L, f) = h[n]
  BY <1>2, <1>3, <1>5, <1>6
<1>8. \A k \in 1 .. n : h[k] = AddFacet(h[k - 1], f, L[k])
  BY <1>1, <1>6
<1> QED  BY <1>6, <1>7, <1>8

(* Those of the values of a field, value by value.                         *)
LEMMA TermsFold ==
    ASSUME NEW base, NEW n \in Nat, NEW L, DOMAIN L = 1 .. n, NEW f
    PROVE  \E h : /\ h[0] = base
                  /\ \A k \in 1 .. n : h[k] = TermsStep(h[k - 1], L[k], f)
                  /\ FacetsOver(base, L, f) = h[n]
<1> DEFINE a == [fold |-> "terms", f |-> f]
           A(g) == g = [s \in SUBSET (DOMAIN L) |->
                    IF s = {} THEN base ELSE TermsStep(g[s \ {Max(s)}], L[Max(s)], f)]
           B(g) == g = [s \in SUBSET (1 .. n) |->
                    IF s = {} THEN base ELSE FoldStep(g[s \ {Max(s)}], L[Max(s)], a)]
<1>1. \A x, y : FoldStep(x, y, a) = TermsStep(x, y, f)
  BY DEF FoldStep
<1>2. FacetsOver(base, L, f) = (CHOOSE g : A(g))[DOMAIN L]
  BY DEF FacetsOver, TermsStep, TermsOver, FoldLeft, MapThenFoldSet
<1>3. Fold(base, L, n, a) = CHOOSE g : B(g)
  BY DEF Fold, Iter
<1>4. \A g : A(g) <=> B(g)
  BY <1>1
<1> HIDE DEF A, B, a
<1>5. (CHOOSE g : A(g)) = CHOOSE g : B(g)
  BY <1>4
<1>6. PICK h : /\ h[0] = base
               /\ \A k \in 1 .. n : h[k] = FoldStep(h[k - 1], L[k], a)
               /\ Fold(base, L, n, a)[1 .. n] = h[n]
  BY FoldIs
<1>7. FacetsOver(base, L, f) = h[n]
  BY <1>2, <1>3, <1>5, <1>6
<1>8. \A k \in 1 .. n : h[k] = TermsStep(h[k - 1], L[k], f)
  BY <1>1, <1>6
<1> QED  BY <1>6, <1>7, <1>8

(* Those of a record, field by field.                                      *)
LEMMA FacetFold ==
    ASSUME NEW base, NEW n \in Nat, NEW L, DOMAIN L = 1 .. n, NEW c, NEW sub
    PROVE  \E h : /\ h[0] = base
                  /\ \A k \in 1 .. n : h[k] = FacetStep(h[k - 1], L[k], c, sub)
                  /\ FacetOver(base, L, c, sub) = h[n]
<1> DEFINE a == [fold |-> "facet", c |-> c, sub |-> sub]
           A(g) == g = [s \in SUBSET (DOMAIN L) |->
                    IF s = {} THEN base ELSE FacetStep(g[s \ {Max(s)}], L[Max(s)], c, sub)]
           B(g) == g = [s \in SUBSET (1 .. n) |->
                    IF s = {} THEN base ELSE FoldStep(g[s \ {Max(s)}], L[Max(s)], a)]
<1>1. \A x, y : FoldStep(x, y, a) = FacetStep(x, y, c, sub)
  BY DEF FoldStep
<1>2. FacetOver(base, L, c, sub) = (CHOOSE g : A(g))[DOMAIN L]
  BY DEF FacetOver, FacetStep, FacetsOver, FoldLeft, MapThenFoldSet
<1>3. Fold(base, L, n, a) = CHOOSE g : B(g)
  BY DEF Fold, Iter
<1>4. \A g : A(g) <=> B(g)
  BY <1>1
<1> HIDE DEF A, B, a
<1>5. (CHOOSE g : A(g)) = CHOOSE g : B(g)
  BY <1>4
<1>6. PICK h : /\ h[0] = base
               /\ \A k \in 1 .. n : h[k] = FoldStep(h[k - 1], L[k], a)
               /\ Fold(base, L, n, a)[1 .. n] = h[n]
  BY FoldIs
<1>7. FacetOver(base, L, c, sub) = h[n]
  BY <1>2, <1>3, <1>5, <1>6
<1>8. \A k \in 1 .. n : h[k] = FacetStep(h[k - 1], L[k], c, sub)
  BY <1>1, <1>6
<1> QED  BY <1>6, <1>7, <1>8

(* What a target reports, facet by facet.                                  *)
LEMMA ReportFold ==
    ASSUME NEW base, NEW n \in Nat, NEW L, DOMAIN L = 1 .. n, NEW c
    PROVE  \E h : /\ h[0] = base
                  /\ \A k \in 1 .. n : h[k] = ReportStep(h[k - 1], L[k], c)
                  /\ ReportOver(base, L, c) = h[n]
<1> DEFINE a == [fold |-> "report", c |-> c]
           A(g) == g = [s \in SUBSET (DOMAIN L) |->
                    IF s = {} THEN base ELSE ReportStep(g[s \ {Max(s)}], L[Max(s)], c)]
           B(g) == g = [s \in SUBSET (1 .. n) |->
                    IF s = {} THEN base ELSE FoldStep(g[s \ {Max(s)}], L[Max(s)], a)]
<1>1. \A x, y : FoldStep(x, y, a) = ReportStep(x, y, c)
  BY DEF FoldStep
<1>2. ReportOver(base, L, c) = (CHOOSE g : A(g))[DOMAIN L]
  BY DEF ReportOver, ReportStep, FoldLeft, MapThenFoldSet
<1>3. Fold(base, L, n, a) = CHOOSE g : B(g)
  BY DEF Fold, Iter
<1>4. \A g : A(g) <=> B(g)
  BY <1>1
<1> HIDE DEF A, B, a
<1>5. (CHOOSE g : A(g)) = CHOOSE g : B(g)
  BY <1>4
<1>6. PICK h : /\ h[0] = base
               /\ \A k \in 1 .. n : h[k] = FoldStep(h[k - 1], L[k], a)
               /\ Fold(base, L, n, a)[1 .. n] = h[n]
  BY FoldIs
<1>7. ReportOver(base, L, c) = h[n]
  BY <1>2, <1>3, <1>5, <1>6
<1>8. \A k \in 1 .. n : h[k] = ReportStep(h[k - 1], L[k], c)
  BY <1>1, <1>6
<1> QED  BY <1>6, <1>7, <1>8

(* Those in the records of a cluster, record by record.                    *)
LEMMA TfFold ==
    ASSUME NEW base, NEW n \in Nat, NEW L, DOMAIN L = 1 .. n, NEW asked
    PROVE  \E h : /\ h[0] = base
                  /\ \A k \in 1 .. n : h[k] = TfStep(h[k - 1], L[k], asked)
                  /\ TfOver(base, L, asked) = h[n]
<1> DEFINE a == [fold |-> "tf", asked |-> asked]
           A(f) == f = [s \in SUBSET (DOMAIN L) |->
                    IF s = {} THEN base ELSE TfStep(f[s \ {Max(s)}], L[Max(s)], asked)]
           B(f) == f = [s \in SUBSET (1 .. n) |->
                    IF s = {} THEN base ELSE FoldStep(f[s \ {Max(s)}], L[Max(s)], a)]
<1>1. \A x, y : FoldStep(x, y, a) = TfStep(x, y, asked)
  BY DEF FoldStep
<1>2. TfOver(base, L, asked) = (CHOOSE f : A(f))[DOMAIN L]
  BY DEF TfOver, TfStep, FoldLeft, MapThenFoldSet
<1>3. Fold(base, L, n, a) = CHOOSE f : B(f)
  BY DEF Fold, Iter
<1>4. \A f : A(f) <=> B(f)
  BY <1>1
<1> HIDE DEF A, B, a
<1>5. (CHOOSE f : A(f)) = CHOOSE f : B(f)
  BY <1>4
<1>6. PICK h : /\ h[0] = base
               /\ \A k \in 1 .. n : h[k] = FoldStep(h[k - 1], L[k], a)
               /\ Fold(base, L, n, a)[1 .. n] = h[n]
  BY FoldIs
<1>7. TfOver(base, L, asked) = h[n]
  BY <1>2, <1>3, <1>5, <1>6
<1>8. \A k \in 1 .. n : h[k] = TfStep(h[k - 1], L[k], asked)
  BY <1>1, <1>6
<1> QED  BY <1>6, <1>7, <1>8

LEMMA CompareFold ==
    ASSUME NEW base, NEW n \in Nat, NEW L, DOMAIN L = 1 .. n, NEW c1, NEW c2
    PROVE  \E h : /\ h[0] = base
                  /\ \A k \in 1 .. n : h[k] = CompareStep(h[k - 1], L[k], c1, c2)
                  /\ CompareOver(base, L, c1, c2) = h[n]
<1> DEFINE a == [fold |-> "compare", c1 |-> c1, c2 |-> c2]
           A(f) == f = [s \in SUBSET (DOMAIN L) |->
                    IF s = {} THEN base ELSE CompareStep(f[s \ {Max(s)}], L[Max(s)], c1, c2)]
           B(f) == f = [s \in SUBSET (1 .. n) |->
                    IF s = {} THEN base ELSE FoldStep(f[s \ {Max(s)}], L[Max(s)], a)]
<1>1. \A x, y : FoldStep(x, y, a) = CompareStep(x, y, c1, c2)
  BY DEF FoldStep
<1>2. CompareOver(base, L, c1, c2) = (CHOOSE f : A(f))[DOMAIN L]
  BY DEF CompareOver, CompareStep, FoldLeft, MapThenFoldSet
<1>3. Fold(base, L, n, a) = CHOOSE f : B(f)
  BY DEF Fold, Iter
<1>4. \A f : A(f) <=> B(f)
  BY <1>1
<1> HIDE DEF A, B, a
<1>5. (CHOOSE f : A(f)) = CHOOSE f : B(f)
  BY <1>4
<1>6. PICK h : /\ h[0] = base
               /\ \A k \in 1 .. n : h[k] = FoldStep(h[k - 1], L[k], a)
               /\ Fold(base, L, n, a)[1 .. n] = h[n]
  BY FoldIs
<1>7. CompareOver(base, L, c1, c2) = h[n]
  BY <1>2, <1>3, <1>5, <1>6
<1>8. \A k \in 1 .. n : h[k] = CompareStep(h[k - 1], L[k], c1, c2)
  BY <1>1, <1>6
<1> QED  BY <1>6, <1>7, <1>8
-----------------------------------------------------------------------------
(* A sequence, of whatever.                                                *)
IsSeq(s) == s \in Seq(Elems(s))

(* Its indices, and what it has at them.                                   *)
LEMMA SeqIs ==
    ASSUME NEW s, IsSeq(s)
    PROVE  /\ Len(s) \in Nat /\ DOMAIN s = 1 .. Len(s)
           /\ \A i \in DOMAIN s : s[i] \in Elems(s)
           /\ \A x \in Elems(s) : \E i \in DOMAIN s : x = s[i]
<1>1. DOMAIN s = 1 .. Len(s) /\ Len(s) \in Nat
  BY DEF IsSeq
<1> QED  BY <1>1 DEF Elems

(* Any sequence over a set is one.                                         *)
LEMMA SeqOver ==
    ASSUME NEW S, NEW s \in Seq(S)
    PROVE  IsSeq(s) /\ Elems(s) \subseteq S
<1>1. Len(s) \in Nat /\ DOMAIN s = 1 .. Len(s) /\ s \in [1 .. Len(s) -> S]
  BY LenProperties
<1>2. s \in [1 .. Len(s) -> Elems(s)]
  BY <1>1 DEF Elems
<1>3. s \in Seq(Elems(s))
  BY <1>1, <1>2, SeqDef
<1>4. Elems(s) \subseteq S
  BY <1>1 DEF Elems
<1> QED  BY <1>3, <1>4 DEF IsSeq

(* A function on 1 .. n is one.                                            *)
LEMMA SeqFunction ==
    ASSUME NEW n \in Nat, NEW S, NEW s \in [1 .. n -> S]
    PROVE  IsSeq(s) /\ Len(s) = n
<1>1. s \in Seq(S)
  BY SeqDef
<1>2. Len(s) \in Nat /\ DOMAIN s = 1 .. Len(s)
  BY <1>1, LenProperties
<1>3. Len(s) = n
  BY <1>2
<1> QED  BY <1>1, <1>3, SeqOver

(* The empty sequence.                                                     *)
LEMMA SeqEmpty == IsSeq(<<>>) /\ Elems(<<>>) = {} /\ Len(<<>>) = 0
<1> DEFINE S == {}
<1>1. <<>> \in Seq(S) /\ Len(<<>>) = 0
  BY EmptySeq
<1> HIDE DEF S
<1>2. IsSeq(<<>>) /\ Elems(<<>>) \subseteq S
  BY <1>1, SeqOver
<1> QED  BY <1>1, <1>2 DEF S

(* A sequence that grows by one.                                           *)
LEMMA SeqAppend ==
    ASSUME NEW s, IsSeq(s), NEW x
    PROVE  /\ IsSeq(Append(s, x)) /\ Len(Append(s, x)) = Len(s) + 1
           /\ \A i \in DOMAIN s : Append(s, x)[i] = s[i]
           /\ Append(s, x)[Len(s) + 1] = x
           /\ Elems(Append(s, x)) = Elems(s) \cup {x}
<1> DEFINE S == Elems(s) \cup {x}
           t == Append(s, x)
<1>1. s \in Seq(S)
  <2>1. Elems(s) \subseteq S
    OBVIOUS
  <2> QED  BY <2>1, SeqMonotonic DEF IsSeq
<1>2. /\ t \in Seq(S) /\ Len(t) = Len(s) + 1
      /\ \A i \in 1 .. Len(s) : t[i] = s[i]
      /\ t[Len(s) + 1] = x /\ Len(s) \in Nat /\ DOMAIN s = 1 .. Len(s)
      /\ DOMAIN t = 1 .. Len(s) + 1
  <2>1. x \in S
    OBVIOUS
  <2> HIDE DEF S
  <2> QED  BY <1>1, <2>1
<1> HIDE DEF S
<1>3. IsSeq(t) /\ Elems(t) \subseteq S
  BY <1>2, SeqOver
<1> HIDE DEF t
<1>4. x \in Elems(t)
  <2>1. Len(s) + 1 \in DOMAIN t
    BY <1>2
  <2> QED  BY <2>1, <1>2 DEF Elems
<1>5. ASSUME NEW y \in Elems(s) PROVE y \in Elems(t)
  <2>1. PICK i \in DOMAIN s : y = s[i]
    BY DEF Elems
  <2>2. i \in DOMAIN t /\ t[i] = y
    BY <1>2, <2>1
  <2> QED  BY <2>2 DEF Elems
<1>6. Elems(t) = Elems(s) \cup {x}
  BY <1>3, <1>4, <1>5 DEF S
<1> QED  BY <1>2, <1>3, <1>6 DEF t

(* Two sequences, one after the other.                                     *)
LEMMA SeqConcat ==
    ASSUME NEW s, IsSeq(s), NEW t, IsSeq(t)
    PROVE  /\ IsSeq(s \o t) /\ Len(s \o t) = Len(s) + Len(t)
           /\ Elems(s \o t) = Elems(s) \cup Elems(t)
<1> DEFINE S == Elems(s) \cup Elems(t)
           u == s \o t
<1>1. s \in Seq(S) /\ t \in Seq(S)
  <2>1. Elems(s) \subseteq S /\ Elems(t) \subseteq S
    OBVIOUS
  <2> QED  BY <2>1, SeqMonotonic DEF IsSeq
<1> HIDE DEF S
<1>2. /\ u \in Seq(S) /\ Len(u) = Len(s) + Len(t)
      /\ \A i \in 1 .. Len(s) + Len(t) : u[i] = IF i <= Len(s) THEN s[i] ELSE t[i - Len(s)]
  BY <1>1, ConcatProperties
<1>3. Len(s) \in Nat /\ Len(t) \in Nat /\ DOMAIN s = 1 .. Len(s) /\ DOMAIN t = 1 .. Len(t)
      /\ DOMAIN u = 1 .. Len(u)
  BY <1>1, <1>2, LenProperties
<1>4. IsSeq(u) /\ Elems(u) \subseteq S
  BY <1>2, SeqOver
<1> HIDE DEF u
<1>5. ASSUME NEW y \in Elems(s) PROVE y \in Elems(u)
  <2>1. PICK i \in DOMAIN s : y = s[i]
    BY DEF Elems
  <2>2. i \in DOMAIN u /\ u[i] = y
    BY <1>2, <1>3, <2>1
  <2> QED  BY <2>2 DEF Elems
<1>6. ASSUME NEW y \in Elems(t) PROVE y \in Elems(u)
  <2>1. PICK i \in DOMAIN t : y = t[i]
    BY DEF Elems
  <2>2. Len(s) + i \in DOMAIN u /\ u[Len(s) + i] = y
    BY <1>2, <1>3, <2>1
  <2> QED  BY <2>2 DEF Elems
<1>7. Elems(u) = Elems(s) \cup Elems(t)
  BY <1>4, <1>5, <1>6 DEF S
<1> QED  BY <1>2, <1>4, <1>7 DEF u

(* A sequence of which one element is replaced.                            *)
LEMMA SeqExcept ==
    ASSUME NEW s, IsSeq(s), NEW k \in DOMAIN s, NEW x
    PROVE  /\ IsSeq([s EXCEPT ![k] = x]) /\ Len([s EXCEPT ![k] = x]) = Len(s)
           /\ DOMAIN [s EXCEPT ![k] = x] = DOMAIN s
           /\ \A i \in DOMAIN s : [s EXCEPT ![k] = x][i] = IF i = k THEN x ELSE s[i]
<1> DEFINE t == [s EXCEPT ![k] = x]
<1>1. Len(s) \in Nat /\ DOMAIN s = 1 .. Len(s) /\ s \in [1 .. Len(s) -> Elems(s)]
  BY LenProperties DEF IsSeq
<1>2. t \in [1 .. Len(s) -> Elems(s) \cup {x}]
  BY <1>1
<1> HIDE DEF t
<1>3. IsSeq(t) /\ Len(t) = Len(s)
  BY <1>1, <1>2, SeqFunction
<1>4. DOMAIN t = DOMAIN s
  BY <1>1, <1>2
<1> QED  BY <1>3, <1>4 DEF t

(* Induction up to n, over a set in the place of a predicate.              *)
LEMMA UpTo ==
    ASSUME NEW n \in Nat, NEW T, 0 \in T, \A k \in 1 .. n : k - 1 \in T => k \in T
    PROVE  n \in T /\ \A k \in 0 .. n : k \in T
<1> DEFINE S == {k \in 0 .. n : k \notin T}
<1>1. S \subseteq Nat
  OBVIOUS
<1>2. ASSUME S # {} PROVE FALSE
  <2>1. PICK m \in S : \A k \in S : m <= k
    <3> HIDE DEF S
    <3> QED  BY <1>1, <1>2, NatMin
  <2>2. m \in 1 .. n /\ m - 1 \in 0 .. n /\ m - 1 \notin S
    BY <2>1
  <2> QED  BY <2>1, <2>2
<1> QED  BY <1>2

(* append_merge_keys adds what is not there.                               *)
LEMMA UnionIs ==
    ASSUME NEW keys, IsSeq(keys), NEW more, IsSeq(more)
    PROVE  IsSeq(Union(keys, more)) /\ Elems(Union(keys, more)) = Elems(keys) \cup Elems(more)
<1> DEFINE n == Len(more)
           Upto(k) == {more[j] : j \in 1 .. k}
<1>1. n \in Nat /\ DOMAIN more = 1 .. n
  BY SeqIs
<1> HIDE DEF n
<1>2. PICK h : /\ h[0] = keys
               /\ \A k \in 1 .. n : h[k] = AppendKey(h[k - 1], more[k])
               /\ Union(keys, more) = h[n]
  BY <1>1, UnionFold
<1> DEFINE T == {k \in 0 .. n : IsSeq(h[k]) /\ Elems(h[k]) = Elems(keys) \cup Upto(k)}
<1>3. 0 \in T
  BY <1>1, <1>2
<1>4. ASSUME NEW k \in 1 .. n, k - 1 \in T PROVE k \in T
  <2>1. IsSeq(h[k - 1]) /\ Elems(h[k - 1]) = Elems(keys) \cup Upto(k - 1)
    BY <1>4
  <2>2. Upto(k) = Upto(k - 1) \cup {more[k]} /\ k \in 0 .. n
    BY <1>1
  <2>3. IsSeq(h[k]) /\ Elems(h[k]) = Elems(h[k - 1]) \cup {more[k]}
    <3> HIDE DEF T
    <3>1. h[k] = AppendKey(h[k - 1], more[k])
      BY <1>2
    <3>2. CASE more[k] \in Elems(h[k - 1])
      <4>1. h[k] = h[k - 1]
        BY <3>1, <3>2 DEF AppendKey
      <4> QED  BY <2>1, <3>2, <4>1
    <3>3. CASE more[k] \notin Elems(h[k - 1])
      <4>1. h[k] = Append(h[k - 1], more[k])
        BY <3>1, <3>3 DEF AppendKey
      <4> QED  BY <2>1, <4>1, SeqAppend
    <3> QED  BY <3>2, <3>3
  <2> HIDE DEF Upto
  <2> QED  BY <2>1, <2>2, <2>3
<1>5. \A k \in 0 .. n : k \in T
  <2> HIDE DEF T
  <2> QED  BY <1>1, <1>3, <1>4, UpTo
<1>6. n \in T
  <2> HIDE DEF T
  <2> QED  BY <1>1, <1>5
<1>7. Upto(n) = Elems(more)
  BY <1>1 DEF Elems
<1> QED  BY <1>2, <1>6, <1>7
-----------------------------------------------------------------------------
(* What a list is made of.                                                 *)
ClusterFields ==
    {"records", "keys", "recid", "live", "retrieval", "md", "sortkey", "tf", "score"}

ClusterOk(c) ==
    /\ DOMAIN c = ClusterFields
    /\ IsSeq(c.records) /\ IsSeq(c.keys) /\ c.live \in BOOLEAN

(* The keys of a cluster, and the clusters that were not merged away.      *)
KeySet(list, i) == Elems(list.clusters[i].keys)
Lives(list) == {i \in DOMAIN list.clusters : list.clusters[i].live}

ListOk(list) ==
    /\ DOMAIN list = {"chains", "clusters", "sorted", "num"}
    /\ IsSeq(list.clusters)
    /\ \A i \in DOMAIN list.clusters : ClusterOk(list.clusters[i])
    /\ DOMAIN list.chains = Buckets
    /\ \A b \in Buckets : IsSeq(list.chains[b]) /\ Elems(list.chains[b]) \subseteq DOMAIN list.clusters

(* The state of reclist_insert.                                            *)
StateOk(st) ==
    /\ DOMAIN st = {"list", "total", "cluster", "duplicate", "found"}
    /\ ListOk(st.list)
    /\ st.duplicate \in BOOLEAN /\ st.found \in BOOLEAN

(* merge_cluster.                                                          *)
LEMMA MergeIs ==
    ASSUME NEW st, StateOk(st), NEW src \in DOMAIN st.list.clusters,
           st.cluster \in DOMAIN st.list.clusters, src # st.cluster
    PROVE  LET to == MergeCluster(st, src)
               dst == st.cluster
           IN  /\ StateOk(to) /\ to.cluster = dst /\ to.total = st.total - 1
               /\ to.duplicate = st.duplicate /\ to.found = st.found
               /\ DOMAIN to.list.clusters = DOMAIN st.list.clusters
               /\ \A i \in DOMAIN st.list.clusters :
                     /\ to.list.clusters[i].live = (i # src /\ st.list.clusters[i].live)
                     /\ KeySet(to.list, i) = IF i = dst THEN KeySet(st.list, dst) \cup KeySet(st.list, src)
                                             ELSE KeySet(st.list, i)
                     /\ to.list.clusters[i].records =
                           IF i = dst THEN st.list.clusters[dst].records \o st.list.clusters[src].records
                           ELSE st.list.clusters[i].records
                     /\ to.list.clusters[i].tf =
                           IF i = dst THEN st.list.clusters[dst].tf + st.list.clusters[src].tf
                           ELSE st.list.clusters[i].tf
               /\ \A b \in Buckets :
                     /\ DOMAIN to.list.chains[b] = DOMAIN st.list.chains[b]
                     /\ \A j \in DOMAIN st.list.chains[b] :
                           to.list.chains[b][j] =
                              IF st.list.chains[b][j] = src /\ \E k \in KeySet(st.list, src) : Hash(k) = b
                              THEN dst ELSE st.list.chains[b][j]
<1> DEFINE to == MergeCluster(st, src)
           dst == st.cluster
           cs == st.list.clusters
           cs2 == [cs EXCEPT ![dst] = Combined(cs[dst], cs[src]), ![src] = [cs[src] EXCEPT !.live = FALSE]]
<1>1. /\ DOMAIN st = {"list", "total", "cluster", "duplicate", "found"}
      /\ DOMAIN st.list = {"chains", "clusters", "sorted", "num"}
      /\ IsSeq(cs) /\ \A i \in DOMAIN cs : ClusterOk(cs[i])
      /\ DOMAIN st.list.chains = Buckets
      /\ \A b \in Buckets : IsSeq(st.list.chains[b]) /\ Elems(st.list.chains[b]) \subseteq DOMAIN cs
      /\ st.duplicate \in BOOLEAN /\ st.found \in BOOLEAN
  BY DEF StateOk, ListOk
<1>2. /\ DOMAIN to = DOMAIN st /\ to.cluster = dst /\ to.total = st.total - 1
      /\ to.duplicate = st.duplicate /\ to.found = st.found
      /\ DOMAIN to.list = DOMAIN st.list
      /\ to.list.clusters = cs2
      /\ to.list.chains = Repoint(st.list, src, dst)
  BY <1>1 DEF MergeCluster
<1>3. /\ DOMAIN cs2 = DOMAIN cs /\ cs2[dst] = Combined(cs[dst], cs[src])
      /\ cs2[src] = [cs[src] EXCEPT !.live = FALSE]
      /\ \A i \in DOMAIN cs : i # dst /\ i # src => cs2[i] = cs[i]
  OBVIOUS
<1>4. IsSeq(cs2)
  <2>1. IsSeq([cs EXCEPT ![dst] = Combined(cs[dst], cs[src])])
    BY <1>1, SeqExcept
  <2> QED  BY <1>1, <2>1, SeqExcept
<1> HIDE DEF cs2, to
<1>5. LET c == Combined(cs[dst], cs[src])
      IN  /\ ClusterOk(c) /\ c.live = cs[dst].live
          /\ c.records = cs[dst].records \o cs[src].records
          /\ Elems(c.keys) = Elems(cs[dst].keys) \cup Elems(cs[src].keys)
          /\ c.tf = cs[dst].tf + cs[src].tf
  <2>1. ClusterOk(cs[dst]) /\ ClusterOk(cs[src])
    BY <1>1
  <2>2. /\ IsSeq(cs[dst].records \o cs[src].records)
        /\ IsSeq(Union(cs[dst].keys, cs[src].keys))
        /\ Elems(Union(cs[dst].keys, cs[src].keys)) = Elems(cs[dst].keys) \cup Elems(cs[src].keys)
    BY <2>1, SeqConcat, UnionIs DEF ClusterOk
  <2> DEFINE c == Combined(cs[dst], cs[src])
  <2>3. /\ DOMAIN c = ClusterFields /\ c.live = cs[dst].live
        /\ c.records = cs[dst].records \o cs[src].records
        /\ c.keys = Union(cs[dst].keys, cs[src].keys)
        /\ c.tf = cs[dst].tf + cs[src].tf
    BY <2>1 DEF Combined, ClusterOk, ClusterFields
  <2> HIDE DEF c
  <2>4. ClusterOk(c)
    BY <2>1, <2>2, <2>3 DEF ClusterOk
  <2> QED  BY <2>2, <2>3, <2>4 DEF c
<1>6. LET c == [cs[src] EXCEPT !.live = FALSE]
      IN  /\ ClusterOk(c) /\ c.live = FALSE /\ c.tf = cs[src].tf
          /\ c.records = cs[src].records /\ c.keys = cs[src].keys
  <2>1. ClusterOk(cs[src])
    BY <1>1
  <2> QED  BY <2>1 DEF ClusterOk, ClusterFields
<1>7. \A i \in DOMAIN cs : ClusterOk(cs2[i])
  BY <1>1, <1>3, <1>5, <1>6
<1>8. ASSUME NEW i \in DOMAIN cs
      PROVE  /\ to.list.clusters[i].live = (i # src /\ cs[i].live)
             /\ KeySet(to.list, i) = IF i = dst THEN KeySet(st.list, dst) \cup KeySet(st.list, src)
                                     ELSE KeySet(st.list, i)
             /\ to.list.clusters[i].records =
                   IF i = dst THEN cs[dst].records \o cs[src].records ELSE cs[i].records
             /\ to.list.clusters[i].tf = IF i = dst THEN cs[dst].tf + cs[src].tf ELSE cs[i].tf
  <2>1. CASE i = dst
    <3>1. cs2[i].live = cs[dst].live /\ cs[dst].live \in BOOLEAN /\ i # src
      BY <1>1, <1>3, <1>5, <2>1 DEF ClusterOk
    <3>2. /\ Elems(cs2[i].keys) = Elems(cs[dst].keys) \cup Elems(cs[src].keys)
          /\ cs2[i].records = cs[dst].records \o cs[src].records
          /\ cs2[i].tf = cs[dst].tf + cs[src].tf
      BY <1>3, <1>5, <2>1
    <3> QED  BY <1>2, <2>1, <3>1, <3>2 DEF KeySet
  <2>2. CASE i = src
    BY <1>2, <1>3, <1>6, <2>2 DEF KeySet
  <2>3. CASE i # src /\ i # dst
    <3>1. cs2[i] = cs[i] /\ cs[i].live \in BOOLEAN
      BY <1>1, <1>3, <2>3 DEF ClusterOk
    <3> QED  BY <1>2, <2>3, <3>1 DEF KeySet
  <2> QED  BY <2>1, <2>2, <2>3
<1>9. ASSUME NEW b \in Buckets
      PROVE  LET chain == st.list.chains[b]
                 chain2 == to.list.chains[b]
             IN  /\ DOMAIN chain2 = DOMAIN chain
                 /\ \A j \in DOMAIN chain :
                       chain2[j] = IF chain[j] = src /\ \E k \in KeySet(st.list, src) : Hash(k) = b
                                   THEN dst ELSE chain[j]
                 /\ IsSeq(chain2) /\ Elems(chain2) \subseteq DOMAIN cs
  <2> DEFINE chain == st.list.chains[b]
             chain2 == to.list.chains[b]
             follows == \E k \in KeySet(st.list, src) : Hash(k) = b
  <2>1. chain2 = [j \in DOMAIN chain |-> IF chain[j] = src /\ follows THEN dst ELSE chain[j]]
    BY <1>2 DEF Repoint, KeySet
  <2>2. DOMAIN chain = 1 .. Len(chain) /\ Len(chain) \in Nat /\ \A j \in DOMAIN chain : chain[j] \in DOMAIN cs
    BY <1>1, SeqIs
  <2> HIDE DEF chain, chain2, follows
  <2>3. chain2 \in [1 .. Len(chain) -> DOMAIN cs]
    BY <2>1, <2>2
  <2>4. IsSeq(chain2) /\ Elems(chain2) \subseteq DOMAIN cs
    <3>1. chain2 \in Seq(DOMAIN cs)
      BY <2>2, <2>3, SeqDef
    <3> QED  BY <3>1, SeqOver
  <2> QED  BY <2>1, <2>4 DEF chain, chain2, follows
<1>10. StateOk(to)
  <2>1. DOMAIN to.list.chains = Buckets
    BY <1>2 DEF Repoint
  <2> QED  BY <1>1, <1>2, <1>3, <1>4, <1>7, <1>9, <2>1 DEF StateOk, ListOk
<1> QED  BY <1>2, <1>3, <1>8, <1>9, <1>10 DEF to
-----------------------------------------------------------------------------
(* A flag is set.                                                          *)
LEMMA FoundIs ==
    ASSUME NEW st, StateOk(st), NEW v \in BOOLEAN
    PROVE  LET to == [st EXCEPT !.found = v]
           IN  /\ StateOk(to) /\ to.found = v /\ to.duplicate = st.duplicate
               /\ to.cluster = st.cluster /\ to.total = st.total /\ to.list = st.list
  BY DEF StateOk

(* A record joins a cluster, or is a duplicate.                            *)
LEMMA JoinIs ==
    ASSUME NEW st, StateOk(st), NEW c \in DOMAIN st.list.clusters, NEW rec
    PROVE  LET to == JoinCluster(st, c, rec)
           IN  /\ StateOk(to) /\ to.total = st.total /\ to.found = st.found
               /\ to.list.chains = st.list.chains
               /\ \/ to.duplicate
                  \/ /\ to.duplicate = st.duplicate /\ to.cluster = c
                     /\ DOMAIN to.list.clusters = DOMAIN st.list.clusters
                     /\ \A i \in DOMAIN st.list.clusters :
                           /\ to.list.clusters[i].live = st.list.clusters[i].live
                           /\ KeySet(to.list, i) = KeySet(st.list, i)
                           /\ to.list.clusters[i].records =
                                 IF i = c THEN Append(st.list.clusters[c].records, rec)
                                 ELSE st.list.clusters[i].records
                           /\ to.list.clusters[i].tf = st.list.clusters[i].tf
<1> DEFINE to == JoinCluster(st, c, rec)
           cs == st.list.clusters
           again == \E r \in Elems(cs[c].records) : r.client = rec.client /\ SameMetadata(rec, r)
           joined == [cs[c] EXCEPT !.records = Append(@, rec)]
<1>1. /\ DOMAIN st = {"list", "total", "cluster", "duplicate", "found"}
      /\ DOMAIN st.list = {"chains", "clusters", "sorted", "num"}
      /\ IsSeq(cs) /\ \A i \in DOMAIN cs : ClusterOk(cs[i])
      /\ DOMAIN st.list.chains = Buckets
      /\ \A b \in Buckets : IsSeq(st.list.chains[b]) /\ Elems(st.list.chains[b]) \subseteq DOMAIN cs
      /\ st.duplicate \in BOOLEAN /\ st.found \in BOOLEAN
  BY DEF StateOk, ListOk
<1>2. CASE again
  <2>1. to = [st EXCEPT !.duplicate = TRUE]
    BY <1>2 DEF JoinCluster
  <2>2. /\ StateOk(to) /\ to.total = st.total /\ to.found = st.found /\ to.duplicate
        /\ to.list.chains = st.list.chains
    BY <2>1 DEF StateOk
  <2> QED  BY <2>2
<1>3. CASE ~ again
  <2> HIDE DEF again
  <2>1. to = [st EXCEPT !.list.clusters[c].records = Append(@, rec), !.cluster = c]
    BY <1>3 DEF JoinCluster, again
  <2>2. /\ DOMAIN to = DOMAIN st /\ to.cluster = c /\ to.total = st.total
        /\ to.duplicate = st.duplicate /\ to.found = st.found
        /\ DOMAIN to.list = DOMAIN st.list
        /\ to.list.chains = st.list.chains
        /\ to.list.clusters = [cs EXCEPT ![c] = joined]
    BY <1>1, <2>1
  <2>3. ClusterOk(joined) /\ joined.live = cs[c].live /\ joined.keys = cs[c].keys
        /\ joined.records = Append(cs[c].records, rec) /\ joined.tf = cs[c].tf
    <3>1. ClusterOk(cs[c])
      BY <1>1
    <3>2. IsSeq(Append(cs[c].records, rec))
      BY <3>1, SeqAppend DEF ClusterOk
    <3> QED  BY <3>1, <3>2 DEF ClusterOk, ClusterFields
  <2> HIDE DEF joined, to
  <2>4. /\ IsSeq(to.list.clusters) /\ DOMAIN to.list.clusters = DOMAIN cs
        /\ \A i \in DOMAIN cs : to.list.clusters[i] = IF i = c THEN joined ELSE cs[i]
    BY <1>1, <2>2, SeqExcept
  <2>5. StateOk(to)
    BY <1>1, <2>2, <2>3, <2>4 DEF StateOk, ListOk
  <2>6. ASSUME NEW i \in DOMAIN cs
        PROVE  /\ to.list.clusters[i].live = cs[i].live
               /\ KeySet(to.list, i) = KeySet(st.list, i)
               /\ to.list.clusters[i].records =
                     IF i = c THEN Append(cs[c].records, rec) ELSE cs[i].records
               /\ to.list.clusters[i].tf = cs[i].tf
    BY <2>3, <2>4 DEF KeySet
  <2> QED  BY <2>2, <2>4, <2>5, <2>6 DEF to
<1> QED  BY <1>2, <1>3

(* new_cluster.                                                            *)
LEMMA NewClusterIs ==
    ASSUME NEW st, StateOk(st), NEW rec, NEW keys, IsSeq(keys)
    PROVE  LET to == NewCluster(st, rec, keys)
               n == Len(st.list.clusters) + 1
           IN  /\ StateOk(to) /\ to.total = st.total + 1 /\ to.found = st.found
               /\ to.duplicate = st.duplicate /\ to.cluster = n
               /\ to.list.chains = st.list.chains
               /\ n \notin DOMAIN st.list.clusters
               /\ DOMAIN to.list.clusters = DOMAIN st.list.clusters \cup {n}
               /\ to.list.clusters[n].live /\ KeySet(to.list, n) = Elems(keys)
               /\ to.list.clusters[n].records = <<rec>> /\ to.list.clusters[n].tf = 0
               /\ \A i \in DOMAIN st.list.clusters : to.list.clusters[i] = st.list.clusters[i]
<1> DEFINE to == NewCluster(st, rec, keys)
           cs == st.list.clusters
           n == Len(cs) + 1
           new == [records |-> <<rec>>, keys |-> Union(<<>>, keys), recid |-> Head(keys),
                   live |-> TRUE, retrieval |-> st.list.num,
                   md |-> [f \in Fields |-> <<>>], sortkey |-> [f \in Fields |-> Absent],
                   tf |-> 0, score |-> 0]
<1>1. /\ DOMAIN st = {"list", "total", "cluster", "duplicate", "found"}
      /\ DOMAIN st.list = {"chains", "clusters", "sorted", "num"}
      /\ IsSeq(cs) /\ \A i \in DOMAIN cs : ClusterOk(cs[i])
      /\ DOMAIN st.list.chains = Buckets
      /\ \A b \in Buckets : IsSeq(st.list.chains[b]) /\ Elems(st.list.chains[b]) \subseteq DOMAIN cs
      /\ st.duplicate \in BOOLEAN /\ st.found \in BOOLEAN
  BY DEF StateOk, ListOk
<1> DEFINE list == [st.list EXCEPT !.clusters = Append(@, new), !.num = @ + 1, !.sorted = <<>>]
<1>2. to = [st EXCEPT !.list = list, !.cluster = Len(list.clusters), !.total = @ + 1]
  BY DEF NewCluster
<1>3. /\ ClusterOk(new) /\ new.live /\ Elems(new.keys) = Elems(keys) /\ new.records = <<rec>>
      /\ new.tf = 0
  <2>1. IsSeq(<<>>) /\ Elems(<<>>) = {}
    BY SeqEmpty
  <2>2. IsSeq(Union(<<>>, keys)) /\ Elems(Union(<<>>, keys)) = Elems(keys)
    BY <2>1, UnionIs
  <2>3. IsSeq(<<rec>>)
    <3>1. <<rec>> \in Seq({rec})
      OBVIOUS
    <3> QED  BY <3>1, SeqOver
  <2>4. DOMAIN new = ClusterFields
    BY DEF ClusterFields
  <2> QED  BY <2>2, <2>3, <2>4 DEF ClusterOk
<1> HIDE DEF new
<1>4. /\ DOMAIN to = DOMAIN st /\ to.total = st.total + 1
      /\ to.duplicate = st.duplicate /\ to.found = st.found /\ to.cluster = n
      /\ DOMAIN to.list = DOMAIN st.list
      /\ to.list.chains = st.list.chains
      /\ to.list.clusters = Append(cs, new)
  <2>1. /\ DOMAIN list = DOMAIN st.list /\ list.chains = st.list.chains
        /\ list.clusters = Append(cs, new)
    BY <1>1
  <2>2. Len(Append(cs, new)) = n
    BY <1>1, SeqAppend
  <2> HIDE DEF list, n, to
  <2>3. /\ DOMAIN to = DOMAIN st /\ to.list = list /\ to.duplicate = st.duplicate
        /\ to.found = st.found /\ to.cluster = Len(list.clusters) /\ to.total = st.total + 1
    BY <1>1, <1>2
  <2> QED  BY <2>1, <2>2, <2>3
<1> HIDE DEF to
<1>5. Len(cs) \in Nat /\ DOMAIN cs = 1 .. Len(cs)
  BY <1>1, SeqIs
<1>6. /\ IsSeq(to.list.clusters) /\ DOMAIN to.list.clusters = DOMAIN cs \cup {n}
      /\ n \notin DOMAIN cs
      /\ to.list.clusters[n] = new /\ \A i \in DOMAIN cs : to.list.clusters[i] = cs[i]
  <2>1. /\ IsSeq(Append(cs, new)) /\ Len(Append(cs, new)) = Len(cs) + 1
        /\ \A i \in DOMAIN cs : Append(cs, new)[i] = cs[i]
        /\ Append(cs, new)[Len(cs) + 1] = new
    BY <1>1, SeqAppend
  <2>2. DOMAIN Append(cs, new) = 1 .. Len(cs) + 1
    BY <2>1, SeqIs
  <2>3. 1 .. Len(cs) + 1 = DOMAIN cs \cup {n} /\ n \notin DOMAIN cs
    BY <1>5
  <2> QED  BY <1>4, <2>1, <2>2, <2>3
<1>7. StateOk(to)
  BY <1>1, <1>3, <1>4, <1>6 DEF StateOk, ListOk
<1> QED  BY <1>3, <1>4, <1>6, <1>7 DEF to, KeySet

(* A bucket is put at the end of a chain.                                  *)
LEMMA NewBucketIs ==
    ASSUME NEW st, StateOk(st), NEW key, Hash(key) \in Buckets,
           st.cluster \in DOMAIN st.list.clusters
    PROVE  LET to == NewBucket(st, key)
           IN  /\ StateOk(to) /\ to.total = st.total /\ to.found = st.found
               /\ to.duplicate = st.duplicate /\ to.cluster = st.cluster
               /\ to.list.clusters = st.list.clusters
               /\ \A b \in Buckets :
                     Elems(to.list.chains[b]) =
                        IF b = Hash(key) THEN Elems(st.list.chains[b]) \cup {st.cluster}
                        ELSE Elems(st.list.chains[b])
<1> DEFINE to == NewBucket(st, key)
           cs == st.list.clusters
           chains == st.list.chains
<1>1. /\ DOMAIN st = {"list", "total", "cluster", "duplicate", "found"}
      /\ DOMAIN st.list = {"chains", "clusters", "sorted", "num"}
      /\ IsSeq(cs) /\ \A i \in DOMAIN cs : ClusterOk(cs[i])
      /\ DOMAIN chains = Buckets
      /\ \A b \in Buckets : IsSeq(chains[b]) /\ Elems(chains[b]) \subseteq DOMAIN cs
      /\ st.duplicate \in BOOLEAN /\ st.found \in BOOLEAN
  BY DEF StateOk, ListOk
<1>2. /\ DOMAIN to = DOMAIN st /\ to.total = st.total /\ to.found = st.found
      /\ to.duplicate = st.duplicate /\ to.cluster = st.cluster
      /\ DOMAIN to.list = DOMAIN st.list /\ to.list.clusters = cs
      /\ to.list.chains = [chains EXCEPT ![Hash(key)] = Append(@, st.cluster)]
  BY <1>1 DEF NewBucket
<1>3. /\ DOMAIN to.list.chains = Buckets
      /\ to.list.chains[Hash(key)] = Append(chains[Hash(key)], st.cluster)
      /\ \A b \in Buckets : b # Hash(key) => to.list.chains[b] = chains[b]
  BY <1>1, <1>2
<1>4. /\ IsSeq(to.list.chains[Hash(key)])
      /\ Elems(to.list.chains[Hash(key)]) = Elems(chains[Hash(key)]) \cup {st.cluster}
  BY <1>1, <1>3, SeqAppend
<1> HIDE DEF to
<1>5. StateOk(to)
  BY <1>1, <1>2, <1>3, <1>4 DEF StateOk, ListOk
<1> QED  BY <1>2, <1>3, <1>4, <1>5 DEF to
-----------------------------------------------------------------------------
(* The records of the clusters, as the places they have there.             *)
Pairs(list) == UNION {{i} \X DOMAIN list.clusters[i].records : i \in Lives(list)}

(* The counters of a session are right.                                    *)
Counted(list, total, n) ==
    /\ IsFiniteSet(Pairs(list)) /\ n = Cardinality(Pairs(list))
    /\ IsFiniteSet(Lives(list)) /\ total = Cardinality(Lives(list))

(* What the three ways to insert a record do to clusters and their records.*)
JoinsCluster(list, to, c, rec) ==
    /\ DOMAIN to.clusters = DOMAIN list.clusters
    /\ \A i \in DOMAIN list.clusters :
          /\ to.clusters[i].live = list.clusters[i].live
          /\ to.clusters[i].records = IF i = c THEN Append(list.clusters[c].records, rec)
                                      ELSE list.clusters[i].records

AddsCluster(list, to, c, rec) ==
    /\ c \notin DOMAIN list.clusters
    /\ DOMAIN to.clusters = DOMAIN list.clusters \cup {c}
    /\ to.clusters[c].live /\ to.clusters[c].records = <<rec>>
    /\ \A i \in DOMAIN list.clusters : to.clusters[i] = list.clusters[i]

MergesClusters(list, to, src, dst) ==
    /\ DOMAIN to.clusters = DOMAIN list.clusters
    /\ \A i \in DOMAIN list.clusters :
          /\ to.clusters[i].live = (i # src /\ list.clusters[i].live)
          /\ to.clusters[i].records =
                IF i = dst THEN list.clusters[dst].records \o list.clusters[src].records
                ELSE list.clusters[i].records

(* A place in a cluster is a pair.                                         *)
LEMMA PairsAre ==
    ASSUME NEW list
    PROVE  \A p : p \in Pairs(list) <=>
              \E i \in Lives(list) : \E j \in DOMAIN list.clusters[i].records : p = <<i, j>>
  BY DEF Pairs

(* A span of places in a cluster.                                          *)
LEMMA SpanCounted ==
    ASSUME NEW i, NEW a \in Int, NEW b \in Int
    PROVE  /\ IsFiniteSet({i} \X (a .. b))
           /\ Cardinality({i} \X (a .. b)) = IF a > b THEN 0 ELSE b - a + 1
<1>1. IsFiniteSet({i}) /\ Cardinality({i}) = 1
  BY FS_Singleton
<1>2. /\ IsFiniteSet(a .. b)
      /\ Cardinality(a .. b) = IF a > b THEN 0 ELSE b - a + 1
  BY FS_Interval
<1>3. /\ IsFiniteSet({i} \X (a .. b))
      /\ Cardinality({i} \X (a .. b)) = Cardinality({i}) * Cardinality(a .. b)
  BY <1>1, <1>2, FS_Product
<1> QED  BY <1>1, <1>2, <1>3

(* A record that joins a cluster is one more.                              *)
LEMMA JoinCounted ==
    ASSUME NEW list, ListOk(list), NEW to, NEW c \in Lives(list), NEW rec, NEW total, NEW n,
           NEW n2, n2 = n + 1, Counted(list, total, n),
           JoinsCluster(list, to, c, rec)
    PROVE  Lives(to) = Lives(list) /\ Counted(to, total, n2)
<1> USE DEF JoinsCluster
<1>1. Lives(to) = Lives(list)
  BY DEF Lives
<1> DEFINE m == Len(list.clusters[c].records)
<1>2. /\ m \in Nat /\ DOMAIN list.clusters[c].records = 1 .. m
      /\ DOMAIN to.clusters[c].records = 1 .. m + 1
  <2>1. IsSeq(list.clusters[c].records)
    BY DEF Lives, ListOk, ClusterOk
  <2>2. /\ IsSeq(Append(list.clusters[c].records, rec))
        /\ Len(Append(list.clusters[c].records, rec)) = m + 1
    BY <2>1, SeqAppend
  <2>3. to.clusters[c].records = Append(list.clusters[c].records, rec)
    BY DEF Lives
  <2> QED  BY <2>1, <2>2, <2>3, SeqIs
<1> HIDE DEF m
<1>3. 1 .. m + 1 = (1 .. m) \cup {m + 1} /\ m + 1 \notin 1 .. m
  BY <1>2
<1>4. Pairs(to) = Pairs(list) \cup {<<c, m + 1>>}
  <2>1. ASSUME NEW i \in Lives(list), NEW j
        PROVE  j \in DOMAIN to.clusters[i].records
                 <=> j \in DOMAIN list.clusters[i].records \/ (i = c /\ j = m + 1)
    <3>1. CASE i = c
      BY <1>2, <1>3, <3>1
    <3>2. CASE i # c
      BY <3>2 DEF Lives
    <3> QED  BY <3>1, <3>2
  <2>2. ASSUME NEW p PROVE p \in Pairs(to) <=> p \in Pairs(list) \cup {<<c, m + 1>>}
    <3>1. p \in Pairs(to) <=> \E i \in Lives(list) : \E j \in DOMAIN to.clusters[i].records : p = <<i, j>>
      BY <1>1, PairsAre
    <3>2. p \in Pairs(list) <=> \E i \in Lives(list) : \E j \in DOMAIN list.clusters[i].records : p = <<i, j>>
      BY PairsAre
    <3> QED  BY <2>1, <3>1, <3>2
  <2> QED  BY <2>2
<1>5. <<c, m + 1>> \notin Pairs(list)
  <2> SUFFICES ASSUME <<c, m + 1>> \in Pairs(list) PROVE FALSE
    OBVIOUS
  <2>1. PICK i \in Lives(list) : \E j \in DOMAIN list.clusters[i].records : <<c, m + 1>> = <<i, j>>
    BY PairsAre
  <2> QED  BY <1>2, <1>3, <2>1
<1> HIDE DEF JoinsCluster
<1>6. IsFiniteSet(Pairs(to)) /\ Cardinality(Pairs(to)) = Cardinality(Pairs(list)) + 1
  <2>1. IsFiniteSet(Pairs(list))
    BY DEF Counted
  <2> QED  BY <1>4, <1>5, <2>1, FS_AddElement
<1> QED  BY <1>1, <1>6 DEF Counted

(* So is one in a new cluster.                                             *)
LEMMA NewCounted ==
    ASSUME NEW list, NEW to, NEW c, NEW rec, NEW total, NEW n,
           NEW total2, total2 = total + 1, NEW n2, n2 = n + 1, Counted(list, total, n),
           AddsCluster(list, to, c, rec)
    PROVE  Lives(to) = Lives(list) \cup {c} /\ Counted(to, total2, n2)
<1> USE DEF AddsCluster
<1>1. Lives(to) = Lives(list) \cup {c} /\ c \notin Lives(list)
  BY DEF Lives
<1>2. IsFiniteSet(Lives(to)) /\ Cardinality(Lives(to)) = Cardinality(Lives(list)) + 1
  BY <1>1, FS_AddElement DEF Counted
<1>3. DOMAIN to.clusters[c].records = {1}
  <2>1. DOMAIN <<rec>> = 1 .. 1
    OBVIOUS
  <2> QED  BY <2>1
<1>4. Pairs(to) = Pairs(list) \cup {<<c, 1>>}
  <2>1. ASSUME NEW p PROVE p \in Pairs(to) <=> p \in Pairs(list) \cup {<<c, 1>>}
    <3>1. p \in Pairs(to) <=> \E i \in Lives(list) \cup {c} : \E j \in DOMAIN to.clusters[i].records : p = <<i, j>>
      BY <1>1, PairsAre
    <3>2. p \in Pairs(list) <=> \E i \in Lives(list) : \E j \in DOMAIN list.clusters[i].records : p = <<i, j>>
      BY PairsAre
    <3>3. \A i \in Lives(list) : to.clusters[i] = list.clusters[i]
      BY DEF Lives
    <3> QED  BY <1>3, <3>1, <3>2, <3>3
  <2> QED  BY <2>1
<1>5. <<c, 1>> \notin Pairs(list)
  <2> SUFFICES ASSUME <<c, 1>> \in Pairs(list) PROVE FALSE
    OBVIOUS
  <2>1. PICK i \in Lives(list) : \E j \in DOMAIN list.clusters[i].records : <<c, 1>> = <<i, j>>
    BY PairsAre
  <2> QED  BY <1>1, <2>1
<1> HIDE DEF AddsCluster
<1>6. IsFiniteSet(Pairs(to)) /\ Cardinality(Pairs(to)) = Cardinality(Pairs(list)) + 1
  <2>1. IsFiniteSet(Pairs(list))
    BY DEF Counted
  <2> QED  BY <1>4, <1>5, <2>1, FS_AddElement
<1> QED  BY <1>1, <1>2, <1>6 DEF Counted

(* Merging clusters takes one cluster away, and no record.                 *)
LEMMA MergeCounted ==
    ASSUME NEW list, ListOk(list), NEW to, NEW src \in Lives(list), NEW dst \in Lives(list),
           src # dst, NEW total, NEW n, NEW total2, total2 = total - 1, Counted(list, total, n),
           MergesClusters(list, to, src, dst)
    PROVE  Lives(to) = Lives(list) \ {src} /\ Counted(to, total2, n)
<1> USE DEF MergesClusters
<1>1. Lives(to) = Lives(list) \ {src}
  <2>1. \A i \in DOMAIN list.clusters : list.clusters[i].live \in BOOLEAN
    BY DEF ListOk, ClusterOk
  <2> QED  BY <2>1 DEF Lives
<1>2. IsFiniteSet(Lives(to)) /\ Cardinality(Lives(to)) = Cardinality(Lives(list)) - 1
  BY <1>1, FS_RemoveElement DEF Counted
<1> DEFINE m == Len(list.clusters[dst].records)
           q == Len(list.clusters[src].records)
           P == Pairs(list)
           A == {src} \X (1 .. q)
           B == {dst} \X (m + 1 .. m + q)
<1>3. /\ m \in Nat /\ DOMAIN list.clusters[dst].records = 1 .. m
      /\ q \in Nat /\ DOMAIN list.clusters[src].records = 1 .. q
      /\ DOMAIN to.clusters[dst].records = 1 .. m + q
  <2>1. IsSeq(list.clusters[dst].records) /\ IsSeq(list.clusters[src].records)
    BY DEF Lives, ListOk, ClusterOk
  <2>2. /\ IsSeq(list.clusters[dst].records \o list.clusters[src].records)
        /\ Len(list.clusters[dst].records \o list.clusters[src].records) = m + q
    BY <2>1, SeqConcat
  <2>3. to.clusters[dst].records = list.clusters[dst].records \o list.clusters[src].records
    BY DEF Lives
  <2> QED  BY <2>1, <2>2, <2>3, SeqIs
<1> HIDE DEF m, q
<1>4. 1 .. m + q = (1 .. m) \cup (m + 1 .. m + q)
      /\ (1 .. m) \cap (m + 1 .. m + q) = {}
  BY <1>3
<1>5. Pairs(to) = (P \ A) \cup B
  <2>1. ASSUME NEW i \in Lives(list), i # src, NEW j
        PROVE  j \in DOMAIN to.clusters[i].records
                 <=> j \in DOMAIN list.clusters[i].records \/ (i = dst /\ j \in m + 1 .. m + q)
    <3>1. CASE i = dst
      BY <1>3, <1>4, <3>1
    <3>2. CASE i # dst
      BY <3>2 DEF Lives
    <3> QED  BY <3>1, <3>2
  <2>2. ASSUME NEW p PROVE p \in Pairs(to) <=> p \in (P \ A) \cup B
    <3>1. p \in Pairs(to) <=> \E i \in Lives(list) \ {src} : \E j \in DOMAIN to.clusters[i].records : p = <<i, j>>
      BY <1>1, PairsAre
    <3>2. p \in P <=> \E i \in Lives(list) : \E j \in DOMAIN list.clusters[i].records : p = <<i, j>>
      BY PairsAre
    <3>3. p \in A <=> \E j \in DOMAIN list.clusters[src].records : p = <<src, j>>
      BY <1>3, <1>4
    <3>4. p \in B <=> \E j \in m + 1 .. m + q : p = <<dst, j>>
      OBVIOUS
    <3>5. p \in P \ A <=> \E i \in Lives(list) \ {src} : \E j \in DOMAIN list.clusters[i].records : p = <<i, j>>
      BY <3>2, <3>3
    <3> HIDE DEF P, A, B
    <3>6. (\E i \in Lives(list) \ {src} : \E j \in DOMAIN to.clusters[i].records : p = <<i, j>>)
            <=> \/ \E i \in Lives(list) \ {src} : \E j \in DOMAIN list.clusters[i].records : p = <<i, j>>
                \/ \E j \in m + 1 .. m + q : p = <<dst, j>>
      BY <2>1
    <3> QED  BY <3>1, <3>4, <3>5, <3>6
  <2> HIDE DEF P, A, B
  <2> QED  BY <2>2
<1>6. A \subseteq P /\ B \cap P = {}
  <2>1. ASSUME NEW p \in A PROVE p \in P
    <3>1. \E j \in DOMAIN list.clusters[src].records : p = <<src, j>>
      BY <1>3, <1>4
    <3> QED  BY <3>1, PairsAre
  <2>2. ASSUME NEW p \in B, p \in P PROVE FALSE
    <3>1. PICK j \in m + 1 .. m + q : p = <<dst, j>>
      OBVIOUS
    <3>2. PICK i \in Lives(list) : \E k \in DOMAIN list.clusters[i].records : p = <<i, k>>
      BY <2>2, PairsAre
    <3>3. i = dst /\ j \in DOMAIN list.clusters[dst].records
      BY <3>1, <3>2
    <3> QED  BY <1>3, <1>4, <3>3
  <2> HIDE DEF P, A, B
  <2> QED  BY <2>1, <2>2
<1>7. IsFiniteSet(A) /\ Cardinality(A) = q /\ IsFiniteSet(B) /\ Cardinality(B) = q
  <2>1. IsFiniteSet(A) /\ Cardinality(A) = IF 1 > q THEN 0 ELSE q - 1 + 1
    <3>1. 1 \in Int /\ q \in Int
      BY <1>3
    <3> QED  BY <3>1, SpanCounted
  <2>2. IsFiniteSet(B) /\ Cardinality(B) = IF m + 1 > m + q THEN 0 ELSE (m + q) - (m + 1) + 1
    <3>1. m + 1 \in Int /\ m + q \in Int
      BY <1>3
    <3> QED  BY <3>1, SpanCounted
  <2> QED  BY <1>3, <2>1, <2>2
<1>8. IsFiniteSet(P)
  BY DEF Counted
<1> HIDE DEF P, A, B
<1>9. IsFiniteSet(P \ A) /\ Cardinality(P \ A) = Cardinality(P) - q /\ Cardinality(P) \in Nat
  <2>1. P \cap A = A
    BY <1>6
  <2>2. IsFiniteSet(P \ A) /\ Cardinality(P \ A) = Cardinality(P) - Cardinality(P \cap A)
    BY <1>8, FS_Difference
  <2>3. Cardinality(P) \in Nat
    BY <1>8, FS_CardinalityType
  <2> QED  BY <1>7, <2>1, <2>2, <2>3
<1>10. IsFiniteSet((P \ A) \cup B) /\ Cardinality((P \ A) \cup B) = Cardinality(P)
  <2>1. (P \ A) \cap B = {}
    BY <1>6
  <2>2. Cardinality({}) = 0
    BY FS_EmptySet
  <2> DEFINE C == P \ A
  <2>3. IsFiniteSet(C) /\ Cardinality(C) = Cardinality(P) - q
    BY <1>9
  <2> HIDE DEF C
  <2>4. /\ IsFiniteSet(C \cup B)
        /\ Cardinality(C \cup B) = Cardinality(C) + Cardinality(B) - Cardinality(C \cap B)
    BY <1>7, <2>3, FS_Union
  <2>5. Cardinality(C \cap B) = 0
    BY <2>1, <2>2 DEF C
  <2>6. Cardinality(C \cup B) = Cardinality(P)
    BY <1>3, <1>7, <1>9, <2>3, <2>4, <2>5
  <2> QED  BY <2>4, <2>6 DEF C
<1> QED  BY <1>1, <1>2, <1>5, <1>10 DEF Counted, P
-----------------------------------------------------------------------------
(* A bucket in the chain of a key leads to cluster i.                      *)
Leads(list, i, key) == i \in Elems(list.chains[Hash(key)])

(* Each cluster has keys, ...                                              *)
HaveKeys(list) ==
    \A i \in DOMAIN list.clusters :
        KeySet(list, i) # {} /\ \A k \in KeySet(list, i) : Hash(k) \in Buckets

(* ... which lead to it, but for those of the keys `rem` of a record that  *)
(* are still to come, in its cluster c; ...                                *)
KeysLead(list, c, rem) ==
    \A i \in Lives(list) : \A k \in KeySet(list, i) : Leads(list, i, k) \/ (i = c /\ k \in rem)

(* ... which no other cluster has, with the same exception; ...            *)
KeysApart(list, c, rem) ==
    \A i, j \in Lives(list) : \A k \in KeySet(list, i) \cap KeySet(list, j) :
        i # j => k \in rem /\ (i = c \/ j = c)

(* ... and which no longer lead to it once it was merged into another.     *)
KeysGone(list) ==
    \A i \in DOMAIN list.clusters : ~ list.clusters[i].live =>
        \A k \in KeySet(list, i) : ~ Leads(list, i, k)

(* Keys and chains, with keys `rem` of a record to come in cluster c.      *)
Keyed(list, c, rem) ==
    /\ HaveKeys(list) /\ KeysLead(list, c, rem)
    /\ KeysApart(list, c, rem) /\ KeysGone(list)

(* reclist_insert, with keys `rem` to come, in a list that had n records.  *)
Underway(st, rem, n) ==
    /\ st.cluster \in Lives(st.list) \cup {0}
    /\ Keyed(st.list, st.cluster, rem)
    /\ Counted(st.list, st.total, IF st.cluster = 0 THEN n ELSE n + 1)

(* What a bucket leads to.                                                 *)
LEMMA Chained ==
    ASSUME NEW list, ListOk(list), NEW b \in Buckets
    PROVE  /\ DOMAIN list.chains[b] = 1 .. Len(list.chains[b]) /\ Len(list.chains[b]) \in Nat
           /\ \A j \in DOMAIN list.chains[b] :
                 list.chains[b][j] \in DOMAIN list.clusters /\ list.chains[b][j] \in Elems(list.chains[b])
           /\ \A i \in Elems(list.chains[b]) : \E j \in DOMAIN list.chains[b] : i = list.chains[b][j]
<1>1. IsSeq(list.chains[b]) /\ Elems(list.chains[b]) \subseteq DOMAIN list.clusters
  BY DEF ListOk
<1> QED  BY <1>1, SeqIs

(* A cluster that a bucket of one of its keys leads to is not gone.        *)
LEMMA LedLives ==
    ASSUME NEW list, ListOk(list), KeysGone(list), NEW i \in DOMAIN list.clusters,
           NEW k \in KeySet(list, i), Leads(list, i, k)
    PROVE  i \in Lives(list)
  BY DEF KeysGone, Lives, ListOk, ClusterOk

(* Merging keeps this.                                                     *)
LEMMA MergeKeyed ==
    ASSUME NEW st, StateOk(st), NEW rem, NEW n, Underway(st, rem, n),
           NEW src \in Lives(st.list), st.cluster \in Lives(st.list), src # st.cluster
    PROVE  Underway(MergeCluster(st, src), rem, n)
<1> DEFINE to == MergeCluster(st, src)
           dst == st.cluster
           list == st.list
           cs == list.clusters
<1>1. src \in DOMAIN cs /\ dst \in DOMAIN cs /\ ListOk(list)
  BY DEF Lives, StateOk
<1>2. /\ StateOk(to) /\ to.cluster = dst /\ to.total = st.total - 1
      /\ DOMAIN to.list.clusters = DOMAIN cs
      /\ \A i \in DOMAIN cs :
            /\ to.list.clusters[i].live = (i # src /\ cs[i].live)
            /\ KeySet(to.list, i) = IF i = dst THEN KeySet(list, dst) \cup KeySet(list, src)
                                    ELSE KeySet(list, i)
            /\ to.list.clusters[i].records =
                  IF i = dst THEN cs[dst].records \o cs[src].records ELSE cs[i].records
      /\ \A b \in Buckets :
            /\ DOMAIN to.list.chains[b] = DOMAIN list.chains[b]
            /\ \A j \in DOMAIN list.chains[b] :
                  to.list.chains[b][j] =
                     IF list.chains[b][j] = src /\ \E k \in KeySet(list, src) : Hash(k) = b
                     THEN dst ELSE list.chains[b][j]
  <2>1. /\ StateOk(to) /\ to.cluster = dst /\ to.total = st.total - 1
        /\ DOMAIN to.list.clusters = DOMAIN cs
    BY <1>1, MergeIs
  <2>2. ASSUME NEW i \in DOMAIN cs
        PROVE  /\ to.list.clusters[i].live = (i # src /\ cs[i].live)
               /\ KeySet(to.list, i) = IF i = dst THEN KeySet(list, dst) \cup KeySet(list, src)
                                       ELSE KeySet(list, i)
               /\ to.list.clusters[i].records =
                     IF i = dst THEN cs[dst].records \o cs[src].records ELSE cs[i].records
    <3>1. to.list.clusters[i].live = (i # src /\ cs[i].live)
      BY <1>1, MergeIs
    <3>2. KeySet(to.list, i) = IF i = dst THEN KeySet(list, dst) \cup KeySet(list, src)
                               ELSE KeySet(list, i)
      BY <1>1, MergeIs
    <3>3. to.list.clusters[i].records =
             IF i = dst THEN cs[dst].records \o cs[src].records ELSE cs[i].records
      BY <1>1, MergeIs
    <3> QED  BY <3>1, <3>2, <3>3
  <2>3. ASSUME NEW b \in Buckets
        PROVE  /\ DOMAIN to.list.chains[b] = DOMAIN list.chains[b]
               /\ \A j \in DOMAIN list.chains[b] :
                     to.list.chains[b][j] =
                        IF list.chains[b][j] = src /\ \E k \in KeySet(list, src) : Hash(k) = b
                        THEN dst ELSE list.chains[b][j]
    BY <1>1, MergeIs
  <2> HIDE DEF to
  <2> QED  BY <2>1, <2>2, <2>3
<1>3. Counted(list, st.total, IF st.cluster = 0 THEN n ELSE n + 1)
  BY DEF Underway
<1> DEFINE m == IF st.cluster = 0 THEN n ELSE n + 1
<1>4. Lives(to.list) = Lives(list) \ {src} /\ Counted(to.list, to.total, m)
  <2> HIDE DEF m, to
  <2>1. Counted(list, st.total, m)
    BY <1>3 DEF m
  <2>2. MergesClusters(list, to.list, src, dst)
    BY <1>2 DEF MergesClusters
  <2>3. to.total = st.total - 1
    BY <1>2
  <2> QED  BY <1>1, <2>1, <2>2, <2>3, MergeCounted
<1> HIDE DEF m, to
<1>5. HaveKeys(list) /\ KeysLead(list, dst, rem) /\ KeysApart(list, dst, rem) /\ KeysGone(list)
  BY DEF Underway, Keyed
<1>6. HaveKeys(to.list)
  BY <1>1, <1>2, <1>5 DEF HaveKeys
<1>7. ASSUME NEW b \in Buckets
      PROVE  /\ \A i \in Elems(list.chains[b]) : i # src => i \in Elems(to.list.chains[b])
             /\ \A i \in Elems(to.list.chains[b]) : i # dst => i \in Elems(list.chains[b])
             /\ (\E k \in KeySet(list, src) : Hash(k) = b) =>
                   /\ src \notin Elems(to.list.chains[b])
                   /\ src \in Elems(list.chains[b]) => dst \in Elems(to.list.chains[b])
  <2>1. /\ DOMAIN to.list.chains[b] = DOMAIN list.chains[b]
        /\ \A j \in DOMAIN list.chains[b] :
              to.list.chains[b][j] =
                 IF list.chains[b][j] = src /\ \E k \in KeySet(list, src) : Hash(k) = b
                 THEN dst ELSE list.chains[b][j]
    BY <1>2
  <2> QED  BY <2>1 DEF Elems
<1>8. KeysLead(to.list, dst, rem)
  <2> SUFFICES ASSUME NEW i \in Lives(to.list), NEW k \in KeySet(to.list, i), ~(i = dst /\ k \in rem)
               PROVE  Leads(to.list, i, k)
    BY DEF KeysLead
  <2>1. i \in Lives(list) /\ i # src /\ i \in DOMAIN cs
    BY <1>4 DEF Lives
  <2>2. CASE k \in KeySet(list, i)
    <3>1. Hash(k) \in Buckets /\ Leads(list, i, k)
      BY <1>5, <2>1, <2>2 DEF HaveKeys, KeysLead
    <3> QED  BY <1>7, <2>1, <3>1 DEF Leads
  <2>3. CASE i = dst /\ k \in KeySet(list, src)
    <3>1. Hash(k) \in Buckets /\ Leads(list, src, k)
      BY <1>1, <1>5, <2>3 DEF HaveKeys, KeysLead
    <3> QED  BY <1>7, <2>3, <3>1 DEF Leads
  <2> QED  BY <1>2, <2>1, <2>2, <2>3
<1>9. KeysApart(to.list, dst, rem)
  <2> SUFFICES ASSUME NEW i \in Lives(to.list), NEW j \in Lives(to.list),
                      NEW k \in KeySet(to.list, i) \cap KeySet(to.list, j), i # j
               PROVE  k \in rem /\ (i = dst \/ j = dst)
    BY DEF KeysApart
  <2>1. /\ i \in Lives(list) /\ i # src /\ i \in DOMAIN cs
        /\ j \in Lives(list) /\ j # src /\ j \in DOMAIN cs
    BY <1>4 DEF Lives
  <2>2. /\ k \in KeySet(list, i) \/ (i = dst /\ k \in KeySet(list, src))
        /\ k \in KeySet(list, j) \/ (j = dst /\ k \in KeySet(list, src))
    BY <1>2, <2>1
  <2>3. CASE k \in KeySet(list, i) /\ k \in KeySet(list, j)
    BY <1>5, <2>1, <2>3 DEF KeysApart
  <2>4. CASE i = dst /\ k \in KeySet(list, src) /\ k \in KeySet(list, j)
    BY <1>5, <2>1, <2>4 DEF KeysApart
  <2>5. CASE j = dst /\ k \in KeySet(list, src) /\ k \in KeySet(list, i)
    BY <1>5, <2>1, <2>5 DEF KeysApart
  <2> QED  BY <2>2, <2>3, <2>4, <2>5
<1>10. KeysGone(to.list)
  <2> SUFFICES ASSUME NEW i \in DOMAIN cs, ~ to.list.clusters[i].live, NEW k \in KeySet(to.list, i)
               PROVE  ~ Leads(to.list, i, k)
    BY <1>2 DEF KeysGone
  <2>1. i # dst /\ k \in KeySet(list, i) /\ Hash(k) \in Buckets
    <3>1. i # dst
      BY <1>2 DEF Lives
    <3> QED  BY <1>2, <1>5, <3>1 DEF HaveKeys
  <2>2. CASE i = src
    BY <1>7, <2>1, <2>2 DEF Leads
  <2>3. CASE i # src
    <3>1. ~ Leads(list, i, k)
      BY <1>2, <1>5, <2>1, <2>3 DEF KeysGone
    <3> QED  BY <1>7, <2>1, <3>1 DEF Leads
  <2> QED  BY <2>2, <2>3
<1>11. to.cluster \in Lives(to.list) \cup {0}
  BY <1>2, <1>4
<1>12. Counted(to.list, to.total, IF to.cluster = 0 THEN n ELSE n + 1)
  BY <1>2, <1>4 DEF m
<1> QED  BY <1>2, <1>6, <1>8, <1>9, <1>10, <1>11, <1>12 DEF Underway, Keyed, to
-----------------------------------------------------------------------------
(* A list whose clusters have the same keys and buckets.                   *)
LEMMA SameKeyed ==
    ASSUME NEW list, NEW to, NEW c, NEW rem, Keyed(list, c, rem),
           to.chains = list.chains,
           DOMAIN to.clusters = DOMAIN list.clusters,
           \A i \in DOMAIN list.clusters :
              to.clusters[i].live = list.clusters[i].live /\ KeySet(to, i) = KeySet(list, i)
    PROVE  Keyed(to, c, rem) /\ Lives(to) = Lives(list)
<1>1. Lives(to) = Lives(list)
  BY DEF Lives
<1>2. \A i, k : Leads(to, i, k) <=> Leads(list, i, k)
  BY DEF Leads
<1>3. HaveKeys(to)
  BY DEF Keyed, HaveKeys
<1>4. \A i \in Lives(list) : i \in DOMAIN list.clusters
  BY DEF Lives
<1>5. KeysLead(to, c, rem)
  BY <1>1, <1>2, <1>4 DEF Keyed, KeysLead
<1>6. KeysApart(to, c, rem)
  BY <1>1, <1>4 DEF Keyed, KeysApart
<1>7. KeysGone(to)
  BY <1>2 DEF Keyed, KeysGone
<1> QED  BY <1>1, <1>3, <1>5, <1>6, <1>7 DEF Keyed

(* No cluster has the number 0.                                            *)
LEMMA NotZero ==
    ASSUME NEW list, ListOk(list)
    PROVE  0 \notin DOMAIN list.clusters /\ Lives(list) \subseteq DOMAIN list.clusters
<1>1. DOMAIN list.clusters = 1 .. Len(list.clusters) /\ Len(list.clusters) \in Nat
  BY SeqIs DEF ListOk
<1> QED  BY <1>1 DEF Lives

(* The first cluster a record comes to.                                    *)
LEMMA JoinKeyed ==
    ASSUME NEW st, StateOk(st), NEW rem, NEW n, Underway(st, rem, n), st.cluster = 0,
           NEW c \in Lives(st.list), NEW rec
    PROVE  LET to == JoinCluster(st, c, rec)
           IN  ~ to.duplicate => Underway(to, rem, n) /\ to.cluster = c
                                 /\ to.list.chains = st.list.chains
                                 /\ \A i \in DOMAIN st.list.clusters :
                                       KeySet(to.list, i) = KeySet(st.list, i)
<1> DEFINE to == JoinCluster(st, c, rec)
           list == st.list
<1> SUFFICES ASSUME ~ to.duplicate
             PROVE  Underway(to, rem, n) /\ to.cluster = c
                    /\ to.list.chains = list.chains
                    /\ \A i \in DOMAIN list.clusters : KeySet(to.list, i) = KeySet(list, i)
  OBVIOUS
<1>1. c \in DOMAIN list.clusters /\ ListOk(list) /\ 0 \notin DOMAIN list.clusters
  BY NotZero DEF StateOk
<1>2. /\ to.total = st.total /\ to.cluster = c
      /\ to.list.chains = list.chains
      /\ DOMAIN to.list.clusters = DOMAIN list.clusters
      /\ \A i \in DOMAIN list.clusters :
            /\ to.list.clusters[i].live = list.clusters[i].live
            /\ KeySet(to.list, i) = KeySet(list, i)
            /\ to.list.clusters[i].records =
                  IF i = c THEN Append(list.clusters[c].records, rec)
                  ELSE list.clusters[i].records
  BY <1>1, JoinIs
<1> HIDE DEF to
<1>3. Keyed(list, c, rem)
  <2>1. Keyed(list, 0, rem)
    BY DEF Underway
  <2>2. \A i \in Lives(list) : i # 0
    BY <1>1 DEF Lives
  <2> QED  BY <2>1, <2>2 DEF Keyed, KeysLead, KeysApart
<1>4. Keyed(to.list, c, rem)
  BY <1>2, <1>3, SameKeyed
<1>5. Lives(to.list) = Lives(list) /\ Counted(to.list, to.total, n + 1)
  <2>1. JoinsCluster(list, to.list, c, rec)
    BY <1>2 DEF JoinsCluster
  <2>2. Counted(list, to.total, n)
    BY <1>2 DEF Underway
  <2> QED  BY <1>1, <2>1, <2>2, JoinCounted
<1>6. c # 0
  BY <1>1
<1> QED  BY <1>2, <1>4, <1>5, <1>6 DEF Underway

(* A new cluster, when all keys are still to come.                         *)
LEMMA NewKeyed ==
    ASSUME NEW st, StateOk(st), NEW rem, NEW n, Underway(st, rem, n), st.cluster = 0,
           NEW rec, NEW keys, IsSeq(keys), Elems(keys) # {}, Elems(keys) \subseteq rem,
           \A k \in Elems(keys) : Hash(k) \in Buckets
    PROVE  LET to == NewCluster(st, rec, keys)
           IN  Underway(to, rem, n) /\ to.cluster \in Lives(to.list)
<1> DEFINE to == NewCluster(st, rec, keys)
           list == st.list
           c == Len(list.clusters) + 1
<1>1. ListOk(list) /\ 0 \notin DOMAIN list.clusters
  BY NotZero DEF StateOk
<1>2. /\ StateOk(to) /\ to.total = st.total + 1
      /\ to.cluster = c /\ to.list.chains = list.chains
      /\ c \notin DOMAIN list.clusters
      /\ DOMAIN to.list.clusters = DOMAIN list.clusters \cup {c}
      /\ to.list.clusters[c].live /\ KeySet(to.list, c) = Elems(keys)
      /\ to.list.clusters[c].records = <<rec>>
      /\ \A i \in DOMAIN list.clusters : to.list.clusters[i] = list.clusters[i]
  BY NewClusterIs
<1>3. c # 0
  BY <1>1, SeqIs DEF ListOk
<1> HIDE DEF to, c
<1>4. Lives(to.list) = Lives(list) \cup {c} /\ Counted(to.list, to.total, n + 1)
  <2>1. AddsCluster(list, to.list, c, rec)
    BY <1>2 DEF AddsCluster
  <2>2. Counted(list, st.total, n)
    BY DEF Underway
  <2> QED  BY <1>2, <2>1, <2>2, NewCounted
<1>5. HaveKeys(list) /\ KeysLead(list, 0, rem) /\ KeysApart(list, 0, rem) /\ KeysGone(list)
  BY DEF Underway, Keyed
<1>6. /\ \A i \in DOMAIN list.clusters : KeySet(to.list, i) = KeySet(list, i)
      /\ \A i, k : Leads(to.list, i, k) <=> Leads(list, i, k)
      /\ \A i \in Lives(list) : i \in DOMAIN list.clusters /\ i # c /\ i # 0
  BY <1>1, <1>2 DEF KeySet, Leads, Lives
<1>7. HaveKeys(to.list)
  BY <1>2, <1>5, <1>6 DEF HaveKeys
<1>8. KeysLead(to.list, c, rem)
  BY <1>2, <1>4, <1>5, <1>6 DEF KeysLead
<1>9. KeysApart(to.list, c, rem)
  BY <1>2, <1>4, <1>5, <1>6 DEF KeysApart
<1>10. KeysGone(to.list)
  BY <1>2, <1>5, <1>6 DEF KeysGone
<1> QED  BY <1>2, <1>3, <1>4, <1>7, <1>8, <1>9, <1>10 DEF Underway, Keyed, to

(* A bucket that leads to the cluster of the record.                       *)
LEMMA BucketKeyed ==
    ASSUME NEW st, StateOk(st), NEW rem, NEW n, Underway(st, rem, n),
           st.cluster \in Lives(st.list), NEW key, Hash(key) \in Buckets
    PROVE  LET to == NewBucket(st, key)
           IN  Underway(to, rem, n) /\ Leads(to.list, to.cluster, key)
<1> DEFINE to == NewBucket(st, key)
           list == st.list
           c == st.cluster
<1>1. ListOk(list) /\ c \in DOMAIN list.clusters
  BY DEF StateOk, Lives
<1>2. /\ to.total = st.total /\ to.cluster = c
      /\ to.list.clusters = list.clusters
      /\ \A b \in Buckets :
            Elems(to.list.chains[b]) = IF b = Hash(key) THEN Elems(list.chains[b]) \cup {c}
                                       ELSE Elems(list.chains[b])
  BY <1>1, NewBucketIs
<1> HIDE DEF to
<1>3. Lives(to.list) = Lives(list) /\ \A i : KeySet(to.list, i) = KeySet(list, i)
  BY <1>2 DEF Lives, KeySet
<1>4. Counted(to.list, to.total, IF to.cluster = 0 THEN n ELSE n + 1)
  <2>1. Pairs(to.list) = Pairs(list)
    BY <1>2, <1>3 DEF Pairs
  <2> QED  BY <1>2, <1>3, <2>1 DEF Underway, Counted
<1>5. HaveKeys(list) /\ KeysLead(list, c, rem) /\ KeysApart(list, c, rem) /\ KeysGone(list)
  BY DEF Underway, Keyed
<1>6. \A i, k : Hash(k) \in Buckets =>
         (Leads(to.list, i, k) <=> Leads(list, i, k) \/ (Hash(k) = Hash(key) /\ i = c))
  BY <1>2 DEF Leads
<1>7. HaveKeys(to.list)
  BY <1>2, <1>3, <1>5 DEF HaveKeys
<1>8. \A i \in Lives(list) : \A k \in KeySet(list, i) : Hash(k) \in Buckets
  BY <1>5 DEF HaveKeys, Lives
<1>9. KeysLead(to.list, c, rem)
  BY <1>3, <1>5, <1>6, <1>8 DEF KeysLead
<1>10. KeysApart(to.list, c, rem)
  BY <1>3, <1>5 DEF KeysApart
<1>11. KeysGone(to.list)
  <2> SUFFICES ASSUME NEW i \in DOMAIN list.clusters, ~ list.clusters[i].live, NEW k \in KeySet(list, i)
               PROVE  ~ Leads(to.list, i, k)
    BY <1>2, <1>3 DEF KeysGone
  <2>1. i # c /\ Hash(k) \in Buckets /\ ~ Leads(list, i, k)
    BY <1>5 DEF Lives, HaveKeys, KeysGone
  <2> QED  BY <1>6, <2>1
<1>12. Leads(to.list, to.cluster, key)
  BY <1>2, <1>6
<1> QED  BY <1>2, <1>3, <1>4, <1>7, <1>9, <1>10, <1>11, <1>12 DEF Underway, Keyed, to

(* A key is done with when it leads to the cluster of the record, and no   *)
(* other cluster has it.                                                   *)
LEMMA KeyDone ==
    ASSUME NEW st, NEW rem, NEW n, Underway(st, rem, n), NEW key,
           Leads(st.list, st.cluster, key),
           \A i \in Lives(st.list) : key \in KeySet(st.list, i) => i = st.cluster
    PROVE  Underway(st, rem \ {key}, n)
<1>1. KeysLead(st.list, st.cluster, rem \ {key})
  BY DEF Underway, Keyed, KeysLead
<1>2. KeysApart(st.list, st.cluster, rem \ {key})
  BY DEF Underway, Keyed, KeysApart
<1> QED  BY <1>1, <1>2 DEF Underway, Keyed
-----------------------------------------------------------------------------
(* The first t buckets of the chain of a key lead to the cluster of the    *)
(* record, or to one that has not got the key.                             *)
Scanned(st, key, t) ==
    /\ \A p \in 1 .. t : key \in KeySet(st.list, st.list.chains[Hash(key)][p]) =>
          st.list.chains[Hash(key)][p] = st.cluster /\ st.found
    /\ st.found => Leads(st.list, st.cluster, key)

(* The state of a scan.                                                    *)
Scanning(st, key, rem, n, t) ==
    StateOk(st) /\ (st.duplicate \/ (Underway(st, rem, n) /\ Scanned(st, key, t)))

(* One bucket.                                                             *)
LEMMA MeetBucketKeeps ==
    ASSUME NEW st, NEW rem, NEW n, NEW key, Hash(key) \in Buckets, NEW rec,
           NEW t \in 1 .. Len(st.list.chains[Hash(key)]), Scanning(st, key, rem, n, t - 1)
    PROVE  LET to == MeetBucket(st, t, rec, key)
           IN  /\ Scanning(to, key, rem, n, t)
               /\ DOMAIN to.list.chains[Hash(key)] = DOMAIN st.list.chains[Hash(key)]
               /\ st.cluster # 0 => to.cluster # 0
               /\ st.duplicate => to.duplicate
<1> DEFINE to == MeetBucket(st, t, rec, key)
           list == st.list
           chain == list.chains[Hash(key)]
           c == chain[t]
<1>1. StateOk(st) /\ ListOk(list)
  BY DEF Scanning, StateOk
<1>2. /\ Len(chain) \in Nat /\ DOMAIN chain = 1 .. Len(chain)
      /\ \A p \in DOMAIN chain : chain[p] \in DOMAIN list.clusters /\ chain[p] \in Elems(chain)
  BY <1>1, Chained
<1>3. t \in DOMAIN chain /\ c \in DOMAIN list.clusters /\ c \in Elems(chain)
  BY <1>2
<1>4. CASE st.duplicate
  <2>1. to = st
    BY <1>4 DEF MeetBucket
  <2> QED  BY <1>1, <1>4, <2>1 DEF Scanning
<1> DEFINE rest == 1 .. t - 1
<1>5. 1 .. t = rest \cup {t} /\ rest \subseteq DOMAIN chain
  BY <1>2
<1> HIDE DEF rest, to
<1>6. ASSUME ~ st.duplicate
      PROVE  /\ Underway(st, rem, n) /\ Keyed(list, st.cluster, rem)
             /\ st.cluster \in Lives(list) \cup {0}
             /\ \A p \in rest : key \in KeySet(list, chain[p]) => chain[p] = st.cluster /\ st.found
             /\ st.found => Leads(list, st.cluster, key)
  BY <1>6 DEF Scanning, Scanned, Underway, rest
<1>7. CASE ~ st.duplicate /\ key \notin KeySet(list, c)
  <2>1. to = st
    BY <1>7 DEF MeetBucket, to, KeySet
  <2>2. Scanned(to, key, t)
    BY <1>5, <1>6, <1>7, <2>1 DEF Scanned
  <2>3. Scanning(to, key, rem, n, t)
    BY <1>1, <1>6, <1>7, <2>1, <2>2 DEF Scanning
  <2> QED  BY <2>1, <2>3 DEF to
<1>8. ASSUME ~ st.duplicate, key \in KeySet(list, c) PROVE c \in Lives(list)
  <2>1. Leads(list, c, key)
    BY <1>3 DEF Leads
  <2> QED  BY <1>1, <1>3, <1>6, <1>8, <2>1, LedLives DEF Keyed
<1>9. CASE ~ st.duplicate /\ key \in KeySet(list, c) /\ st.cluster = 0
  <2> DEFINE u == JoinCluster(st, c, rec)
  <2>1. to = [u EXCEPT !.found = TRUE]
    BY <1>9 DEF MeetBucket, to, KeySet
  <2>2. StateOk(u)
    BY <1>1, <1>3, JoinIs
  <2>3. ~ u.duplicate => /\ Underway(u, rem, n) /\ u.cluster = c /\ u.list.chains = list.chains
                         /\ \A i \in DOMAIN list.clusters : KeySet(u.list, i) = KeySet(list, i)
    BY <1>1, <1>6, <1>8, <1>9, JoinKeyed
  <2>4. u.duplicate \in BOOLEAN /\ u.list.chains = list.chains
    BY <1>1, <1>3, <2>2, JoinIs DEF StateOk
  <2> HIDE DEF u
  <2>5. /\ StateOk(to) /\ to.found /\ to.duplicate = u.duplicate
        /\ to.cluster = u.cluster /\ to.total = u.total /\ to.list = u.list
    BY <2>1, <2>2, FoundIs
  <2>6. DOMAIN to.list.chains[Hash(key)] = DOMAIN chain
    BY <2>4, <2>5
  <2>7. CASE to.duplicate
    <3>1. Scanning(to, key, rem, n, t)
      BY <2>5, <2>7 DEF Scanning
    <3> QED  BY <1>9, <2>6, <3>1 DEF to
  <2>8. CASE ~ to.duplicate
    <3>1. Underway(to, rem, n)
      BY <2>3, <2>5, <2>8 DEF Underway
    <3>2. \A p \in rest : key \notin KeySet(list, chain[p])
      BY <1>2, <1>5, <1>6, <1>9, NotZero, <1>1
    <3>3. Scanned(to, key, t)
      <4>1. Leads(to.list, to.cluster, key)
        BY <1>3, <2>3, <2>5, <2>8 DEF Leads
      <4>2. ASSUME NEW p \in 1 .. t, key \in KeySet(to.list, to.list.chains[Hash(key)][p])
            PROVE  to.list.chains[Hash(key)][p] = to.cluster
        <5>1. p \in DOMAIN chain /\ to.list.chains[Hash(key)][p] = chain[p] /\ key \in KeySet(list, chain[p])
          BY <1>2, <1>3, <1>5, <2>3, <2>5, <2>8, <4>2
        <5> QED  BY <1>5, <2>3, <2>5, <2>8, <3>2, <5>1
      <4> QED  BY <2>5, <4>1, <4>2 DEF Scanned
    <3> QED  BY <1>9, <2>5, <2>6, <3>1, <3>3 DEF Scanning, to
  <2> QED  BY <2>4, <2>5, <2>7, <2>8
<1>10. CASE ~ st.duplicate /\ key \in KeySet(list, c) /\ st.cluster = c
  <2>1. to = [st EXCEPT !.found = TRUE]
    <3>1. st.cluster # 0
      BY <1>1, <1>3, <1>10, NotZero
    <3> QED  BY <1>10, <3>1 DEF MeetBucket, to, KeySet
  <2>2. /\ StateOk(to) /\ to.found /\ to.duplicate = st.duplicate
        /\ to.cluster = st.cluster /\ to.total = st.total /\ to.list = list
    BY <1>1, <2>1, FoundIs
  <2>3. Underway(to, rem, n)
    BY <1>6, <1>10, <2>2 DEF Underway
  <2>4. Scanned(to, key, t)
    BY <1>3, <1>5, <1>6, <1>10, <2>2 DEF Scanned, Leads
  <2> QED  BY <2>2, <2>3, <2>4 DEF Scanning, to
<1>11. CASE ~ st.duplicate /\ key \in KeySet(list, c) /\ st.cluster # 0 /\ st.cluster # c
  <2> DEFINE u == MergeCluster(st, c)
             dst == st.cluster
  <2>1. to = [u EXCEPT !.found = TRUE]
    BY <1>11 DEF MeetBucket, to, KeySet
  <2>2. dst \in Lives(list) /\ c \in Lives(list) /\ dst \in DOMAIN list.clusters
    BY <1>6, <1>8, <1>11 DEF Lives
  <2>3. Underway(u, rem, n)
    BY <1>1, <1>6, <1>11, <2>2, MergeKeyed
  <2>4. /\ StateOk(u) /\ u.cluster = dst /\ u.duplicate = st.duplicate
        /\ \A i \in DOMAIN list.clusters :
              KeySet(u.list, i) = IF i = dst THEN KeySet(list, dst) \cup KeySet(list, c)
                                  ELSE KeySet(list, i)
        /\ DOMAIN u.list.chains[Hash(key)] = DOMAIN chain
        /\ \A j \in DOMAIN chain :
              u.list.chains[Hash(key)][j] =
                 IF chain[j] = c /\ \E k \in KeySet(list, c) : Hash(k) = Hash(key)
                 THEN dst ELSE chain[j]
    <3>1. /\ dst \in DOMAIN st.list.clusters /\ c \in DOMAIN st.list.clusters /\ c # dst
          /\ Hash(key) \in Buckets
      BY <1>3, <1>11, <2>2
    <3>2. /\ StateOk(u) /\ u.cluster = dst /\ u.duplicate = st.duplicate
          /\ \A i \in DOMAIN st.list.clusters :
                KeySet(u.list, i) = IF i = dst THEN KeySet(st.list, dst) \cup KeySet(st.list, c)
                                    ELSE KeySet(st.list, i)
      <4> HIDE DEF c, chain
      <4> QED  BY <1>1, <3>1, MergeIs
    <3>3. \A b \in Buckets :
             /\ DOMAIN u.list.chains[b] = DOMAIN st.list.chains[b]
             /\ \A j \in DOMAIN st.list.chains[b] :
                   u.list.chains[b][j] =
                      IF st.list.chains[b][j] = c /\ \E k \in KeySet(st.list, c) : Hash(k) = b
                      THEN dst ELSE st.list.chains[b][j]
      <4> HIDE DEF c, chain
      <4> QED  BY <1>1, <3>1, MergeIs
    <3> HIDE DEF u, c
    <3> QED  BY <3>1, <3>2, <3>3
  <2> HIDE DEF u
  <2>5. /\ StateOk(to) /\ to.found /\ to.duplicate = u.duplicate
        /\ to.cluster = u.cluster /\ to.total = u.total /\ to.list = u.list
    BY <2>1, <2>4, FoundIs
  <2>6. Underway(to, rem, n)
    BY <2>3, <2>5 DEF Underway
  <2>7. \A j \in DOMAIN chain : u.list.chains[Hash(key)][j] = IF chain[j] = c THEN dst ELSE chain[j]
    BY <1>11, <2>4
  <2>8. Scanned(to, key, t)
    <3>1. ASSUME NEW p \in 1 .. t, key \in KeySet(to.list, to.list.chains[Hash(key)][p])
          PROVE  to.list.chains[Hash(key)][p] = to.cluster
      <4>1. p \in DOMAIN chain /\ to.list.chains[Hash(key)][p] = IF chain[p] = c THEN dst ELSE chain[p]
        BY <1>3, <1>5, <2>5, <2>7
      <4>2. CASE chain[p] = c
        BY <2>4, <2>5, <4>1, <4>2
      <4>3. CASE chain[p] # c
        <5>1. p \in rest /\ chain[p] \in DOMAIN list.clusters
          BY <1>2, <1>5, <4>1, <4>3
        <5>2. CASE chain[p] = dst
          BY <2>4, <2>5, <4>1, <4>3, <5>2
        <5>3. CASE chain[p] # dst
          <6>1. key \in KeySet(list, chain[p])
            BY <2>4, <2>5, <3>1, <4>1, <4>3, <5>1, <5>3
          <6> QED  BY <1>6, <1>11, <5>1, <5>3, <6>1
        <5> QED  BY <5>2, <5>3
      <4> QED  BY <4>2, <4>3
    <3>2. Leads(to.list, to.cluster, key)
      <4>1. t \in DOMAIN u.list.chains[Hash(key)] /\ u.list.chains[Hash(key)][t] = dst
        BY <1>3, <2>4, <2>7
      <4> QED  BY <2>4, <2>5, <4>1 DEF Leads, Elems
    <3> QED  BY <2>5, <3>1, <3>2 DEF Scanned
  <2> QED  BY <1>11, <2>4, <2>5, <2>6, <2>8 DEF Scanning, to
<1>12. st.duplicate \in BOOLEAN
  BY <1>1 DEF StateOk
<1> QED  BY <1>4, <1>7, <1>9, <1>10, <1>11, <1>12 DEF to
-----------------------------------------------------------------------------
(* reclist_insert between two keys.                                        *)
Inserting(st, rem, n) == StateOk(st) /\ (st.duplicate \/ Underway(st, rem, n))

(* One key of a record.                                                    *)
LEMMA MeetKeyKeeps ==
    ASSUME NEW st, NEW rem, NEW n, Inserting(st, rem, n), NEW rec, NEW keys, IsSeq(keys),
           NEW key \in Elems(keys), \A k \in Elems(keys) : Hash(k) \in Buckets,
           ~ st.duplicate /\ st.cluster = 0 => Elems(keys) \subseteq rem
    PROVE  LET to == MeetKey(st, rec, key, keys)
           IN  /\ Inserting(to, rem \ {key}, n)
               /\ ~ to.duplicate => to.cluster # 0
<1> DEFINE to == MeetKey(st, rec, key, keys)
           chain == st.list.chains[Hash(key)]
           m == Len(chain)
           start == [st EXCEPT !.found = FALSE]
           L == [i \in DOMAIN chain |-> i]
           met == FoldLeft(LAMBDA s, i : MeetBucket(s, i, rec, key), start, L)
<1>1. StateOk(st) /\ ListOk(st.list) /\ Hash(key) \in Buckets
  BY DEF Inserting, StateOk
<1>2. m \in Nat /\ DOMAIN chain = 1 .. m /\ DOMAIN L = 1 .. m
  BY <1>1, Chained
<1>3. to = IF met.duplicate \/ met.found THEN met
           ELSE NewBucket(IF met.cluster = 0 THEN NewCluster(met, rec, keys) ELSE met, key)
  BY DEF MeetKey
<1>4. PICK h : /\ h[0] = start
               /\ \A k \in 1 .. m : h[k] = MeetBucket(h[k - 1], L[k], rec, key)
               /\ met = h[m]
  <2>1. met = BucketOver(start, L, rec, key)
    BY DEF BucketOver
  <2> HIDE DEF L, m, start, met
  <2> QED  BY <1>2, <2>1, BucketFold
<1>5. \A k \in 1 .. m : L[k] = k
  BY <1>2
<1>6. /\ StateOk(start) /\ start.found = FALSE /\ start.duplicate = st.duplicate
      /\ start.cluster = st.cluster /\ start.total = st.total /\ start.list = st.list
  BY <1>1, FoundIs
<1> HIDE DEF L, met, start, to, m
<1> DEFINE Fine(s, t) == /\ Scanning(s, key, rem, n, t)
                         /\ DOMAIN s.list.chains[Hash(key)] = 1 .. m
                         /\ st.cluster # 0 => s.cluster # 0
                         /\ st.duplicate => s.duplicate
           T == {t \in 0 .. m : Fine(h[t], t)}
<1>7. Fine(start, 0)
  <2>1. Scanned(start, key, 0)
    BY <1>6 DEF Scanned
  <2>2. st.duplicate \/ Underway(start, rem, n)
    BY <1>6 DEF Inserting, Underway
  <2>3. Scanning(start, key, rem, n, 0)
    BY <1>6, <2>1, <2>2 DEF Scanning
  <2> QED  BY <1>2, <1>6, <2>3
<1>8. ASSUME NEW k \in 1 .. m, Fine(h[k - 1], k - 1) PROVE Fine(h[k], k)
  <2> DEFINE s == h[k - 1]
             s2 == MeetBucket(s, k, rec, key)
  <2>1. h[k] = s2
    BY <1>4, <1>5
  <2>2. Scanning(s, key, rem, n, k - 1)
    BY <1>8
  <2>3. k \in 1 .. Len(s.list.chains[Hash(key)])
    <3>1. ListOk(s.list)
      BY <2>2 DEF Scanning, StateOk
    <3>2. /\ DOMAIN s.list.chains[Hash(key)] = 1 .. Len(s.list.chains[Hash(key)])
          /\ DOMAIN s.list.chains[Hash(key)] = 1 .. m
      BY <1>1, <1>8, <3>1, Chained
    <3> QED  BY <3>2
  <2> HIDE DEF s, Fine
  <2>4. /\ Scanning(s2, key, rem, n, k)
        /\ DOMAIN s2.list.chains[Hash(key)] = DOMAIN s.list.chains[Hash(key)]
        /\ s.cluster # 0 => s2.cluster # 0
        /\ s.duplicate => s2.duplicate
    BY <1>1, <2>2, <2>3, MeetBucketKeeps
  <2> HIDE DEF s2
  <2>5. Fine(s, k - 1)
    BY <1>8 DEF s
  <2> QED  BY <2>1, <2>4, <2>5 DEF Fine
<1> HIDE DEF Fine
<1>9. Fine(met, m)
  <2>1. 0 \in T
    BY <1>2, <1>4, <1>7
  <2>2. \A k \in 1 .. m : k - 1 \in T => k \in T
    BY <1>2, <1>8
  <2> HIDE DEF T
  <2>3. m \in T
    BY <1>2, <2>1, <2>2, UpTo
  <2> QED  BY <1>4, <2>3 DEF T
<1> DEFINE list == met.list
<1>10. StateOk(met) /\ met.duplicate \in BOOLEAN /\ met.found \in BOOLEAN /\ ListOk(list)
  BY <1>9 DEF Fine, Scanning, StateOk
<1>11. CASE met.duplicate
  <2>1. to = met
    BY <1>3, <1>11
  <2>2. Inserting(met, rem \ {key}, n)
    BY <1>10, <1>11 DEF Inserting
  <2> QED  BY <1>11, <2>1, <2>2 DEF to
<1>12. ASSUME ~ met.duplicate
       PROVE  /\ Underway(met, rem, n) /\ Scanned(met, key, m)
              /\ KeysLead(list, met.cluster, rem) /\ met.cluster \in Lives(list) \cup {0}
              /\ met.cluster = 0 => Elems(keys) \subseteq rem
  BY <1>9, <1>12 DEF Fine, Scanning, Underway, Keyed
<1>13. /\ DOMAIN list.chains[Hash(key)] = 1 .. m
       /\ \A i \in Elems(list.chains[Hash(key)]) :
             i \in DOMAIN list.clusters /\ \E p \in 1 .. m : i = list.chains[Hash(key)][p]
       /\ 0 \notin DOMAIN list.clusters
  <2>1. DOMAIN list.chains[Hash(key)] = 1 .. m
    BY <1>9 DEF Fine
  <2>2. 0 \notin DOMAIN list.clusters
    BY <1>10, NotZero
  <2> HIDE DEF list
  <2>3. /\ \A j \in DOMAIN list.chains[Hash(key)] : list.chains[Hash(key)][j] \in DOMAIN list.clusters
        /\ \A i \in Elems(list.chains[Hash(key)]) :
              \E j \in DOMAIN list.chains[Hash(key)] : i = list.chains[Hash(key)][j]
    BY <1>1, <1>10, Chained
  <2> QED  BY <2>1, <2>2, <2>3
<1>14. CASE ~ met.duplicate /\ met.found
  <2>1. to = met
    BY <1>3, <1>14
  <2>2. Leads(list, met.cluster, key)
    BY <1>12, <1>14 DEF Scanned
  <2>3. met.cluster # 0
    BY <1>13, <2>2 DEF Leads
  <2>4. ASSUME NEW i \in Lives(list), key \in KeySet(list, i) PROVE i = met.cluster
    <3>1. CASE Leads(list, i, key)
      BY <1>12, <1>13, <1>14, <2>4, <3>1 DEF Leads, Scanned
    <3> QED  BY <1>12, <1>14, <2>4, <3>1 DEF KeysLead
  <2>5. Underway(met, rem \ {key}, n)
    BY <1>12, <1>14, <2>2, <2>4, KeyDone
  <2>6. Inserting(met, rem \ {key}, n)
    BY <1>10, <2>5 DEF Inserting
  <2> QED  BY <2>1, <2>3, <2>6 DEF to
<1>15. CASE ~ met.duplicate /\ ~ met.found
  <2> DEFINE u == IF met.cluster = 0 THEN NewCluster(met, rec, keys) ELSE met
             v == NewBucket(u, key)
  <2>1. to = v
    BY <1>3, <1>15
  <2>2. \A i \in Elems(list.chains[Hash(key)]) : key \notin KeySet(list, i)
    BY <1>12, <1>13, <1>15 DEF Scanned
  <2>3. /\ StateOk(u) /\ Underway(u, rem, n) /\ u.cluster \in Lives(u.list)
        /\ \A i \in Elems(u.list.chains[Hash(key)]) : key \notin KeySet(u.list, i)
    <3>1. CASE met.cluster = 0
      <4>1. u = NewCluster(met, rec, keys)
        BY <3>1
      <4>2. Elems(keys) # {} /\ Elems(keys) \subseteq rem /\ Underway(met, rem, n)
        BY <1>12, <1>15, <3>1
      <4> HIDE DEF u
      <4>3. Underway(u, rem, n) /\ u.cluster \in Lives(u.list)
        BY <1>10, <3>1, <4>1, <4>2, NewKeyed
      <4>4. /\ StateOk(u) /\ u.list.chains = list.chains
            /\ \A i \in DOMAIN list.clusters : u.list.clusters[i] = list.clusters[i]
        BY <1>10, <4>1, NewClusterIs
      <4>5. \A i \in Elems(u.list.chains[Hash(key)]) : key \notin KeySet(u.list, i)
        BY <1>13, <2>2, <4>4 DEF KeySet
      <4> QED  BY <4>3, <4>4, <4>5
    <3>2. CASE met.cluster # 0
      <4>1. u = met
        BY <3>2
      <4> HIDE DEF u
      <4> QED  BY <1>10, <1>12, <1>15, <2>2, <3>2, <4>1
    <3> QED  BY <3>1, <3>2
  <2> HIDE DEF u
  <2>4. Underway(v, rem, n) /\ Leads(v.list, v.cluster, key)
    BY <1>1, <2>3, BucketKeyed
  <2>5. /\ StateOk(v) /\ v.cluster = u.cluster /\ v.list.clusters = u.list.clusters
    <3>1. u.cluster \in DOMAIN u.list.clusters
      BY <2>3 DEF Lives
    <3> QED  BY <1>1, <2>3, <3>1, NewBucketIs
  <2> HIDE DEF v
  <2>6. ASSUME NEW i \in Lives(v.list), key \in KeySet(v.list, i) PROVE i = v.cluster
    <3>1. i \in Lives(u.list) /\ key \in KeySet(u.list, i)
      BY <2>5, <2>6 DEF Lives, KeySet
    <3>2. KeysLead(u.list, u.cluster, rem)
      BY <2>3 DEF Underway, Keyed
    <3> QED  BY <2>3, <2>5, <3>1, <3>2 DEF KeysLead, Leads
  <2>7. Underway(v, rem \ {key}, n)
    BY <2>4, <2>6, KeyDone
  <2>8. v.cluster # 0
    <3>1. ListOk(u.list)
      BY <2>3 DEF StateOk
    <3> QED  BY <2>3, <2>5, <3>1, NotZero
  <2>9. Inserting(v, rem \ {key}, n)
    BY <2>5, <2>7 DEF Inserting
  <2> QED  BY <2>1, <2>8, <2>9 DEF to
<1> QED  BY <1>10, <1>11, <1>14, <1>15
-----------------------------------------------------------------------------
(* A list between records: each key of a cluster leads to it, and no other *)
(* cluster has it; the counters are right.                                 *)
Good(list, total, n) == ListOk(list) /\ Keyed(list, 0, {}) /\ Counted(list, total, n)

(* More keys may be to come.                                               *)
LEMMA UnderwayMore ==
    ASSUME NEW st, NEW rem, NEW n, Underway(st, rem, n), NEW rem2, rem \subseteq rem2
    PROVE  Underway(st, rem2, n)
  BY DEF Underway, Keyed, KeysLead, KeysApart

(* reclist_insert keeps the list sound.                                    *)
LEMMA InsertKeeps ==
    ASSUME NEW list, NEW total, NEW n, Good(list, total, n), NEW rec, NEW keys,
           IsSeq(keys), Elems(keys) # {}, \A k \in Elems(keys) : Hash(k) \in Buckets
    PROVE  LET ins == Insert(list, total, rec, keys)
           IN  ~ ins.duplicate => /\ ins.cluster \in Lives(ins.list)
                                  /\ Good(ins.list, ins.total, n + 1)
<1> DEFINE ins == Insert(list, total, rec, keys)
           start == [list |-> list, total |-> total, cluster |-> 0, duplicate |-> FALSE,
                     found |-> FALSE]
           m == Len(keys)
           Rem(k) == {keys[j] : j \in k + 1 .. m}
<1>1. m \in Nat /\ DOMAIN keys = 1 .. m /\ m # 0 /\ \A k \in 1 .. m : keys[k] \in Elems(keys)
  BY SeqIs
<1>2. ins = KeyOver(start, keys, rec, keys)
  BY DEF Insert, KeyOver
<1> HIDE DEF m, start, ins
<1>3. PICK h : /\ h[0] = start
               /\ \A k \in 1 .. m : h[k] = MeetKey(h[k - 1], rec, keys[k], keys)
               /\ ins = h[m]
  BY <1>1, <1>2, KeyFold
<1>4. /\ Rem(0) = Elems(keys) /\ Rem(m) = {}
      /\ \A k \in 1 .. m : Rem(k - 1) \ {keys[k]} \subseteq Rem(k)
  <2>1. Rem(0) = Elems(keys)
    BY <1>1 DEF Elems
  <2>2. Rem(m) = {}
    BY <1>1
  <2>3. \A k \in 1 .. m : k - 1 + 1 .. m = {k} \cup (k + 1 .. m)
    BY <1>1
  <2>4. \A k \in 1 .. m : Rem(k - 1) \ {keys[k]} \subseteq Rem(k)
    BY <2>3
  <2> QED  BY <2>1, <2>2, <2>4
<1> HIDE DEF Rem
<1> DEFINE Fine(s, k) == /\ Inserting(s, Rem(k), n)
                         /\ ~ s.duplicate /\ s.cluster = 0 => k = 0
           T == {k \in 0 .. m : Fine(h[k], k)}
<1>5. Fine(start, 0)
  <2>1. StateOk(start)
    BY DEF Good, StateOk, start
  <2>2. Keyed(list, 0, Rem(0))
    BY DEF Good, Keyed, KeysLead, KeysApart
  <2>3. Underway(start, Rem(0), n)
    BY <2>2 DEF Good, Underway, start
  <2> QED  BY <2>1, <2>3 DEF Inserting
<1>6. ASSUME NEW k \in 1 .. m, Fine(h[k - 1], k - 1) PROVE Fine(h[k], k)
  <2> DEFINE s == h[k - 1]
             to == MeetKey(s, rec, keys[k], keys)
             rem == Rem(k - 1)
  <2>1. Inserting(s, rem, n) /\ (~ s.duplicate /\ s.cluster = 0 => Elems(keys) \subseteq rem)
    BY <1>4, <1>6
  <2>2. keys[k] \in Elems(keys)
    BY <1>1
  <2> HIDE DEF s, rem, Fine
  <2>3. Inserting(to, rem \ {keys[k]}, n) /\ (~ to.duplicate => to.cluster # 0)
    BY <2>1, <2>2, MeetKeyKeeps
  <2>4. h[k] = to
    BY <1>3 DEF s
  <2> HIDE DEF to
  <2>5. Inserting(to, Rem(k), n)
    <3>1. rem \ {keys[k]} \subseteq Rem(k)
      BY <1>4 DEF rem
    <3> QED  BY <2>3, <3>1, UnderwayMore DEF Inserting
  <2> QED  BY <2>3, <2>4, <2>5 DEF Fine
<1> HIDE DEF Fine
<1>7. Fine(ins, m)
  <2>1. 0 \in T
    BY <1>1, <1>3, <1>5
  <2>2. \A k \in 1 .. m : k - 1 \in T => k \in T
    BY <1>1, <1>6
  <2> HIDE DEF T
  <2>3. m \in T
    BY <1>1, <2>1, <2>2, UpTo
  <2> QED  BY <1>3, <2>3 DEF T
<1>8. ASSUME ~ ins.duplicate
      PROVE  ins.cluster \in Lives(ins.list) /\ Good(ins.list, ins.total, n + 1)
  <2>1. StateOk(ins) /\ Underway(ins, {}, n) /\ ins.cluster # 0
    BY <1>1, <1>4, <1>7, <1>8 DEF Fine, Inserting
  <2>2. /\ ListOk(ins.list) /\ ins.cluster \in Lives(ins.list)
        /\ Keyed(ins.list, ins.cluster, {}) /\ Counted(ins.list, ins.total, n + 1)
    BY <2>1 DEF StateOk, Underway
  <2>3. Keyed(ins.list, 0, {})
    BY <2>2 DEF Keyed, KeysLead, KeysApart
  <2> QED  BY <2>2, <2>3 DEF Good
<1> QED  BY <1>8 DEF ins
-----------------------------------------------------------------------------
(* How often the term its client was asked for comes in a record, and in   *)
(* the records of a cluster.                                               *)
Weight(asked, r) == CountWords(asked[r.client], r.md)
Tf(asked, L) == TfOver(0, L, asked)
Weighable(asked, L) == IsSeq(L) /\ \A r \in Elems(L) : Weight(asked, r) \in Nat

(* The products of ranks and occurrences are numbers.                      *)
LEMMA CountNat ==
    ASSUME NEW term, NEW md, \A f \in Fields : IsFiniteSet(DOMAIN md[f])
    PROVE  CountWords(term, md) \in Nat
<1> DEFINE m == Len(FieldOrder)
           done == CountOver(0, FieldOrder, term, md)
<1>1. m \in Nat /\ DOMAIN FieldOrder = 1 .. m /\ \A k \in 1 .. m : FieldOrder[k] \in Fields
  <2>1. IsSeq(FieldOrder) /\ Elems(FieldOrder) \subseteq Fields
    BY FieldsAssumption, SeqOver
  <2> QED  BY <2>1, SeqIs
<1>2. CountWords(term, md) = done
  BY DEF CountWords, CountOver
<1> HIDE DEF m, done
<1>3. PICK h : /\ h[0] = 0
               /\ \A k \in 1 .. m : h[k] = CountStep(h[k - 1], FieldOrder[k], term, md)
               /\ done = h[m]
  <2>1. \E h : /\ h[0] = 0
               /\ \A k \in 1 .. m : h[k] = CountStep(h[k - 1], FieldOrder[k], term, md)
               /\ CountOver(0, FieldOrder, term, md) = h[m]
    <3>1. m \in Nat /\ DOMAIN FieldOrder = 1 .. m
      BY <1>1
    <3>2. ASSUME NEW L, DOMAIN L = 1 .. m
          PROVE  \E h : /\ h[0] = 0
                        /\ \A k \in 1 .. m : h[k] = CountStep(h[k - 1], L[k], term, md)
                        /\ CountOver(0, L, term, md) = h[m]
      BY ONLY <3>1, <3>2, CountFold
    <3> QED  BY ONLY <3>1, <3>2
  <2> QED  BY <2>1 DEF done
<1> DEFINE T == {k \in 0 .. m : h[k] \in Nat}
<1>4. 0 \in T
  BY <1>1, <1>3
<1>5. ASSUME NEW k \in 1 .. m, k - 1 \in T PROVE k \in T
  <2> DEFINE f == FieldOrder[k]
             places == {i \in DOMAIN md[f] : Value(f, md[f][i]) = <<term>>}
  <2>1. f \in Fields /\ IsFiniteSet(DOMAIN md[f]) /\ Service[f].rank \in Nat
    BY <1>1, FieldsAssumption
  <2>2. places \subseteq DOMAIN md[f]
    OBVIOUS
  <2>3. h[k] = h[k - 1] + Service[f].rank * Cardinality(places) /\ h[k - 1] \in Nat
    BY <1>3, <1>5 DEF CountStep
  <2> HIDE DEF f, places
  <2>4. Cardinality(places) \in Nat
    BY <2>1, <2>2, FS_Subset, FS_CardinalityType
  <2>5. \A a, b, n \in Nat : n + a * b \in Nat
    OBVIOUS
  <2> DEFINE rank == Service[f].rank
             there == Cardinality(places)
             was == h[k - 1]
  <2>6. rank \in Nat /\ there \in Nat /\ was \in Nat /\ h[k] = was + rank * there
    BY <2>1, <2>3, <2>4
  <2> HIDE DEF rank, there, was
  <2>7. was + rank * there \in Nat
    BY <2>5, <2>6
  <2>8. h[k] \in Nat /\ k \in 0 .. m
    BY <1>1, <2>6, <2>7
  <2> QED  BY <2>8
<1> HIDE DEF T
<1>6. m \in T
  BY <1>1, <1>4, <1>5, UpTo
<1> QED  BY <1>2, <1>3, <1>6 DEF T

(* The sums on the way.                                                    *)
LEMMA TfSums ==
    ASSUME NEW asked, NEW L, Weighable(asked, L)
    PROVE  \E h : /\ h[0] = 0
                  /\ \A k \in 1 .. Len(L) : h[k] = h[k - 1] + Weight(asked, L[k])
                  /\ \A k \in 0 .. Len(L) : h[k] \in Nat
                  /\ Tf(asked, L) = h[Len(L)]
<1> DEFINE m == Len(L)
<1>1. m \in Nat /\ DOMAIN L = 1 .. m /\ \A k \in 1 .. m : Weight(asked, L[k]) \in Nat
  BY SeqIs DEF Weighable
<1> HIDE DEF m
<1>2. PICK h : /\ h[0] = 0
               /\ \A k \in 1 .. m : h[k] = TfStep(h[k - 1], L[k], asked)
               /\ TfOver(0, L, asked) = h[m]
  <2>1. DOMAIN L = 1 .. m /\ m \in Nat
    BY <1>1
  <2> HIDE <1>1
  <2>2. \A base : \E h : /\ h[0] = base
                         /\ \A k \in 1 .. m : h[k] = TfStep(h[k - 1], L[k], asked)
                         /\ TfOver(base, L, asked) = h[m]
    BY <2>1, TfFold
  <2> QED  BY <2>2
<1>3. \A k \in 1 .. m : h[k] = h[k - 1] + Weight(asked, L[k])
  BY <1>2 DEF TfStep, Weight
<1> DEFINE T == {k \in 0 .. m : h[k] \in Nat}
<1>4. 0 \in T
  BY <1>1, <1>2
<1>5. ASSUME NEW k \in 1 .. m, k - 1 \in T PROVE k \in T
  BY <1>1, <1>3, <1>5
<1>6. \A k \in 0 .. m : h[k] \in Nat
  <2> HIDE DEF T
  <2>1. \A k \in 0 .. m : k \in T
    BY <1>1, <1>4, <1>5, UpTo
  <2> QED  BY <2>1 DEF T
<1> QED  BY <1>2, <1>3, <1>6 DEF m, Tf

(* Records that follow others add theirs.                                  *)
LEMMA TfJoined ==
    ASSUME NEW asked, NEW s, Weighable(asked, s), NEW t, Weighable(asked, t), NEW u, IsSeq(u),
           Len(u) = Len(s) + Len(t), \A k \in 1 .. Len(s) : u[k] = s[k],
           \A k \in 1 .. Len(t) : u[Len(s) + k] = t[k]
    PROVE  /\ Weighable(asked, u) /\ Tf(asked, u) = Tf(asked, s) + Tf(asked, t)
           /\ Tf(asked, s) \in Nat /\ Tf(asked, t) \in Nat
<1> DEFINE m == Len(s)
           n == Len(t)
<1>1. m \in Nat /\ n \in Nat /\ DOMAIN s = 1 .. m /\ DOMAIN t = 1 .. n
  BY SeqIs DEF Weighable
<1>2. DOMAIN u = 1 .. m + n /\ \A x \in Elems(u) : \E i \in 1 .. m + n : x = u[i]
  BY <1>1, SeqIs
<1>3. \A k \in 1 .. m + n : k \in 1 .. m \/ (k - m \in 1 .. n /\ k = m + (k - m))
  BY <1>1
<1>4. Weighable(asked, u)
  <2>1. ASSUME NEW x \in Elems(u) PROVE x \in Elems(s) \/ x \in Elems(t)
    <3>1. PICK i \in 1 .. m + n : x = u[i]
      BY <1>2
    <3>2. CASE i \in 1 .. m
      BY <1>1, <3>1, <3>2 DEF Elems
    <3>3. CASE i - m \in 1 .. n /\ i = m + (i - m)
      <4>1. u[m + (i - m)] = t[i - m]
        BY <3>3
      <4> QED  BY <1>1, <3>1, <3>3, <4>1 DEF Elems
    <3> QED  BY <1>3, <3>2, <3>3
  <2> QED  BY <2>1 DEF Weighable
<1>5. PICK f : /\ f[0] = 0
               /\ \A k \in 1 .. m : f[k] = f[k - 1] + Weight(asked, s[k])
               /\ \A k \in 0 .. m : f[k] \in Nat
               /\ Tf(asked, s) = f[m]
  BY TfSums
<1>6. PICK g : /\ g[0] = 0
               /\ \A k \in 1 .. n : g[k] = g[k - 1] + Weight(asked, t[k])
               /\ \A k \in 0 .. n : g[k] \in Nat
               /\ Tf(asked, t) = g[n]
  BY TfSums
<1>7. PICK h : /\ h[0] = 0
               /\ \A k \in 1 .. Len(u) : h[k] = h[k - 1] + Weight(asked, u[k])
               /\ \A k \in 0 .. Len(u) : h[k] \in Nat
               /\ Tf(asked, u) = h[Len(u)]
  BY <1>4, TfSums
<1>8. \A k \in 1 .. m : u[k] = s[k]
  OBVIOUS
<1>9. \A k \in 1 .. n : u[m + k] = t[k]
  OBVIOUS
<1>10. Len(u) = m + n
  OBVIOUS
<1> HIDE DEF m, n
<1>11. h[m] = f[m]
  <2> DEFINE T == {k \in 0 .. m : h[k] = f[k]}
  <2>1. 0 \in T
    BY <1>1, <1>5, <1>7
  <2>2. ASSUME NEW k \in 1 .. m, k - 1 \in T PROVE k \in T
    <3>1. k \in 1 .. m + n /\ k \in 0 .. m
      BY <1>1
    <3> QED  BY <1>5, <1>7, <1>8, <1>10, <2>2, <3>1
  <2> HIDE DEF T
  <2>3. m \in T
    BY <1>1, <2>1, <2>2, UpTo
  <2> QED  BY <2>3 DEF T
<1>12. h[m + n] = f[m] + g[n]
  <2> DEFINE T == {k \in 0 .. n : h[m + k] = f[m] + g[k]}
  <2>1. 0 \in T
    <3>1. f[m] \in Nat /\ m + 0 = m /\ 0 \in 0 .. n
      BY <1>1, <1>5
    <3> QED  BY <1>6, <1>11, <3>1
  <2>2. ASSUME NEW k \in 1 .. n, k - 1 \in T PROVE k \in T
    <3>1. m + k \in 1 .. m + n /\ k \in 0 .. n /\ (m + k) - 1 = m + (k - 1) /\ k - 1 \in 0 .. n
      BY <1>1
    <3>2. h[m + k] = h[m + (k - 1)] + Weight(asked, t[k])
      BY <1>7, <1>9, <1>10, <3>1
    <3>3. g[k] = g[k - 1] + Weight(asked, t[k]) /\ g[k - 1] \in Nat /\ f[m] \in Nat
      BY <1>1, <1>5, <1>6, <3>1
    <3>4. Weight(asked, t[k]) \in Nat
      <4>1. t[k] \in Elems(t)
        BY <1>1 DEF Elems
      <4> QED  BY <4>1 DEF Weighable
    <3>5. h[m + (k - 1)] = f[m] + g[k - 1]
      BY <2>2
    <3>6. (f[m] + g[k - 1]) + Weight(asked, t[k]) = f[m] + (g[k - 1] + Weight(asked, t[k]))
      BY <3>3, <3>4
    <3>7. h[m + k] = f[m] + g[k]
      BY <3>2, <3>3, <3>5, <3>6
    <3> QED  BY <3>1, <3>7
  <2> HIDE DEF T
  <2>3. n \in T
    BY <1>1, <2>1, <2>2, UpTo
  <2> QED  BY <2>3 DEF T
<1>13. Tf(asked, s) \in Nat /\ Tf(asked, t) \in Nat
  BY <1>1, <1>5, <1>6
<1> QED  BY <1>4, <1>5, <1>6, <1>7, <1>10, <1>12, <1>13

(* Two clusters in one.                                                    *)
LEMMA TfConcat ==
    ASSUME NEW asked, NEW s, Weighable(asked, s), NEW t, Weighable(asked, t)
    PROVE  /\ Weighable(asked, s \o t) /\ Tf(asked, s \o t) = Tf(asked, s) + Tf(asked, t)
           /\ Tf(asked, s) \in Nat /\ Tf(asked, t) \in Nat
<1> DEFINE u == s \o t
           S == Elems(s) \cup Elems(t)
<1>1. IsSeq(s) /\ IsSeq(t)
  BY DEF Weighable
<1>2. IsSeq(u) /\ Len(u) = Len(s) + Len(t)
  BY <1>1, SeqConcat
<1>3. s \in Seq(S) /\ t \in Seq(S)
  BY <1>1, SeqIs, SeqDef DEF IsSeq
<1>4. /\ \A k \in 1 .. Len(s) : u[k] = s[k]
      /\ \A k \in 1 .. Len(t) : u[Len(s) + k] = t[k]
  <2> HIDE DEF S
  <2> QED  BY <1>3
<1> HIDE DEF u, S
<1>5. /\ Weighable(asked, u) /\ Tf(asked, u) = Tf(asked, s) + Tf(asked, t)
      /\ Tf(asked, s) \in Nat /\ Tf(asked, t) \in Nat
  BY <1>2, <1>4, TfJoined
<1> QED  BY <1>5 DEF u

(* A record alone.                                                         *)
LEMMA TfOne ==
    ASSUME NEW asked, NEW r, Weight(asked, r) \in Nat
    PROVE  /\ Weighable(asked, <<r>>) /\ Tf(asked, <<r>>) = Weight(asked, r)
<1> DEFINE u == <<r>>
<1>1. u \in Seq({r}) /\ Len(u) = 1 /\ u[1] = r
  OBVIOUS
<1> HIDE DEF u
<1>2. IsSeq(u) /\ Elems(u) \subseteq {r}
  BY <1>1, SeqOver
<1>3. Weighable(asked, u)
  BY <1>2 DEF Weighable
<1>4. PICK h : /\ h[0] = 0
               /\ \A k \in 1 .. Len(u) : h[k] = h[k - 1] + Weight(asked, u[k])
               /\ \A k \in 0 .. Len(u) : h[k] \in Nat
               /\ Tf(asked, u) = h[Len(u)]
  BY <1>3, TfSums
<1>5. 1 \in 1 .. Len(u) /\ 1 - 1 = 0
  BY <1>1
<1>6. h[1] = h[1 - 1] + Weight(asked, u[1])
  BY <1>4, <1>5
<1>7. h[1] = 0 + Weight(asked, r)
  BY <1>1, <1>4, <1>5, <1>6
<1> QED  BY <1>1, <1>3, <1>4, <1>7 DEF u

(* One more record.                                                        *)
LEMMA TfAppend ==
    ASSUME NEW asked, NEW s, Weighable(asked, s), NEW r, Weight(asked, r) \in Nat
    PROVE  /\ Weighable(asked, Append(s, r)) /\ Tf(asked, s) \in Nat
           /\ Tf(asked, Append(s, r)) = Tf(asked, s) + Weight(asked, r)
<1> DEFINE u == Append(s, r)
           t == <<r>>
<1>1. IsSeq(s)
  BY DEF Weighable
<1>2. IsSeq(u) /\ Len(u) = Len(s) + 1 /\ (\A i \in DOMAIN s : u[i] = s[i]) /\ u[Len(s) + 1] = r
  BY <1>1, SeqAppend
<1>3. Weighable(asked, t) /\ Tf(asked, t) = Weight(asked, r) /\ Len(t) = 1 /\ t[1] = r
  BY TfOne
<1>4. DOMAIN s = 1 .. Len(s)
  BY <1>1, SeqIs
<1> HIDE DEF u, t
<1>5. \A k \in 1 .. Len(s) : u[k] = s[k]
  BY <1>2, <1>4
<1>6. \A k \in 1 .. Len(t) : u[Len(s) + k] = t[k]
  <2>1. \A k \in 1 .. 1 : k = 1
    OBVIOUS
  <2> QED  BY <1>2, <1>3, <2>1
<1>7. Len(u) = Len(s) + Len(t)
  BY <1>2, <1>3
<1>8. IsSeq(u) /\ Weighable(asked, t)
  BY <1>2, <1>3
<1>9. /\ Weighable(asked, u) /\ Tf(asked, u) = Tf(asked, s) + Tf(asked, t)
      /\ Tf(asked, s) \in Nat
  BY <1>5, <1>6, <1>7, <1>8, TfJoined
<1> QED  BY <1>3, <1>9 DEF u
-----------------------------------------------------------------------------
(* What a cluster shows of a field: values of its records or, of a range,  *)
(* bounds of theirs; and what it is sorted by.                             *)
ValuesOf(records, f) == UNION {Elems(r.md[f]) : r \in Elems(records)}

Stands(f, v, values) ==
    /\ IsValue(f, v)
    /\ IF Service[f].merge = "range"
       THEN (\E w \in values : w.min = v.min) /\ (\E w \in values : w.max = v.max)
       ELSE v \in values

AllStand(f, vs, values) == IsSeq(vs) /\ \A v \in Elems(vs) : Stands(f, v, values)

SortedBy(f, vs, key) ==
    /\ key = Absent \/ IsValue(f, key)
    /\ Service[f].sort /\ Service[f].merge \in {"longest", "range"} /\ vs # <<>> => key = Head(vs)

FieldsShown(cl, records) ==
    /\ DOMAIN cl.md = Fields /\ DOMAIN cl.sortkey = Fields
    /\ \A f \in Fields : /\ AllStand(f, cl.md[f], ValuesOf(records, f))
                         /\ SortedBy(f, cl.md[f], cl.sortkey[f])

(* A cluster that can be shown and compared with others.                   *)
ClusterShown(cl) ==
    /\ FieldsShown(cl, cl.records)
    /\ cl.recid \in Elems(cl.keys) /\ \A k \in Elems(cl.keys) : k \in Seq(Int)
    /\ cl.retrieval \in Nat
    /\ Elems(cl.records) # {} /\ \A r \in Elems(cl.records) : r.pos \in Nat

AllShown(list) ==
    list.num \in Nat /\ \A i \in DOMAIN list.clusters : ClusterShown(list.clusters[i])

(* The metadata of a cluster, its name and its number.                     *)
SameShown(cl, to) ==
    /\ to.md = cl.md /\ to.sortkey = cl.sortkey
    /\ to.recid = cl.recid /\ to.retrieval = cl.retrieval

(* It stays so when it gets more keys and records.                         *)
LEMMA MoreShown ==
    ASSUME NEW cl, ClusterShown(cl), NEW to, SameShown(cl, to),
           Elems(cl.keys) \subseteq Elems(to.keys), \A k \in Elems(to.keys) : k \in Seq(Int),
           Elems(cl.records) \subseteq Elems(to.records), \A r \in Elems(to.records) : r.pos \in Nat
    PROVE  ClusterShown(to)
<1>1. \A f : ValuesOf(cl.records, f) \subseteq ValuesOf(to.records, f)
  BY DEF ValuesOf
<1>2. \A f, v : Stands(f, v, ValuesOf(cl.records, f)) => Stands(f, v, ValuesOf(to.records, f))
  BY <1>1 DEF Stands
<1>3. FieldsShown(cl, cl.records) /\ to.md = cl.md /\ to.sortkey = cl.sortkey
  BY DEF ClusterShown, SameShown
<1>4. FieldsShown(to, to.records)
  <2>1. ASSUME NEW f \in Fields PROVE AllStand(f, to.md[f], ValuesOf(to.records, f))
    BY <1>2, <1>3 DEF FieldsShown, AllStand
  <2> QED  BY <1>3, <2>1 DEF FieldsShown
<1> QED  BY <1>4 DEF ClusterShown, SameShown

(* merge_cluster leaves the metadata and the sort keys of both clusters.   *)
LEMMA MergeShown ==
    ASSUME NEW st, StateOk(st), AllShown(st.list), NEW src \in DOMAIN st.list.clusters,
           st.cluster \in DOMAIN st.list.clusters, src # st.cluster
    PROVE  LET to == MergeCluster(st, src)
           IN  /\ AllShown(to.list)
               /\ Elems(st.list.clusters[st.cluster].records)
                     \subseteq Elems(to.list.clusters[st.cluster].records)
<1> DEFINE to == MergeCluster(st, src)
           dst == st.cluster
           cs == st.list.clusters
           cs2 == [cs EXCEPT ![dst] = Combined(cs[dst], cs[src]), ![src] = [cs[src] EXCEPT !.live = FALSE]]
<1>1. /\ DOMAIN st = {"list", "total", "cluster", "duplicate", "found"}
      /\ DOMAIN st.list = {"chains", "clusters", "sorted", "num"}
      /\ IsSeq(cs) /\ \A i \in DOMAIN cs : ClusterOk(cs[i])
  BY DEF StateOk, ListOk
<1>2. to.list.clusters = cs2 /\ to.list.num = st.list.num
  BY <1>1 DEF MergeCluster
<1>3. ASSUME NEW i \in DOMAIN cs PROVE SameShown(cs[i], cs2[i])
  <2>1. ClusterOk(cs[i])
    BY <1>1
  <2>2. CASE i = dst
    <3>1. cs2[i] = Combined(cs[i], cs[src])
      BY <2>2
    <3> HIDE DEF cs2, cs, dst
    <3> QED  BY <2>1, <3>1 DEF Combined, ClusterOk, ClusterFields, SameShown
  <2>3. CASE i = src
    <3>1. cs2[i] = [cs[i] EXCEPT !.live = FALSE]
      BY <2>3
    <3> HIDE DEF cs2, cs, dst
    <3> QED  BY <2>1, <3>1 DEF ClusterOk, ClusterFields, SameShown
  <2>4. CASE i # dst /\ i # src
    <3>1. cs2[i] = cs[i]
      BY <2>4
    <3> HIDE DEF cs2, cs, dst
    <3> QED  BY <3>1 DEF SameShown
  <2> QED  BY <2>2, <2>3, <2>4
<1>4. /\ DOMAIN to.list.clusters = DOMAIN cs
      /\ \A i \in DOMAIN cs :
            /\ Elems(to.list.clusters[i].keys) = IF i = dst THEN Elems(cs[dst].keys) \cup Elems(cs[src].keys)
                                                 ELSE Elems(cs[i].keys)
            /\ to.list.clusters[i].records = IF i = dst THEN cs[dst].records \o cs[src].records
                                             ELSE cs[i].records
  <2>0. StateOk(st) /\ src \in DOMAIN st.list.clusters /\ st.cluster \in DOMAIN st.list.clusters /\ src # st.cluster
    OBVIOUS
  <2>1. DOMAIN to.list.clusters = DOMAIN cs
    BY ONLY <2>0, MergeIs
  <2>2. ASSUME NEW i \in DOMAIN cs
        PROVE  /\ Elems(to.list.clusters[i].keys) = IF i = dst THEN Elems(cs[dst].keys) \cup Elems(cs[src].keys)
                                                    ELSE Elems(cs[i].keys)
               /\ to.list.clusters[i].records = IF i = dst THEN cs[dst].records \o cs[src].records
                                                ELSE cs[i].records
    BY ONLY <2>0, <2>2, MergeIs DEF KeySet
  <2> HIDE DEF to
  <2> QED  BY <2>1, <2>2
<1> HIDE DEF to, cs2
<1>5. Elems(cs[dst].records \o cs[src].records) = Elems(cs[dst].records) \cup Elems(cs[src].records)
  <2>1. IsSeq(cs[dst].records) /\ IsSeq(cs[src].records)
    BY <1>1 DEF ClusterOk
  <2> QED  BY <2>1, SeqConcat
<1>6. \A i \in DOMAIN cs : ClusterShown(cs[i])
  BY DEF AllShown
<1>7. ASSUME NEW i \in DOMAIN cs PROVE ClusterShown(to.list.clusters[i])
  <2> DEFINE cl == to.list.clusters[i]
  <2>1. SameShown(cs[i], cl)
    BY <1>2, <1>3
  <2>2. Elems(cs[i].keys) \subseteq Elems(cl.keys) /\ Elems(cs[i].records) \subseteq Elems(cl.records)
    BY <1>4, <1>5
  <2>3. Elems(cl.keys) \subseteq Elems(cs[i].keys) \cup Elems(cs[src].keys)
    BY <1>4
  <2>4. Elems(cl.records) \subseteq Elems(cs[i].records) \cup Elems(cs[src].records)
    BY <1>4, <1>5
  <2>5. ClusterShown(cs[i]) /\ ClusterShown(cs[src])
    BY <1>6
  <2> HIDE DEF cl, cs
  <2>6. (\A k \in Elems(cl.keys) : k \in Seq(Int)) /\ \A r \in Elems(cl.records) : r.pos \in Nat
    BY <2>3, <2>4, <2>5 DEF ClusterShown
  <2> QED  BY <2>1, <2>2, <2>5, <2>6, MoreShown DEF cl
<1>8. AllShown(to.list)
  BY <1>2, <1>4, <1>7 DEF AllShown
<1>9. Elems(cs[dst].records) \subseteq Elems(to.list.clusters[dst].records)
  BY <1>4, <1>5
<1> QED  BY <1>8, <1>9 DEF to

(* Nor does a record that joins a cluster change them.                     *)
LEMMA JoinShown ==
    ASSUME NEW st, StateOk(st), AllShown(st.list), NEW c \in DOMAIN st.list.clusters,
           NEW rec, rec.pos \in Nat
    PROVE  LET to == JoinCluster(st, c, rec)
           IN  ~ to.duplicate => /\ AllShown(to.list) /\ to.cluster = c
                                 /\ rec \in Elems(to.list.clusters[c].records)
<1> DEFINE to == JoinCluster(st, c, rec)
           cs == st.list.clusters
           again == \E r \in Elems(cs[c].records) : r.client = rec.client /\ SameMetadata(rec, r)
           joined == [cs[c] EXCEPT !.records = Append(@, rec)]
<1>1. /\ DOMAIN st = {"list", "total", "cluster", "duplicate", "found"}
      /\ DOMAIN st.list = {"chains", "clusters", "sorted", "num"}
      /\ IsSeq(cs) /\ \A i \in DOMAIN cs : ClusterOk(cs[i])
  BY DEF StateOk, ListOk
<1>2. CASE again
  <2>1. to = [st EXCEPT !.duplicate = TRUE]
    BY <1>2 DEF JoinCluster
  <2>2. to.duplicate
    BY <1>1, <2>1
  <2> QED  BY <2>2
<1>3. CASE ~ again
  <2> HIDE DEF again
  <2>1. to = [st EXCEPT !.list.clusters[c].records = Append(@, rec), !.cluster = c]
    BY <1>3 DEF JoinCluster, again
  <2>2. to.cluster = c /\ to.list.num = st.list.num /\ to.list.clusters = [cs EXCEPT ![c] = joined]
    BY <1>1, <2>1
  <2>3. SameShown(cs[c], joined) /\ joined.keys = cs[c].keys /\ joined.records = Append(cs[c].records, rec)
    <3>1. ClusterOk(cs[c])
      BY <1>1
    <3> QED  BY <3>1 DEF ClusterOk, ClusterFields, SameShown
  <2>4. Elems(Append(cs[c].records, rec)) = Elems(cs[c].records) \cup {rec}
    <3>1. IsSeq(cs[c].records)
      BY <1>1 DEF ClusterOk
    <3> QED  BY <3>1, SeqAppend
  <2> HIDE DEF joined, to
  <2>5. \A i \in DOMAIN cs : ClusterShown(cs[i])
    BY DEF AllShown
  <2>6. ClusterShown(joined)
    <3> DEFINE cl == cs[c]
    <3>1. ClusterShown(cl)
      BY <2>5
    <3>2. SameShown(cl, joined) /\ joined.keys = cl.keys
          /\ Elems(joined.records) = Elems(cl.records) \cup {rec}
      BY <2>3, <2>4
    <3> HIDE DEF cl, cs
    <3>3. (\A k \in Elems(joined.keys) : k \in Seq(Int)) /\ \A r \in Elems(joined.records) : r.pos \in Nat
      BY <3>1, <3>2 DEF ClusterShown
    <3> QED  BY <3>1, <3>2, <3>3, MoreShown
  <2>7. /\ DOMAIN to.list.clusters = DOMAIN cs
        /\ \A i \in DOMAIN cs : to.list.clusters[i] = IF i = c THEN joined ELSE cs[i]
    BY <2>2
  <2>8. \A i \in DOMAIN cs : ClusterShown(to.list.clusters[i])
    BY <2>5, <2>6, <2>7
  <2>9. st.list.num \in Nat
    BY DEF AllShown
  <2>10. AllShown(to.list)
    BY <2>2, <2>7, <2>8, <2>9 DEF AllShown
  <2>11. rec \in Elems(to.list.clusters[c].records)
    BY <2>3, <2>4, <2>7
  <2> QED  BY <2>2, <2>10, <2>11 DEF to
<1> QED  BY <1>2, <1>3

(* The keys of a new cluster.                                              *)
LEMMA KeysOfNew ==
    ASSUME NEW keys, IsSeq(keys)
    PROVE  Elems(Union(<<>>, keys)) = Elems(keys)
<1>1. IsSeq(<<>>) /\ Elems(<<>>) = {}
  BY SeqEmpty
<1>2. IsSeq(Union(<<>>, keys)) /\ Elems(Union(<<>>, keys)) = Elems(<<>>) \cup Elems(keys)
  BY <1>1, UnionIs
<1> QED  BY <1>1, <1>2

(* A new cluster shows nothing yet.                                        *)
LEMMA NewShown ==
    ASSUME NEW st, StateOk(st), AllShown(st.list), NEW rec, rec.pos \in Nat,
           NEW keys, IsSeq(keys), Elems(keys) # {}, \A k \in Elems(keys) : k \in Seq(Int)
    PROVE  LET to == NewCluster(st, rec, keys)
           IN  AllShown(to.list) /\ rec \in Elems(to.list.clusters[to.cluster].records)
<1> DEFINE to == NewCluster(st, rec, keys)
           cs == st.list.clusters
           n == Len(cs) + 1
           new == [records |-> <<rec>>, keys |-> Union(<<>>, keys), recid |-> Head(keys),
                   live |-> TRUE, retrieval |-> st.list.num,
                   md |-> [f \in Fields |-> <<>>], sortkey |-> [f \in Fields |-> Absent],
                   tf |-> 0, score |-> 0]
           list == [st.list EXCEPT !.clusters = Append(@, new), !.num = @ + 1, !.sorted = <<>>]
<1>1. /\ DOMAIN st = {"list", "total", "cluster", "duplicate", "found"}
      /\ DOMAIN st.list = {"chains", "clusters", "sorted", "num"} /\ IsSeq(cs)
  BY DEF StateOk, ListOk
<1>2. to = [st EXCEPT !.list = list, !.cluster = Len(list.clusters), !.total = @ + 1]
  BY DEF NewCluster
<1>3. Head(keys) \in Elems(keys) /\ Elems(Union(<<>>, keys)) = Elems(keys)
  <2>1. Elems(Union(<<>>, keys)) = Elems(keys)
    BY KeysOfNew
  <2>2. keys # <<>> /\ keys \in Seq(Elems(keys))
    BY SeqEmpty DEF IsSeq
  <2>3. Head(keys) \in Elems(keys)
    BY <2>2, HeadTailProperties
  <2> QED  BY <2>1, <2>3
<1>4. Elems(<<rec>>) = {rec}
  BY DEF Elems
<1>5. ClusterShown(new)
  <2>1. IsSeq(<<>>) /\ Elems(<<>>) = {}
    BY SeqEmpty
  <2>2. DOMAIN new.md = Fields /\ DOMAIN new.sortkey = Fields
    OBVIOUS
  <2>3. ASSUME NEW f \in Fields
        PROVE  AllStand(f, new.md[f], ValuesOf(new.records, f)) /\ SortedBy(f, new.md[f], new.sortkey[f])
    <3>1. new.md[f] = <<>> /\ new.sortkey[f] = Absent
      OBVIOUS
    <3> HIDE DEF new
    <3> QED  BY <2>1, <3>1 DEF AllStand, SortedBy
  <2>4. new.recid = Head(keys) /\ new.keys = Union(<<>>, keys) /\ new.records = <<rec>>
        /\ new.retrieval = st.list.num
    OBVIOUS
  <2>5. st.list.num \in Nat
    BY DEF AllShown
  <2> HIDE DEF new
  <2>6. FieldsShown(new, new.records)
    BY <2>2, <2>3 DEF FieldsShown
  <2>7. Elems(new.records) = {rec} /\ Elems(new.keys) = Elems(keys)
    BY <1>3, <1>4, <2>4
  <2> QED  BY <1>3, <2>4, <2>5, <2>6, <2>7 DEF ClusterShown
<1>6. Elems(new.records) = {rec}
  BY <1>4
<1> HIDE DEF new
<1>7. list.clusters = Append(cs, new) /\ list.num = st.list.num + 1
  BY <1>1
<1>8. /\ IsSeq(Append(cs, new)) /\ Len(Append(cs, new)) = n
      /\ \A i \in DOMAIN cs : Append(cs, new)[i] = cs[i]
      /\ Append(cs, new)[n] = new
  BY <1>1, SeqAppend
<1>9. DOMAIN Append(cs, new) = 1 .. n /\ DOMAIN cs = 1 .. n - 1 /\ n \in Nat
  BY <1>1, <1>8, SeqIs
<1> HIDE DEF list, to, n, cs
<1>10. to.list = list /\ to.cluster = Len(list.clusters)
  BY <1>1, <1>2
<1>11. to.cluster = n /\ to.list.clusters[n] = new
  BY <1>7, <1>8, <1>10
<1>12. \A i \in DOMAIN cs : ClusterShown(cs[i])
  BY DEF AllShown, cs
<1>13. \A i \in 1 .. n : ClusterShown(list.clusters[i])
  <2>1. \A i \in 1 .. n : i \in 1 .. n - 1 \/ i = n
    BY <1>9
  <2> QED  BY <1>5, <1>7, <1>8, <1>9, <1>12, <2>1
<1>14. list.num \in Nat
  <2>1. st.list.num \in Nat
    BY DEF AllShown
  <2> QED  BY <1>7, <2>1
<1>15. AllShown(to.list)
  BY <1>7, <1>9, <1>10, <1>13, <1>14 DEF AllShown
<1> QED  BY <1>6, <1>11, <1>15 DEF to
-----------------------------------------------------------------------------
(* A cluster's term frequency lacks w of what its records come to; and     *)
(* when it is above 0, then D.                                             *)
ClusterRated(cl, asked, w, D) ==
    /\ Weighable(asked, cl.records)
    /\ cl.tf \in Nat /\ cl.tf + w = Tf(asked, cl.records)
    /\ cl.tf > 0 => D

(* All clusters, those merged away too; only cluster c lacks something.    *)
RatedBut(list, asked, c, w, D) ==
    \A i \in DOMAIN list.clusters :
        ClusterRated(list.clusters[i], asked, IF i = c THEN w ELSE 0, D)

(* Between records none does.                                              *)
Rated(list, asked, D) == \A i \in DOMAIN list.clusters : ClusterRated(list.clusters[i], asked, 0, D)

(* The merge keys of a document, which the hash table has places for.      *)
KeysFine(keys) ==
    IsSeq(keys) /\ Elems(keys) # {} /\ \A k \in Elems(keys) : k \in Seq(Int) /\ Hash(k) \in Buckets

(* reclist_insert, whose record's term is not counted yet, nor its values  *)
(* among those of its cluster.                                             *)
Rating(st, asked, rec, w, D) ==
    /\ StateOk(st)
    /\ st.duplicate \/ (/\ st.cluster \in DOMAIN st.list.clusters \cup {0}
                        /\ RatedBut(st.list, asked, st.cluster, w, D)
                        /\ AllShown(st.list)
                        /\ st.cluster # 0 => rec \in Elems(st.list.clusters[st.cluster].records))

(* merge_cluster adds the frequencies.                                     *)
LEMMA MergeRated ==
    ASSUME NEW asked, NEW w \in Nat, NEW D \in BOOLEAN, NEW st, StateOk(st),
           RatedBut(st.list, asked, st.cluster, w, D), AllShown(st.list),
           NEW src \in DOMAIN st.list.clusters,
           st.cluster \in DOMAIN st.list.clusters, src # st.cluster,
           NEW rec \in Elems(st.list.clusters[st.cluster].records)
    PROVE  Rating(MergeCluster(st, src), asked, rec, w, D)
<1> DEFINE to == MergeCluster(st, src)
           dst == st.cluster
           cs == st.list.clusters
           cs2 == to.list.clusters
<1>1. /\ StateOk(to) /\ to.cluster = dst /\ DOMAIN cs2 = DOMAIN cs
      /\ \A i \in DOMAIN cs :
            /\ cs2[i].records = IF i = dst THEN cs[dst].records \o cs[src].records ELSE cs[i].records
            /\ cs2[i].tf = IF i = dst THEN cs[dst].tf + cs[src].tf ELSE cs[i].tf
  <2>0. StateOk(st) /\ src \in DOMAIN st.list.clusters /\ st.cluster \in DOMAIN st.list.clusters /\ src # st.cluster
    OBVIOUS
  <2>1. StateOk(to) /\ to.cluster = dst /\ DOMAIN cs2 = DOMAIN cs
    BY ONLY <2>0, MergeIs
  <2>2. ASSUME NEW i \in DOMAIN cs
        PROVE  /\ cs2[i].records = IF i = dst THEN cs[dst].records \o cs[src].records ELSE cs[i].records
               /\ cs2[i].tf = IF i = dst THEN cs[dst].tf + cs[src].tf ELSE cs[i].tf
    <3>1. \A k \in DOMAIN cs :
             cs2[k].records = IF k = dst THEN cs[dst].records \o cs[src].records ELSE cs[k].records
      BY ONLY <2>0, MergeIs
    <3>2. \A k \in DOMAIN cs : cs2[k].tf = IF k = dst THEN cs[dst].tf + cs[src].tf ELSE cs[k].tf
      BY ONLY <2>0, MergeIs
    <3> HIDE DEF to, cs, cs2, dst
    <3> QED  BY ONLY <2>2, <3>1, <3>2
  <2> HIDE DEF to
  <2> QED  BY <2>1, <2>2
<1> HIDE DEF to
<1>2. \A i \in DOMAIN cs : ClusterRated(cs[i], asked, IF i = dst THEN w ELSE 0, D)
  BY DEF RatedBut
<1>3. ClusterRated(cs[dst], asked, w, D) /\ ClusterRated(cs[src], asked, 0, D)
  BY <1>2
<1>4. /\ Weighable(asked, cs[dst].records \o cs[src].records)
      /\ Tf(asked, cs[dst].records \o cs[src].records)
            = Tf(asked, cs[dst].records) + Tf(asked, cs[src].records)
  BY <1>3, TfConcat DEF ClusterRated
<1> HIDE DEF cs, cs2, dst
<1>5. ASSUME NEW i \in DOMAIN cs
      PROVE  ClusterRated(cs2[i], asked, IF i = dst THEN w ELSE 0, D)
  <2>1. CASE i = dst
    <3>1. cs2[i].tf = cs[dst].tf + cs[src].tf /\ cs2[i].records = cs[dst].records \o cs[src].records
      BY <1>1, <2>1
    <3> DEFINE a == cs[dst].tf
               b == cs[src].tf
    <3>2. a \in Nat /\ b \in Nat /\ (a > 0 => D) /\ (b > 0 => D)
      BY <1>3 DEF ClusterRated
    <3>3. Tf(asked, cs[dst].records) = a + w /\ Tf(asked, cs[src].records) = b + 0
      BY <1>3 DEF ClusterRated
    <3>4. cs2[i].tf = a + b
      BY <3>1
    <3>5. Tf(asked, cs2[i].records) = (a + w) + (b + 0)
      BY <1>4, <3>1, <3>3
    <3>6. Weighable(asked, cs2[i].records)
      BY <1>4, <3>1
    <3> HIDE DEF a, b
    <3>7. a + b \in Nat /\ (a + b) + w = (a + w) + (b + 0) /\ (a + b > 0 => D)
      BY <3>2
    <3>8. ClusterRated(cs2[i], asked, w, D)
      BY <3>4, <3>5, <3>6, <3>7 DEF ClusterRated
    <3> QED  BY <2>1, <3>8
  <2>2. CASE i # dst
    <3>1. ClusterRated(cs[i], asked, 0, D) /\ cs2[i].records = cs[i].records /\ cs2[i].tf = cs[i].tf
      BY <1>1, <1>2, <2>2
    <3>2. ClusterRated(cs2[i], asked, 0, D)
      BY <3>1 DEF ClusterRated
    <3> QED  BY <2>2, <3>2
  <2> QED  BY <2>1, <2>2
<1>6. to.cluster \in DOMAIN cs2 /\ RatedBut(to.list, asked, to.cluster, w, D)
  BY <1>1, <1>5 DEF RatedBut, cs2, dst, cs
<1>7. AllShown(to.list) /\ rec \in Elems(to.list.clusters[to.cluster].records)
  <2>1. /\ AllShown(to.list)
        /\ Elems(st.list.clusters[dst].records) \subseteq Elems(to.list.clusters[dst].records)
    BY MergeShown DEF to, dst
  <2> QED  BY <1>1, <2>1 DEF dst
<1> QED  BY <1>1, <1>6, <1>7 DEF Rating, to, cs2

(* A record that joins a cluster is still to be counted.                   *)
LEMMA JoinRated ==
    ASSUME NEW asked, NEW w \in Nat, NEW D \in BOOLEAN, NEW st, StateOk(st), st.cluster = 0,
           RatedBut(st.list, asked, st.cluster, w, D), AllShown(st.list),
           NEW c \in DOMAIN st.list.clusters, NEW rec, Weight(asked, rec) = w, rec.pos \in Nat
    PROVE  Rating(JoinCluster(st, c, rec), asked, rec, w, D)
<1> DEFINE to == JoinCluster(st, c, rec)
           cs == st.list.clusters
           cs2 == to.list.clusters
<1>1. /\ StateOk(to)
      /\ \/ to.duplicate
         \/ /\ to.cluster = c /\ DOMAIN cs2 = DOMAIN cs
            /\ \A i \in DOMAIN cs :
                  /\ cs2[i].records = IF i = c THEN Append(cs[c].records, rec) ELSE cs[i].records
                  /\ cs2[i].tf = cs[i].tf
  BY JoinIs
<1> HIDE DEF to
<1>2. 0 \notin DOMAIN cs
  <2>1. ListOk(st.list)
    BY DEF StateOk
  <2> QED  BY <2>1, NotZero
<1>3. \A i \in DOMAIN cs : ClusterRated(cs[i], asked, 0, D)
  BY <1>2 DEF RatedBut
<1>4. /\ Weighable(asked, Append(cs[c].records, rec)) /\ Tf(asked, cs[c].records) \in Nat
      /\ Tf(asked, Append(cs[c].records, rec)) = Tf(asked, cs[c].records) + w
  <2>1. Weighable(asked, cs[c].records)
    BY <1>3 DEF ClusterRated
  <2> QED  BY <2>1, TfAppend
<1> HIDE DEF cs, cs2
<1>5. CASE ~ to.duplicate
  <2>1. ASSUME NEW i \in DOMAIN cs
        PROVE  ClusterRated(cs2[i], asked, IF i = c THEN w ELSE 0, D)
    <3>1. ClusterRated(cs[i], asked, 0, D) /\ cs2[i].tf = cs[i].tf
      BY <1>1, <1>3, <1>5
    <3>2. CASE i = c
      <4>1. cs2[i].records = Append(cs[c].records, rec)
        BY <1>1, <1>5, <3>2
      <4>2. cs2[i].tf + 0 = Tf(asked, cs[c].records) /\ cs2[i].tf \in Nat /\ (cs2[i].tf > 0 => D)
        BY <3>1, <3>2 DEF ClusterRated
      <4>3. cs2[i].tf + w = Tf(asked, cs2[i].records)
        BY <1>4, <4>1, <4>2
      <4>4. ClusterRated(cs2[i], asked, w, D)
        BY <1>4, <4>1, <4>2, <4>3 DEF ClusterRated
      <4> QED  BY <3>2, <4>4
    <3>3. CASE i # c
      <4>1. cs2[i].records = cs[i].records
        BY <1>1, <1>5, <3>3
      <4>2. ClusterRated(cs2[i], asked, 0, D)
        BY <3>1, <4>1 DEF ClusterRated
      <4> QED  BY <3>3, <4>2
    <3> QED  BY <3>2, <3>3
  <2>2. DOMAIN cs2 = DOMAIN cs /\ to.cluster = c
    BY <1>1, <1>5
  <2>3. to.cluster \in DOMAIN cs2 /\ RatedBut(to.list, asked, to.cluster, w, D)
    BY <2>1, <2>2 DEF RatedBut, cs2, cs
  <2>4. AllShown(to.list) /\ rec \in Elems(to.list.clusters[to.cluster].records)
    <3>1. /\ AllShown(to.list) /\ rec \in Elems(to.list.clusters[c].records)
      BY <1>5, JoinShown DEF to
    <3> QED  BY <2>2, <3>1
  <2> QED  BY <1>1, <2>3, <2>4 DEF Rating, to, cs2
<1>6. CASE to.duplicate
  BY <1>1, <1>6 DEF Rating, to
<1> QED  BY <1>5, <1>6

(* So is that of a new cluster.                                            *)
LEMMA NewRated ==
    ASSUME NEW asked, NEW w \in Nat, NEW D \in BOOLEAN, NEW st, StateOk(st), st.cluster = 0,
           RatedBut(st.list, asked, st.cluster, w, D), AllShown(st.list),
           NEW rec, Weight(asked, rec) = w, rec.pos \in Nat, NEW keys, KeysFine(keys)
    PROVE  LET to == NewCluster(st, rec, keys)
           IN  Rating(to, asked, rec, w, D) /\ to.cluster \in DOMAIN to.list.clusters
<1> DEFINE to == NewCluster(st, rec, keys)
           cs == st.list.clusters
           cs2 == to.list.clusters
           n == Len(st.list.clusters) + 1
<1>1. /\ StateOk(to) /\ to.cluster = n /\ n \notin DOMAIN cs /\ DOMAIN cs2 = DOMAIN cs \cup {n}
      /\ cs2[n].records = <<rec>> /\ cs2[n].tf = 0
      /\ \A i \in DOMAIN cs : cs2[i] = cs[i]
  BY NewClusterIs DEF KeysFine
<1> HIDE DEF to, n
<1>2. 0 \notin DOMAIN cs
  <2>1. ListOk(st.list)
    BY DEF StateOk
  <2> QED  BY <2>1, NotZero
<1>3. \A i \in DOMAIN cs : ClusterRated(cs[i], asked, 0, D)
  BY <1>2 DEF RatedBut
<1>4. Weighable(asked, <<rec>>) /\ Tf(asked, <<rec>>) = w
  BY TfOne
<1>5. ClusterRated(cs2[n], asked, w, D)
  <2> DEFINE one == <<rec>>
  <2>1. cs2[n].records = one /\ Weighable(asked, one) /\ Tf(asked, one) = w
    BY <1>1, <1>4
  <2> HIDE DEF one
  <2>2. cs2[n].tf \in Nat /\ cs2[n].tf + w = w /\ ~ (cs2[n].tf > 0)
    BY <1>1
  <2> HIDE DEF cs2
  <2> QED  BY <2>1, <2>2 DEF ClusterRated
<1>6. ASSUME NEW i \in DOMAIN cs2 PROVE ClusterRated(cs2[i], asked, IF i = n THEN w ELSE 0, D)
  BY <1>1, <1>3, <1>5
<1>7. to.cluster \in DOMAIN cs2 /\ RatedBut(to.list, asked, to.cluster, w, D)
  BY <1>1, <1>6 DEF RatedBut
<1>8. AllShown(to.list) /\ rec \in Elems(to.list.clusters[to.cluster].records)
  BY NewShown DEF to, KeysFine
<1> QED  BY <1>1, <1>7, <1>8 DEF Rating, to

(* One bucket.                                                             *)
LEMMA MeetBucketRated ==
    ASSUME NEW asked, NEW w \in Nat, NEW D \in BOOLEAN, NEW rec, Weight(asked, rec) = w,
           rec.pos \in Nat, NEW st, Rating(st, asked, rec, w, D), NEW key, Hash(key) \in Buckets,
           NEW i \in DOMAIN st.list.chains[Hash(key)]
    PROVE  LET to == MeetBucket(st, i, rec, key)
           IN  /\ Rating(to, asked, rec, w, D)
               /\ DOMAIN to.list.chains[Hash(key)] = DOMAIN st.list.chains[Hash(key)]
<1> DEFINE c == st.list.chains[Hash(key)][i]
           to == MeetBucket(st, i, rec, key)
           b == Hash(key)
<1>1. StateOk(st) /\ ListOk(st.list) /\ c \in DOMAIN st.list.clusters
  <2>1. StateOk(st) /\ ListOk(st.list)
    BY DEF Rating, StateOk
  <2> QED  BY <2>1, Chained
<1>2. to = IF st.duplicate \/ key \notin Elems(st.list.clusters[c].keys) THEN st
           ELSE IF st.cluster = 0 THEN [JoinCluster(st, c, rec) EXCEPT !.found = TRUE]
           ELSE IF st.cluster = c THEN [st EXCEPT !.found = TRUE]
           ELSE [MergeCluster(st, c) EXCEPT !.found = TRUE]
  BY DEF MeetBucket
<1> HIDE DEF to
<1>3. ASSUME NEW u, Rating(u, asked, rec, w, D), DOMAIN u.list.chains[b] = DOMAIN st.list.chains[b],
             to = [u EXCEPT !.found = TRUE]
      PROVE  Rating(to, asked, rec, w, D) /\ DOMAIN to.list.chains[b] = DOMAIN st.list.chains[b]
  <2> DEFINE v == [u EXCEPT !.found = TRUE]
  <2>1. StateOk(u)
    BY <1>3 DEF Rating
  <2>2. StateOk(v) /\ v.duplicate = u.duplicate /\ v.cluster = u.cluster /\ v.list = u.list
    BY <2>1, FoundIs
  <2> HIDE DEF v
  <2>3. Rating(v, asked, rec, w, D)
    BY <1>3, <2>2 DEF Rating
  <2>4. to = v
    BY <1>3 DEF v
  <2> QED  BY <1>3, <2>2, <2>3, <2>4
<1>4. CASE st.duplicate \/ key \notin Elems(st.list.clusters[c].keys)
  BY <1>2, <1>4 DEF to
<1>5. CASE ~ st.duplicate /\ key \in Elems(st.list.clusters[c].keys)
  <2>1. /\ st.cluster \in DOMAIN st.list.clusters \cup {0} /\ RatedBut(st.list, asked, st.cluster, w, D)
        /\ AllShown(st.list)
        /\ st.cluster # 0 => rec \in Elems(st.list.clusters[st.cluster].records)
    BY <1>5 DEF Rating
  <2>2. CASE st.cluster = 0
    <3> DEFINE u == JoinCluster(st, c, rec)
    <3>1. Rating(u, asked, rec, w, D)
      BY <1>1, <2>1, <2>2, JoinRated
    <3>2. u.list.chains = st.list.chains
      BY <1>1, JoinIs
    <3>3. to = [u EXCEPT !.found = TRUE]
      BY <1>2, <1>5, <2>2
    <3> HIDE DEF u, b
    <3> QED  BY <1>3, <3>1, <3>2, <3>3 DEF to, b
  <2>3. CASE st.cluster # 0 /\ st.cluster = c
    <3>1. to = [st EXCEPT !.found = TRUE]
      BY <1>2, <1>5, <2>3
    <3> QED  BY <1>3, <3>1 DEF to
  <2>4. CASE st.cluster # 0 /\ st.cluster # c
    <3> DEFINE u == MergeCluster(st, c)
    <3>1. Rating(u, asked, rec, w, D)
      BY <1>1, <2>1, <2>4, MergeRated
    <3>2. DOMAIN u.list.chains[b] = DOMAIN st.list.chains[b]
      BY <1>1, <2>1, <2>4, MergeIs
    <3>3. to = [u EXCEPT !.found = TRUE]
      BY <1>2, <1>5, <2>4
    <3> HIDE DEF u, b
    <3> QED  BY <1>3, <3>1, <3>2, <3>3 DEF to, b
  <2> QED  BY <2>2, <2>3, <2>4
<1> QED  BY <1>4, <1>5

(* One key.                                                                *)
LEMMA MeetKeyRated ==
    ASSUME NEW asked, NEW w \in Nat, NEW D \in BOOLEAN, NEW rec, Weight(asked, rec) = w,
           rec.pos \in Nat, NEW st, Rating(st, asked, rec, w, D), NEW keys, KeysFine(keys),
           NEW key, Hash(key) \in Buckets
    PROVE  Rating(MeetKey(st, rec, key, keys), asked, rec, w, D)
<1> DEFINE to == MeetKey(st, rec, key, keys)
           chain == st.list.chains[Hash(key)]
           m == Len(chain)
           start == [st EXCEPT !.found = FALSE]
           L == [i \in DOMAIN chain |-> i]
           met == FoldLeft(LAMBDA s, i : MeetBucket(s, i, rec, key), start, L)
<1>1. StateOk(st) /\ ListOk(st.list)
  BY DEF Rating, StateOk
<1>2. m \in Nat /\ DOMAIN chain = 1 .. m /\ DOMAIN L = 1 .. m
  BY <1>1, Chained
<1>3. to = IF met.duplicate \/ met.found THEN met
           ELSE NewBucket(IF met.cluster = 0 THEN NewCluster(met, rec, keys) ELSE met, key)
  BY DEF MeetKey
<1>4. PICK h : /\ h[0] = start
               /\ \A k \in 1 .. m : h[k] = MeetBucket(h[k - 1], L[k], rec, key)
               /\ met = h[m]
  <2>1. met = BucketOver(start, L, rec, key)
    BY DEF BucketOver
  <2> HIDE DEF L, m, start, met
  <2>2. \E h : /\ h[0] = start
               /\ \A k \in 1 .. m : h[k] = MeetBucket(h[k - 1], L[k], rec, key)
               /\ BucketOver(start, L, rec, key) = h[m]
    <3>1. m \in Nat /\ DOMAIN L = 1 .. m
      BY <1>2
    <3> QED  BY ONLY <3>1, BucketFold
  <2> QED  BY <2>1, <2>2
<1>5. \A k \in 1 .. m : L[k] = k
  BY <1>2
<1>6. /\ StateOk(start) /\ start.duplicate = st.duplicate
      /\ start.cluster = st.cluster /\ start.list = st.list
  BY <1>1, FoundIs
<1> HIDE DEF L, met, start, to, m
<1> DEFINE Fine(s) == Rating(s, asked, rec, w, D) /\ DOMAIN s.list.chains[Hash(key)] = 1 .. m
           T == {t \in 0 .. m : Fine(h[t])}
<1>7. Fine(start)
  BY <1>2, <1>6 DEF Rating
<1>8. ASSUME NEW k \in 1 .. m, Fine(h[k - 1]) PROVE Fine(h[k])
  <2> DEFINE s == h[k - 1]
             s2 == MeetBucket(s, k, rec, key)
  <2>1. h[k] = s2
    BY <1>4, <1>5
  <2>2. Rating(s, asked, rec, w, D)
    BY <1>8
  <2>4. k \in DOMAIN s.list.chains[Hash(key)] /\ DOMAIN s.list.chains[Hash(key)] = 1 .. m
    BY <1>8
  <2>5. k \in DOMAIN s.list.chains[Hash(key)]
    BY <2>4
  <2> HIDE DEF s, Fine
  <2>3. Rating(s2, asked, rec, w, D)
        /\ DOMAIN s2.list.chains[Hash(key)] = DOMAIN s.list.chains[Hash(key)]
    BY <2>2, <2>5, MeetBucketRated
  <2> HIDE DEF s2
  <2> QED  BY <2>1, <2>3, <2>4 DEF Fine
<1> HIDE DEF Fine
<1>9. Fine(met)
  <2>1. 0 \in T
    BY <1>2, <1>4, <1>7
  <2>2. \A k \in 1 .. m : k - 1 \in T => k \in T
    BY <1>2, <1>8
  <2> HIDE DEF T
  <2>3. m \in T
    BY <1>2, <2>1, <2>2, UpTo
  <2> QED  BY <1>4, <2>3 DEF T
<1>10. Rating(met, asked, rec, w, D) /\ StateOk(met)
  BY <1>9 DEF Fine, Rating
<1>11. CASE met.duplicate \/ met.found
  BY <1>3, <1>10, <1>11 DEF to
<1>12. CASE ~ met.duplicate /\ ~ met.found
  <2> DEFINE u == IF met.cluster = 0 THEN NewCluster(met, rec, keys) ELSE met
             v == NewBucket(u, key)
  <2>1. to = v
    BY <1>3, <1>12
  <2>2. /\ met.cluster \in DOMAIN met.list.clusters \cup {0} /\ RatedBut(met.list, asked, met.cluster, w, D)
        /\ AllShown(met.list)
    BY <1>10, <1>12 DEF Rating
  <2>3. Rating(u, asked, rec, w, D) /\ u.cluster \in DOMAIN u.list.clusters
    <3>1. CASE met.cluster = 0
      <4>1. u = NewCluster(met, rec, keys)
        BY <3>1
      <4> HIDE DEF u
      <4> QED  BY <1>10, <2>2, <3>1, <4>1, NewRated
    <3>2. CASE met.cluster # 0
      BY <1>10, <2>2, <3>2
    <3> QED  BY <3>1, <3>2
  <2> HIDE DEF u
  <2>4. StateOk(u)
    BY <2>3 DEF Rating
  <2>5. /\ StateOk(v) /\ v.duplicate = u.duplicate /\ v.cluster = u.cluster
        /\ v.list.clusters = u.list.clusters
    BY <2>3, <2>4, NewBucketIs
  <2>7. v.list.num = u.list.num
    <3>1. DOMAIN u = {"list", "total", "cluster", "duplicate", "found"}
          /\ DOMAIN u.list = {"chains", "clusters", "sorted", "num"}
      BY <2>4 DEF StateOk, ListOk
    <3> QED  BY <3>1 DEF NewBucket
  <2> HIDE DEF v
  <2>6. Rating(v, asked, rec, w, D)
    BY <2>3, <2>5, <2>7 DEF Rating, RatedBut, AllShown
  <2> QED  BY <2>1, <2>6 DEF to
<1> QED  BY <1>11, <1>12

(* reclist_insert: only the cluster of the record lacks its term.          *)
LEMMA InsertRated ==
    ASSUME NEW asked, NEW w \in Nat, NEW D \in BOOLEAN, NEW list, ListOk(list), NEW total,
           Rated(list, asked, D), AllShown(list), NEW rec, Weight(asked, rec) = w, rec.pos \in Nat,
           NEW keys, KeysFine(keys)
    PROVE  LET ins == Insert(list, total, rec, keys)
           IN  ~ ins.duplicate =>
                  /\ RatedBut(ins.list, asked, ins.cluster, w, D) /\ AllShown(ins.list)
                  /\ ins.cluster # 0 => rec \in Elems(ins.list.clusters[ins.cluster].records)
<1> DEFINE ins == Insert(list, total, rec, keys)
           start == [list |-> list, total |-> total, cluster |-> 0, duplicate |-> FALSE,
                     found |-> FALSE]
           m == Len(keys)
<1>1. m \in Nat /\ DOMAIN keys = 1 .. m /\ \A k \in 1 .. m : keys[k] \in Elems(keys)
  BY SeqIs DEF KeysFine
<1>2. ins = KeyOver(start, keys, rec, keys)
  BY DEF Insert, KeyOver
<1>3. Rating(start, asked, rec, w, D)
  <2>1. StateOk(start)
    BY DEF StateOk
  <2>2. 0 \notin DOMAIN list.clusters
    BY NotZero
  <2>3. RatedBut(list, asked, 0, w, D)
    BY <2>2 DEF RatedBut, Rated
  <2> QED  BY <2>1, <2>3 DEF Rating
<1> HIDE DEF m, start, ins
<1>4. PICK h : /\ h[0] = start
               /\ \A k \in 1 .. m : h[k] = MeetKey(h[k - 1], rec, keys[k], keys)
               /\ ins = h[m]
  <2>1. m \in Nat /\ DOMAIN keys = 1 .. m
    BY <1>1
  <2>2. \E h : /\ h[0] = start
               /\ \A k \in 1 .. m : h[k] = MeetKey(h[k - 1], rec, keys[k], keys)
               /\ KeyOver(start, keys, rec, keys) = h[m]
    BY ONLY <2>1, KeyFold
  <2> QED  BY <1>2, <2>2
<1> DEFINE T == {k \in 0 .. m : Rating(h[k], asked, rec, w, D)}
<1>5. 0 \in T
  BY <1>1, <1>3, <1>4
<1>6. ASSUME NEW k \in 1 .. m, k - 1 \in T PROVE k \in T
  <2> DEFINE was == h[k - 1]
             key == keys[k]
             to == MeetKey(was, rec, key, keys)
  <2>1. Rating(was, asked, rec, w, D) /\ Hash(key) \in Buckets /\ h[k] = to
    BY <1>1, <1>4, <1>6 DEF KeysFine
  <2> HIDE DEF was, key
  <2>2. Rating(to, asked, rec, w, D)
    BY <2>1, MeetKeyRated
  <2> HIDE DEF to
  <2> QED  BY <1>1, <2>1, <2>2
<1> HIDE DEF T
<1>7. m \in T
  BY <1>1, <1>5, <1>6, UpTo
<1>8. Rating(ins, asked, rec, w, D)
  BY <1>4, <1>7 DEF T
<1> QED  BY <1>8 DEF Rating, ins
-----------------------------------------------------------------------------
(* A list whose clusters have the same keys, records and buckets.          *)
LEMMA SameGood ==
    ASSUME NEW list, NEW total, NEW n, Good(list, total, n), NEW to,
           DOMAIN to = DOMAIN list, to.chains = list.chains, IsSeq(to.clusters),
           DOMAIN to.clusters = DOMAIN list.clusters,
           \A i \in DOMAIN list.clusters :
              /\ ClusterOk(to.clusters[i])
              /\ to.clusters[i].live = list.clusters[i].live
              /\ KeySet(to, i) = KeySet(list, i)
              /\ to.clusters[i].records = list.clusters[i].records
    PROVE  Good(to, total, n)
<1>1. ListOk(to)
  BY DEF Good, ListOk
<1>2. Keyed(to, 0, {}) /\ Lives(to) = Lives(list)
  <2>1. Keyed(list, 0, {})
    BY DEF Good
  <2> QED  BY <2>1, SameKeyed
<1>3. Pairs(to) = Pairs(list)
  BY <1>2 DEF Pairs, Lives
<1>4. Counted(to, total, n)
  BY <1>2, <1>3 DEF Counted, Good
<1> QED  BY <1>1, <1>2, <1>4 DEF Good

(* What ingest_to_cluster does to a cluster that is already in the list.   *)
SameCluster(cl, to) ==
    /\ DOMAIN to = DOMAIN cl
    /\ to.records = cl.records /\ to.keys = cl.keys /\ to.live = cl.live

(* Merging the values of a field touches neither records nor keys.         *)
LEMMA MergeFieldKeeps ==
    ASSUME NEW cl, DOMAIN cl = ClusterFields, NEW f, NEW values
    PROVE  SameCluster(cl, MergeField(f, cl, values)) /\ MergeField(f, cl, values).tf = cl.tf
<1> DEFINE md == FoldLeft(LAMBDA vs, v : MergeValue(f, vs, v, cl.md[f]), cl.md[f], values)
           sorts == Service[f].sort /\ Service[f].merge \in {"longest", "range"} /\ md # <<>>
           to == MergeField(f, cl, values)
<1>1. to = [cl EXCEPT !.md[f] = md, !.sortkey[f] = IF sorts THEN Head(md) ELSE @]
  BY DEF MergeField
<1> HIDE DEF md, sorts, to
<1>2. SameCluster(cl, to) /\ to.tf = cl.tf
  BY <1>1 DEF SameCluster, ClusterFields
<1> QED  BY <1>2 DEF to

(* Nor do the fields of a record, one after the other, and its terms.      *)
LEMMA AddToClusterKeeps ==
    ASSUME NEW cl, DOMAIN cl = ClusterFields, NEW sub, NEW term
    PROVE  /\ SameCluster(cl, AddToCluster(cl, sub, term))
           /\ AddToCluster(cl, sub, term).tf = cl.tf + CountWords(term, sub.md)
<1> DEFINE m == Len(FieldOrder)
           done == FieldOver(cl, FieldOrder, sub)
           words == CountWords(term, sub.md)
           to == AddToCluster(cl, sub, term)
<1>1. m \in Nat /\ DOMAIN FieldOrder = 1 .. m
  <2>1. IsSeq(FieldOrder)
    BY FieldsAssumption, SeqOver
  <2> QED  BY <2>1, SeqIs
<1>2. to = [done EXCEPT !.tf = @ + words]
  BY DEF AddToCluster, FieldOver
<1> HIDE DEF m, done, words, to
<1>3. PICK h : /\ h[0] = cl
               /\ \A k \in 1 .. m : h[k] = FieldStep(h[k - 1], FieldOrder[k], sub)
               /\ done = h[m]
  <2>1. \E h : /\ h[0] = cl
               /\ \A k \in 1 .. m : h[k] = FieldStep(h[k - 1], FieldOrder[k], sub)
               /\ FieldOver(cl, FieldOrder, sub) = h[m]
    <3>1. m \in Nat /\ DOMAIN FieldOrder = 1 .. m
      BY <1>1
    <3>2. ASSUME NEW L, DOMAIN L = 1 .. m
          PROVE  \E h : /\ h[0] = cl
                        /\ \A k \in 1 .. m : h[k] = FieldStep(h[k - 1], L[k], sub)
                        /\ FieldOver(cl, L, sub) = h[m]
      BY ONLY <3>1, <3>2, FieldFold
    <3> QED  BY ONLY <3>1, <3>2
  <2> QED  BY <2>1 DEF done
<1> DEFINE T == {k \in 0 .. m : SameCluster(cl, h[k]) /\ h[k].tf = cl.tf}
<1>4. 0 \in T
  BY <1>1, <1>3 DEF SameCluster
<1>5. ASSUME NEW k \in 1 .. m, k - 1 \in T PROVE k \in T
  <2>1. SameCluster(cl, h[k - 1]) /\ h[k - 1].tf = cl.tf /\ DOMAIN h[k - 1] = ClusterFields
    BY <1>5 DEF SameCluster
  <2>2. SameCluster(h[k - 1], h[k]) /\ h[k].tf = h[k - 1].tf
    BY <1>3, <2>1, MergeFieldKeeps DEF FieldStep
  <2>3. k \in 0 .. m
    BY <1>1
  <2> QED  BY <2>1, <2>2, <2>3 DEF SameCluster
<1> HIDE DEF T
<1>6. m \in T
  BY <1>1, <1>4, <1>5, UpTo
<1>7. SameCluster(cl, done) /\ done.tf = cl.tf
  BY <1>3, <1>6 DEF T
<1>8. SameCluster(cl, to) /\ to.tf = cl.tf + words
  BY <1>2, <1>7 DEF SameCluster, ClusterFields
<1> QED  BY <1>8 DEF to, words

(* The lower and the higher of two.                                        *)
LEMMA TwoBounds == \A a, b \in Int : Min({a, b}) \in {a, b} /\ Max({a, b}) \in {a, b}
<1> TAKE a, b \in Int
<1>1. CASE a <= b
  <2>1. \A x \in {a, b} : a <= x /\ b >= x
    BY <1>1
  <2> QED  BY <2>1 DEF Min, Max
<1>2. CASE b <= a
  <2>1. \A x \in {a, b} : b <= x /\ a >= x
    BY <1>2
  <2> QED  BY <2>1 DEF Min, Max
<1> QED  BY <1>1, <1>2

(* The values that a record has.                                           *)
ValuesFine(sub) ==
    \A f \in Fields : sub.md[f] \in Seq({v \in Elems(sub.md[f]) : IsValue(f, v)})

LEMMA FiniteValues ==
    ASSUME NEW sub, ValuesFine(sub)
    PROVE  \A f \in Fields : IsFiniteSet(DOMAIN sub.md[f])
<1> TAKE f \in Fields
<1>1. IsSeq(sub.md[f])
  BY SeqOver DEF ValuesFine
<1>2. DOMAIN sub.md[f] = 1 .. Len(sub.md[f]) /\ Len(sub.md[f]) \in Nat
  BY <1>1, SeqIs
<1>3. \A n \in Nat : IsFiniteSet(1 .. n)
  BY FS_Interval
<1> QED  BY <1>2, <1>3

(* One more value is one of the record's, or a bound is; ...               *)
LEMMA MergeValueStands ==
    ASSUME NEW f \in Fields, NEW vs, NEW values, AllStand(f, vs, values),
           NEW v \in values, IsValue(f, v), NEW was
    PROVE  AllStand(f, MergeValue(f, vs, v, was), values)
<1> DEFINE to == MergeValue(f, vs, v, was)
<1>1. /\ IsSeq(vs) /\ \A x \in Elems(vs) : Stands(f, x, values)
  BY DEF AllStand
<1>2. Service[f].merge # "range" => Stands(f, v, values)
  BY DEF Stands
<1>3. IsSeq(Append(vs, v)) /\ Elems(Append(vs, v)) = Elems(vs) \cup {v}
  BY <1>1, SeqAppend
<1>4. \A x : IsSeq(<<x>>) /\ Elems(<<x>>) = {x}
  <2> TAKE x
  <2>1. <<x>> \in Seq({x})
    OBVIOUS
  <2>2. Elems(<<x>>) = {x}
    BY DEF Elems
  <2> QED  BY <2>1, <2>2, SeqOver
<1>5. vs # <<>> => Head(vs) \in Elems(vs)
  <2>1. vs \in Seq(Elems(vs))
    BY <1>1 DEF IsSeq
  <2> QED  BY <2>1, HeadTailProperties
<1>6. CASE Service[f].merge # "range"
  <2>1. to \in {vs, Append(vs, v), <<v>>}
    BY <1>6, FieldsAssumption DEF MergeValue
  <2>2. IsSeq(to) /\ \A x \in Elems(to) : x = v \/ x \in Elems(vs)
    BY <1>1, <1>3, <1>4, <2>1
  <2> QED  BY <1>1, <1>2, <1>6, <2>2 DEF AllStand, to
<1>7. CASE Service[f].merge = "range"
  <2>1. Stands(f, v, values)
    BY <1>7 DEF Stands
  <2>2. CASE vs = <<>>
    <3>1. to = <<v>>
      BY <1>7, <2>2 DEF MergeValue
    <3> QED  BY <1>4, <2>1, <3>1 DEF AllStand, to
  <2>3. CASE vs # <<>>
    <3> DEFINE u == Head(vs)
               w == Widen(u, v)
    <3>1. Stands(f, u, values)
      BY <1>1, <1>5, <2>3
    <3>2. to = <<w>>
      BY <1>7, <2>3 DEF MergeValue
    <3>3. Service[f].type = "year"
      BY <1>7, FieldsAssumption
    <3>4. u.min \in Int /\ v.min \in Int /\ u.max \in Int /\ v.max \in Int
      BY <2>1, <3>1, <3>3 DEF Stands, IsValue
    <3>5. \A a, b \in Int : Min({a, b}) \in {a, b} /\ Max({a, b}) \in {a, b}
      BY TwoBounds
    <3>6. w.min \in {u.min, v.min} /\ w.max \in {u.max, v.max}
      BY <3>4, <3>5 DEF Widen
    <3> HIDE DEF u, w
    <3>7. Stands(f, w, values)
      BY <1>7, <2>1, <3>1, <3>3, <3>4, <3>6 DEF Stands, IsValue
    <3> QED  BY <1>4, <3>2, <3>7 DEF AllStand, to
  <2> QED  BY <2>2, <2>3
<1> QED  BY <1>6, <1>7

(* ... so are all of a field; ...                                          *)
LEMMA MergeFieldShown ==
    ASSUME NEW cl, DOMAIN cl = ClusterFields, NEW records, FieldsShown(cl, records),
           NEW f \in Fields, NEW more, IsSeq(more),
           \A v \in Elems(more) : IsValue(f, v) /\ v \in ValuesOf(records, f)
    PROVE  /\ FieldsShown(MergeField(f, cl, more), records)
           /\ MergeField(f, cl, more).recid = cl.recid
           /\ MergeField(f, cl, more).retrieval = cl.retrieval
<1> DEFINE was == cl.md[f]
           values == ValuesOf(records, f)
           m == Len(more)
           md == ValueOver(was, more, f, was)
           sorts == Service[f].sort /\ Service[f].merge \in {"longest", "range"} /\ md # <<>>
           key == IF sorts THEN Head(md) ELSE cl.sortkey[f]
           to == MergeField(f, cl, more)
<1>1. m \in Nat /\ DOMAIN more = 1 .. m /\ \A k \in 1 .. m : more[k] \in Elems(more)
  BY SeqIs
<1>2. to = [cl EXCEPT !.md[f] = md, !.sortkey[f] = IF sorts THEN Head(md) ELSE @]
  BY DEF MergeField, ValueOver
<1>3. /\ DOMAIN cl.md = Fields /\ DOMAIN cl.sortkey = Fields
      /\ \A g \in Fields : AllStand(g, cl.md[g], ValuesOf(records, g)) /\ SortedBy(g, cl.md[g], cl.sortkey[g])
  BY DEF FieldsShown
<1> HIDE DEF m, md, values, was
<1>4. PICK h : /\ h[0] = was
               /\ \A k \in 1 .. m : h[k] = MergeValue(f, h[k - 1], more[k], was)
               /\ md = h[m]
  <2>1. m \in Nat /\ DOMAIN more = 1 .. m
    BY <1>1
  <2>2. \E h : /\ h[0] = was
               /\ \A k \in 1 .. m : h[k] = MergeValue(f, h[k - 1], more[k], was)
               /\ ValueOver(was, more, f, was) = h[m]
    BY ONLY <2>1, ValueFold
  <2> QED  BY <2>2 DEF md
<1> DEFINE T == {k \in 0 .. m : AllStand(f, h[k], values)}
<1>5. 0 \in T
  BY <1>1, <1>3, <1>4 DEF was, values
<1>6. ASSUME NEW k \in 1 .. m, k - 1 \in T PROVE k \in T
  <2> DEFINE vs == h[k - 1]
             v == more[k]
             next == MergeValue(f, vs, v, was)
  <2>1. h[k] = next /\ AllStand(f, vs, values) /\ v \in values /\ IsValue(f, v)
    BY <1>1, <1>4, <1>6 DEF values
  <2> HIDE DEF vs, v
  <2>2. AllStand(f, next, values)
    BY <2>1, MergeValueStands
  <2> QED  BY <1>1, <2>1, <2>2
<1> HIDE DEF T
<1>7. m \in T
  BY <1>1, <1>5, <1>6, UpTo
<1>8. AllStand(f, md, values)
  BY <1>4, <1>7 DEF T
<1>9. SortedBy(f, md, key)
  <2>1. CASE sorts
    <3>1. md # <<>> /\ md \in Seq(Elems(md))
      BY <1>8, <2>1 DEF AllStand, IsSeq
    <3>2. Head(md) \in Elems(md)
      BY <3>1, HeadTailProperties
    <3>3. IsValue(f, Head(md))
      BY <1>8, <3>2 DEF AllStand, Stands
    <3>4. key = Head(md)
      BY <2>1
    <3> HIDE DEF key, sorts
    <3> QED  BY <3>3, <3>4 DEF SortedBy
  <2>2. CASE ~ sorts
    <3>1. key = cl.sortkey[f]
      BY <2>2
    <3>2. ~ (Service[f].sort /\ Service[f].merge \in {"longest", "range"} /\ md # <<>>)
      BY <2>2
    <3>3. cl.sortkey[f] = Absent \/ IsValue(f, cl.sortkey[f])
      BY <1>3 DEF SortedBy
    <3> HIDE DEF key, sorts
    <3> QED  BY <3>1, <3>2, <3>3 DEF SortedBy
  <2> QED  BY <2>1, <2>2
<1>10. /\ to.md = [cl.md EXCEPT ![f] = md] /\ to.sortkey = [cl.sortkey EXCEPT ![f] = key]
       /\ to.recid = cl.recid /\ to.retrieval = cl.retrieval
  <2>1. to = [cl EXCEPT !.md = [cl.md EXCEPT ![f] = md], !.sortkey = [cl.sortkey EXCEPT ![f] = key]]
    BY <1>2
  <2> HIDE DEF key, to
  <2> QED  BY <2>1 DEF ClusterFields
<1> HIDE DEF to, key, sorts
<1>11. DOMAIN to.md = Fields /\ DOMAIN to.sortkey = Fields
       /\ \A g \in Fields : /\ to.md[g] = IF g = f THEN md ELSE cl.md[g]
                            /\ to.sortkey[g] = IF g = f THEN key ELSE cl.sortkey[g]
  BY <1>3, <1>10
<1>12. ASSUME NEW g \in Fields
       PROVE  AllStand(g, to.md[g], ValuesOf(records, g)) /\ SortedBy(g, to.md[g], to.sortkey[g])
  BY <1>3, <1>8, <1>9, <1>11 DEF values
<1> QED  BY <1>10, <1>11, <1>12 DEF FieldsShown, to

(* ... and of all fields.                                                  *)
LEMMA AddToClusterShown ==
    ASSUME NEW cl, DOMAIN cl = ClusterFields, NEW sub, ValuesFine(sub), NEW term,
           NEW rec \in Elems(cl.records), rec.md = sub.md, ClusterShown(cl)
    PROVE  ClusterShown(AddToCluster(cl, sub, term))
<1> DEFINE m == Len(FieldOrder)
           done == FieldOver(cl, FieldOrder, sub)
           words == CountWords(term, sub.md)
           to == AddToCluster(cl, sub, term)
<1>1. m \in Nat /\ DOMAIN FieldOrder = 1 .. m /\ \A k \in 1 .. m : FieldOrder[k] \in Fields
  <2>1. IsSeq(FieldOrder) /\ Elems(FieldOrder) \subseteq Fields
    BY FieldsAssumption, SeqOver
  <2> QED  BY <2>1, SeqIs
<1>2. to = [done EXCEPT !.tf = @ + words]
  BY DEF AddToCluster, FieldOver
<1> HIDE DEF m, done, words, to
<1>3. PICK h : /\ h[0] = cl
               /\ \A k \in 1 .. m : h[k] = FieldStep(h[k - 1], FieldOrder[k], sub)
               /\ done = h[m]
  <2>1. \E h : /\ h[0] = cl
               /\ \A k \in 1 .. m : h[k] = FieldStep(h[k - 1], FieldOrder[k], sub)
               /\ FieldOver(cl, FieldOrder, sub) = h[m]
    <3>1. m \in Nat /\ DOMAIN FieldOrder = 1 .. m
      BY <1>1
    <3>2. ASSUME NEW L, DOMAIN L = 1 .. m
          PROVE  \E h : /\ h[0] = cl
                        /\ \A k \in 1 .. m : h[k] = FieldStep(h[k - 1], L[k], sub)
                        /\ FieldOver(cl, L, sub) = h[m]
      BY ONLY <3>1, <3>2, FieldFold
    <3> QED  BY ONLY <3>1, <3>2
  <2> QED  BY <2>1 DEF done
<1>4. ASSUME NEW f \in Fields
      PROVE  IsSeq(sub.md[f]) /\ \A v \in Elems(sub.md[f]) : IsValue(f, v) /\ v \in ValuesOf(cl.records, f)
  <2>1. IsSeq(sub.md[f]) /\ Elems(sub.md[f]) \subseteq {v \in Elems(sub.md[f]) : IsValue(f, v)}
    BY SeqOver DEF ValuesFine
  <2>2. Elems(rec.md[f]) \subseteq ValuesOf(cl.records, f)
    BY DEF ValuesOf
  <2> QED  BY <2>1, <2>2
<1> DEFINE Fine(x) == /\ SameCluster(cl, x) /\ FieldsShown(x, cl.records)
                      /\ x.recid = cl.recid /\ x.retrieval = cl.retrieval
           T == {k \in 0 .. m : Fine(h[k])}
<1>5. 0 \in T
  BY <1>1, <1>3 DEF SameCluster, ClusterShown
<1>6. ASSUME NEW k \in 1 .. m, k - 1 \in T PROVE k \in T
  <2> DEFINE x == h[k - 1]
             f == FieldOrder[k]
             next == MergeField(f, x, sub.md[f])
  <2>1. Fine(x)
    BY <1>6
  <2>2. DOMAIN x = ClusterFields /\ FieldsShown(x, cl.records) /\ f \in Fields
    BY <1>1, <2>1 DEF SameCluster
  <2>3. h[k] = next
    BY <1>3 DEF FieldStep
  <2> HIDE DEF x, f
  <2>4. SameCluster(x, next)
    BY <2>2, MergeFieldKeeps
  <2>5. /\ FieldsShown(next, cl.records)
        /\ next.recid = x.recid /\ next.retrieval = x.retrieval
    BY <1>4, <2>2, MergeFieldShown
  <2> HIDE DEF next
  <2>6. Fine(next)
    BY <2>1, <2>4, <2>5 DEF SameCluster
  <2> QED  BY <1>1, <2>3, <2>6
<1> HIDE DEF T
<1>7. m \in T
  BY <1>1, <1>5, <1>6, UpTo
<1>8. Fine(done)
  BY <1>3, <1>7 DEF T
<1>9. /\ to.md = done.md /\ to.sortkey = done.sortkey /\ to.recid = done.recid
      /\ to.retrieval = done.retrieval /\ to.records = done.records /\ to.keys = done.keys
  <2>1. DOMAIN done = ClusterFields
    BY <1>8 DEF SameCluster
  <2> QED  BY <1>2, <2>1 DEF ClusterFields
<1>10. FieldsShown(to, to.records)
  <2>1. FieldsShown(to, cl.records)
    BY <1>8, <1>9 DEF FieldsShown
  <2> QED  BY <1>8, <1>9, <2>1 DEF SameCluster
<1>11. ClusterShown(to)
  BY <1>8, <1>9, <1>10 DEF ClusterShown, SameCluster
<1> QED  BY <1>11 DEF to

(* No term is in more records than there are.                              *)
RelOk(rel, records) ==
    /\ DOMAIN rel = {"df", "total"}
    /\ rel.df \in Nat /\ rel.total = records /\ rel.df <= records

(* The records of a session: the list is sound, with the session's own two *)
(* counters, session_merged and session_records, and each cluster has the  *)
(* frequency of the terms that its clients were asked for.                 *)
SetGood(s, asked) ==
    /\ DOMAIN s = {"list", "records", "merged", "facets", "rel"}
    /\ s.records \in Nat
    /\ Good(s.list, s.merged, s.records)
    /\ RelOk(s.rel, s.records)
    /\ Rated(s.list, asked, s.rel.df > 0)
    /\ AllShown(s.list)

(* ingest_to_cluster.                                                      *)
LEMMA IntoClusterKeeps ==
    ASSUME NEW asked, NEW s, SetGood(s, asked), NEW c, NEW pos \in Nat, NEW sub, ValuesFine(sub),
           NEW keys, KeysFine(keys), CountWords(asked[c], sub.md) \in Nat
    PROVE  SetGood(IntoCluster(s, c, pos, sub, keys, asked[c]), asked)
<1> DEFINE rec == [client |-> c, pos |-> pos, md |-> sub.md]
           ins == Insert(s.list, s.merged, rec, keys)
           cl == ins.list.clusters[ins.cluster]
           cluster == AddToCluster(cl, sub, asked[c])
           list == [ins.list EXCEPT !.clusters[ins.cluster] = cluster]
           to == [list |-> list, records |-> s.records + 1, merged |-> ins.total,
                  facets |-> AddFacets(s.facets, c, sub), rel |-> DoneRecord(s.rel, cluster)]
<1>1. IntoCluster(s, c, pos, sub, keys, asked[c]) = IF ins.duplicate THEN s ELSE to
  BY DEF IntoCluster
<1>2. ~ ins.duplicate => /\ ins.cluster \in Lives(ins.list)
                         /\ Good(ins.list, ins.total, s.records + 1)
  <2> HIDE DEF rec
  <2>1. IsSeq(keys) /\ Elems(keys) # {} /\ \A k \in Elems(keys) : Hash(k) \in Buckets
    BY DEF KeysFine
  <2> QED  BY <2>1, InsertKeeps DEF SetGood
<1> DEFINE words == CountWords(asked[c], sub.md)
           D == s.rel.df > 0
<1>4. RelOk(s.rel, s.records) /\ D \in BOOLEAN /\ s.records \in Nat
  BY DEF SetGood, RelOk
<1>5. ~ ins.duplicate => /\ RatedBut(ins.list, asked, ins.cluster, words, D) /\ AllShown(ins.list)
                         /\ ins.cluster # 0 => rec \in Elems(cl.records)
  <2>1. Weight(asked, rec) = words /\ words \in Nat /\ rec.pos \in Nat
    BY DEF Weight
  <2>2. ListOk(s.list) /\ Rated(s.list, asked, D) /\ AllShown(s.list)
    BY DEF SetGood, Good
  <2> HIDE DEF rec, words, D
  <2> QED  BY <1>4, <2>1, <2>2, InsertRated
<1>6. rec.md = sub.md
  OBVIOUS
<1> HIDE DEF rec
<1> HIDE DEF ins, words
<1>3. ASSUME ~ ins.duplicate PROVE SetGood(to, asked)
  <2> DEFINE old == ins.list
             i == ins.cluster
             rel == DoneRecord(s.rel, cluster)
  <2>1. Good(old, ins.total, s.records + 1) /\ ListOk(old) /\ i \in DOMAIN old.clusters
    BY <1>2, <1>3 DEF Good, Lives
  <2>2. /\ DOMAIN old = {"chains", "clusters", "sorted", "num"}
        /\ IsSeq(old.clusters) /\ \A j \in DOMAIN old.clusters : ClusterOk(old.clusters[j])
    BY <2>1 DEF ListOk
  <2>3. /\ SameCluster(cl, cluster) /\ ClusterOk(cl) /\ ClusterOk(cluster)
        /\ cluster.tf = cl.tf + words
    <3>1. ClusterOk(cl)
      BY <2>1, <2>2
    <3>2. SameCluster(cl, cluster) /\ cluster.tf = cl.tf + words
      BY <3>1, AddToClusterKeeps DEF ClusterOk, words
    <3> QED  BY <3>1, <3>2 DEF ClusterOk, SameCluster
  <2>8. ClusterRated(cl, asked, words, D)
    BY <1>3, <1>5, <2>1 DEF RatedBut
  <2>9. cl.tf \in Nat /\ words \in Nat /\ cl.tf + words = Tf(asked, cl.records)
    BY <2>8 DEF ClusterRated, words
  <2>10. cluster.tf \in Nat /\ cluster.tf + 0 = Tf(asked, cluster.records)
         /\ Weighable(asked, cluster.records)
    BY <2>3, <2>8, <2>9 DEF SameCluster, ClusterRated
  <2>13. ClusterShown(cluster)
    <3>1. DOMAIN cl = ClusterFields
      BY <2>3 DEF ClusterOk
    <3>2. ClusterShown(cl)
      BY <1>3, <1>5, <2>1 DEF AllShown
    <3>3. rec \in Elems(cl.records)
      BY <1>2, <1>3, <1>5, <2>1, NotZero
    <3> HIDE DEF cl
    <3> QED  BY <1>6, <3>1, <3>2, <3>3, AddToClusterShown
  <2> HIDE DEF cluster
  <2>11. /\ RelOk(rel, s.records + 1) /\ (D => rel.df > 0)
         /\ (cluster.tf > 0 => rel.df > 0)
    BY <1>4, <2>10 DEF DoneRecord, RelOk
  <2> HIDE DEF D, rel
  <2>4. /\ DOMAIN list = DOMAIN old /\ list.chains = old.chains
        /\ list.clusters = [old.clusters EXCEPT ![i] = cluster]
    BY <2>2
  <2>5. /\ IsSeq(list.clusters) /\ DOMAIN list.clusters = DOMAIN old.clusters
        /\ \A j \in DOMAIN old.clusters :
              list.clusters[j] = IF j = i THEN cluster ELSE old.clusters[j]
    BY <2>1, <2>2, <2>4, SeqExcept
  <2>6. \A j \in DOMAIN old.clusters :
           /\ ClusterOk(list.clusters[j])
           /\ list.clusters[j].live = old.clusters[j].live
           /\ KeySet(list, j) = KeySet(old, j)
           /\ list.clusters[j].records = old.clusters[j].records
    BY <2>2, <2>3, <2>5 DEF KeySet, SameCluster
  <2>12. Rated(list, asked, rel.df > 0)
    <3>1. ASSUME NEW j \in DOMAIN list.clusters
          PROVE  ClusterRated(list.clusters[j], asked, 0, rel.df > 0)
      <4>1. CASE j = i
        BY <2>1, <2>5, <2>10, <2>11, <4>1 DEF ClusterRated
      <4>2. CASE j # i
        <5>1. ClusterRated(old.clusters[j], asked, 0, D) /\ list.clusters[j] = old.clusters[j]
          BY <1>3, <1>5, <2>5, <4>2 DEF RatedBut
        <5> HIDE DEF list
        <5> QED  BY <2>11, <5>1 DEF ClusterRated
      <4> QED  BY <4>1, <4>2
    <3> HIDE DEF list
    <3> QED  BY <3>1 DEF Rated
  <2>14. AllShown(list)
    <3>1. list.num = old.num
      BY <2>2
    <3> HIDE DEF list
    <3> QED  BY <1>3, <1>5, <2>5, <2>13, <3>1 DEF AllShown
  <2> HIDE DEF list
  <2>7. Good(list, ins.total, s.records + 1)
    BY <2>1, <2>4, <2>5, <2>6, SameGood
  <2> QED  BY <1>4, <2>7, <2>11, <2>12, <2>14 DEF SetGood, rel
<1> HIDE DEF to
<1> QED  BY <1>1, <1>3

(* ingest_sub_record.                                                      *)
LEMMA IngestSubKeeps ==
    ASSUME NEW asked, NEW s, SetGood(s, asked), NEW sess, NEW c, NEW pos \in Nat,
           NEW sub, ValuesFine(sub), NEW keys, KeysFine(keys), CountWords(asked[c], sub.md) \in Nat
    PROVE  SetGood(IngestSub(s, sess, c, pos, sub, keys, asked[c]).set, asked)
<1>1. SetGood(IntoCluster(s, c, pos, sub, keys, asked[c]), asked)
  BY IntoClusterKeeps
<1> QED  BY <1>1 DEF IngestSub
-----------------------------------------------------------------------------
(* The merge keys of a document have places in the hash table.             *)
LEMMA MergeKeysFine ==
    ASSUME NEW sess, sess.mergekey \in SessionKeys, NEW c \in Clients, NEW q \in Queries,
           NEW doc \in Elems(ResultSet[c][q]), NEW pos \in 1 .. Len(ResultSet[c][q]),
           doc.subs # <<>>
    PROVE  KeysFine(MergeKeys(sess, doc, c, pos))
<1> DEFINE m == Len(doc.subs)
           L == [i \in DOMAIN doc.subs |-> MergeKey(sess, doc.subs[i], c, pos)]
<1>1. IsSeq(doc.subs) /\ m \in Nat /\ DOMAIN doc.subs = 1 .. m
  <2>1. IsSeq(doc.subs)
    BY DocumentsAssumption DEF IsSeq
  <2> QED  BY <2>1, SeqIs
<1>2. 1 \in DOMAIN doc.subs
  <2>1. m # 0
    <3>1. \A s : s \in Seq(Elems(doc.subs)) /\ Len(s) = 0 => s = <<>>
      BY EmptySeq
    <3> QED  BY <1>1, <3>1 DEF IsSeq
  <2> QED  BY <1>1, <2>1
<1>3. IsSeq(L) /\ Elems(L) = {MergeKey(sess, doc.subs[i], c, pos) : i \in DOMAIN doc.subs}
  <2>1. L \in [1 .. m -> Elems(L)]
    BY <1>1 DEF Elems
  <2>2. IsSeq(L)
    <3> HIDE DEF L, m
    <3> QED  BY <1>1, <2>1, SeqFunction
  <2> QED  BY <2>2 DEF Elems
<1>4. IsSeq(Union(<<>>, L)) /\ Elems(Union(<<>>, L)) = Elems(L)
  <2> HIDE DEF L
  <2> QED  BY <1>3, SeqEmpty, UnionIs
<1>5. ASSUME NEW i \in DOMAIN doc.subs
      PROVE  LET k == MergeKey(sess, doc.subs[i], c, pos) IN k \in Seq(Int) /\ Hash(k) \in Buckets
  <2> DEFINE sub == doc.subs[i]
             mk == sess.mergekey
             subs == UNION {Elems(d.subs) : d \in Elems(ResultSet[c][q])}
  <2>1. MergeKey(sess, sub, c, pos) = MergeKey([mergekey |-> mk], sub, c, pos)
    BY DEF MergeKey
  <2>2. sub \in subs
    BY <1>5 DEF Elems
  <2>3. MergeKey([mergekey |-> mk], sub, c, pos) \in KeysOf(c, q)
    <3> HIDE DEF sub, mk
    <3>1. mk \in SessionKeys
      BY DEF mk
    <3>2. KeysOf(c, q) = {MergeKey([mergekey |-> k], x, c, p) :
                             k \in SessionKeys, x \in subs, p \in 1 .. Len(ResultSet[c][q])}
      BY DEF KeysOf
    <3> HIDE DEF subs
    <3> QED  BY <2>2, <3>1, <3>2
  <2> QED  BY <2>1, <2>3, HashAssumption
<1>6. \A k \in Elems(L) : k \in Seq(Int) /\ Hash(k) \in Buckets
  <2> HIDE DEF L
  <2> QED  BY <1>3, <1>5
<1>7. Elems(L) # {}
  <2> HIDE DEF L
  <2> QED  BY <1>2, <1>3
<1>8. MergeKeys(sess, doc, c, pos) = Union(<<>>, L)
  BY DEF MergeKeys
<1> HIDE DEF L
<1> QED  BY <1>4, <1>6, <1>7, <1>8 DEF KeysFine

(* A document that client c can have at a position.                        *)
Fetchable(c, pos, doc) ==
    \E q \in Queries : pos \in 1 .. Len(ResultSet[c][q]) /\ doc \in Elems(ResultSet[c][q])

(* ingest_xml_record.                                                      *)
LEMMA IngestDocKeeps ==
    ASSUME NEW asked, NEW s, SetGood(s, asked), NEW sess, sess.mergekey \in SessionKeys, NEW c \in Clients,
           NEW pos, NEW doc, Fetchable(c, pos, doc)
    PROVE  SetGood(IngestDoc(s, sess, c, pos, doc, asked[c]).set, asked)
<1> DEFINE keys == MergeKeys(sess, doc, c, pos)
           start == [set |-> s, rc |-> "ok"]
           m == Len(doc.subs)
           done == SubOver(start, doc.subs, sess, c, pos, keys, asked[c])
<1>1. PICK q \in Queries : pos \in 1 .. Len(ResultSet[c][q]) /\ doc \in Elems(ResultSet[c][q])
  BY DEF Fetchable
<1>2. IsSeq(doc.subs) /\ m \in Nat /\ DOMAIN doc.subs = 1 .. m
  <2>1. IsSeq(doc.subs)
    BY <1>1, DocumentsAssumption DEF IsSeq
  <2> QED  BY <2>1, SeqIs
<1>3. IngestDoc(s, sess, c, pos, doc, asked[c]) =
         IF doc.root \notin {"record", "cluster"} THEN [set |-> s, rc |-> "failed"] ELSE done
  BY DEF IngestDoc, SubOver
<1> HIDE DEF keys, start, m, done
<1>4. PICK h : /\ h[0] = start
               /\ \A k \in 1 .. m : h[k] = SubStep(h[k - 1], doc.subs[k], sess, c, pos, keys, asked[c])
               /\ done = h[m]
  BY <1>2, SubFold DEF done
<1> DEFINE T == {k \in 0 .. m : SetGood(h[k].set, asked)}
<1>5. 0 \in T
  BY <1>2, <1>4 DEF start
<1>6. ASSUME NEW k \in 1 .. m, k - 1 \in T PROVE k \in T
  <2>1. KeysFine(keys)
    <3>1. doc.subs # <<>>
      BY <1>2, SeqEmpty
    <3> QED  BY <1>1, <3>1, MergeKeysFine DEF keys
  <2> DEFINE was == h[k - 1]
             sub == doc.subs[k]
  <2>2. SetGood(was.set, asked)
    BY <1>6
  <2>6. ValuesFine(sub) /\ CountWords(asked[c], sub.md) \in Nat
    <3>1. sub \in Elems(doc.subs)
      BY <1>2 DEF Elems
    <3> HIDE DEF sub
    <3>2. ValuesFine(sub)
      BY <1>1, <3>1, DocumentsAssumption DEF ValuesFine
    <3>3. \A f \in Fields : IsFiniteSet(DOMAIN sub.md[f])
      BY <3>2, FiniteValues
    <3>4. CountWords(asked[c], sub.md) \in Nat
      BY <3>3, CountNat
    <3> QED  BY <3>2, <3>4
  <2>7. pos \in Nat
    BY <1>1
  <2>3. h[k] = SubStep(was, sub, sess, c, pos, keys, asked[c])
    BY <1>4
  <2> HIDE DEF was, sub
  <2>4. SetGood(IngestSub(was.set, sess, c, pos, sub, keys, asked[c]).set, asked)
    BY <2>1, <2>2, <2>6, <2>7, IngestSubKeeps
  <2>5. SetGood(h[k].set, asked)
    BY <2>2, <2>3, <2>4 DEF SubStep
  <2> QED  BY <1>2, <2>5
<1> HIDE DEF T
<1>7. m \in T
  BY <1>2, <1>5, <1>6, UpTo
<1>8. SetGood(done.set, asked)
  BY <1>4, <1>7 DEF T
<1> QED  BY <1>3, <1>8
-----------------------------------------------------------------------------
(* What a client is made of, and what its documents and result set are.    *)
ClientParts ==
    {"active", "conn", "state", "same", "query", "sort", "startrecs", "maxrecs", "hits",
     "offset", "filtered", "failures", "results", "pending", "late", "xdocs"}

(* Its result set is one of a query of the model.                          *)
ResultsOk(r) == r = None \/ (DOMAIN r = {"query", "sort", "answered"} /\ r.query \in Queries)

(* A client is active for a query that it has, and the documents it keeps  *)
(* in its cache are some that its target may send.                         *)
ClientOk(c, cl) ==
    /\ DOMAIN cl = ClientParts
    /\ cl.offset \in Nat /\ cl.startrecs \in Nat
    /\ cl.active => cl.query \in Queries
    /\ ResultsOk(cl.results)
    /\ \A p \in cl.xdocs : Fetchable(c, p[1], p[2])

(* All clients are so.                                                     *)
ClientsOk(cls) == DOMAIN cls = Clients /\ \A c \in Clients : ClientOk(c, cls[c])

(* Records and clients while a command is carried out.                     *)
StepOk(st) == DOMAIN st = {"set", "client"} /\ SetGood(st.set, Asked(st.client)) /\ ClientsOk(st.client)

(* The clients that take part in a search stay the same, and what they are *)
(* asked for.                                                              *)
Stays(cl, to) == to.active = cl.active /\ to.query = cl.query
SameSearch(cls, to) == \A c \in Clients : Stays(cls[c], to[c])

(* A client is replaced.                                                   *)
LEMMA ClientsKeep ==
    ASSUME NEW cls, ClientsOk(cls), NEW c \in Clients, NEW cl, ClientOk(c, cl),
           Stays(cls[c], cl)
    PROVE  ClientsOk([cls EXCEPT ![c] = cl]) /\ SameSearch(cls, [cls EXCEPT ![c] = cl])
  BY DEF ClientsOk, SameSearch, Stays

(* So the records are weighed as before.                                   *)
LEMMA SameAsked ==
    ASSUME NEW cls, NEW to, SameSearch(cls, to)
    PROVE  Asked(to) = Asked(cls)
  BY DEF Asked, SameSearch, Stays

(* The documents of a result set.                                          *)
LEMMA DocsFetchable ==
    ASSUME NEW c \in Clients, NEW cl, ResultsOk(cl.results), NEW pos \in DOMAIN Docs(c, cl),
           cl.results # None
    PROVE  Fetchable(c, pos, Docs(c, cl)[pos])
<1> DEFINE q == cl.results.query
           s == ResultSet[c][q]
<1>1. q \in Queries
  BY DEF ResultsOk
<1>2. IsSeq(s)
  BY <1>1, DocumentsAssumption DEF IsSeq
<1>3. Len(s) \in Nat /\ DOMAIN s = 1 .. Len(s) /\ \A i \in DOMAIN s : s[i] \in Elems(s)
  BY <1>2, SeqIs
<1>4. Docs(c, cl) = s \/ Docs(c, cl) = Reverse(s)
  BY DEF Docs
<1> HIDE DEF q
<1>5. Reverse(s) = [i \in 1 .. Len(s) |-> s[(Len(s) - i) + 1]]
  BY DEF Reverse
<1> HIDE DEF s
<1>6. pos \in 1 .. Len(s) /\ Docs(c, cl)[pos] \in Elems(s)
  <2>1. CASE Docs(c, cl) = s
    BY <1>3, <2>1
  <2>2. CASE Docs(c, cl) = Reverse(s)
    <3>1. pos \in 1 .. Len(s) /\ (Len(s) - pos) + 1 \in 1 .. Len(s)
      BY <1>3, <1>5, <2>2
    <3>2. Docs(c, cl)[pos] = s[(Len(s) - pos) + 1]
      BY <1>5, <2>2, <3>1
    <3> QED  BY <1>3, <3>1, <3>2
  <2> QED  BY <1>4, <2>1, <2>2
<1> QED  BY <1>1, <1>6 DEF Fetchable, s

(* A document at a position, from the cache or the result set.             *)
LEMMA DocumentFetchable ==
    ASSUME NEW c \in Clients, NEW cl, ClientOk(c, cl), NEW pos, NEW doc \in DocumentAt(c, cl, pos)
    PROVE  Fetchable(c, pos, doc)
<1>1. CASE CachedDocs(cl, pos) # {}
  <2>1. doc \in CachedDocs(cl, pos)
    BY <1>1 DEF DocumentAt
  <2>2. PICK p \in cl.xdocs : p[1] = pos /\ p[2] = doc
    BY <2>1 DEF CachedDocs
  <2> QED  BY <2>2 DEF ClientOk
<1>2. CASE CachedDocs(cl, pos) = {}
  <2>1. cl.results # None /\ pos \in DOMAIN Docs(c, cl) /\ doc = Docs(c, cl)[pos]
    BY <1>2 DEF DocumentAt
  <2>2. ResultsOk(cl.results)
    BY DEF ClientOk
  <2> QED  BY <2>1, <2>2, DocsFetchable
<1> QED  BY <1>1, <1>2

(* client_record_ingest.                                                   *)
LEMMA RecordIngestKeeps ==
    ASSUME NEW st, StepOk(st), NEW sess, sess.mergekey \in SessionKeys, NEW c \in Clients
    PROVE  LET to == RecordIngest(st, sess, c)
           IN  StepOk(to) /\ SameSearch(st.client, to.client)
<1> DEFINE cl == st.client[c]
           pos == cl.offset + 1
           docs == DocumentAt(c, cl, pos)
           doc == CHOOSE d \in docs : TRUE
           done == IngestDoc(st.set, sess, c, pos, doc, cl.query)
           stored == StoreDoc(cl, pos, doc)
           cl2 == [stored EXCEPT !.offset = @ + 1,
                                 !.failures = IF done.rc = "failed" THEN @ + 1 ELSE @,
                                 !.filtered = IF done.rc = "filtered" THEN @ + 1 ELSE @]
           to == RecordIngest(st, sess, c)
<1> DEFINE asked == Asked(st.client)
<1>1. /\ DOMAIN st = {"set", "client"} /\ SetGood(st.set, asked) /\ ClientsOk(st.client)
      /\ ClientOk(c, cl) /\ DOMAIN st.client = Clients /\ cl.query = asked[c]
  BY DEF StepOk, ClientsOk, Asked
<1>2. to = IF ~ cl.active \/ docs = {} THEN [st EXCEPT !.client[c].offset = @ + 1]
           ELSE [set |-> done.set, client |-> [st.client EXCEPT ![c] = cl2]]
  BY DEF RecordIngest
<1> HIDE DEF to, docs, done, stored, asked
<1>3. CASE ~ cl.active \/ docs = {}
  <2> DEFINE cl3 == [cl EXCEPT !.offset = @ + 1]
  <2>1. /\ DOMAIN to = {"set", "client"} /\ to.set = st.set
        /\ to.client = [st.client EXCEPT ![c] = cl3]
    BY <1>1, <1>2, <1>3
  <2>2. ClientOk(c, cl3) /\ Stays(cl, cl3)
    BY <1>1 DEF ClientOk, ClientParts, Stays
  <2> HIDE DEF cl3
  <2>3. ClientsOk(to.client) /\ SameSearch(st.client, to.client)
    BY <1>1, <2>1, <2>2, ClientsKeep
  <2>4. Asked(to.client) = asked
    BY <2>3, SameAsked DEF asked
  <2> QED  BY <1>1, <2>1, <2>3, <2>4 DEF StepOk, to
<1>4. CASE cl.active /\ docs # {}
  <2>1. Fetchable(c, pos, doc)
    <3>1. doc \in docs
      BY <1>4
    <3> HIDE DEF doc
    <3> QED  BY <1>1, <3>1, DocumentFetchable DEF docs
  <2> HIDE DEF doc, pos, cl
  <2>2. SetGood(done.set, asked)
    <3>1. done = IngestDoc(st.set, sess, c, pos, doc, asked[c])
      BY <1>1 DEF done, cl
    <3> QED  BY <1>1, <2>1, <3>1, IngestDocKeeps
  <2>3. ClientOk(c, stored) /\ Stays(cl, stored)
    <3>1. stored = cl \/ stored = [cl EXCEPT !.xdocs = {p \in @ : p[1] # pos} \cup {<<pos, doc>>}]
      BY DEF StoreDoc, stored
    <3>2. CASE stored = cl
      BY <1>1, <3>2 DEF Stays
    <3>3. CASE stored = [cl EXCEPT !.xdocs = {p \in @ : p[1] # pos} \cup {<<pos, doc>>}]
      <4> DEFINE xdocs == {p \in cl.xdocs : p[1] # pos} \cup {<<pos, doc>>}
      <4>1. \A p \in xdocs : Fetchable(c, p[1], p[2])
        BY <1>1, <2>1 DEF ClientOk
      <4>2. stored = [cl EXCEPT !.xdocs = xdocs]
        BY <3>3
      <4> HIDE DEF xdocs
      <4> QED  BY <1>1, <4>1, <4>2 DEF ClientOk, ClientParts, Stays
    <3> QED  BY <3>1, <3>2, <3>3
  <2>4. ClientOk(c, cl2) /\ Stays(cl, cl2)
    BY <2>3 DEF ClientOk, ClientParts, Stays
  <2> HIDE DEF cl2
  <2>5. to.set = done.set /\ to.client = [st.client EXCEPT ![c] = cl2] /\ DOMAIN to = {"set", "client"}
    BY <1>2, <1>4
  <2>6. ClientsOk(to.client) /\ SameSearch(st.client, to.client)
    BY <1>1, <2>4, <2>5, ClientsKeep DEF cl
  <2>7. Asked(to.client) = asked
    BY <2>6, SameAsked DEF asked
  <2> QED  BY <2>2, <2>5, <2>6, <2>7 DEF StepOk, to
<1> QED  BY <1>3, <1>4
-----------------------------------------------------------------------------
(* client_report_facets changes nothing else.                              *)
LEMMA ReportFacetsKeeps ==
    ASSUME NEW asked, NEW s, SetGood(s, asked), NEW c, NEW query
    PROVE  SetGood(ReportFacets(s, c, query), asked)
<1> DEFINE facets == FoldLeft(LAMBDA fs, p : IF p[1] \in FacetMap[c] THEN AddFacet(fs, p[1], p[2])
                                             ELSE fs,
                              s.facets, Reported[c][query])
           to == ReportFacets(s, c, query)
<1>1. to = [s EXCEPT !.facets = facets]
  BY DEF ReportFacets
<1> HIDE DEF facets, to
<1>2. SetGood(to, asked)
  BY <1>1 DEF SetGood
<1> QED  BY <1>2 DEF to

(* client_reingest.                                                        *)
LEMMA ReingestKeeps ==
    ASSUME NEW st, StepOk(st), NEW sess, sess.mergekey \in SessionKeys, NEW c \in Clients
    PROVE  LET to == Reingest(st, sess, c)
           IN  StepOk(to) /\ SameSearch(st.client, to.client)
<1> DEFINE cl == st.client[c]
           cl2 == [cl EXCEPT !.failures = 0, !.filtered = 0, !.offset = cl.startrecs]
           start == [st EXCEPT !.client[c] = cl2]
           L == [i \in 1 .. cl.offset - cl.startrecs |-> i]
           m == IF cl.offset > cl.startrecs THEN cl.offset - cl.startrecs ELSE 0
           to == Reingest(st, sess, c)
<1>1. /\ DOMAIN st = {"set", "client"} /\ SetGood(st.set, Asked(st.client)) /\ ClientsOk(st.client)
      /\ ClientOk(c, cl) /\ DOMAIN st.client = Clients
  BY DEF StepOk, ClientsOk
<1>2. m \in Nat /\ DOMAIN L = 1 .. m
  <2>1. cl.offset \in Nat /\ cl.startrecs \in Nat
    BY <1>1 DEF ClientOk
  <2> QED  BY <2>1
<1>3. to = AgainOver(start, L, sess, c)
  BY DEF Reingest, AgainOver
<1> HIDE DEF L, m, to
<1>4. StepOk(start) /\ SameSearch(st.client, start.client)
  <2>1. ClientOk(c, cl2) /\ Stays(cl, cl2)
    BY <1>1 DEF ClientOk, ClientParts, Stays
  <2> HIDE DEF cl2
  <2>2. /\ DOMAIN start = {"set", "client"} /\ start.set = st.set
        /\ start.client = [st.client EXCEPT ![c] = cl2]
    BY <1>1
  <2> HIDE DEF start
  <2>3. ClientsOk(start.client) /\ SameSearch(st.client, start.client)
    BY <1>1, <2>1, <2>2, ClientsKeep
  <2>4. Asked(start.client) = Asked(st.client)
    BY <2>3, SameAsked
  <2> QED  BY <1>1, <2>2, <2>3, <2>4 DEF StepOk
<1> HIDE DEF start
<1>5. PICK h : /\ h[0] = start
               /\ \A k \in 1 .. m : h[k] = RecordIngest(h[k - 1], sess, c)
               /\ to = h[m]
  BY <1>2, <1>3, AgainFold
<1> DEFINE T == {k \in 0 .. m : StepOk(h[k]) /\ SameSearch(st.client, h[k].client)}
<1>6. 0 \in T
  BY <1>2, <1>4, <1>5
<1>7. ASSUME NEW k \in 1 .. m, k - 1 \in T PROVE k \in T
  <2> DEFINE was == h[k - 1]
             next == RecordIngest(was, sess, c)
  <2>1. StepOk(was) /\ SameSearch(st.client, was.client)
    BY <1>7
  <2>2. h[k] = next
    BY <1>5
  <2> HIDE DEF was
  <2>3. StepOk(next) /\ SameSearch(was.client, next.client)
    BY <2>1, RecordIngestKeeps
  <2> HIDE DEF next
  <2> QED  BY <1>2, <2>1, <2>2, <2>3 DEF SameSearch, Stays
<1> HIDE DEF T
<1>8. m \in T
  BY <1>2, <1>6, <1>7, UpTo
<1> QED  BY <1>5, <1>8 DEF T, to

(* client_start_search.                                                    *)
LEMMA StartSearchKeeps ==
    ASSUME NEW st, StepOk(st), NEW sess, sess.mergekey \in SessionKeys, NEW c \in Clients,
           st.client[c].active, NEW connect
    PROVE  LET to == StartSearch(st, sess, c, connect)
           IN  StepOk(to) /\ SameSearch(st.client, to.client)
<1> DEFINE cl == st.client[c]
           reported == ReportFacets(st.set, c, cl.results.query)
           st2 == [st EXCEPT !.set = IF cl.results.answered THEN reported ELSE @]
           sent == SendSearch(cl)
           idle == [cl EXCEPT !.failures = 0, !.filtered = 0,
                              !.state = IF connect = "full" THEN @ ELSE "Disconnected"]
           to == StartSearch(st, sess, c, connect)
<1>1. /\ DOMAIN st = {"set", "client"} /\ SetGood(st.set, Asked(st.client)) /\ ClientsOk(st.client)
      /\ ClientOk(c, cl) /\ DOMAIN st.client = Clients
  BY DEF StepOk, ClientsOk
<1>2. to = IF cl.same /\ cl.conn THEN Reingest(st2, sess, c)
           ELSE IF cl.conn \/ connect = "made" THEN [st EXCEPT !.client[c] = sent]
           ELSE [st EXCEPT !.client[c] = idle]
  BY DEF StartSearch
<1>3. StepOk(st2) /\ st2.client = st.client
  <2>1. SetGood(reported, Asked(st.client))
    BY <1>1, ReportFacetsKeeps
  <2> HIDE DEF reported
  <2>2. DOMAIN st2 = DOMAIN st /\ st2.client = st.client /\ (st2.set = reported \/ st2.set = st.set)
    BY <1>1
  <2> QED  BY <1>1, <2>1, <2>2 DEF StepOk
<1> HIDE DEF st2, to
<1>4. LET again == Reingest(st2, sess, c)
      IN  StepOk(again) /\ SameSearch(st.client, again.client)
  BY <1>3, ReingestKeeps
<1>5. ClientOk(c, sent) /\ Stays(cl, sent)
  <2>1. cl.query \in Queries
    BY <1>1 DEF ClientOk
  <2>2. /\ DOMAIN sent = DOMAIN cl /\ sent.offset = 0 /\ sent.startrecs = cl.startrecs
        /\ sent.active = cl.active /\ sent.query = cl.query /\ sent.xdocs = {}
        /\ sent.results = [query |-> cl.query, sort |-> cl.sort, answered |-> FALSE]
    BY <1>1 DEF SendSearch, ClientOk, ClientParts
  <2> HIDE DEF sent
  <2>3. ResultsOk(sent.results)
    BY <2>1, <2>2 DEF ResultsOk
  <2> QED  BY <1>1, <2>1, <2>2, <2>3 DEF ClientOk, Stays
<1>6. ClientOk(c, idle) /\ Stays(cl, idle)
  BY <1>1 DEF ClientOk, ClientParts, Stays
<1> HIDE DEF sent, idle
<1>7. ASSUME NEW cl2, ClientOk(c, cl2), Stays(cl, cl2)
      PROVE  LET st3 == [st EXCEPT !.client[c] = cl2]
             IN  StepOk(st3) /\ SameSearch(st.client, st3.client)
  <2> DEFINE st3 == [st EXCEPT !.client[c] = cl2]
  <2>1. DOMAIN st3 = {"set", "client"} /\ st3.set = st.set /\ st3.client = [st.client EXCEPT ![c] = cl2]
    BY <1>1
  <2> DEFINE cls == [st.client EXCEPT ![c] = cl2]
  <2>2. ClientsOk(cls) /\ SameSearch(st.client, cls)
    BY <1>1, <1>7, ClientsKeep
  <2>4. Asked(cls) = Asked(st.client)
    BY <2>2, SameAsked
  <2> HIDE DEF st3, cls
  <2>3. StepOk(st3)
    BY <1>1, <2>1, <2>2, <2>4 DEF StepOk, cls
  <2> QED  BY <2>1, <2>2, <2>3 DEF st3, cls
<1>8. CASE cl.same /\ cl.conn
  BY <1>2, <1>4, <1>8 DEF to
<1>9. CASE ~(cl.same /\ cl.conn) /\ (cl.conn \/ connect = "made")
  BY <1>2, <1>5, <1>7, <1>9 DEF to
<1>10. CASE ~(cl.same /\ cl.conn) /\ ~(cl.conn \/ connect = "made")
  BY <1>2, <1>6, <1>7, <1>10 DEF to
<1> QED  BY <1>8, <1>9, <1>10

(* The clients of a set, in order.                                         *)
LEMMA InOrderIs ==
    ASSUME NEW S, S \subseteq Clients
    PROVE  IsSeq(InOrder(S)) /\ Elems(InOrder(S)) \subseteq S
<1> DEFINE n == Cardinality(S)
           s == InOrder(S)
<1>1. n \in Nat /\ ExistsBijection(1 .. n, S)
  <2>1. IsFiniteSet(S)
    BY ClientsAssumption, FS_Subset
  <2> QED  BY <2>1, FS_CardinalityType
<1>2. \E f \in [1 .. n -> S] : IsInjective(f)
  BY <1>1 DEF ExistsBijection, Bijection, Injection
<1>3. s \in [1 .. n -> S]
  BY <1>2 DEF InOrder, SetToSeq
<1> HIDE DEF n, s
<1>4. IsSeq(s)
  BY <1>1, <1>3, SeqFunction
<1>5. Elems(s) \subseteq S
  BY <1>3 DEF Elems
<1> QED  BY <1>4, <1>5 DEF s

(* The clients start one after the other.                                  *)
LEMMA StartAllKeeps ==
    ASSUME NEW st, StepOk(st), NEW sess, sess.mergekey \in SessionKeys,
           NEW S, S \subseteq Clients, \A c \in S : st.client[c].active, NEW connect
    PROVE  StepOk(StartAll(st, sess, S, connect))
<1> DEFINE L == InOrder(S)
           m == Len(L)
           to == StartAll(st, sess, S, connect)
<1>1. IsSeq(L) /\ Elems(L) \subseteq S
  BY InOrderIs
<1> HIDE DEF L
<1>2. m \in Nat /\ DOMAIN L = 1 .. m /\ \A k \in 1 .. m : L[k] \in S
  BY <1>1, SeqIs
<1>3. to = StartOver(st, L, sess, connect)
  BY DEF StartAll, StartOver, L
<1> HIDE DEF m, to
<1>4. PICK h : /\ h[0] = st
               /\ \A k \in 1 .. m : h[k] = StartStep(h[k - 1], L[k], sess, connect)
               /\ to = h[m]
  BY <1>2, <1>3, StartFold
<1> DEFINE T == {k \in 0 .. m : StepOk(h[k]) /\ SameSearch(st.client, h[k].client)}
<1>5. 0 \in T
  BY <1>2, <1>4 DEF SameSearch, Stays
<1>6. ASSUME NEW k \in 1 .. m, k - 1 \in T PROVE k \in T
  <2> DEFINE was == h[k - 1]
             next == StartSearch(was, sess, L[k], connect[L[k]])
  <2>1. StepOk(was) /\ SameSearch(st.client, was.client)
    BY <1>6
  <2>2. h[k] = next
    BY <1>4 DEF StartStep
  <2> HIDE DEF was
  <2>3. L[k] \in Clients /\ was.client[L[k]].active
    BY <1>2, <2>1 DEF SameSearch, Stays
  <2>4. StepOk(next) /\ SameSearch(was.client, next.client)
    BY <2>1, <2>3, StartSearchKeeps
  <2> HIDE DEF next
  <2> QED  BY <1>2, <2>1, <2>2, <2>4 DEF SameSearch, Stays
<1> HIDE DEF T
<1>7. m \in T
  BY <1>2, <1>5, <1>6, UpTo
<1> QED  BY <1>4, <1>7 DEF T, to
-----------------------------------------------------------------------------
(* A session's merge key is one that the commands give.                    *)
SessionOk ==
    /\ DOMAIN session = {"mergekey", "limit", "sorted", "force", "searched"}
    /\ session.mergekey \in SessionKeys

(* The inductive invariant.                                                *)
RecordsInv == SetGood(set, Asked(client)) /\ ClientsOk(client) /\ SessionOk

(* session_clear_set leaves a sound list.                                  *)
LEMMA EmptyGood ==
    ASSUME NEW asked
    PROVE  SetGood(EmptySet, asked)
<1> DEFINE list == EmptyList
<1>1. /\ DOMAIN list = {"chains", "clusters", "sorted", "num"}
      /\ list.clusters = <<>> /\ list.chains = [b \in Buckets |-> <<>>]
  BY DEF EmptyList
<1> HIDE DEF list
<1>2. IsSeq(<<>>) /\ Elems(<<>>) = {} /\ DOMAIN <<>> = {}
  BY SeqEmpty DEF Elems
<1>3. ListOk(list)
  BY <1>1, <1>2 DEF ListOk
<1>4. Lives(list) = {} /\ Pairs(list) = {}
  BY <1>1, <1>2 DEF Lives, Pairs
<1>5. Keyed(list, 0, {})
  BY <1>1, <1>2, <1>4 DEF Keyed, HaveKeys, KeysLead, KeysApart, KeysGone
<1>6. Counted(list, 0, 0)
  BY <1>4, FS_EmptySet DEF Counted
<1>7. Good(list, 0, 0)
  BY <1>3, <1>5, <1>6 DEF Good
<1>8. /\ DOMAIN EmptySet = {"list", "records", "merged", "facets", "rel"}
      /\ EmptySet.list = list /\ EmptySet.records = 0 /\ EmptySet.merged = 0
      /\ RelOk(EmptySet.rel, 0)
  BY DEF EmptySet, list, ClearRelevance, RelOk
<1>9. Rated(list, asked, EmptySet.rel.df > 0)
  BY <1>1, <1>2 DEF Rated
<1>10. AllShown(list)
  <2>1. list.num = 0
    BY DEF list, EmptyList
  <2> QED  BY <1>1, <1>2, <2>1 DEF AllShown
<1> QED  BY <1>7, <1>8, <1>9, <1>10 DEF SetGood

(* The walk comes to what the chains lead to.                              *)
LEMMA WalkIs ==
    ASSUME NEW list, ListOk(list)
    PROVE  /\ IsSeq(Walk(list))
           /\ \A i : i \in Elems(Walk(list)) <=> \E b \in Buckets : i \in Elems(list.chains[b])
<1> DEFINE L == [i \in 1 .. HashSize |-> i - 1]
           walk == Walk(list)
           Upto(k) == UNION {Elems(list.chains[b]) : b \in 0 .. k - 1}
<1>1. HashSize \in Nat /\ DOMAIN L = 1 .. HashSize /\ \A k \in 1 .. HashSize : L[k] = k - 1
  BY HashAssumption
<1>2. \A b \in 0 .. HashSize - 1 : IsSeq(list.chains[b])
  BY DEF ListOk, Buckets
<1>3. walk = WalkOver(<<>>, L, list)
  BY DEF Walk, WalkOver
<1> HIDE DEF L, walk
<1>4. PICK h : /\ h[0] = <<>>
               /\ \A k \in 1 .. HashSize : h[k] = WalkStep(h[k - 1], L[k], list)
               /\ walk = h[HashSize]
  <2> DEFINE none == <<>>
  <2> HIDE DEF none
  <2>1. walk = WalkOver(none, L, list)
    BY <1>3 DEF none
  <2>2. \E h : /\ h[0] = none
               /\ \A k \in 1 .. HashSize : h[k] = WalkStep(h[k - 1], L[k], list)
               /\ walk = h[HashSize]
    BY <1>1, <2>1, WalkFold
  <2> QED  BY <2>2 DEF none
<1> DEFINE T == {k \in 0 .. HashSize : IsSeq(h[k]) /\ Elems(h[k]) = Upto(k)}
<1>5. 0 \in T
  BY <1>1, <1>4, SeqEmpty
<1>6. ASSUME NEW k \in 1 .. HashSize, k - 1 \in T PROVE k \in T
  <2>1. IsSeq(h[k - 1]) /\ Elems(h[k - 1]) = Upto(k - 1)
    BY <1>6
  <2>2. k - 1 \in 0 .. HashSize - 1 /\ k \in 0 .. HashSize
    BY <1>1
  <2>3. h[k] = h[k - 1] \o list.chains[k - 1] /\ IsSeq(list.chains[k - 1])
    BY <1>1, <1>2, <1>4, <2>2 DEF WalkStep
  <2>4. 0 .. k - 1 = (0 .. (k - 1) - 1) \cup {k - 1}
    BY <1>1
  <2>5. Upto(k) = Upto(k - 1) \cup Elems(list.chains[k - 1])
    BY <2>4
  <2> HIDE DEF Upto
  <2>6. IsSeq(h[k]) /\ Elems(h[k]) = Upto(k)
    BY <2>1, <2>3, <2>5, SeqConcat
  <2> QED  BY <2>2, <2>6
<1>7. HashSize \in T
  <2> HIDE DEF T
  <2> QED  BY <1>1, <1>5, <1>6, UpTo
<1>8. IsSeq(walk) /\ Elems(walk) = Upto(HashSize)
  BY <1>4, <1>7
<1>9. \A i : i \in Upto(HashSize) <=> \E b \in Buckets : i \in Elems(list.chains[b])
  BY DEF Buckets
<1> HIDE DEF Upto
<1> QED  BY <1>8, <1>9 DEF walk

(* What is kept of it are the clusters that pass, each once.               *)
LEMMA KeepIs ==
    ASSUME NEW walk, IsSeq(walk), NEW passing
    PROVE  LET kept == Keep(walk, passing)
           IN  /\ IsSeq(kept) /\ Elems(kept) = Elems(walk) \cap passing
               /\ IsFiniteSet(Elems(kept)) /\ Len(kept) = Cardinality(Elems(kept))
<1> DEFINE m == Len(walk)
           kept == Keep(walk, passing)
           Upto(k) == {walk[j] : j \in 1 .. k} \cap passing
           Distinct(s) == IsSeq(s) /\ IsFiniteSet(Elems(s)) /\ Len(s) = Cardinality(Elems(s))
<1>1. m \in Nat /\ DOMAIN walk = 1 .. m
  BY SeqIs
<1>2. kept = KeepOver(<<>>, walk, passing)
  BY DEF Keep, KeepOver
<1> HIDE DEF m, kept
<1>3. PICK h : /\ h[0] = <<>>
               /\ \A k \in 1 .. m : h[k] = KeepStep(h[k - 1], walk[k], passing)
               /\ kept = h[m]
  <2> DEFINE none == <<>>
  <2> HIDE DEF none
  <2>1. kept = KeepOver(none, walk, passing)
    BY <1>2 DEF none
  <2>2. \E h : /\ h[0] = none
               /\ \A k \in 1 .. m : h[k] = KeepStep(h[k - 1], walk[k], passing)
               /\ kept = h[m]
    BY <1>1, <2>1, KeepFold
  <2> QED  BY <2>2 DEF none
<1> DEFINE T == {k \in 0 .. m : Distinct(h[k]) /\ Elems(h[k]) = Upto(k)}
<1>4. Distinct(<<>>) /\ Elems(<<>>) = Upto(0)
  BY SeqEmpty, FS_EmptySet
<1>5. ASSUME NEW s, Distinct(s), NEW x, x \notin Elems(s)
      PROVE  Distinct(Append(s, x)) /\ Elems(Append(s, x)) = Elems(s) \cup {x}
  <2>1. /\ IsSeq(Append(s, x)) /\ Len(Append(s, x)) = Len(s) + 1
        /\ Elems(Append(s, x)) = Elems(s) \cup {x}
    BY <1>5, SeqAppend
  <2>2. /\ IsFiniteSet(Elems(s) \cup {x})
        /\ Cardinality(Elems(s) \cup {x}) = Cardinality(Elems(s)) + 1
    BY <1>5, FS_AddElement
  <2> QED  BY <1>5, <2>1, <2>2
<1>6. ASSUME NEW k \in 1 .. m
      PROVE  Upto(k) = IF walk[k] \in passing THEN Upto(k - 1) \cup {walk[k]} ELSE Upto(k - 1)
  <2>1. 1 .. k = (1 .. k - 1) \cup {k}
    BY <1>1
  <2> QED  BY <2>1
<1> HIDE DEF Distinct, Upto
<1>7. ASSUME NEW k \in 1 .. m, k - 1 \in T PROVE k \in T
  <2>1. Distinct(h[k - 1]) /\ Elems(h[k - 1]) = Upto(k - 1) /\ k \in 0 .. m
    BY <1>1, <1>7
  <2>2. h[k] = KeepStep(h[k - 1], walk[k], passing)
    BY <1>3
  <2>3. CASE walk[k] \in passing /\ walk[k] \notin Elems(h[k - 1])
    <3>1. h[k] = Append(h[k - 1], walk[k])
      BY <2>2, <2>3 DEF KeepStep
    <3>2. Distinct(h[k]) /\ Elems(h[k]) = Elems(h[k - 1]) \cup {walk[k]}
      BY <1>5, <2>1, <2>3, <3>1
    <3> QED  BY <1>6, <2>1, <2>3, <3>2
  <2>4. CASE ~(walk[k] \in passing /\ walk[k] \notin Elems(h[k - 1]))
    <3>1. h[k] = h[k - 1]
      BY <2>2, <2>4 DEF KeepStep
    <3> QED  BY <1>6, <2>1, <2>4, <3>1
  <2> QED  BY <2>3, <2>4
<1>8. m \in T
  <2>1. 0 \in T
    BY <1>1, <1>3, <1>4
  <2> HIDE DEF T
  <2> QED  BY <1>1, <1>7, <2>1, UpTo
<1>9. Upto(m) = Elems(walk) \cap passing
  BY <1>1 DEF Upto, Elems
<1> QED  BY <1>3, <1>8, <1>9 DEF Distinct, kept

(* Sorting and limiting leave clusters and chains alone.                   *)
LEMMA ListKept ==
    ASSUME NEW asked, NEW s, SetGood(s, asked), NEW list, DOMAIN list = DOMAIN s.list,
           list.chains = s.list.chains, list.clusters = s.list.clusters, list.num \in Nat
    PROVE  SetGood([s EXCEPT !.list = list], asked)
<1>1. Good(s.list, s.merged, s.records)
  BY DEF SetGood
<1>2. /\ IsSeq(s.list.clusters) /\ \A i \in DOMAIN s.list.clusters : ClusterOk(s.list.clusters[i])
  BY <1>1 DEF Good, ListOk
<1>3. \A i : KeySet(list, i) = KeySet(s.list, i)
  BY DEF KeySet
<1>4. Good(list, s.merged, s.records)
  BY <1>1, <1>2, <1>3, SameGood
<1>5. /\ DOMAIN [s EXCEPT !.list = list] = DOMAIN s /\ [s EXCEPT !.list = list].list = list
      /\ [s EXCEPT !.list = list].merged = s.merged /\ [s EXCEPT !.list = list].records = s.records
      /\ [s EXCEPT !.list = list].rel = s.rel
  BY DEF SetGood
<1>6. Rated(list, asked, s.rel.df > 0)
  BY DEF SetGood, Rated
<1>7. AllShown(list)
  BY DEF SetGood, AllShown
<1> QED  BY <1>4, <1>5, <1>6, <1>7 DEF SetGood

(* So does reclist_limit.                                                  *)
LEMMA LimitKeeps ==
    ASSUME NEW list, ListOk(list), NEW passing, NEW lazy
    PROVE  LET to == Limit(list, passing, lazy)
           IN  /\ DOMAIN to = DOMAIN list /\ to.num \in Nat
               /\ to.chains = list.chains /\ to.clusters = list.clusters
<1> DEFINE shown == Keep(Walk(list), passing)
           to == Limit(list, passing, lazy)
<1>1. to = IF lazy /\ list.sorted # <<>> THEN [list EXCEPT !.num = 0]
           ELSE [list EXCEPT !.sorted = shown, !.num = Len(shown)]
  BY DEF Limit
<1>3. Len(shown) \in Nat
  <2>1. IsSeq(shown)
    BY WalkIs, KeepIs
  <2> QED  BY <2>1, SeqIs
<1> HIDE DEF shown, to
<1>2. /\ DOMAIN to = DOMAIN list /\ to.num \in Nat
      /\ to.chains = list.chains /\ to.clusters = list.clusters
  BY <1>1, <1>3 DEF ListOk
<1> QED  BY <1>2 DEF to

(* show_single_start, and the first part of show_range_start.              *)
LEMMA LimitedKeeps ==
    ASSUME RecordsInv, NEW lazy
    PROVE  LET to == Limited(lazy)
           IN  /\ DOMAIN to = DOMAIN set.list /\ DOMAIN to = {"chains", "clusters", "sorted", "num"}
               /\ to.num \in Nat /\ to.chains = set.list.chains /\ to.clusters = set.list.clusters
<1>1. ListOk(set.list) /\ DOMAIN set.list = {"chains", "clusters", "sorted", "num"}
  BY DEF RecordsInv, SetGood, Good, ListOk
<1> DEFINE passing == {i \in DOMAIN set.list.clusters : PassesCluster(session.limit, set.list.clusters[i])}
<1>2. Limited(lazy) = Limit(set.list, passing, lazy)
  BY DEF Limited
<1> HIDE DEF passing
<1> QED  BY <1>1, <1>2, LimitKeeps

(* A merge key that a command gives.                                       *)
LEMMA MergeKeyKept ==
    ASSUME SessionOk, NEW r \in Searches \cup Sorts
    PROVE  LET sess == WithMergeKey(session, r.mergekey)
           IN  DOMAIN sess = DOMAIN session /\ sess.mergekey \in SessionKeys
<1>1. CASE r.mergekey = <<>>
  BY <1>1 DEF WithMergeKey, SessionOk
<1>2. CASE r.mergekey # <<>>
  <2>1. Head(r.mergekey) \in SessionKeys
    BY <1>2 DEF SessionKeys
  <2>2. WithMergeKey(session, r.mergekey) = [session EXCEPT !.mergekey = Head(r.mergekey)]
    BY <1>2 DEF WithMergeKey
  <2> QED  BY <2>1, <2>2 DEF SessionOk
<1> QED  BY <1>1, <1>2

(* same_search does not matter here.                                       *)
LEMMA DoneKeeps ==
    ASSUME NEW cls, ClientsOk(cls)
    PROVE  ClientsOk(Done(cls)) /\ Asked(Done(cls)) = Asked(cls)
<1>1. ASSUME NEW c \in Clients
      PROVE  /\ ClientOk(c, [cls[c] EXCEPT !.same = FALSE])
             /\ [cls[c] EXCEPT !.same = FALSE].query = cls[c].query
  BY DEF ClientsOk, ClientOk, ClientParts
<1> QED  BY <1>1 DEF Done, ClientsOk, Asked

(* Parsing the sort order of a client changes no more than that.           *)
LEMMA ParseSortKeeps ==
    ASSUME NEW c, NEW cl, ClientOk(c, cl), NEW sp
    PROVE  ClientOk(c, ParseSort(c, cl, sp)) /\ Stays(cl, ParseSort(c, cl, sp))
<1> DEFINE sort == NativeSort(sp)
<1>1. \/ ParseSort(c, cl, sp) = [cl EXCEPT !.sort = None]
      \/ ParseSort(c, cl, sp) = [cl EXCEPT !.same = @ /\ cl.sort = sort, !.sort = sort]
  BY DEF ParseSort
<1> HIDE DEF sort
<1> QED  BY <1>1 DEF ClientOk, ClientParts, Stays

(* A client that is selected for a search.                                 *)
LEMMA PrepareKeeps ==
    ASSUME ClientsOk(client), NEW c \in Clients, NEW r \in Searches
    PROVE  LET cl == Prepare(c, r.query, r.sort, r.range)
           IN  ClientOk(c, cl) /\ cl.active
<1> DEFINE cl1 == [client[c] EXCEPT !.same = TRUE]
           cl2 == ParseQuery(cl1, r.query)
           cl3 == ParseRange(cl2, r.range)
           cl4 == ParseSort(c, cl3, Head(r.sort))
           cl5 == [cl4 EXCEPT !.active = TRUE]
<1>1. ClientOk(c, cl1)
  BY DEF ClientsOk, ClientOk, ClientParts
<1>2. r.query \in Queries /\ (r.range # None => r.range.start \in Nat)
  BY SearchesAssumption
<1> HIDE DEF cl1
<1>3. ClientOk(c, cl2) /\ cl2.query \in Queries
  BY <1>1, <1>2 DEF ParseQuery, ClientOk, ClientParts
<1> HIDE DEF cl2
<1>4. ClientOk(c, cl3) /\ cl3.query \in Queries
  BY <1>2, <1>3 DEF ParseRange, ClientOk, ClientParts
<1> HIDE DEF cl3
<1>5. ClientOk(c, cl4) /\ cl4.query \in Queries
  BY <1>4, ParseSortKeeps DEF Stays
<1> HIDE DEF cl4
<1>6. ClientOk(c, cl5) /\ cl5.active
  BY <1>5 DEF ClientOk, ClientParts
<1>7. Prepare(c, r.query, r.sort, r.range) = cl5
  BY DEF Prepare, cl1, cl2, cl3, cl4
<1> QED  BY <1>6, <1>7
-----------------------------------------------------------------------------
(* Every state starts from a sound list, ...                               *)
LEMMA RecordsInit == Init => RecordsInv
<1> SUFFICES ASSUME Init PROVE RecordsInv
  OBVIOUS
<1>1. SetGood(set, Asked(client))
  BY EmptyGood DEF Init
<1>2. ClientsOk(client)
  <2>1. ASSUME NEW c \in Clients PROVE ClientOk(c, FreshClient)
    BY DEF ClientOk, ClientParts, FreshClient, ResultsOk
  <2> QED  BY <2>1 DEF Init, ClientsOk
<1>3. SessionOk
  BY DEF Init, SessionOk, SessionKeys
<1> QED  BY <1>1, <1>2, <1>3 DEF RecordsInv

(* ... a search keeps it sound, ...                                        *)
LEMMA SearchKeeps == RecordsInv /\ Search => RecordsInv'
<1> SUFFICES ASSUME RecordsInv, NEW r \in Searches, NEW connect,
                    SessionSearch(r.targets, r.query, r.sort, r.limit, r.range, r.mergekey, connect)
             PROVE  RecordsInv'
  BY DEF Search
<1> DEFINE S == r.targets
           sess0 == WithMergeKey(session, r.mergekey)
           force == Cardinality(S) = 1 /\ \A c \in S : Head(r.sort).field \in SortMap[c]
           sess == [sess0 EXCEPT !.limit = r.limit, !.sorted = {Head(r.sort)}, !.searched = TRUE,
                                 !.force = force]
           prepared == [c \in Clients |-> IF c \in S THEN Prepare(c, r.query, r.sort, r.range)
                                          ELSE [client[c] EXCEPT !.active = FALSE]]
           start == [set |-> ClearSet, client |-> prepared]
           st == StartAll(start, sess, S, connect)
<1>1. session' = sess /\ set' = st.set /\ client' = Done(st.client)
  BY DEF SessionSearch
<1>2. S \subseteq Clients
  BY SearchesAssumption
<1>3. DOMAIN sess = DOMAIN session /\ sess.mergekey \in SessionKeys
  <2>1. DOMAIN sess0 = DOMAIN session /\ sess0.mergekey \in SessionKeys
    BY MergeKeyKept DEF RecordsInv
  <2> HIDE DEF sess0, force
  <2> QED  BY <2>1 DEF RecordsInv, SessionOk
<1>4. ClientsOk(prepared) /\ \A c \in S : prepared[c].active
  <2>1. ASSUME NEW c \in Clients
        PROVE  ClientOk(c, prepared[c]) /\ (c \in S => prepared[c].active)
    <3>1. CASE c \in S
      BY <3>1, PrepareKeeps DEF RecordsInv
    <3>2. CASE c \notin S
      <4>1. prepared[c] = [client[c] EXCEPT !.active = FALSE]
        BY <3>2
      <4> QED  BY <3>2, <4>1 DEF RecordsInv, ClientsOk, ClientOk, ClientParts
    <3> QED  BY <3>1, <3>2
  <2>2. DOMAIN prepared = Clients
    OBVIOUS
  <2> HIDE DEF prepared
  <2> QED  BY <1>2, <2>1, <2>2 DEF ClientsOk
<1> HIDE DEF prepared, sess, S
<1>5. StepOk(start)
  BY <1>4, EmptyGood DEF StepOk, ClearSet
<1>6. StepOk(st)
  <2>1. \A c \in S : start.client[c].active
    BY <1>4
  <2> HIDE DEF start
  <2> QED  BY <1>2, <1>3, <1>5, <2>1, StartAllKeeps
<1> HIDE DEF st
<1>7. SetGood(set', Asked(client')) /\ ClientsOk(client')
  <2>1. ClientsOk(Done(st.client)) /\ Asked(Done(st.client)) = Asked(st.client)
    BY <1>6, DoneKeeps DEF StepOk
  <2> QED  BY <1>1, <1>6, <2>1 DEF StepOk
<1> QED  BY <1>1, <1>3, <1>7 DEF RecordsInv, SessionOk

(* ... so does a sort, ...                                                 *)
LEMMA SortKeeps == RecordsInv /\ SortAgain => RecordsInv'
<1> SUFFICES ASSUME RecordsInv, NEW r \in Sorts, NEW connect,
                    SessionSort(r.sort, r.mergekey, connect)
             PROVE  RecordsInv'
  BY DEF SortAgain
<1> DEFINE sp == r.sort
           sess == WithMergeKey(session, r.mergekey)
           parsed == [c \in Clients |->
                        IF client[c].active
                        THEN ParseSort(c, [client[c] EXCEPT !.same = TRUE], Head(sp))
                        ELSE client[c]]
           running == {c \in Active : client[c].state \in {"Working", "Idle"}}
           start == [set |-> ClearSet, client |-> parsed]
           st == StartAll(start, sess, running, connect)
<1>1. \/ UNCHANGED vars
      \/ session' = [sess EXCEPT !.sorted = @ \cup {Head(sp)}] /\ client' = Done(parsed) /\ UNCHANGED set
      \/ /\ session' = [sess EXCEPT !.sorted = {Head(sp)}, !.force = FALSE]
         /\ set' = st.set /\ client' = Done(st.client)
  BY DEF SessionSort
<1>2. DOMAIN sess = DOMAIN session /\ sess.mergekey \in SessionKeys
  BY MergeKeyKept DEF RecordsInv
<1>3. ClientsOk(parsed) /\ SameSearch(client, parsed)
  <2>1. ASSUME NEW c \in Clients
        PROVE  ClientOk(c, parsed[c]) /\ Stays(client[c], parsed[c])
    <3> DEFINE cl == [client[c] EXCEPT !.same = TRUE]
    <3>1. ClientOk(c, client[c]) /\ ClientOk(c, cl) /\ Stays(client[c], cl)
      BY DEF RecordsInv, ClientsOk, ClientOk, ClientParts, Stays
    <3> HIDE DEF cl
    <3>2. ClientOk(c, ParseSort(c, cl, Head(sp))) /\ Stays(cl, ParseSort(c, cl, Head(sp)))
      BY <3>1, ParseSortKeeps
    <3>3. parsed[c] = IF client[c].active THEN ParseSort(c, cl, Head(sp)) ELSE client[c]
      BY DEF cl
    <3> HIDE DEF parsed
    <3> QED  BY <3>1, <3>2, <3>3 DEF Stays
  <2>2. DOMAIN parsed = Clients
    OBVIOUS
  <2> HIDE DEF parsed
  <2> QED  BY <2>1, <2>2 DEF ClientsOk, SameSearch
<1>4. running \subseteq Clients /\ \A c \in running : client[c].active
  BY DEF Active
<1> HIDE DEF parsed, sess, running
<1>5. StepOk(st)
  <2>1. StepOk(start)
    BY <1>3, EmptyGood DEF StepOk, ClearSet
  <2>2. \A c \in running : start.client[c].active
    BY <1>3, <1>4 DEF SameSearch, Stays
  <2> HIDE DEF start
  <2> QED  BY <1>2, <1>4, <2>1, <2>2, StartAllKeeps
<1> HIDE DEF st
<1>6. /\ ClientsOk(Done(parsed)) /\ Asked(Done(parsed)) = Asked(client)
      /\ ClientsOk(Done(st.client)) /\ Asked(Done(st.client)) = Asked(st.client)
      /\ SetGood(st.set, Asked(st.client))
  <2>1. ClientsOk(Done(parsed)) /\ Asked(Done(parsed)) = Asked(parsed) /\ Asked(parsed) = Asked(client)
    BY <1>3, DoneKeeps, SameAsked
  <2>2. ClientsOk(Done(st.client)) /\ Asked(Done(st.client)) = Asked(st.client)
    BY <1>5, DoneKeeps DEF StepOk
  <2> QED  BY <1>5, <2>1, <2>2 DEF StepOk
<1>7. CASE UNCHANGED vars
  BY <1>7 DEF vars, RecordsInv, SessionOk
<1>8. CASE session' = [sess EXCEPT !.sorted = @ \cup {Head(sp)}] /\ client' = Done(parsed) /\ UNCHANGED set
  BY <1>2, <1>6, <1>8 DEF RecordsInv, SessionOk
<1>9. CASE /\ session' = [sess EXCEPT !.sorted = {Head(sp)}, !.force = FALSE]
           /\ set' = st.set /\ client' = Done(st.client)
  BY <1>2, <1>6, <1>9 DEF RecordsInv, SessionOk
<1> QED  BY <1>1, <1>7, <1>8, <1>9

(* ... a page that is shown, ...                                           *)
LEMMA ShowKeeps == RecordsInv /\ Show => RecordsInv'
<1> SUFFICES ASSUME RecordsInv, NEW sp \in SortParams, NEW page \in Pages, ShowRange(sp, page)
             PROVE  RecordsInv'
  BY DEF Show
<1> DEFINE limited == Limited(FALSE)
           ranked == IF \E i \in DOMAIN sp : sp[i].type = "relevance"
                     THEN PrepareRead(limited, set.rel) ELSE limited
           order == Sort(ranked, IF session.force THEN ByPosition ELSE sp).sorted
           upto == Min({Len(order), page.start + page.num})
           shown == FoldLeft(LAMBDA n, i : CountShown(n, limited.clusters[order[i]]),
                             [c \in Clients |-> 0], [i \in 1 .. upto |-> i])
           list == [limited EXCEPT !.sorted = order]
<1>1. /\ set' = [set EXCEPT !.list = list]
      /\ client' = [c \in Clients |-> FetchMore(client[c], shown[c])]
      /\ UNCHANGED session
  BY DEF ShowRange
<1> HIDE DEF order, shown
<1>2. /\ DOMAIN limited = DOMAIN set.list /\ DOMAIN limited = {"chains", "clusters", "sorted", "num"}
      /\ limited.num \in Nat
      /\ limited.chains = set.list.chains /\ limited.clusters = set.list.clusters
  BY LimitedKeeps
<1> HIDE DEF limited
<1>3. SetGood(set', Asked(client))
  <2>1. DOMAIN list = DOMAIN set.list /\ list.chains = set.list.chains
        /\ list.num \in Nat /\ list.clusters = set.list.clusters
    BY <1>2
  <2> HIDE DEF list
  <2> QED  BY <1>1, <2>1, ListKept DEF RecordsInv
<1>4. ClientsOk(client') /\ Asked(client') = Asked(client)
  <2>1. ASSUME NEW c \in Clients, NEW n
        PROVE  ClientOk(c, FetchMore(client[c], n)) /\ Stays(client[c], FetchMore(client[c], n))
    BY DEF FetchMore, RecordsInv, ClientsOk, ClientOk, ClientParts, Stays
  <2>2. ClientsOk(client') /\ SameSearch(client, client')
    BY <1>1, <2>1 DEF ClientsOk, SameSearch
  <2> QED  BY <2>2, SameAsked
<1> QED  BY <1>1, <1>3, <1>4 DEF RecordsInv, SessionOk

(* ... a record that is shown, ...                                         *)
LEMMA RecordKeeps == RecordsInv /\ Record => RecordsInv'
<1> SUFFICES ASSUME RecordsInv, ShowSingle PROVE RecordsInv'
  BY DEF Record
<1> DEFINE list == Limited(TRUE)
<1>1. set' = [set EXCEPT !.list = list] /\ UNCHANGED <<session, client>>
  BY DEF ShowSingle
<1>2. /\ DOMAIN list = DOMAIN set.list /\ list.num \in Nat
      /\ list.chains = set.list.chains /\ list.clusters = set.list.clusters
  BY LimitedKeeps
<1> HIDE DEF list
<1>3. SetGood(set', Asked(client))
  BY <1>1, <1>2, ListKept DEF RecordsInv
<1> QED  BY <1>1, <1>3 DEF RecordsInv, SessionOk

(* ... a record that comes in, ...                                         *)
LEMMA IngestKeeps ==
    ASSUME RecordsInv, NEW c \in Clients, NEW cl, ClientOk(c, cl), Stays(client[c], cl),
           Took(RecordIngest([set |-> set, client |-> [client EXCEPT ![c] = cl]], session, c))
    PROVE  RecordsInv'
<1> DEFINE cls == [client EXCEPT ![c] = cl]
           st == [set |-> set, client |-> cls]
           to == RecordIngest(st, session, c)
<1>1. ClientsOk(cls) /\ Asked(cls) = Asked(client)
  <2>1. ClientsOk(cls) /\ SameSearch(client, cls)
    BY ClientsKeep DEF RecordsInv
  <2> HIDE DEF cls
  <2> QED  BY <2>1, SameAsked
<1> HIDE DEF cls
<1>2. StepOk(st)
  BY <1>1 DEF StepOk, RecordsInv
<1>3. set' = to.set /\ client' = to.client /\ UNCHANGED session
  BY DEF Took, cls
<1> HIDE DEF st
<1>4. StepOk(to)
  <2>1. session.mergekey \in SessionKeys
    BY DEF RecordsInv, SessionOk
  <2> QED  BY <1>2, <2>1, RecordIngestKeeps
<1> HIDE DEF to
<1> QED  BY <1>3, <1>4 DEF RecordsInv, SessionOk, StepOk

(* ... an answer, and whatever else happens to a client.                   *)
LEMMA ClientReplaced ==
    ASSUME RecordsInv, NEW c \in Clients, NEW cl, ClientOk(c, cl), Stays(client[c], cl),
           SetGood(set', Asked(client)), client' = [client EXCEPT ![c] = cl], UNCHANGED session
    PROVE  RecordsInv'
<1>1. ClientsOk(client') /\ Asked(client') = Asked(client)
  <2>1. ClientsOk(client') /\ SameSearch(client, client')
    BY ClientsKeep DEF RecordsInv
  <2> QED  BY <2>1, SameAsked
<1> QED  BY <1>1 DEF RecordsInv, SessionOk

(* client_search_response: an answer comes in.                             *)
LEMMA AnswerKeeps ==
    ASSUME RecordsInv, NEW c \in Clients, Answer(c)
    PROVE  RecordsInv'
<1> DEFINE cl == client[c]
           hits == Len(Docs(c, cl))
           available == Available(cl, hits)
           results == [cl.results EXCEPT !.answered = TRUE]
           cl2 == [cl EXCEPT !.offset = cl.startrecs, !.hits = hits, !.results = results,
                             !.pending = available]
           reported == ReportFacets(set, c, cl.results.query)
<1>1. ClientOk(c, cl)
  BY DEF RecordsInv, ClientsOk
<1>2. set' = reported /\ client' = [client EXCEPT ![c] = cl2] /\ UNCHANGED session
  BY DEF Answer, Took, SearchResponse
<1>3. SetGood(reported, Asked(client))
  BY ReportFacetsKeeps DEF RecordsInv
<1>4. ResultsOk(results)
  <2>1. ResultsOk(cl.results)
    BY <1>1 DEF ClientOk
  <2> HIDE DEF cl
  <2>2. CASE cl.results = None
    <3>1. results = None
      BY <2>2 DEF None
    <3> QED  BY <3>1 DEF ResultsOk
  <2>3. CASE cl.results # None
    BY <2>1, <2>3 DEF ResultsOk
  <2> QED  BY <2>2, <2>3
<1> HIDE DEF hits, available, results, reported
<1>5. ClientOk(c, cl2) /\ Stays(cl, cl2)
  BY <1>1, <1>4 DEF ClientOk, ClientParts, Stays
<1> HIDE DEF cl2
<1>6. SetGood(set', Asked(client))
  BY <1>2, <1>3
<1> QED  BY <1>2, <1>5, <1>6, ClientReplaced

(* The invariant holds in every state.                                     *)
LEMMA RecordsStep == RecordsInv /\ [Next]_vars => RecordsInv'
<1> SUFFICES ASSUME RecordsInv, [Next]_vars PROVE RecordsInv'
  OBVIOUS
<1>1. ASSUME NEW c \in Clients PROVE ClientOk(c, client[c])
  BY DEF RecordsInv, ClientsOk
<1>2. SetGood(set, Asked(client))
  BY DEF RecordsInv
<1>3. CASE Search
  BY <1>3, SearchKeeps
<1>4. CASE SortAgain
  BY <1>4, SortKeeps
<1>5. CASE Show
  BY <1>5, ShowKeeps
<1>6. CASE Record
  BY <1>6, RecordKeeps
<1>7. CASE Stop
  <2> DEFINE Stopped(c) == [client[c] EXCEPT !.conn = FALSE, !.pending = 0, !.late = 0,
                                             !.state = "Disconnected"]
  <2>1. /\ client' = [c \in Clients |->
                        IF client[c].active /\ client[c].state = "Working"
                        THEN Stopped(c) ELSE client[c]]
        /\ UNCHANGED <<set, session>>
    BY <1>7 DEF Stop
  <2>2. ASSUME NEW c \in Clients PROVE ClientOk(c, Stopped(c)) /\ Stays(client[c], Stopped(c))
    BY <1>1 DEF ClientOk, ClientParts, Stays
  <2> HIDE DEF Stopped
  <2>3. ClientsOk(client') /\ SameSearch(client, client')
    BY <1>1, <2>1, <2>2 DEF ClientsOk, SameSearch, Stays
  <2>4. Asked(client') = Asked(client)
    BY <2>3, SameAsked
  <2> QED  BY <1>2, <2>1, <2>3, <2>4 DEF RecordsInv, SessionOk
<1>8. ASSUME NEW c \in Clients, LateRecord(c) PROVE RecordsInv'
  <2> DEFINE cl == [client[c] EXCEPT !.late = @ - 1]
  <2>1. ClientOk(c, cl) /\ Stays(client[c], cl)
    BY <1>1 DEF ClientOk, ClientParts, Stays
  <2>2. Took(RecordIngest([set |-> set, client |-> [client EXCEPT ![c] = cl]], session, c))
    BY <1>8 DEF LateRecord
  <2> HIDE DEF cl
  <2> QED  BY <2>1, <2>2, IngestKeeps
<1>9. ASSUME NEW c \in Clients, Answer(c) PROVE RecordsInv'
  BY <1>9, AnswerKeeps
<1>10. ASSUME NEW c \in Clients, RecordArrives(c) PROVE RecordsInv'
  <2> DEFINE cl == [client[c] EXCEPT !.pending = @ - 1]
  <2>1. ClientOk(c, cl) /\ Stays(client[c], cl)
    BY <1>1 DEF ClientOk, ClientParts, Stays
  <2>2. Took(RecordIngest([set |-> set, client |-> [client EXCEPT ![c] = cl]], session, c))
    BY <1>10 DEF RecordArrives
  <2> HIDE DEF cl
  <2> QED  BY <2>1, <2>2, IngestKeeps
<1>11. ASSUME NEW c \in Clients, Ready(c) PROVE RecordsInv'
  <2> DEFINE cl == [client[c] EXCEPT !.state = "Idle"]
  <2>1. ClientOk(c, cl) /\ Stays(client[c], cl)
    BY <1>1 DEF ClientOk, ClientParts, Stays
  <2>2. client' = [client EXCEPT ![c] = cl] /\ UNCHANGED <<set, session>>
    BY <1>11 DEF Ready
  <2> HIDE DEF cl
  <2> QED  BY <1>2, <2>1, <2>2, ClientReplaced
<1>12. ASSUME NEW c \in Clients, Fails(c) PROVE RecordsInv'
  <2> DEFINE cl == [client[c] EXCEPT !.state = "Error", !.pending = 0, !.late = 0]
  <2>1. ClientOk(c, cl) /\ Stays(client[c], cl)
    BY <1>1 DEF ClientOk, ClientParts, Stays
  <2>2. client' = [client EXCEPT ![c] = cl] /\ UNCHANGED <<set, session>>
    BY <1>12 DEF Fails
  <2> HIDE DEF cl
  <2> QED  BY <1>2, <2>1, <2>2, ClientReplaced
<1>13. ASSUME NEW c \in Clients, Lost(c) PROVE RecordsInv'
  <2> DEFINE cl == [client[c] EXCEPT !.conn = FALSE, !.pending = 0, !.late = 0,
                                     !.state = IF @ = "Idle" THEN @ ELSE "Disconnected"]
  <2>1. ClientOk(c, cl) /\ Stays(client[c], cl)
    BY <1>1 DEF ClientOk, ClientParts, Stays
  <2>2. client' = [client EXCEPT ![c] = cl] /\ UNCHANGED <<set, session>>
    BY <1>13 DEF Lost
  <2> HIDE DEF cl
  <2> QED  BY <1>2, <2>1, <2>2, ClientReplaced
<1>14. CASE UNCHANGED vars
  BY <1>14 DEF vars, RecordsInv, SessionOk
<1> QED  BY <1>3, <1>4, <1>5, <1>6, <1>7, <1>8, <1>9, <1>10, <1>11, <1>12, <1>13, <1>14 DEF Next

(* After any sequence of searches, answers, late records, failures, sorts  *)
(* and pages, reclist_insert has kept keys, chains and counters in order,  *)
(* and each client's documents are of its target's result sets.            *)
THEOREM Safety == Spec => []RecordsInv
<1> QED  BY RecordsInit, RecordsStep, PTL DEF Spec

(* ListSound: every key of a cluster leads, through the hash chains, to it *)
(* and to no other, and "merged" and "records" count what there is.  For   *)
(* any hash function, with keys that collide, and records that bring       *)
(* clusters together (reclist_insert, merge_cluster).                      *)
THEOREM ListSoundAlways == Spec => []ListSound
<1>1. RecordsInv => ListSound
  <2> SUFFICES ASSUME RecordsInv PROVE ListSound
    OBVIOUS
  <2> DEFINE list == set.list
  <2>1. Good(list, set.merged, set.records) /\ Live = Lives(list)
    BY DEF RecordsInv, SetGood, Live, Clusters, Lives
  <2>2. KeysLead(list, 0, {}) /\ KeysApart(list, 0, {}) /\ Counted(list, set.merged, set.records)
    BY <2>1 DEF Good, Keyed
  <2>3. ASSUME NEW i \in Live, NEW k \in Elems(Clusters[i].keys)
        PROVE  /\ i \in Elems(list.chains[Hash(k)])
               /\ \A j \in Live \ {i} : k \notin Elems(Clusters[j].keys)
    BY <2>1, <2>2 DEF KeysLead, KeysApart, KeySet, Leads, Clusters
  <2>4. set.merged = Cardinality(Live)
    BY <2>1, <2>2 DEF Counted
  <2>5. set.records = Cardinality(UNION {{i} \X DOMAIN Clusters[i].records : i \in Live})
    BY <2>1, <2>2 DEF Counted, Pairs, Clusters
  <2> QED  BY <2>3, <2>4, <2>5 DEF ListSound
<1> QED  BY <1>1, Safety, PTL

(* RelevanceTrue: the frequency of the term in a cluster is that in its    *)
(* records, also after clusters were merged, no term is counted in more    *)
(* records than there are, and one that occurs in a cluster is counted     *)
(* somewhere, so that relevance_prepare_read has a weight for it.  For any *)
(* ranks of the fields in Nat (relevance_countwords,                       *)
(* relevance_merge_cluster, relevance_donerecord).                         *)
THEOREM RelevanceTrueAlways == Spec => []RelevanceTrue
<1>1. RecordsInv => RelevanceTrue
  <2> SUFFICES ASSUME RecordsInv PROVE RelevanceTrue
    OBVIOUS
  <2> DEFINE asked == Asked(client)
  <2>1. /\ RelOk(set.rel, set.records) /\ Rated(set.list, asked, set.rel.df > 0)
        /\ Live \subseteq DOMAIN Clusters /\ Clusters = set.list.clusters
    BY DEF RecordsInv, SetGood, Live, Clusters
  <2> HIDE DEF asked
  <2>2. ASSUME NEW i \in Live
        PROVE  /\ Clusters[i].tf = Tf(asked, Clusters[i].records)
               /\ Clusters[i].tf > 0 => set.rel.df > 0
    <3>1. ClusterRated(Clusters[i], asked, 0, set.rel.df > 0)
      BY <2>1 DEF Rated
    <3> QED  BY <3>1 DEF ClusterRated
  <2>3. \A i \in Live : Tf(asked, Clusters[i].records)
           = FoldLeft(LAMBDA n, r : n + CountWords(Asked(client)[r.client], r.md),
                      0, Clusters[i].records)
    BY DEF Tf, TfOver, asked
  <2> QED  BY <2>1, <2>2, <2>3 DEF RelevanceTrue, RelOk
<1> QED  BY <1>1, Safety, PTL
-----------------------------------------------------------------------------
(* ShowsAll: whatever the limits, reclist_limit keeps every cluster that   *)
(* passes, once, although several of its buckets lead to a cluster; of a   *)
(* cluster merged into another none does that was made for one of its keys *)
(* (reclist_limit, merge_cluster).                                         *)
THEOREM ShowsAllAlways == Spec => []ShowsAll
<1>1. RecordsInv => ShowsAll
  <2> SUFFICES ASSUME RecordsInv PROVE ShowsAll
    OBVIOUS
  <2> DEFINE list == set.list
             walk == Walk(list)
             kept == Keep(walk, Passing)
             limited == Limited(FALSE)
  <2>1. ListOk(list) /\ Keyed(list, 0, {}) /\ Live = Lives(list)
    BY DEF RecordsInv, SetGood, Good, Live, Clusters, Lives
  <2>2. limited.sorted = kept /\ limited.num = Len(kept)
    <3>1. limited = [list EXCEPT !.sorted = kept, !.num = Len(kept)]
      BY DEF Limited, Limit, Passing, Clusters
    <3> HIDE DEF limited, kept
    <3> QED  BY <2>1, <3>1 DEF ListOk
  <2>3. /\ IsSeq(walk)
        /\ \A i : i \in Elems(walk) <=> \E b \in Buckets : i \in Elems(list.chains[b])
    BY <2>1, WalkIs
  <2> HIDE DEF limited
  <2>4. /\ Elems(kept) = Elems(walk) \cap Passing
        /\ Len(kept) = Cardinality(Elems(kept))
    <3> HIDE DEF walk
    <3> QED  BY <2>3, KeepIs
  <2>5. ASSUME NEW i \in Live PROVE i \in Elems(walk)
    <3>1. i \in DOMAIN list.clusters /\ i \in Lives(list)
      BY <2>1 DEF Lives
    <3>2. PICK k \in KeySet(list, i) : Hash(k) \in Buckets
      BY <2>1, <3>1 DEF Keyed, HaveKeys
    <3>3. Leads(list, i, k)
      BY <2>1, <3>1 DEF Keyed, KeysLead
    <3> QED  BY <2>3, <3>2, <3>3 DEF Leads
  <2>6. ASSUME NEW i \in Passing, i \notin Live, NEW k \in Elems(Clusters[i].keys)
        PROVE  i \notin Elems(list.chains[Hash(k)])
    <3>1. i \in DOMAIN list.clusters /\ ~ list.clusters[i].live /\ k \in KeySet(list, i)
      BY <2>6 DEF Passing, Live, Clusters, KeySet
    <3> QED  BY <2>1, <3>1 DEF Keyed, KeysGone, Leads
  <2> HIDE DEF walk, kept
  <2> QED  BY <2>2, <2>4, <2>5, <2>6 DEF ShowsAll, limited
<1> QED  BY <1>1, Safety, PTL

(* SortKeyShown: what a cluster shows of a field are values its records    *)
(* have, a range has the bounds of some of them, and a sort key is the     *)
(* value that is shown.  For any merge type of every field, any values and *)
(* any number of them in a record, and clusters that records bring         *)
(* together (ingest_to_cluster, merge_cluster).                            *)
THEOREM SortKeyShownAlways == Spec => []SortKeyShown
<1>1. RecordsInv => SortKeyShown
  <2> SUFFICES ASSUME RecordsInv, NEW i \in Live, NEW f \in Fields
               PROVE  LET cluster == Clusters[i]
                          values == UNION {Elems(r.md[f]) : r \in Elems(cluster.records)}
                      IN  /\ Service[f].sort /\ cluster.md[f] # <<>>
                             /\ Service[f].merge \in {"longest", "range"}
                               => cluster.sortkey[f] = Head(cluster.md[f])
                          /\ Service[f].merge = "range" =>
                               \A v \in Elems(cluster.md[f]) :
                                  (\E w \in values : w.min = v.min) /\ (\E w \in values : w.max = v.max)
                          /\ Service[f].merge # "range" => Elems(cluster.md[f]) \subseteq values
    BY DEF SortKeyShown
  <2>1. ClusterShown(Clusters[i])
    BY DEF RecordsInv, SetGood, AllShown, Live, Clusters
  <2> DEFINE cluster == Clusters[i]
             values == ValuesOf(cluster.records, f)
  <2>2. AllStand(f, cluster.md[f], values) /\ SortedBy(f, cluster.md[f], cluster.sortkey[f])
    BY <2>1 DEF ClusterShown, FieldsShown
  <2>3. values = UNION {Elems(r.md[f]) : r \in Elems(cluster.records)}
    BY DEF ValuesOf
  <2> HIDE DEF cluster, values
  <2>4. /\ Service[f].merge = "range" =>
              \A v \in Elems(cluster.md[f]) :
                 (\E w \in values : w.min = v.min) /\ (\E w \in values : w.max = v.max)
        /\ Service[f].merge # "range" => Elems(cluster.md[f]) \subseteq values
    BY <2>2 DEF AllStand, Stands
  <2>5. Service[f].sort /\ cluster.md[f] # <<>> /\ Service[f].merge \in {"longest", "range"}
           => cluster.sortkey[f] = Head(cluster.md[f])
    BY <2>2 DEF SortedBy
  <2> QED  BY <2>3, <2>4, <2>5 DEF cluster
<1> QED  BY <1>1, Safety, PTL
-----------------------------------------------------------------------------
(* A set in a sequence: each member once.                                  *)
LEMMA SetToSeqAll ==
    ASSUME NEW S, IsFiniteSet(S)
    PROVE  LET L == SetToSeq(S)
           IN  /\ \A i, k \in DOMAIN L : L[i] = L[k] => i = k
               /\ Elems(L) = S
<1> DEFINE n == Cardinality(S)
           s == SetToSeq(S)
<1>1. IsFiniteSet(S)
  OBVIOUS
<1>2. n \in Nat /\ ExistsBijection(1 .. n, S)
  BY <1>1, FS_CardinalityType
<1>3. \E f \in [1 .. n -> S] : IsInjective(f)
  BY <1>2 DEF ExistsBijection, Bijection, Injection
<1>4. s \in [1 .. n -> S] /\ IsInjective(s)
  BY <1>3 DEF SetToSeq
<1> HIDE DEF s
<1>5. \A i, k \in DOMAIN s : s[i] = s[k] => i = k
  BY <1>4 DEF IsInjective
<1>6. Elems(s) = S
  <2> DEFINE E == Elems(s)
             N == 1 .. n
  <2>1. E \subseteq S /\ \A i \in N : s[i] \in E
    BY <1>4 DEF Elems
  <2>2. IsFiniteSet(E) /\ IsFiniteSet(N) /\ Cardinality(N) = n
    <3>1. IsFiniteSet(N) /\ Cardinality(N) = n
      BY <1>2, FS_Interval
    <3>2. E \in SUBSET S
      BY <2>1
    <3> HIDE DEF E, N
    <3>3. IsFiniteSet(E)
      BY <1>1, <3>2, FS_Subset
    <3> QED  BY <3>1, <3>3
  <2>3. s \in Bijection(N, E)
    <3>1. s \in [N -> E] /\ \A y \in E : \E i \in N : s[i] = y
      BY <1>4, <2>1 DEF Elems
    <3> HIDE DEF E, N
    <3>2. DOMAIN s = N
      BY <3>1
    <3> QED  BY <1>5, <3>1, <3>2 DEF Bijection, Injection, Surjection, IsInjective
  <2> HIDE DEF E, N
  <2>4. Cardinality(E) = n
    BY <2>2, <2>3, FS_Bijection DEF ExistsBijection
  <2>5. E = S
    BY <1>1, <2>1, <2>4, FS_Subset
  <2> QED  BY <2>5 DEF E
<1> QED  BY <1>5, <1>6 DEF s

(* Comparing clusters, by one sort key after the other                     *)

(* A comparison of the members of S, with an Int for every two of them:    *)
(* turned around it is the opposite, and what is not above is not above.   *)
Orders(r, S) ==
    /\ r \in [S -> [S -> Int]]
    /\ \A a, b \in S : r[a][b] = 0 - r[b][a]
    /\ \A a, b, c \in S : r[a][b] <= 0 /\ r[b][c] <= 0 => r[a][c] <= 0

(* One comparison, and where it finds no difference another.               *)
Then(r, t, S) == [a \in S |-> [b \in S |-> IF r[a][b] # 0 THEN r[a][b] ELSE t[a][b]]]

LEMMA ThenOrders ==
    ASSUME NEW S, NEW r, Orders(r, S), NEW t, Orders(t, S)
    PROVE  Orders(Then(r, t, S), S)
<1> DEFINE u == Then(r, t, S)
<1>1. \A a, b \in S : /\ r[a][b] \in Int /\ t[a][b] \in Int
                      /\ r[a][b] = 0 - r[b][a] /\ t[a][b] = 0 - t[b][a]
  BY DEF Orders
<1>2. u \in [S -> [S -> Int]] /\ \A a, b \in S : u[a][b] = IF r[a][b] # 0 THEN r[a][b] ELSE t[a][b]
  BY DEF Then, Orders
<1> HIDE DEF u
<1>3. \A a, b \in S : u[a][b] = 0 - u[b][a]
  <2> TAKE a, b \in S
  <2>1. /\ r[a][b] \in Int /\ t[a][b] \in Int /\ r[b][a] \in Int /\ t[b][a] \in Int
        /\ r[a][b] = 0 - r[b][a] /\ t[a][b] = 0 - t[b][a]
    BY <1>1
  <2>2. /\ u[a][b] = IF r[a][b] # 0 THEN r[a][b] ELSE t[a][b]
        /\ u[b][a] = IF r[b][a] # 0 THEN r[b][a] ELSE t[b][a]
    BY <1>2
  <2> QED  BY ONLY <2>1, <2>2
<1>4. ASSUME NEW a \in S, NEW b \in S, NEW c \in S, u[a][b] <= 0, u[b][c] <= 0
      PROVE  u[a][c] <= 0
  <2>5. /\ r[a][b] \in Int /\ r[b][c] \in Int /\ r[b][a] \in Int /\ r[c][b] \in Int
        /\ r[a][b] = 0 - r[b][a] /\ r[b][c] = 0 - r[c][b]
    BY <1>1
  <2>6. /\ u[a][b] = IF r[a][b] # 0 THEN r[a][b] ELSE t[a][b]
        /\ u[b][c] = IF r[b][c] # 0 THEN r[b][c] ELSE t[b][c]
    BY <1>2
  <2>1. r[a][b] <= 0 /\ r[b][c] <= 0
    BY ONLY <1>4, <2>5, <2>6
  <2>2. r[a][c] <= 0
    BY <2>1 DEF Orders
  <2>3. CASE r[a][c] # 0
    BY <1>1, <1>2, <2>2, <2>3
  <2>4. CASE r[a][c] = 0
    <3>1. r[c][a] <= 0
      BY <1>1, <2>4
    <3>2. r[c][b] <= 0 /\ r[b][a] <= 0
      BY <2>1, <3>1 DEF Orders
    <3>3. r[a][b] = 0 /\ r[b][c] = 0
      BY ONLY <2>1, <2>5, <3>2
    <3>4. t[a][b] <= 0 /\ t[b][c] <= 0
      BY <1>2, <1>4, <3>3
    <3>5. t[a][c] <= 0
      BY <3>4 DEF Orders
    <3> QED  BY <1>2, <2>4, <3>5
  <2> QED  BY <2>3, <2>4
<1> QED  BY <1>2, <1>3, <1>4 DEF Orders, u

(* strcmp: which key is below another, ...                                 *)
Shares(x, y, n) == \A j \in 1 .. n : x[j] = y[j]
Under(x, y) ==
    \/ \E i \in DOMAIN x \cap DOMAIN y : x[i] < y[i] /\ Shares(x, y, i - 1)
    \/ Len(x) < Len(y) /\ Shares(x, y, Len(x))

LEMMA SharesOn ==
    ASSUME NEW x, NEW y, NEW z, NEW n \in Int, NEW m \in Int, Shares(x, y, n), Shares(y, z, m),
           NEW k \in Int, k <= n, k <= m
    PROVE  Shares(x, z, k)
  BY DEF Shares

LEMMA UnderOn ==
    ASSUME NEW x \in Seq(Int), NEW y \in Seq(Int), NEW z \in Seq(Int), Under(x, y), Under(y, z)
    PROVE  Under(x, z)
<1>1. /\ DOMAIN x = 1 .. Len(x) /\ DOMAIN y = 1 .. Len(y) /\ DOMAIN z = 1 .. Len(z)
      /\ Len(x) \in Nat /\ Len(y) \in Nat /\ Len(z) \in Nat
  BY LenProperties
<1>2. /\ \A j \in DOMAIN x : x[j] \in Int
      /\ \A j \in DOMAIN y : y[j] \in Int
      /\ \A j \in DOMAIN z : z[j] \in Int
  BY <1>1, ElementOfSeq
<1>3. CASE Len(x) < Len(y) /\ Shares(x, y, Len(x))
  <2>1. CASE Len(y) < Len(z) /\ Shares(y, z, Len(y))
    <3>1. Len(x) < Len(z) /\ Shares(x, z, Len(x))
      BY <1>1, <1>3, <2>1, SharesOn
    <3> QED  BY <3>1 DEF Under
  <2>2. ASSUME NEW i \in DOMAIN y \cap DOMAIN z, y[i] < z[i], Shares(y, z, i - 1)
        PROVE  Under(x, z)
    <3>3. /\ i \in Nat /\ i >= 1 /\ i <= Len(y) /\ i <= Len(z)
          /\ i - 1 \in Int /\ i \in DOMAIN z
      BY <1>1, <2>2
    <3>1. CASE i <= Len(x)
      <4>1. Shares(x, z, i - 1)
        BY <1>1, <1>3, <2>2, <3>1, <3>3, SharesOn
      <4>2. i \in DOMAIN x /\ x[i] = y[i]
        BY <1>1, <1>3, <3>1, <3>3 DEF Shares
      <4> QED  BY <2>2, <3>3, <4>1, <4>2 DEF Under
    <3>2. CASE Len(x) < i
      <4>1. Len(x) < Len(z) /\ Len(x) <= i - 1
        BY <1>1, <3>2, <3>3
      <4>2. Shares(x, z, Len(x))
        BY <1>1, <1>3, <2>2, <3>3, <4>1, SharesOn
      <4> QED  BY <4>1, <4>2 DEF Under
    <3> QED  BY <1>1, <3>1, <3>2, <3>3
  <2> QED  BY <2>1, <2>2 DEF Under
<1>4. ASSUME NEW i \in DOMAIN x \cap DOMAIN y, x[i] < y[i], Shares(x, y, i - 1)
      PROVE  Under(x, z)
  <2>3. /\ i \in Nat /\ i >= 1 /\ i <= Len(x) /\ i <= Len(y)
        /\ i - 1 \in Int /\ i \in DOMAIN x
    BY <1>1, <1>4
  <2>1. CASE Len(y) < Len(z) /\ Shares(y, z, Len(y))
    <3>1. i \in DOMAIN z /\ y[i] = z[i]
      BY <1>1, <2>1, <2>3 DEF Shares
    <3>2. Shares(x, z, i - 1)
      BY <1>1, <1>4, <2>1, <2>3, SharesOn
    <3> QED  BY <1>4, <2>3, <3>1, <3>2 DEF Under
  <2>2. ASSUME NEW k \in DOMAIN y \cap DOMAIN z, y[k] < z[k], Shares(y, z, k - 1)
        PROVE  Under(x, z)
    <3>3. /\ k \in Nat /\ k >= 1 /\ k <= Len(y) /\ k <= Len(z)
          /\ k - 1 \in Int /\ k \in DOMAIN z
      BY <1>1, <2>2
    <3>1. CASE i < k
      <4>1. i \in DOMAIN z /\ i <= k - 1
        BY <1>1, <2>3, <3>1, <3>3
      <4>2. y[i] = z[i]
        BY <2>2, <2>3, <3>3, <4>1 DEF Shares
      <4>3. Shares(x, z, i - 1)
        BY <1>4, <2>2, <2>3, <3>1, <3>3, SharesOn
      <4> QED  BY <1>4, <2>3, <4>1, <4>2, <4>3 DEF Under
    <3>2. CASE k < i
      <4>1. k \in DOMAIN x /\ k <= i - 1
        BY <1>1, <2>3, <3>2, <3>3
      <4>2. x[k] = y[k]
        BY <1>4, <2>3, <3>3, <4>1 DEF Shares
      <4>3. Shares(x, z, k - 1)
        BY <1>4, <2>2, <2>3, <3>2, <3>3, SharesOn
      <4> QED  BY <2>2, <3>3, <4>1, <4>2, <4>3 DEF Under
    <3>4. CASE k = i
      <4>1. Shares(x, z, i - 1)
        BY <1>4, <2>2, <2>3, <3>4, SharesOn
      <4>2. x[i] \in Int /\ y[i] \in Int /\ z[i] \in Int
        BY <1>2, <2>3, <3>3, <3>4, <2>2
      <4>3. x[i] < z[i]
        BY <1>4, <2>2, <3>4, <4>2
      <4> QED  BY <2>3, <3>3, <3>4, <4>1, <4>3 DEF Under
    <3> QED  BY <2>3, <3>1, <3>2, <3>3, <3>4
  <2> QED  BY <2>1, <2>2 DEF Under
<1> QED  BY <1>3, <1>4 DEF Under

(* ... and that the sign of the result says so.                            *)
LEMMA StrcmpIs ==
    ASSUME NEW x \in Seq(Int), NEW y \in Seq(Int)
    PROVE  /\ Strcmp(x, y) \in Int /\ Strcmp(x, y) = 0 - Strcmp(y, x)
           /\ Strcmp(x, y) < 0 <=> Under(x, y)
           /\ Strcmp(x, y) = 0 <=> x = y
<1> DEFINE diff == {i \in DOMAIN x \cap DOMAIN y : x[i] # y[i]}
           i == Min(diff)
<1>1. /\ DOMAIN x = 1 .. Len(x) /\ DOMAIN y = 1 .. Len(y)
      /\ Len(x) \in Nat /\ Len(y) \in Nat
      /\ \A j \in DOMAIN x : x[j] \in Int
      /\ \A j \in DOMAIN y : y[j] \in Int
  BY LenProperties, ElementOfSeq
<1>2. {j \in DOMAIN y \cap DOMAIN x : y[j] # x[j]} = diff
  OBVIOUS
<1>3. /\ Strcmp(x, y) = IF x = y THEN 0 ELSE IF diff = {} THEN Len(x) - Len(y) ELSE x[i] - y[i]
      /\ Strcmp(y, x) = IF x = y THEN 0 ELSE IF diff = {} THEN Len(y) - Len(x) ELSE y[i] - x[i]
  BY <1>2 DEF Strcmp
<1>4. CASE x = y
  <2>1. ~ Under(x, x)
    <3>1. \A j \in DOMAIN x : ~ (x[j] < x[j])
      BY <1>1
    <3> QED  BY <1>1, <3>1 DEF Under
  <2>2. Strcmp(x, y) = 0 /\ Strcmp(y, x) = 0
    BY <1>3, <1>4
  <2> QED  BY <1>4, <2>1, <2>2
<1>5. CASE x # y /\ diff = {}
  <2>1. \A j \in DOMAIN x \cap DOMAIN y : x[j] = y[j]
    BY <1>5
  <2>2. Len(x) # Len(y)
    BY <1>1, <1>5, <2>1, SeqEqual
  <2>4. Len(x) < Len(y) => Shares(x, y, Len(x))
    BY <1>1, <2>1 DEF Shares
  <2>5. ~ \E j \in DOMAIN x \cap DOMAIN y : x[j] < y[j]
    <3>1. \A j \in DOMAIN x : ~ (x[j] < x[j])
      BY <1>1
    <3> QED  BY <2>1, <3>1
  <2>3. Under(x, y) <=> Len(x) < Len(y)
    BY <2>4, <2>5 DEF Under
  <2>6. Strcmp(x, y) = Len(x) - Len(y) /\ Strcmp(y, x) = Len(y) - Len(x)
    BY <1>3, <1>5
  <2> HIDE DEF diff, i
  <2>9. \A p, q \in Nat : p # q => /\ p - q \in Int /\ p - q = 0 - (q - p)
                                    /\ p - q # 0 /\ (p - q < 0 <=> p < q)
    OBVIOUS
  <2>7. /\ Len(x) - Len(y) \in Int /\ Len(x) - Len(y) = 0 - (Len(y) - Len(x))
        /\ Len(x) - Len(y) # 0 /\ (Len(x) - Len(y) < 0 <=> Len(x) < Len(y))
    BY <1>1, <2>2, <2>9
  <2>8. Strcmp(x, y) < 0 <=> Under(x, y)
    BY <2>3, <2>6, <2>7
  <2> QED  BY <1>5, <2>6, <2>7, <2>8
<1>6. CASE x # y /\ diff # {}
  <2>1. diff \subseteq Nat
    BY <1>1
  <2>2. i \in diff /\ \A j \in diff : i <= j
    <3> HIDE DEF diff
    <3>1. \E m \in diff : \A j \in diff : m <= j
      BY <1>6, <2>1, NatMin
    <3> QED  BY <3>1 DEF Min
  <2>3. i \in DOMAIN x /\ i \in DOMAIN y /\ x[i] # y[i] /\ i \in Nat /\ x[i] \in Int /\ y[i] \in Int
    BY <1>1, <2>2
  <2>4. \A j \in 1 .. i - 1 : x[j] = y[j]
    <3> SUFFICES ASSUME NEW j \in 1 .. i - 1 PROVE x[j] = y[j]
      OBVIOUS
    <3>1. j \in Nat /\ j < i /\ j \in DOMAIN x /\ j \in DOMAIN y
      BY <1>1, <2>3
    <3>2. j \notin diff
      <4> HIDE DEF diff, i
      <4>1. \A k \in diff : ~ (k < i)
        BY <2>1, <2>2, <2>3
      <4> QED  BY <3>1, <4>1
    <3> QED  BY <3>1, <3>2
  <2> HIDE DEF diff, i
  <2>5. x[i] < y[i] => Under(x, y)
    BY <2>3, <2>4 DEF Under, Shares
  <2>6. ASSUME Under(x, y) PROVE x[i] < y[i]
    <3>1. CASE Len(x) < Len(y) /\ Shares(x, y, Len(x))
      BY <1>1, <2>3, <3>1 DEF Shares
    <3>2. ASSUME NEW k \in DOMAIN x \cap DOMAIN y, x[k] < y[k], Shares(x, y, k - 1)
          PROVE  x[i] < y[i]
      <4>1. k \in Nat /\ x[k] \in Int /\ y[k] \in Int
        BY <1>1
      <4>2. ~ (i < k)
        BY <1>1, <2>3, <3>2, <4>1 DEF Shares
      <4>3. ~ (k < i)
        <5> SUFFICES ASSUME k < i PROVE FALSE
          OBVIOUS
        <5>1. k \in 1 .. i - 1
          BY <1>1, <2>3, <4>1
        <5>2. x[k] = y[k]
          BY <2>4, <5>1
        <5> QED  BY <3>2, <4>1, <5>2
      <4>4. i = k
        BY <2>3, <4>1, <4>2, <4>3
      <4> QED  BY <3>2, <4>4
    <3> QED  BY <2>6, <3>1, <3>2 DEF Under
  <2>7. Strcmp(x, y) = x[i] - y[i] /\ Strcmp(y, x) = y[i] - x[i]
    BY <1>3, <1>6
  <2>8. x[i] - y[i] \in Int /\ x[i] - y[i] = 0 - (y[i] - x[i]) /\ x[i] - y[i] # 0
        /\ (x[i] - y[i] < 0 <=> x[i] < y[i])
    BY <2>3
  <2>9. Strcmp(x, y) < 0 <=> Under(x, y)
    BY <2>5, <2>6, <2>7, <2>8
  <2> QED  BY <1>6, <2>7, <2>8, <2>9
<1> QED  BY <1>4, <1>5, <1>6

(* Differences of values order, upwards and downwards.                     *)
Difference(turn, v, S) == [a \in S |-> [b \in S |-> turn * (v[a] - v[b])]]

LEMMA DifferenceOrders ==
    ASSUME NEW S, NEW v \in [S -> Int], NEW turn \in {1, -1}
    PROVE  Orders(Difference(turn, v, S), S)
<1> DEFINE r == Difference(turn, v, S)
<1>1. \A a, b \in S : r[a][b] = turn * (v[a] - v[b])
  BY DEF Difference
<1>2. \A x, y \in Int : turn * (x - y) = IF turn = 1 THEN x - y ELSE y - x
  OBVIOUS
<1>3. \A a \in S : v[a] \in Int
  OBVIOUS
<1>4. \A a, b \in S : r[a][b] = IF turn = 1 THEN v[a] - v[b] ELSE v[b] - v[a]
  <2> HIDE DEF r
  <2> QED  BY <1>1, <1>2, <1>3
<1>5. r = [a \in S |-> [b \in S |-> r[a][b]]]
  BY DEF Difference
<1> HIDE DEF r
<1>6. \A a, b \in S : r[a][b] \in Int /\ r[a][b] = 0 - r[b][a]
  BY <1>3, <1>4
<1>7. \A a, b, c \in S : r[a][b] <= 0 /\ r[b][c] <= 0 => r[a][c] <= 0
  BY <1>3, <1>4
<1>8. r \in [S -> [S -> Int]]
  BY <1>5, <1>6
<1> QED  BY <1>6, <1>7, <1>8 DEF Orders, r

(* A cluster that has a value for every comparison, and a sort parameter   *)
(* with a key of the field's type.                                         *)
Comparable(c) ==
    /\ c.score \in Int /\ c.retrieval \in Int /\ Position(c) \in Int
    /\ c.recid \in Seq(Int)
    /\ \A f \in Fields : c.sortkey[f] = Absent \/ IsValue(f, c.sortkey[f])

IsParam(s) ==
    \/ s.type \in {"relevance", "retrieval", "position"}
    \/ /\ s.field \in Fields
       /\ s.type = IF Service[s.field].type = "year" THEN "date" ELSE "generic"

By(s, cs, S) == [a \in S |-> [b \in S |-> CompareBy(s, cs[a], cs[b])]]

(* A comparison by one sort key orders, ...                                *)
LEMMA ByOrders ==
    ASSUME NEW S, NEW cs, \A i \in S : Comparable(cs[i]), NEW s, IsParam(s)
    PROVE  Orders(By(s, cs, S), S)
<1> DEFINE turn == IF s.increasing THEN 1 ELSE -1
           r == By(s, cs, S)
<1>1. turn \in {1, -1}
  OBVIOUS
<1>2. CASE s.type = "relevance"
  <2> DEFINE v == [i \in S |-> cs[i].score]
  <2>1. v \in [S -> Int]
    BY DEF Comparable
  <2>2. r = Difference(turn, v, S)
    BY <1>2 DEF By, Difference, CompareBy
  <2> HIDE DEF r, turn, v
  <2>3. Orders(r, S)
    BY <1>1, <2>1, <2>2, DifferenceOrders
  <2> QED  BY <2>3 DEF r
<1>3. CASE s.type = "retrieval"
  <2> DEFINE v == [i \in S |-> cs[i].retrieval]
  <2>1. v \in [S -> Int]
    BY DEF Comparable
  <2>2. r = Difference(turn, v, S)
    BY <1>3 DEF By, Difference, CompareBy
  <2> HIDE DEF r, turn, v
  <2>3. Orders(r, S)
    BY <1>1, <2>1, <2>2, DifferenceOrders
  <2> QED  BY <2>3 DEF r
<1>4. CASE s.type = "position"
  <2> DEFINE v == [i \in S |-> Position(cs[i])]
  <2>1. v \in [S -> Int]
    BY DEF Comparable
  <2>2. r = Difference(1, v, S)
    <3>1. \A x, y \in Int : 1 * (x - y) = x - y
      OBVIOUS
    <3>2. \A a, b \in S : Position(cs[a]) \in Int /\ Position(cs[b]) \in Int
      BY DEF Comparable
    <3>3. r = [a \in S |-> [b \in S |-> Position(cs[a]) - Position(cs[b])]]
      BY <1>4 DEF By, CompareBy
    <3>4. Difference(1, v, S) = [a \in S |-> [b \in S |-> 1 * (Position(cs[a]) - Position(cs[b]))]]
      BY DEF Difference
    <3> HIDE DEF r, v
    <3> QED  BY <3>1, <3>2, <3>3, <3>4
  <2> HIDE DEF r, v
  <2>3. Orders(r, S)
    BY <2>1, <2>2, DifferenceOrders
  <2> QED  BY <2>3 DEF r
<1>5. CASE s.type = "generic"
  <2> DEFINE word(x) == IF x = Absent THEN 0 ELSE x.word
             v == [i \in S |-> word(cs[i].sortkey[s.field])]
  <2>1. v \in [S -> Int]
    <3>1. s.field \in Fields /\ Service[s.field].type # "year"
      BY <1>5 DEF IsParam
    <3> QED  BY <3>1 DEF Comparable, IsValue
  <2>2. r = Difference(turn, v, S)
    BY <1>5 DEF By, Difference, CompareBy
  <2> HIDE DEF r, turn, v
  <2>3. Orders(r, S)
    BY <1>1, <2>1, <2>2, DifferenceOrders
  <2> QED  BY <2>3 DEF r
<1>6. CASE s.type = "date"
  <2> DEFINE key(i) == cs[i].sortkey[s.field]
             v == [i \in S |-> IF key(i) = Absent THEN 0
                               ELSE IF s.increasing THEN key(i).min ELSE key(i).max]
             n == [i \in S |-> IF key(i) = Absent THEN 1 ELSE 0]
             missing == Difference(1, n, S)
             dates == Difference(turn, v, S)
  <2>1. v \in [S -> Int] /\ n \in [S -> Int]
    <3>1. s.field \in Fields /\ Service[s.field].type = "year"
      BY <1>6 DEF IsParam
    <3> QED  BY <3>1 DEF Comparable, IsValue
  <2>2. Orders(missing, S) /\ Orders(dates, S)
    <3> HIDE DEF v, n, turn
    <3> QED  BY <1>1, <2>1, DifferenceOrders
  <2>3. r = Then(missing, dates, S)
    <3>1. ASSUME NEW a \in S, NEW b \in S PROVE r[a][b] = Then(missing, dates, S)[a][b]
      <4>1. missing[a][b] = n[a] - n[b] /\ dates[a][b] = turn * (v[a] - v[b])
        <5>1. n[a] \in Int /\ n[b] \in Int
          BY <2>1
        <5>2. \A x, y \in Int : 1 * (x - y) = x - y
          OBVIOUS
        <5>3. missing[a][b] = 1 * (n[a] - n[b]) /\ dates[a][b] = turn * (v[a] - v[b])
          BY DEF Difference
        <5> HIDE DEF n, v, missing, dates
        <5> QED  BY <5>1, <5>2, <5>3
      <4>2. Then(missing, dates, S)[a][b] = IF missing[a][b] # 0 THEN missing[a][b] ELSE dates[a][b]
        BY DEF Then
      <4>3. r[a][b] = IF key(a) # Absent /\ key(b) # Absent
                   THEN turn * (IF s.increasing THEN key(a).min - key(b).min
                                ELSE key(a).max - key(b).max)
                   ELSE n[a] - n[b]
        BY <1>6 DEF By, CompareBy
      <4>4. turn * (0 - 0) = 0
        BY <1>1
      <4>5. /\ n[a] = (IF key(a) = Absent THEN 1 ELSE 0) /\ n[b] = (IF key(b) = Absent THEN 1 ELSE 0)
            /\ key(a) = Absent => v[a] = 0
            /\ key(b) = Absent => v[b] = 0
            /\ key(a) # Absent => v[a] = IF s.increasing THEN key(a).min ELSE key(a).max
            /\ key(b) # Absent => v[b] = IF s.increasing THEN key(b).min ELSE key(b).max
        OBVIOUS
      <4> HIDE DEF missing, dates, r, turn, key, n, v
      <4>6. CASE key(a) # Absent /\ key(b) # Absent
        <5>1. missing[a][b] = 0
          BY ONLY <4>1, <4>5, <4>6
        <5>2. r[a][b] = turn * (v[a] - v[b])
          BY ONLY <4>3, <4>5, <4>6
        <5> QED  BY ONLY <4>1, <4>2, <5>1, <5>2
      <4>7. CASE key(a) = Absent /\ key(b) = Absent
        <5>1. missing[a][b] = 0 /\ r[a][b] = 0
          BY ONLY <4>1, <4>3, <4>5, <4>7
        <5>2. dates[a][b] = 0
          BY ONLY <4>1, <4>4, <4>5, <4>7
        <5> QED  BY ONLY <4>2, <5>1, <5>2
      <4>8. CASE (key(a) = Absent) # (key(b) = Absent)
        <5>1. missing[a][b] # 0 /\ r[a][b] = missing[a][b]
          BY ONLY <4>1, <4>3, <4>5, <4>8
        <5> QED  BY ONLY <4>2, <5>1
      <4> QED  BY ONLY <4>6, <4>7, <4>8
    <3>2. r = [a \in S |-> [b \in S |-> r[a][b]]] /\ Then(missing, dates, S) = [a \in S |-> [b \in S |-> Then(missing, dates, S)[a][b]]]
      BY DEF By, Then
    <3> HIDE DEF r, missing, dates
    <3> QED  BY <3>1, <3>2
  <2> HIDE DEF missing, dates, r
  <2>4. Orders(r, S)
    BY <2>2, <2>3, ThenOrders
  <2> QED  BY <2>4 DEF r
<1> QED  BY <1>2, <1>3, <1>4, <1>5, <1>6 DEF IsParam

(* ... so do several, one after the other, ...                             *)
Sorting(sp, cs, S) == [a \in S |-> [b \in S |-> CompareOver(0, sp, cs[a], cs[b])]]

LEMMA SortingOrders ==
    ASSUME NEW S, NEW cs, \A i \in S : Comparable(cs[i]),
           NEW sp, IsSeq(sp), \A s \in Elems(sp) : IsParam(s)
    PROVE  Orders(Sorting(sp, cs, S), S)
<1> DEFINE m == Len(sp)
           Runs(h, a, b) ==
              /\ h[0] = 0
              /\ \A k \in 1 .. m : h[k] = CompareStep(h[k - 1], sp[k], cs[a], cs[b])
              /\ CompareOver(0, sp, cs[a], cs[b]) = h[m]
           H(a, b) == CHOOSE h : Runs(h, a, b)
           Upto(k) == [a \in S |-> [b \in S |-> H(a, b)[k]]]
           T == {k \in 0 .. m : Orders(Upto(k), S)}
<1>1. m \in Nat /\ DOMAIN sp = 1 .. m
  BY SeqIs
<1> HIDE DEF m
<1>2. ASSUME NEW a \in S, NEW b \in S PROVE Runs(H(a, b), a, b)
  <2> DEFINE c1 == cs[a]
             c2 == cs[b]
  <2> HIDE DEF c1, c2
  <2>2. \E h : /\ h[0] = 0
               /\ \A k \in 1 .. m : h[k] = CompareStep(h[k - 1], sp[k], c1, c2)
               /\ CompareOver(0, sp, c1, c2) = h[m]
    BY ONLY <1>1, CompareFold
  <2>1. \E h : Runs(h, a, b)
    BY <2>2 DEF c1, c2
  <2> HIDE DEF Runs
  <2> QED  BY <2>1
<1> HIDE DEF H
<1>3. 0 \in T
  <2> DEFINE zero == [i \in S |-> 0]
  <2>1. Orders(Difference(1, zero, S), S)
    <3>1. zero \in [S -> Int]
      OBVIOUS
    <3> HIDE DEF zero
    <3> QED  BY <3>1, DifferenceOrders
  <2>2. \A a, b \in S : Difference(1, zero, S)[a][b] = 0
    BY DEF Difference
  <2>3. Difference(1, zero, S) = [a \in S |-> [b \in S |-> 0]]
    BY DEF Difference
  <2>4. Upto(0) = [a \in S |-> [b \in S |-> 0]]
    BY <1>2
  <2> HIDE DEF Upto
  <2> QED  BY <1>1, <2>1, <2>3, <2>4
<1>4. ASSUME NEW k \in 1 .. m, k - 1 \in T PROVE k \in T
  <2> DEFINE was == Upto(k - 1)
             one == By(sp[k], cs, S)
  <2>1. Orders(was, S)
    BY <1>4
  <2>2. Orders(one, S)
    <3>1. sp[k] \in Elems(sp)
      BY <1>1 DEF Elems
    <3> QED  BY <3>1, ByOrders
  <2>3. Upto(k) = Then(was, one, S)
    <3>1. ASSUME NEW a \in S, NEW b \in S PROVE Upto(k)[a][b] = IF was[a][b] # 0 THEN was[a][b] ELSE one[a][b]
      <4>1. H(a, b)[k] = CompareStep(H(a, b)[k - 1], sp[k], cs[a], cs[b])
        BY <1>2
      <4>2. Upto(k)[a][b] = H(a, b)[k] /\ was[a][b] = H(a, b)[k - 1] /\ one[a][b] = CompareBy(sp[k], cs[a], cs[b])
        BY DEF By
      <4> QED  BY <4>1, <4>2 DEF CompareStep
    <3>2. Upto(k) = [a \in S |-> [b \in S |-> Upto(k)[a][b]]]
      OBVIOUS
    <3> HIDE DEF Upto, was, one
    <3> QED  BY <3>1, <3>2 DEF Then
  <2> HIDE DEF was, one, Upto
  <2>4. Orders(Upto(k), S)
    BY <2>1, <2>2, <2>3, ThenOrders
  <2> QED  BY <1>1, <2>4
<1> HIDE DEF T
<1>5. m \in T
  BY <1>1, <1>3, <1>4, UpTo
<1>6. Upto(m) = Sorting(sp, cs, S)
  <2>1. ASSUME NEW a \in S, NEW b \in S PROVE H(a, b)[m] = CompareOver(0, sp, cs[a], cs[b])
    <3>1. Runs(H(a, b), a, b)
      BY <1>2
    <3>2. ASSUME NEW h, Runs(h, a, b) PROVE h[m] = CompareOver(0, sp, cs[a], cs[b])
      BY <3>2
    <3> HIDE DEF Runs
    <3> QED  BY <3>1, <3>2
  <2> HIDE DEF Runs
  <2> QED  BY <2>1 DEF Sorting
<1> HIDE DEF Upto
<1> QED  BY <1>5, <1>6 DEF T

(* ... and so do the names.                                                *)
Naming(cs, S) == [a \in S |-> [b \in S |-> Strcmp(cs[a].recid, cs[b].recid)]]

LEMMA NamingOrders ==
    ASSUME NEW S, NEW cs, \A i \in S : Comparable(cs[i])
    PROVE  Orders(Naming(cs, S), S)
<1> DEFINE r == Naming(cs, S)
<1>1. \A a \in S : cs[a].recid \in Seq(Int)
  BY DEF Comparable
<1>2. \A a, b \in S : r[a][b] = Strcmp(cs[a].recid, cs[b].recid)
  BY DEF Naming
<1>3. \A a, b \in S : /\ r[a][b] \in Int /\ r[a][b] = 0 - r[b][a]
                      /\ r[a][b] < 0 <=> Under(cs[a].recid, cs[b].recid)
                      /\ r[a][b] = 0 <=> cs[a].recid = cs[b].recid
  BY <1>1, <1>2, StrcmpIs
<1>4. r \in [S -> [S -> Int]]
  <2>1. \A a, b \in S : Strcmp(cs[a].recid, cs[b].recid) \in Int
    BY <1>1, StrcmpIs
  <2> QED  BY <2>1 DEF Naming
<1> HIDE DEF r
<1>5. ASSUME NEW a \in S, NEW b \in S, NEW c \in S, r[a][b] <= 0, r[b][c] <= 0
      PROVE  r[a][c] <= 0
  <2>1. Under(cs[a].recid, cs[b].recid) \/ cs[a].recid = cs[b].recid
    BY <1>3, <1>5
  <2>2. Under(cs[b].recid, cs[c].recid) \/ cs[b].recid = cs[c].recid
    BY <1>3, <1>5
  <2>3. Under(cs[a].recid, cs[c].recid) \/ cs[a].recid = cs[c].recid
    BY <1>1, <2>1, <2>2, UnderOn
  <2> QED  BY <1>3, <2>3
<1> QED  BY <1>3, <1>4, <1>5 DEF Orders, r

(* reclist_cmp, with clusters that have different names: no two are alike. *)
LEMMA CompareOrders ==
    ASSUME NEW S, NEW cs, \A i \in S : Comparable(cs[i]),
           \A i, j \in S : i # j => cs[i].recid # cs[j].recid,
           NEW sp, IsSeq(sp), \A s \in Elems(sp) : IsParam(s)
    PROVE  \A i, j \in S : i # j =>
              /\ Compare(sp, cs[i], cs[j]) # 0
              /\ Compare(sp, cs[i], cs[j]) < 0 <=> Compare(sp, cs[j], cs[i]) > 0
              /\ \A k \in S : Compare(sp, cs[i], cs[j]) < 0 /\ Compare(sp, cs[j], cs[k]) < 0
                                 => Compare(sp, cs[i], cs[k]) < 0
<1> DEFINE r == Sorting(sp, cs, S)
           t == Naming(cs, S)
           u == Then(r, t, S)
<1>1. Orders(u, S)
  <2>1. Orders(r, S) /\ Orders(t, S)
    BY SortingOrders, NamingOrders
  <2> HIDE DEF r, t
  <2> QED  BY <2>1, ThenOrders
<1>2. \A i, j \in S : /\ u[i][j] = Compare(sp, cs[i], cs[j])
                      /\ t[i][j] = Strcmp(cs[i].recid, cs[j].recid)
                      /\ u[i][j] = IF r[i][j] # 0 THEN r[i][j] ELSE t[i][j]
  <2> TAKE i, j \in S
  <2>1. r[i][j] = CompareOver(0, sp, cs[i], cs[j]) /\ t[i][j] = Strcmp(cs[i].recid, cs[j].recid)
    BY DEF Sorting, Naming
  <2>2. u[i][j] = IF r[i][j] # 0 THEN r[i][j] ELSE t[i][j]
    BY DEF Then
  <2>3. Compare(sp, cs[i], cs[j]) = IF CompareOver(0, sp, cs[i], cs[j]) # 0
                                    THEN CompareOver(0, sp, cs[i], cs[j])
                                    ELSE Strcmp(cs[i].recid, cs[j].recid)
    BY DEF Compare, CompareOver
  <2> HIDE DEF r, t, u
  <2> QED  BY <2>1, <2>2, <2>3
<1> HIDE DEF r, t, u
<1>3. \A i, j \in S : u[i][j] \in Int /\ u[i][j] = 0 - u[j][i]
  BY <1>1 DEF Orders
<1>4. \A i, j \in S : i # j => u[i][j] # 0
  <2>1. \A i, j \in S : i # j => t[i][j] # 0
    <3>1. \A i \in S : cs[i].recid \in Seq(Int)
      BY DEF Comparable
    <3> QED  BY <1>2, <3>1, StrcmpIs
  <2> QED  BY <1>2, <2>1
<1>5. ASSUME NEW i \in S, NEW j \in S, NEW k \in S, u[i][j] < 0, u[j][k] < 0
      PROVE  u[i][k] < 0
  <2>1. u[i][k] <= 0
    BY <1>1, <1>3, <1>5 DEF Orders
  <2>2. i # k
    BY <1>3, <1>5
  <2> QED  BY <1>3, <1>4, <2>1, <2>2
<1>6. \A i, j \in S : i # j =>
         /\ u[i][j] # 0 /\ (u[i][j] < 0 <=> u[j][i] > 0)
         /\ \A k \in S : u[i][j] < 0 /\ u[j][k] < 0 => u[i][k] < 0
  BY <1>3, <1>4, <1>5
<1> QED  BY <1>2, <1>6

(* SortTotal: whatever the sort order of the user, the clusters of a list  *)
(* never compare alike, and the comparison is antisymmetric and            *)
(* transitive.  For any scores, positions and values, and clusters that    *)
(* lack a date (reclist_cmp, relevance_prepare_read).                      *)
THEOREM SortTotalAlways == Spec => []SortTotal
<1>1. RecordsInv => SortTotal
  <2> SUFFICES ASSUME RecordsInv PROVE SortTotal
    OBVIOUS
  <2> DEFINE list == [set.list EXCEPT !.sorted = SetToSeq(Live)]
             cs == PrepareRead(list, set.rel).clusters
  <2>1. /\ Good(set.list, set.merged, set.records) /\ AllShown(set.list)
        /\ Rated(set.list, Asked(client), set.rel.df > 0) /\ Live = Lives(set.list)
        /\ Clusters = set.list.clusters
    BY DEF RecordsInv, SetGood, Live, Clusters, Lives
  <2>2. /\ DOMAIN set.list = {"chains", "clusters", "sorted", "num"}
        /\ \A i \in DOMAIN Clusters : ClusterOk(Clusters[i])
        /\ IsSeq(Clusters) /\ Live \subseteq DOMAIN Clusters
    BY <2>1 DEF Good, ListOk, Lives
  <2>3. Elems(list.sorted) = Live
    <3>1. DOMAIN Clusters = 1 .. Len(Clusters) /\ Len(Clusters) \in Nat
      BY <2>2, SeqIs
    <3>2. IsFiniteSet(Live)
      <4>1. \A n \in Nat : IsFiniteSet(1 .. n)
        BY FS_Interval
      <4>2. IsFiniteSet(DOMAIN Clusters)
        BY <3>1, <4>1
      <4> QED  BY <2>2, <4>2, FS_Subset
    <3>3. list.sorted = SetToSeq(Live)
      BY <2>2
    <3> HIDE DEF list
    <3> QED  BY <3>2, <3>3, SetToSeqAll
  <2>4. ASSUME NEW i \in Live
        PROVE  Comparable(cs[i]) /\ cs[i].recid = Clusters[i].recid
    <3> DEFINE c == Clusters[i]
               score == LET sum == IF set.rel.df = 0 THEN 0 ELSE Scale * c.tf
                        IN  IF RankCluster THEN sum ELSE sum \div Len(c.records)
    <3>1. list.clusters = Clusters
      BY <2>2 DEF Clusters
    <3>2. cs[i] = [c EXCEPT !.score = score]
      <4> HIDE DEF list
      <4> QED  BY <2>2, <2>3, <3>1 DEF PrepareRead
    <3>3. ClusterOk(c) /\ ClusterShown(c) /\ c.tf \in Nat
      BY <2>1, <2>2 DEF AllShown, Rated, ClusterRated
    <3>4. score \in Int
      <4> DEFINE len == Len(c.records)
      <4>1. len \in Nat /\ DOMAIN c.records = 1 .. len
        BY <3>3, SeqIs DEF ClusterOk
      <4>2. len # 0
        <5>1. Elems(c.records) # {}
          BY <3>3 DEF ClusterShown
        <5> HIDE DEF c
        <5> QED  BY <4>1, <5>1 DEF Elems
      <4> HIDE DEF len
      <4>3. \A x \in Int : x \div len \in Int
        BY <4>1, <4>2
      <4> DEFINE sum == IF set.rel.df = 0 THEN 0 ELSE Scale * c.tf
      <4>4. sum \in Int
        <5> HIDE DEF c
        <5>1. Scale * c.tf \in Int
          BY <3>3 DEF Scale
        <5> QED  BY <5>1
      <4>5. score = IF RankCluster THEN sum ELSE sum \div len
        BY DEF len
      <4> HIDE DEF sum, score
      <4> QED  BY <4>3, <4>4, <4>5
    <3> HIDE DEF cs, score, c
    <3>5. /\ cs[i].score = score /\ cs[i].retrieval = c.retrieval /\ cs[i].recid = c.recid
          /\ cs[i].sortkey = c.sortkey /\ cs[i].records = c.records
      BY <3>2, <3>3 DEF ClusterOk, ClusterFields
    <3>6. Position(cs[i]) \in Int
      <4> DEFINE ps == {r.pos : r \in Elems(c.records)}
      <4>1. ps \subseteq Nat /\ ps # {}
        BY <3>3 DEF ClusterShown
      <4>2. Position(cs[i]) = Min(ps)
        BY <3>5 DEF Position
      <4> HIDE DEF ps
      <4>3. \E m \in ps : \A p \in ps : m <= p
        BY <4>1, NatMin
      <4>4. Min(ps) \in ps
        BY <4>3 DEF Min
      <4>6. \A p \in ps : p \in Int
        BY <4>1
      <4>5. Min(ps) \in Int
        BY <4>4, <4>6
      <4> QED  BY <4>2, <4>5
    <3>7. /\ c.retrieval \in Nat /\ c.recid \in Seq(Int)
          /\ \A f \in Fields : c.sortkey[f] = Absent \/ IsValue(f, c.sortkey[f])
      BY <3>3 DEF ClusterShown, FieldsShown, SortedBy
    <3> QED  BY <3>4, <3>5, <3>6, <3>7 DEF Comparable, c
  <2>5. ASSUME NEW i \in Live, NEW j \in Live, i # j PROVE cs[i].recid # cs[j].recid
    <3>1. Clusters[i].recid \in KeySet(set.list, i) /\ Clusters[j].recid \in KeySet(set.list, j)
      BY <2>1, <2>2 DEF AllShown, ClusterShown, KeySet
    <3>2. Clusters[i].recid # Clusters[j].recid
      BY <2>1, <2>5, <3>1 DEF Good, Keyed, KeysApart
    <3> QED  BY <2>4, <3>2
  <2> HIDE DEF cs
  <2>6. ASSUME NEW sp \in SortParams
        PROVE  IsSeq(sp) /\ \A s \in Elems(sp) : IsParam(s)
    BY SortsAssumption DEF IsSeq, IsParam
  <2>7. \A sp \in SortParams : \A i, j \in Live : i # j =>
           /\ Compare(sp, cs[i], cs[j]) # 0
           /\ Compare(sp, cs[i], cs[j]) < 0 <=> Compare(sp, cs[j], cs[i]) > 0
           /\ \A k \in Live : Compare(sp, cs[i], cs[j]) < 0 /\ Compare(sp, cs[j], cs[k]) < 0
                                 => Compare(sp, cs[i], cs[k]) < 0
    BY <2>4, <2>5, <2>6, CompareOrders
  <2> QED  BY <2>7 DEF SortTotal, cs
<1> QED  BY <1>1, Safety, PTL
==============================================================================
