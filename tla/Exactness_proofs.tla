-------------------------- MODULE Exactness_proofs --------------------------
(***************************************************************************)
(* Proofs about which records there are, and which facets: whatever the    *)
(* targets, their records, the merge keys and the hash function, and in    *)
(* whatever order searches, answers, failures, sorts, limits and pages     *)
(* follow one another, the clusters have the records of the last search,   *)
(* none lost, foreign or twice, and the facets count just those and what   *)
(* the targets report.                                                     *)
(*                                                                         *)
(* It takes a third walk through reclist_insert (Story), for what an       *)
(* insert does to the records there are: each stays in a cluster with its  *)
(* keys, and the new one joins them unless its client has one like it      *)
(* there already.  What the clients have fetched is kept in step with that *)
(* (StepExact), of all but those that have yet to start in the search that *)
(* is being set up.                                                        *)
(* The facets go along with both: the insert of a record that joins the    *)
(* list adds the places where it has a term (Tallied), which are counted   *)
(* as a set, and whether the list has it already is what Story says.  What *)
(* targets reported is counted apart, by the set of clients that did, of   *)
(* which those that have what they were asked for must be a part (Told).   *)
(***************************************************************************)
EXTENDS Records_proofs

-----------------------------------------------------------------------------
(* Facets                                                                  *)

(* The facets are numbers, for each field and term.                        *)
Tables == [Fields -> [Terms -> Nat]]

(* A number that grows by one at the marks has grown by how many there are.*)
LEMMA CountingLoop ==
    ASSUME NEW n \in Nat, NEW M, M \subseteq 1 .. n, NEW g, g[0] \in Nat,
           \A k \in 1 .. n : g[k] = g[k - 1] + (IF k \in M THEN 1 ELSE 0)
    PROVE  IsFiniteSet(M) /\ Cardinality(M) \in Nat /\ g[n] = g[0] + Cardinality(M)
<1> DEFINE Upto(k) == {j \in M : j <= k}
           T == {k \in 0 .. n : IsFiniteSet(Upto(k)) /\ g[k] = g[0] + Cardinality(Upto(k))}
<1>1. 0 \in T
  <2>1. Upto(0) = {}
    <3>1. \A j \in M : j \in 1 .. n
      OBVIOUS
    <3>2. \A j \in 1 .. n : ~(j <= 0)
      OBVIOUS
    <3> QED  BY ONLY <3>1, <3>2
  <2>2. IsFiniteSet({}) /\ Cardinality({}) = 0
    BY FS_EmptySet
  <2>3. g[0] = g[0] + 0
    OBVIOUS
  <2> HIDE DEF Upto
  <2> QED  BY <2>1, <2>2, <2>3
<1>2. ASSUME NEW k \in 1 .. n, k - 1 \in T PROVE k \in T
  <2>1. Upto(k) = IF k \in M THEN Upto(k - 1) \cup {k} ELSE Upto(k - 1)
    <3>1. \A j \in M : j <= k <=> j <= k - 1 \/ j = k
      OBVIOUS
    <3> QED  BY <3>1
  <2>2. k \notin Upto(k - 1)
    OBVIOUS
  <2>3. IsFiniteSet(Upto(k - 1)) /\ g[k - 1] = g[0] + Cardinality(Upto(k - 1)) /\ k \in 0 .. n
    BY <1>2
  <2> HIDE DEF Upto
  <2>4. Cardinality(Upto(k - 1)) \in Nat
    BY <2>3, FS_CardinalityType
  <2>5. CASE k \in M
    <3>1. IsFiniteSet(Upto(k)) /\ Cardinality(Upto(k)) = Cardinality(Upto(k - 1)) + 1
      <4> DEFINE S == Upto(k - 1)
      <4>1. IsFiniteSet(S) /\ k \notin S /\ Upto(k) = S \cup {k}
        BY <2>1, <2>2, <2>3, <2>5
      <4> HIDE DEF S
      <4>2. IsFiniteSet(S \cup {k}) /\ Cardinality(S \cup {k}) = Cardinality(S) + 1
        BY ONLY <4>1, FS_AddElement
      <4> QED  BY <4>1, <4>2 DEF S
    <3>2. g[k] = g[k - 1] + 1
      BY <2>5
    <3> QED  BY <2>3, <2>4, <3>1, <3>2
  <2>6. CASE k \notin M
    <3>1. g[k] = g[k - 1] + 0
      BY <2>6
    <3> QED  BY <2>1, <2>3, <2>4, <2>6, <3>1
  <2> QED  BY <2>5, <2>6
<1> HIDE DEF T
<1>3. n \in T
  BY <1>1, <1>2, UpTo
<1>4. Upto(n) = M
  <2>1. \A j \in M : j \in 1 .. n
    OBVIOUS
  <2>2. \A j \in 1 .. n : j <= n
    OBVIOUS
  <2> QED  BY ONLY <2>1, <2>2
<1>5. IsFiniteSet(M) /\ g[n] = g[0] + Cardinality(M)
  BY <1>3, <1>4 DEF T
<1> QED  BY <1>5, FS_CardinalityType

(* One term.                                                               *)
LEMMA AddFacetIs ==
    ASSUME NEW s \in Tables, NEW f \in Fields, NEW t
    PROVE  /\ AddFacet(s, f, t) \in Tables
           /\ \A g \in Fields, u \in Terms :
                 AddFacet(s, f, t)[g][u] = s[g][u] + (IF g = f /\ u = t THEN 1 ELSE 0)
<1> DEFINE row == [s[f] EXCEPT ![t] = @ + 1]
           to == AddFacet(s, f, t)
<1>1. s[f] \in [Terms -> Nat] /\ \A g \in Fields : s[g] \in [Terms -> Nat]
  BY DEF Tables
<1>2. row \in [Terms -> Nat] /\ \A u \in Terms : row[u] = s[f][u] + (IF u = t THEN 1 ELSE 0)
  <2> DEFINE old == s[f]
  <2>1. DOMAIN old = Terms /\ \A u \in Terms : old[u] \in Nat
    BY <1>1
  <2>2. row = [u \in DOMAIN old |-> IF u = t THEN old[t] + 1 ELSE old[u]]
    OBVIOUS
  <2> HIDE DEF old, row
  <2>3. row = [u \in Terms |-> IF u = t THEN old[t] + 1 ELSE old[u]]
    BY ONLY <2>1, <2>2
  <2>4. \A u \in Terms : row[u] = IF u = t THEN old[u] + 1 ELSE old[u]
    BY ONLY <2>3
  <2>5. \A u \in Terms : row[u] = old[u] + (IF u = t THEN 1 ELSE 0) /\ row[u] \in Nat
    BY ONLY <2>1, <2>4
  <2>6. row \in [Terms -> Nat]
    BY ONLY <2>3, <2>5
  <2> QED  BY ONLY <2>5, <2>6 DEF old
<1>3. to = [s EXCEPT ![f] = row]
  BY DEF AddFacet
<1> HIDE DEF row, to
<1>4. to \in Tables /\ \A g \in Fields : to[g] = IF g = f THEN row ELSE s[g]
  BY <1>2, <1>3 DEF Tables
<1>5. ASSUME NEW g \in Fields, NEW u \in Terms
      PROVE  to[g][u] = s[g][u] + (IF g = f /\ u = t THEN 1 ELSE 0)
  <2>1. s[g][u] \in Nat
    BY <1>1
  <2> QED  BY <1>2, <1>4, <2>1
<1> QED  BY <1>4, <1>5 DEF to

(* Those of a value, of which a year has one or two.                       *)
LEMMA TermsIs ==
    ASSUME NEW s \in Tables, NEW f \in Fields, NEW v
    PROVE  /\ TermsStep(s, v, f) \in Tables
           /\ \A g \in Fields, u \in Terms :
                 TermsStep(s, v, f)[g][u] =
                    s[g][u] + (IF g = f /\ u \in Elems(FacetTerms(f, v)) THEN 1 ELSE 0)
<1> DEFINE L == FacetTerms(f, v)
           to == TermsOver(s, L, f)
<1>1. TermsStep(s, v, f) = to
  BY DEF TermsStep
<1>2. \/ \E x : L = <<x>>
      \/ \E x, y : L = <<x, y>> /\ x # y
  BY DEF FacetTerms
<1> HIDE DEF L, to
<1>3. CASE \E x : L = <<x>>
  <2>1. PICK x : L = <<x>>
    BY <1>3
  <2>2. 1 \in Nat /\ DOMAIN L = 1 .. 1 /\ L[1] = x /\ Elems(L) = {x}
    BY <2>1 DEF Elems
  <2>3. PICK h : /\ h[0] = s
                 /\ \A k \in 1 .. 1 : h[k] = AddFacet(h[k - 1], f, L[k])
                 /\ TermsOver(s, L, f) = h[1]
    <3>1. ASSUME NEW n \in Nat, DOMAIN L = 1 .. n
          PROVE  \E h : /\ h[0] = s
                        /\ \A k \in 1 .. n : h[k] = AddFacet(h[k - 1], f, L[k])
                        /\ TermsOver(s, L, f) = h[n]
      BY ONLY <3>1, TermFold
    <3> QED  BY ONLY <2>2, <3>1
  <2>4. to = AddFacet(s, f, x)
    <3>1. 1 \in 1 .. 1 /\ 1 - 1 = 0
      OBVIOUS
    <3>2. h[1] = AddFacet(h[1 - 1], f, L[1])
      BY ONLY <2>3, <3>1
    <3> QED  BY <2>2, <2>3, <3>1, <3>2 DEF to
  <2> QED  BY <1>1, <2>2, <2>4, AddFacetIs DEF L
<1>4. CASE \E x, y : L = <<x, y>> /\ x # y
  <2>1. PICK x, y : L = <<x, y>> /\ x # y
    BY <1>4
  <2>2. 2 \in Nat /\ DOMAIN L = 1 .. 2 /\ L[1] = x /\ L[2] = y /\ Elems(L) = {x, y}
    BY <2>1 DEF Elems
  <2>3. PICK h : /\ h[0] = s
                 /\ \A k \in 1 .. 2 : h[k] = AddFacet(h[k - 1], f, L[k])
                 /\ TermsOver(s, L, f) = h[2]
    <3>1. ASSUME NEW n \in Nat, DOMAIN L = 1 .. n
          PROVE  \E h : /\ h[0] = s
                        /\ \A k \in 1 .. n : h[k] = AddFacet(h[k - 1], f, L[k])
                        /\ TermsOver(s, L, f) = h[n]
      BY ONLY <3>1, TermFold
    <3> QED  BY ONLY <2>2, <3>1
  <2> DEFINE one == AddFacet(s, f, x)
  <2>4. to = AddFacet(one, f, y)
    <3>1. 1 \in 1 .. 2 /\ 1 - 1 = 0 /\ 2 \in 1 .. 2 /\ 2 - 1 = 1
      OBVIOUS
    <3>2. h[1] = AddFacet(h[1 - 1], f, L[1]) /\ h[2] = AddFacet(h[2 - 1], f, L[2])
      BY ONLY <2>3, <3>1
    <3> QED  BY <2>2, <2>3, <3>1, <3>2 DEF to
  <2>5. one \in Tables /\ \A g \in Fields, u \in Terms :
                             one[g][u] = s[g][u] + (IF g = f /\ u = x THEN 1 ELSE 0)
    BY AddFacetIs
  <2> HIDE DEF one
  <2>6. to \in Tables /\ \A g \in Fields, u \in Terms :
                            to[g][u] = one[g][u] + (IF g = f /\ u = y THEN 1 ELSE 0)
    BY <2>4, <2>5, AddFacetIs
  <2>7. ASSUME NEW g \in Fields, NEW u \in Terms
        PROVE  to[g][u] = s[g][u] + (IF g = f /\ u \in Elems(L) THEN 1 ELSE 0)
    <3>1. s[g][u] \in Nat
      BY DEF Tables
    <3> QED  BY <2>1, <2>2, <2>5, <2>6, <3>1
  <2> QED  BY <1>1, <2>6, <2>7 DEF L
<1> QED  BY <1>2, <1>3, <1>4

(* Those of the values of a field.                                         *)
LEMMA FacetsIs ==
    ASSUME NEW s \in Tables, NEW f \in Fields, NEW values, IsSeq(values)
    PROVE  LET Marked(u) == {n \in DOMAIN values : u \in Elems(FacetTerms(f, values[n]))}
               to == FacetsOver(s, values, f)
           IN  /\ to \in Tables
               /\ \A g \in Fields, u \in Terms :
                     /\ IsFiniteSet(Marked(u)) /\ Cardinality(Marked(u)) \in Nat
                     /\ to[g][u] = s[g][u] + (IF g = f THEN Cardinality(Marked(u)) ELSE 0)
<1> DEFINE Marked(u) == {n \in DOMAIN values : u \in Elems(FacetTerms(f, values[n]))}
           to == FacetsOver(s, values, f)
           m == Len(values)
<1>1. m \in Nat /\ DOMAIN values = 1 .. m
  BY SeqIs
<1> HIDE DEF m
<1>2. PICK h : /\ h[0] = s
               /\ \A k \in 1 .. m : h[k] = TermsStep(h[k - 1], values[k], f)
               /\ FacetsOver(s, values, f) = h[m]
  BY ONLY <1>1, TermsFold
<1> HIDE DEF to
<1> DEFINE T == {k \in 0 .. m : h[k] \in Tables}
<1>3. \A k \in 0 .. m : h[k] \in Tables
  <2>1. 0 \in T
    BY <1>1, <1>2
  <2>2. ASSUME NEW k \in 1 .. m, k - 1 \in T PROVE k \in T
    <3>1. h[k] = TermsStep(h[k - 1], values[k], f) /\ h[k - 1] \in Tables /\ k \in 0 .. m
      BY <1>2, <2>2
    <3> QED  BY <3>1, TermsIs
  <2> HIDE DEF T
  <2>3. \A k \in 0 .. m : k \in T
    BY <1>1, <2>1, <2>2, UpTo
  <2> QED  BY <2>3 DEF T
<1>4. ASSUME NEW g \in Fields, NEW u \in Terms
      PROVE  /\ IsFiniteSet(Marked(u)) /\ Cardinality(Marked(u)) \in Nat
             /\ h[m][g][u] = s[g][u] + (IF g = f THEN Cardinality(Marked(u)) ELSE 0)
  <2> DEFINE M == Marked(u)
  <2>1. M \subseteq 1 .. m
    BY <1>1
  <2>2. \A k \in 1 .. m : u \in Elems(FacetTerms(f, values[k])) <=> k \in M
    BY <1>1
  <2> HIDE DEF M
  <2>3. IsFiniteSet(M) /\ Cardinality(M) \in Nat
    <3>1. IsFiniteSet(1 .. m)
      BY <1>1, FS_Interval
    <3> QED  BY <2>1, <3>1, FS_Subset, FS_CardinalityType
  <2>4. \A k \in 1 .. m : k \in 0 .. m /\ k - 1 \in 0 .. m
    BY <1>1
  <2>5. \A k \in 1 .. m :
           h[k][g][u] = h[k - 1][g][u] + (IF g = f /\ k \in M THEN 1 ELSE 0)
    <3> TAKE k \in 1 .. m
    <3>1. h[k] = TermsStep(h[k - 1], values[k], f) /\ h[k - 1] \in Tables
      BY <1>2, <1>3, <2>4
    <3>2. h[k][g][u] = h[k - 1][g][u]
             + (IF g = f /\ u \in Elems(FacetTerms(f, values[k])) THEN 1 ELSE 0)
      BY <3>1, TermsIs
    <3> QED  BY <2>2, <3>2
  <2>6. \A k \in 0 .. m : h[k][g][u] \in Nat
    BY <1>3 DEF Tables
  <2>7. CASE g = f
    <3> DEFINE r == [k \in 0 .. m |-> h[k][g][u]]
    <3>1. r[0] \in Nat /\ r[0] = s[g][u] /\ r[m] = h[m][g][u]
      BY <1>1, <1>2, <2>6
    <3>2. \A k \in 1 .. m : r[k] = r[k - 1] + (IF k \in M THEN 1 ELSE 0)
      BY <2>4, <2>5, <2>7
    <3> HIDE DEF r
    <3>3. r[m] = r[0] + Cardinality(M)
      BY <1>1, <2>1, <3>1, <3>2, CountingLoop
    <3> QED  BY <2>3, <2>7, <3>1, <3>3 DEF M
  <2>8. CASE g # f
    <3> DEFINE V == {k \in 0 .. m : h[k][g][u] = s[g][u]}
    <3>1. 0 \in V
      BY <1>1, <1>2
    <3>2. \A k \in 1 .. m : k - 1 \in V => k \in V
      BY <2>4, <2>5, <2>6, <2>8
    <3> HIDE DEF V
    <3>3. m \in V
      BY <1>1, <3>1, <3>2, UpTo
    <3>4. h[m][g][u] = s[g][u] /\ s[g][u] \in Nat
      BY <1>1, <1>2, <2>6, <3>3 DEF V
    <3> QED  BY <2>3, <2>8, <3>4 DEF M
  <2> QED  BY <2>7, <2>8
<1>5. h[m] \in Tables
  BY <1>1, <1>3
<1> QED  BY <1>2, <1>4, <1>5

(* Where a term is in a field of a record, and whether it is counted there.*)
Marks(f, t, md) == {n \in DOMAIN md[f] : t \in Elems(FacetTerms(f, md[f][n]))}
Counts(f, c) == Service[f].termlist /\ f \notin FacetMap[c]

(* add_facet for a record: each field once.                                *)
LEMMA AddFacetsIs ==
    ASSUME NEW s \in Tables, NEW c, NEW sub, ValuesFine(sub)
    PROVE  /\ AddFacets(s, c, sub) \in Tables
           /\ \A g \in Fields, u \in Terms :
                 /\ IsFiniteSet(Marks(g, u, sub.md)) /\ Cardinality(Marks(g, u, sub.md)) \in Nat
                 /\ AddFacets(s, c, sub)[g][u] =
                       s[g][u] + (IF Counts(g, c) THEN Cardinality(Marks(g, u, sub.md)) ELSE 0)
<1> DEFINE m == Len(FieldOrder)
           to == AddFacets(s, c, sub)
           W(g, u) == IF Counts(g, c) THEN Cardinality(Marks(g, u, sub.md)) ELSE 0
<1>1. /\ m \in Nat /\ DOMAIN FieldOrder = 1 .. m /\ \A k \in 1 .. m : FieldOrder[k] \in Fields
      /\ \A g \in Fields : \E k \in 1 .. m : g = FieldOrder[k]
      /\ \A j, k \in 1 .. m : FieldOrder[j] = FieldOrder[k] => j = k
  <2>1. /\ IsSeq(FieldOrder) /\ Elems(FieldOrder) = Fields
        /\ \A j, k \in DOMAIN FieldOrder : FieldOrder[j] = FieldOrder[k] => j = k
    BY FieldsAssumption, SeqOver
  <2> QED  BY <2>1, SeqIs
<1>2. to = FacetOver(s, FieldOrder, c, sub)
  BY DEF AddFacets, FacetOver
<1> HIDE DEF m, to
<1>3. PICK h : /\ h[0] = s
               /\ \A k \in 1 .. m : h[k] = FacetStep(h[k - 1], FieldOrder[k], c, sub)
               /\ to = h[m]
  <2>1. m \in Nat /\ DOMAIN FieldOrder = 1 .. m
    BY <1>1
  <2>2. ASSUME NEW L, DOMAIN L = 1 .. m
        PROVE  \E h : /\ h[0] = s
                      /\ \A k \in 1 .. m : h[k] = FacetStep(h[k - 1], L[k], c, sub)
                      /\ FacetOver(s, L, c, sub) = h[m]
    BY ONLY <2>1, <2>2, FacetFold
  <2> QED  BY ONLY <1>2, <2>1, <2>2
<1>4. ASSUME NEW x \in Tables, NEW f \in Fields
      PROVE  /\ FacetStep(x, f, c, sub) \in Tables
             /\ \A g \in Fields, u \in Terms :
                   FacetStep(x, f, c, sub)[g][u] = x[g][u] + (IF g = f THEN W(g, u) ELSE 0)
  <2>1. IsSeq(sub.md[f])
    BY SeqOver DEF ValuesFine
  <2> DEFINE values == sub.md[f]
             Marked(u) == {n \in DOMAIN values : u \in Elems(FacetTerms(f, values[n]))}
             out == FacetsOver(x, values, f)
  <2>2. /\ out \in Tables
        /\ \A g \in Fields, u \in Terms : out[g][u] = x[g][u] + (IF g = f THEN Cardinality(Marked(u)) ELSE 0)
    <3> HIDE DEF values
    <3>1. IsSeq(values)
      BY <2>1 DEF values
    <3> QED  BY ONLY x \in Tables, f \in Fields, <3>1, FacetsIs
  <2>3. \A u : Marked(u) = Marks(f, u, sub.md)
    BY DEF Marks
  <2>4. FacetStep(x, f, c, sub) = IF Counts(f, c) THEN out ELSE x
    BY DEF FacetStep, Counts
  <2>5. \A g \in Fields, u \in Terms : x[g][u] \in Nat
    BY DEF Tables
  <2> HIDE DEF Marked, out
  <2>6. CASE Counts(f, c)
    BY <2>2, <2>3, <2>4, <2>5, <2>6
  <2>7. CASE ~ Counts(f, c)
    BY <2>4, <2>5, <2>7
  <2> QED  BY <2>6, <2>7
<1>5. \A g \in Fields, u \in Terms : IsFiniteSet(Marks(g, u, sub.md)) /\ Cardinality(Marks(g, u, sub.md)) \in Nat
  <2> TAKE g \in Fields, u \in Terms
  <2>1. IsFiniteSet(DOMAIN sub.md[g])
    BY FiniteValues
  <2>2. Marks(g, u, sub.md) \subseteq DOMAIN sub.md[g]
    BY DEF Marks
  <2> QED  BY <2>1, <2>2, FS_Subset, FS_CardinalityType
<1>6. \A g \in Fields, u \in Terms : W(g, u) \in Nat
  BY <1>5
<1> HIDE DEF W
<1> DEFINE Fine(x, k) ==
              /\ x \in Tables
              /\ \A g \in Fields, u \in Terms :
                    x[g][u] = s[g][u] + (IF \E j \in 1 .. k : g = FieldOrder[j] THEN W(g, u) ELSE 0)
           T == {k \in 0 .. m : Fine(h[k], k)}
<1>7. 0 \in T
  <2>1. \A g \in Fields, u \in Terms : s[g][u] \in Nat
    BY DEF Tables
  <2>2. Fine(s, 0)
    BY <2>1
  <2> HIDE DEF Fine
  <2> QED  BY <1>1, <1>3, <2>2
<1>8. ASSUME NEW k \in 1 .. m, k - 1 \in T PROVE k \in T
  <2> DEFINE x == h[k - 1]
             f == FieldOrder[k]
             next == FacetStep(x, f, c, sub)
  <2>1. Fine(x, k - 1) /\ k \in 0 .. m /\ f \in Fields /\ h[k] = next
    BY <1>1, <1>3, <1>8
  <2>2. \A j \in 1 .. k - 1 : FieldOrder[j] # f
    <3>1. \A j \in 1 .. k - 1 : j \in 1 .. m /\ j # k
      BY <1>1
    <3> QED  BY <1>1, <3>1
  <2>3. \A j : j \in 1 .. k <=> j \in 1 .. k - 1 \/ j = k
    BY <1>1
  <2>4. \A g : (\E j \in 1 .. k : g = FieldOrder[j]) <=> g = f \/ \E j \in 1 .. k - 1 : g = FieldOrder[j]
    BY <2>3
  <2> HIDE DEF x, f
  <2>5. /\ next \in Tables
        /\ \A g \in Fields, u \in Terms : next[g][u] = x[g][u] + (IF g = f THEN W(g, u) ELSE 0)
    BY <1>4, <2>1
  <2> HIDE DEF next
  <2>6. ASSUME NEW g \in Fields, NEW u \in Terms
        PROVE  next[g][u] = s[g][u] + (IF \E j \in 1 .. k : g = FieldOrder[j] THEN W(g, u) ELSE 0)
    <3>1. s[g][u] \in Nat /\ W(g, u) \in Nat
      BY <1>6 DEF Tables
    <3>2. x[g][u] = s[g][u] + (IF \E j \in 1 .. k - 1 : g = FieldOrder[j] THEN W(g, u) ELSE 0)
      BY <2>1
    <3>3. next[g][u] = x[g][u] + (IF g = f THEN W(g, u) ELSE 0)
      BY <2>5
    <3>4. g = f => ~ \E j \in 1 .. k - 1 : g = FieldOrder[j]
      BY <2>2
    <3>5. (\E j \in 1 .. k : g = FieldOrder[j]) <=> g = f \/ \E j \in 1 .. k - 1 : g = FieldOrder[j]
      BY <2>4
    <3> QED  BY ONLY <3>1, <3>2, <3>3, <3>4, <3>5
  <2>7. Fine(next, k)
    BY <2>5, <2>6
  <2> HIDE DEF Fine
  <2> QED  BY <2>1, <2>7
<1> HIDE DEF T
<1>9. Fine(to, m)
  <2>1. m \in T
    BY <1>1, <1>7, <1>8, UpTo
  <2> QED  BY <1>3, <2>1 DEF T
<1>10. \A g \in Fields, u \in Terms : to[g][u] = s[g][u] + W(g, u)
  BY <1>1, <1>9
<1> QED  BY <1>5, <1>9, <1>10 DEF to, W

(* Where a term is among what a target reports for a query.                *)
ReportMarks(c, q, f, t) == {k \in DOMAIN Reported[c][q] : Reported[c][q][k] = <<f, t>>}

(* client_report_facets.                                                   *)
LEMMA ReportFacetsIs ==
    ASSUME NEW s, "facets" \in DOMAIN s, s.facets \in Tables, NEW c \in Clients, NEW q \in Queries
    PROVE  LET facets == ReportFacets(s, c, q).facets
           IN  /\ ReportFacets(s, c, q) = [s EXCEPT !.facets = facets]
               /\ facets \in Tables
               /\ \A g \in Fields, u \in Terms :
                     /\ IsFiniteSet(ReportMarks(c, q, g, u))
                     /\ Cardinality(ReportMarks(c, q, g, u)) \in Nat
                     /\ facets[g][u] = s.facets[g][u]
                           + (IF g \in FacetMap[c] THEN Cardinality(ReportMarks(c, q, g, u)) ELSE 0)
<1> DEFINE L == Reported[c][q]
           m == Len(L)
           out == ReportOver(s.facets, L, c)
           to == ReportFacets(s, c, q)
<1>1. L \in Seq(Fields \X Terms)
  BY DocumentsAssumption
<1>2. m \in Nat /\ DOMAIN L = 1 .. m /\ \A k \in 1 .. m : L[k] \in Fields \X Terms
  <2> HIDE DEF L
  <2>1. IsSeq(L) /\ Elems(L) \subseteq Fields \X Terms
    BY <1>1, SeqOver
  <2> QED  BY <2>1, SeqIs
<1>3. to = [s EXCEPT !.facets = out]
  BY DEF ReportFacets, ReportOver
<1>4. to = [s EXCEPT !.facets = to.facets] /\ to.facets = out
  BY <1>3
<1>5. \A u, g : ReportMarks(c, q, g, u) = {k \in DOMAIN L : L[k] = <<g, u>>}
  BY DEF ReportMarks
<1> HIDE DEF L, m, to
<1>6. PICK h : /\ h[0] = s.facets
               /\ \A k \in 1 .. m : h[k] = ReportStep(h[k - 1], L[k], c)
               /\ ReportOver(s.facets, L, c) = h[m]
  <2>1. m \in Nat /\ DOMAIN L = 1 .. m
    BY ONLY <1>2
  <2>2. ASSUME NEW base
        PROVE  \E h : /\ h[0] = base
                      /\ \A k \in 1 .. m : h[k] = ReportStep(h[k - 1], L[k], c)
                      /\ ReportOver(base, L, c) = h[m]
    BY ONLY <2>1, ReportFold
  <2> QED  BY ONLY <2>2
<1> HIDE DEF out
<1>7. ASSUME NEW x \in Tables, NEW k \in 1 .. m
      PROVE  /\ ReportStep(x, L[k], c) \in Tables
             /\ \A g \in Fields, u \in Terms :
                   ReportStep(x, L[k], c)[g][u]
                      = x[g][u] + (IF g \in FacetMap[c] /\ L[k] = <<g, u>> THEN 1 ELSE 0)
  <2> DEFINE f == L[k][1]
             t == L[k][2]
             add == AddFacet(x, f, t)
  <2>1. f \in Fields /\ L[k] = <<f, t>>
    BY <1>2
  <2>2. ReportStep(x, L[k], c) = IF f \in FacetMap[c] THEN add ELSE x
    BY DEF ReportStep
  <2>3. \A g, u : L[k] = <<g, u>> <=> g = f /\ u = t
    BY <2>1
  <2> HIDE DEF f, t
  <2>4. /\ add \in Tables
        /\ \A g \in Fields, u \in Terms : add[g][u] = x[g][u] + (IF g = f /\ u = t THEN 1 ELSE 0)
    BY <2>1, AddFacetIs
  <2>5. \A g \in Fields, u \in Terms : x[g][u] \in Nat
    BY DEF Tables
  <2> HIDE DEF add
  <2>6. CASE f \in FacetMap[c]
    BY <2>2, <2>3, <2>4, <2>5, <2>6
  <2>7. CASE f \notin FacetMap[c]
    BY <2>2, <2>3, <2>5, <2>7
  <2> QED  BY <2>6, <2>7
<1> DEFINE T == {k \in 0 .. m : h[k] \in Tables}
<1>8. \A k \in 0 .. m : h[k] \in Tables
  <2>1. 0 \in T
    BY <1>2, <1>6
  <2>2. ASSUME NEW k \in 1 .. m, k - 1 \in T PROVE k \in T
    <3>1. h[k] = ReportStep(h[k - 1], L[k], c) /\ h[k - 1] \in Tables /\ k \in 0 .. m
      BY <1>6, <2>2
    <3> QED  BY <1>7, <3>1
  <2> HIDE DEF T
  <2>3. \A k \in 0 .. m : k \in T
    BY <1>2, <2>1, <2>2, UpTo
  <2> QED  BY <2>3 DEF T
<1>9. ASSUME NEW g \in Fields, NEW u \in Terms
      PROVE  /\ IsFiniteSet(ReportMarks(c, q, g, u)) /\ Cardinality(ReportMarks(c, q, g, u)) \in Nat
             /\ out[g][u] = s.facets[g][u]
                   + (IF g \in FacetMap[c] THEN Cardinality(ReportMarks(c, q, g, u)) ELSE 0)
  <2> DEFINE N == ReportMarks(c, q, g, u)
             M == IF g \in FacetMap[c] THEN N ELSE {}
             r == [k \in 0 .. m |-> h[k][g][u]]
  <2>1. N = {k \in 1 .. m : L[k] = <<g, u>>}
    BY <1>2, <1>5
  <2> HIDE DEF N
  <2>2. IsFiniteSet(N) /\ Cardinality(N) \in Nat
    <3>1. IsFiniteSet(1 .. m) /\ N \subseteq 1 .. m
      BY <1>2, <2>1, FS_Interval
    <3> QED  BY <3>1, FS_Subset, FS_CardinalityType
  <2>3. M \subseteq 1 .. m /\ \A k \in 1 .. m : k \in M <=> g \in FacetMap[c] /\ L[k] = <<g, u>>
    BY <2>1
  <2>4. r[0] = s.facets[g][u] /\ r[0] \in Nat /\ r[m] = out[g][u]
    BY <1>2, <1>6, <1>8 DEF Tables, out
  <2>5. \A k \in 1 .. m : r[k] = r[k - 1] + (IF k \in M THEN 1 ELSE 0)
    <3> TAKE k \in 1 .. m
    <3>1. k \in 0 .. m /\ k - 1 \in 0 .. m
      BY <1>2
    <3>2. h[k] = ReportStep(h[k - 1], L[k], c) /\ h[k - 1] \in Tables
      BY <1>6, <1>8, <3>1
    <3>3. h[k][g][u] = h[k - 1][g][u] + (IF g \in FacetMap[c] /\ L[k] = <<g, u>> THEN 1 ELSE 0)
      BY <1>7, <3>2
    <3> HIDE DEF M
    <3> QED  BY <2>3, <3>1, <3>3
  <2> HIDE DEF r
  <2>6. r[m] = r[0] + Cardinality(M)
    <3> HIDE DEF M
    <3> QED  BY <1>2, <2>3, <2>4, <2>5, CountingLoop
  <2>7. Cardinality(M) = IF g \in FacetMap[c] THEN Cardinality(N) ELSE 0
    BY FS_EmptySet
  <2> HIDE DEF M
  <2> QED  BY <2>2, <2>4, <2>6, <2>7 DEF N
<1>10. out \in Tables
  BY <1>2, <1>6, <1>8 DEF out
<1> QED  BY <1>4, <1>9, <1>10 DEF to
-----------------------------------------------------------------------------
(* The records of the clusters that are alive.                             *)
Recs(list, i) == Elems(list.clusters[i].records)
Held(list, r) == \E i \in Lives(list) : r \in Recs(list, i)

(* None of them is there twice.                                            *)
Once(list) ==
    \A i, k \in Lives(list) :
        \A m \in DOMAIN list.clusters[i].records, n \in DOMAIN list.clusters[k].records :
            list.clusters[i].records[m] = list.clusters[k].records[n] => i = k /\ m = n

(* The same client brought the same record before, to a cluster with the   *)
(* key.                                                                    *)
Again(list, rec, key) ==
    \E i \in Lives(list) :
        key \in KeySet(list, i)
        /\ \E r \in Recs(list, i) : r.client = rec.client /\ SameMetadata(rec, r)

(* What was together in a cluster still is.                                *)
Follows(list, to) ==
    \A i \in Lives(list) : \E k \in Lives(to) :
        Recs(list, i) \subseteq Recs(to, k) /\ KeySet(list, i) \subseteq KeySet(to, k)

(* The record is in cluster c, and otherwise there is what there was.      *)
Carried(list, to, rec, c) ==
    /\ ~ Held(list, rec) /\ c \in Lives(to) /\ rec \in Recs(to, c)
    /\ Follows(list, to) /\ Once(to)
    /\ \A i \in Lives(to) : \A r \in Recs(to, i) : r = rec \/ Held(list, r)

(* A record is in one cluster.                                             *)
LEMMA OneHolds ==
    ASSUME NEW list, Once(list), NEW i \in Lives(list), NEW k \in Lives(list),
           NEW r, r \in Recs(list, i), r \in Recs(list, k)
    PROVE  i = k
<1>1. PICK m \in DOMAIN list.clusters[i].records : r = list.clusters[i].records[m]
  BY DEF Recs, Elems
<1>2. PICK n \in DOMAIN list.clusters[k].records : r = list.clusters[k].records[n]
  BY DEF Recs, Elems
<1> QED  BY <1>1, <1>2 DEF Once

(* One list after the other.                                               *)
LEMMA FollowsOn ==
    ASSUME NEW list, NEW via, NEW to, Follows(list, via), Follows(via, to)
    PROVE  Follows(list, to)
<1> SUFFICES ASSUME NEW i \in Lives(list)
             PROVE  \E k \in Lives(to) : /\ Recs(list, i) \subseteq Recs(to, k)
                                         /\ KeySet(list, i) \subseteq KeySet(to, k)
  BY DEF Follows
<1>1. PICK j \in Lives(via) : /\ Recs(list, i) \subseteq Recs(via, j)
                              /\ KeySet(list, i) \subseteq KeySet(via, j)
  BY DEF Follows
<1>2. PICK k \in Lives(to) : /\ Recs(via, j) \subseteq Recs(to, k)
                             /\ KeySet(via, j) \subseteq KeySet(to, k)
  BY DEF Follows
<1> QED  BY <1>1, <1>2

(* Whatever does not change what is alive, records and keys.               *)
LEMMA SameCarried ==
    ASSUME NEW list, NEW via, NEW rec, NEW c, Carried(list, via, rec, c), NEW to,
           Lives(to) = Lives(via),
           \A i \in Lives(via) : /\ to.clusters[i].records = via.clusters[i].records
                                 /\ KeySet(to, i) = KeySet(via, i)
    PROVE  Carried(list, to, rec, c)
<1>1. \A i \in Lives(via) : Recs(to, i) = Recs(via, i)
  BY DEF Recs
<1>2. Once(to)
  BY DEF Carried, Once
<1>3. Follows(list, to)
  BY <1>1 DEF Carried, Follows
<1> QED  BY <1>1, <1>2, <1>3 DEF Carried

(* A cluster and the one that is merged into it hold what both held.       *)
LEMMA MergeCarried ==
    ASSUME NEW st, StateOk(st), NEW src \in Lives(st.list), st.cluster \in Lives(st.list),
           src # st.cluster, NEW base, NEW rec, Carried(base, st.list, rec, st.cluster)
    PROVE  LET to == MergeCluster(st, src)
           IN  /\ Carried(base, to.list, rec, st.cluster)
               /\ KeySet(st.list, st.cluster) \subseteq KeySet(to.list, st.cluster)
<1> DEFINE to == MergeCluster(st, src)
           dst == st.cluster
           list == st.list
           cs == list.clusters
           cs2 == to.list.clusters
<1>1. /\ src \in DOMAIN cs /\ dst \in DOMAIN cs /\ cs[dst].live
      /\ ListOk(list) /\ \A i \in Lives(list) : i \in DOMAIN cs /\ cs[i].live
  BY DEF Lives, StateOk
<1>2. /\ DOMAIN cs2 = DOMAIN cs
      /\ \A i \in DOMAIN cs :
            /\ cs2[i].live = (i # src /\ cs[i].live)
            /\ KeySet(to.list, i) = IF i = dst THEN KeySet(list, dst) \cup KeySet(list, src)
                                    ELSE KeySet(list, i)
            /\ cs2[i].records = IF i = dst THEN cs[dst].records \o cs[src].records
                                ELSE cs[i].records
  <2>2. StateOk(st) /\ src \in DOMAIN st.list.clusters /\ st.cluster \in DOMAIN st.list.clusters
        /\ src # st.cluster
    BY <1>1
  <2>3. \A i \in DOMAIN cs : cs2[i].live = (i # src /\ cs[i].live)
    BY ONLY <2>2, MergeIs
  <2>4. \A i \in DOMAIN cs :
           KeySet(to.list, i) = IF i = dst THEN KeySet(list, dst) \cup KeySet(list, src)
                                ELSE KeySet(list, i)
    BY ONLY <2>2, MergeIs
  <2>5. \A i \in DOMAIN cs :
           cs2[i].records = IF i = dst THEN cs[dst].records \o cs[src].records
                            ELSE cs[i].records
    BY ONLY <2>2, MergeIs
  <2>1. DOMAIN cs2 = DOMAIN cs
    BY ONLY <2>2, MergeIs
  <2> QED  BY <2>1, <2>3, <2>4, <2>5
<1> DEFINE s == cs[dst].records
           t == cs[src].records
<1>3. IsSeq(s) /\ IsSeq(t)
  BY <1>1 DEF ListOk, ClusterOk
<1> HIDE DEF to
<1>4. /\ Lives(to.list) = Lives(list) \ {src}
      /\ \A i \in Lives(to.list) : i # src /\ i \in Lives(list)
      /\ cs2[dst].records = s \o t
      /\ \A i \in Lives(to.list) : i # dst => cs2[i].records = cs[i].records
  BY <1>1, <1>2 DEF Lives
<1>5. ASSUME NEW a, IsSeq(a), NEW b, IsSeq(b)
      PROVE  /\ Elems(a \o b) = Elems(a) \cup Elems(b)
             /\ \A m \in DOMAIN (a \o b) :
                   \/ m \in DOMAIN a /\ (a \o b)[m] = a[m]
                   \/ m - Len(a) \in DOMAIN b /\ (a \o b)[m] = b[m - Len(a)] /\ m = Len(a) + (m - Len(a))
  <2> DEFINE S == Elems(a) \cup Elems(b)
             u == a \o b
  <2>1. IsSeq(u) /\ Len(u) = Len(a) + Len(b) /\ Elems(u) = Elems(a) \cup Elems(b)
    BY <1>5, SeqConcat
  <2>2. /\ Len(a) \in Nat /\ Len(b) \in Nat /\ DOMAIN a = 1 .. Len(a) /\ DOMAIN b = 1 .. Len(b)
        /\ DOMAIN u = 1 .. Len(u)
    BY <1>5, <2>1, SeqIs
  <2>3. a \in Seq(S) /\ b \in Seq(S)
    <3>1. Elems(a) \subseteq S /\ Elems(b) \subseteq S
      OBVIOUS
    <3> QED  BY <1>5, <3>1, SeqMonotonic DEF IsSeq
  <2> HIDE DEF S
  <2>4. \A m \in 1 .. Len(a) + Len(b) : u[m] = IF m <= Len(a) THEN a[m] ELSE b[m - Len(a)]
    BY <2>3, ConcatProperties
  <2> HIDE DEF u
  <2>5. ASSUME NEW m \in DOMAIN u
        PROVE  \/ m \in DOMAIN a /\ u[m] = a[m]
               \/ m - Len(a) \in DOMAIN b /\ u[m] = b[m - Len(a)] /\ m = Len(a) + (m - Len(a))
    BY <2>1, <2>2, <2>4
  <2> QED  BY <2>1, <2>5 DEF u
<1>6. /\ Recs(to.list, dst) = Recs(list, dst) \cup Recs(list, src)
      /\ \A i \in Lives(to.list) : i # dst => Recs(to.list, i) = Recs(list, i)
  <2>1. Recs(to.list, dst) = Elems(s \o t)
    BY <1>4 DEF Recs
  <2>2. Elems(s \o t) = Elems(s) \cup Elems(t)
    <3> HIDE DEF s, t
    <3> QED  BY <1>3, <1>5
  <2>3. Recs(list, dst) = Elems(s) /\ Recs(list, src) = Elems(t)
    BY DEF Recs
  <2>4. \A i \in Lives(to.list) : i # dst => Recs(to.list, i) = Recs(list, i)
    BY <1>4 DEF Recs
  <2> QED  BY <2>1, <2>2, <2>3, <2>4
<1> DEFINE Goes(p) == IF p = src THEN dst ELSE p
           Off(p, q) == IF p = src THEN Len(s) + q ELSE q
<1>7. ASSUME NEW i \in Lives(to.list), NEW m \in DOMAIN cs2[i].records
      PROVE  \E p \in Lives(list) : \E q \in DOMAIN cs[p].records :
                cs2[i].records[m] = cs[p].records[q] /\ i = Goes(p) /\ m = Off(p, q)
  <2>1. CASE i = dst
    <3>1. \/ m \in DOMAIN s /\ (s \o t)[m] = s[m]
          \/ m - Len(s) \in DOMAIN t /\ (s \o t)[m] = t[m - Len(s)] /\ m = Len(s) + (m - Len(s))
      <4> HIDE DEF s, t
      <4>1. m \in DOMAIN (s \o t)
        BY <1>4, <1>7, <2>1
      <4> QED  BY <1>3, <1>5, <4>1
    <3> QED  BY <1>4, <2>1, <3>1
  <2>2. CASE i # dst
    BY <1>4, <1>7, <2>2
  <2> QED  BY <2>1, <2>2
<1>8. Once(to.list)
  <2> SUFFICES ASSUME NEW i \in Lives(to.list), NEW k \in Lives(to.list),
                      NEW m \in DOMAIN cs2[i].records, NEW n \in DOMAIN cs2[k].records,
                      cs2[i].records[m] = cs2[k].records[n]
               PROVE  i = k /\ m = n
    BY DEF Once
  <2>1. PICK p \in Lives(list) : \E q \in DOMAIN cs[p].records :
           cs2[i].records[m] = cs[p].records[q] /\ i = Goes(p) /\ m = Off(p, q)
    BY <1>7
  <2>2. PICK q \in DOMAIN cs[p].records :
           cs2[i].records[m] = cs[p].records[q] /\ i = Goes(p) /\ m = Off(p, q)
    BY <2>1
  <2>3. PICK x \in Lives(list) : \E y \in DOMAIN cs[x].records :
           cs2[k].records[n] = cs[x].records[y] /\ k = Goes(x) /\ n = Off(x, y)
    BY <1>7
  <2>4. PICK y \in DOMAIN cs[x].records :
           cs2[k].records[n] = cs[x].records[y] /\ k = Goes(x) /\ n = Off(x, y)
    BY <2>3
  <2>5. Once(list)
    BY DEF Carried
  <2>6. cs[p].records[q] = cs[x].records[y]
    BY <2>2, <2>4
  <2>7. p = x /\ q = y
    BY <2>5, <2>6 DEF Once
  <2> QED  BY <2>2, <2>4, <2>7
<1>9. Follows(list, to.list)
  <2>1. ASSUME NEW i \in Lives(list)
        PROVE  \E k \in Lives(to.list) : /\ Recs(list, i) \subseteq Recs(to.list, k)
                                         /\ KeySet(list, i) \subseteq KeySet(to.list, k)
    <3>1. CASE i = src \/ i = dst
      <4>1. /\ dst \in Lives(to.list) /\ Recs(list, i) \subseteq Recs(to.list, dst)
            /\ KeySet(list, i) \subseteq KeySet(to.list, dst)
        BY <1>1, <1>2, <1>4, <1>6, <3>1
      <4> QED  BY <4>1
    <3>2. CASE i # src /\ i # dst
      <4>1. /\ i \in Lives(to.list) /\ Recs(list, i) \subseteq Recs(to.list, i)
            /\ KeySet(list, i) \subseteq KeySet(to.list, i)
        BY <1>1, <1>2, <1>4, <1>6, <3>2
      <4> QED  BY <4>1
    <3> QED  BY <3>1, <3>2
  <2> QED  BY <2>1 DEF Follows
<1>10. Follows(base, to.list)
  BY <1>9, FollowsOn DEF Carried
<1>11. dst \in Lives(to.list) /\ rec \in Recs(to.list, dst)
  BY <1>4, <1>6 DEF Carried
<1>12. ASSUME NEW i \in Lives(to.list), NEW r \in Recs(to.list, i) PROVE r = rec \/ Held(base, r)
  <2>1. \E p \in Lives(list) : r \in Recs(list, p)
    BY <1>4, <1>6
  <2> QED  BY <2>1 DEF Carried
<1>13. KeySet(list, dst) \subseteq KeySet(to.list, dst)
  BY <1>1, <1>2
<1> QED  BY <1>8, <1>10, <1>11, <1>12, <1>13 DEF Carried, to

(* When a record joins a cluster, and when it does not.                    *)
LEMMA JoinAgain ==
    ASSUME NEW st, StateOk(st), ~ st.duplicate, NEW c \in DOMAIN st.list.clusters, NEW rec
    PROVE  JoinCluster(st, c, rec).duplicate
             <=> \E r \in Recs(st.list, c) : r.client = rec.client /\ SameMetadata(rec, r)
<1> DEFINE again == \E r \in Recs(st.list, c) : r.client = rec.client /\ SameMetadata(rec, r)
           joined == [st EXCEPT !.list.clusters[c].records = Append(@, rec), !.cluster = c]
<1>1. JoinCluster(st, c, rec) = IF again THEN [st EXCEPT !.duplicate = TRUE] ELSE joined
  BY DEF JoinCluster, Recs
<1>2. DOMAIN st = {"list", "total", "cluster", "duplicate", "found"}
  BY DEF StateOk
<1>3. ~ joined.duplicate
  BY <1>2
<1> HIDE DEF again, joined
<1>4. again => JoinCluster(st, c, rec).duplicate
  BY <1>1, <1>2
<1>5. ~ again => ~ JoinCluster(st, c, rec).duplicate
  BY <1>1, <1>3
<1> QED  BY <1>4, <1>5 DEF again

(* A record that was not there joins a cluster.                            *)
LEMMA JoinCarried ==
    ASSUME NEW list, ListOk(list), Once(list), NEW c \in Lives(list), NEW rec, ~ Held(list, rec),
           NEW to, DOMAIN to.clusters = DOMAIN list.clusters,
           \A i \in DOMAIN list.clusters :
              /\ to.clusters[i].live = list.clusters[i].live
              /\ KeySet(to, i) = KeySet(list, i)
              /\ to.clusters[i].records = IF i = c THEN Append(list.clusters[c].records, rec)
                                          ELSE list.clusters[i].records
    PROVE  Carried(list, to, rec, c)
<1> DEFINE cs == list.clusters
           cs2 == to.clusters
           s == cs[c].records
<1>1. /\ Lives(to) = Lives(list) /\ \A i \in Lives(list) : i \in DOMAIN cs
      /\ c \in DOMAIN cs
  BY DEF Lives
<1>2. /\ IsSeq(s) /\ cs2[c].records = Append(s, rec)
      /\ \A i \in Lives(list) : i # c => cs2[i].records = cs[i].records
  BY <1>1 DEF ListOk, ClusterOk
<1>3. /\ Len(s) \in Nat /\ DOMAIN s = 1 .. Len(s)
      /\ DOMAIN Append(s, rec) = 1 .. Len(s) + 1
      /\ \A i \in DOMAIN s : Append(s, rec)[i] = s[i]
      /\ Append(s, rec)[Len(s) + 1] = rec
      /\ Elems(Append(s, rec)) = Elems(s) \cup {rec}
  <2> HIDE DEF s
  <2>1. /\ IsSeq(Append(s, rec)) /\ Len(Append(s, rec)) = Len(s) + 1
        /\ \A i \in DOMAIN s : Append(s, rec)[i] = s[i]
        /\ Append(s, rec)[Len(s) + 1] = rec
        /\ Elems(Append(s, rec)) = Elems(s) \cup {rec}
    BY <1>2, SeqAppend
  <2>2. DOMAIN Append(s, rec) = 1 .. Len(Append(s, rec)) /\ Len(s) \in Nat /\ DOMAIN s = 1 .. Len(s)
    BY <1>2, <2>1, SeqIs
  <2> QED  BY <2>1, <2>2
<1>4. ASSUME NEW i \in Lives(list), NEW m \in DOMAIN cs2[i].records
      PROVE  \/ m \in DOMAIN cs[i].records /\ cs2[i].records[m] = cs[i].records[m]
             \/ i = c /\ m = Len(s) + 1 /\ cs2[i].records[m] = rec
  <2>1. CASE i = c
    <3>1. m \in 1 .. Len(s) + 1 /\ cs2[i].records = Append(s, rec)
      BY <1>2, <1>3, <1>4, <2>1
    <3>2. m \in 1 .. Len(s) \/ m = Len(s) + 1
      BY <1>3, <3>1
    <3> QED  BY <1>3, <2>1, <3>1, <3>2
  <2>2. CASE i # c
    BY <1>2, <1>4, <2>2
  <2> QED  BY <2>1, <2>2
<1>5. ASSUME NEW i \in Lives(list), NEW m \in DOMAIN cs[i].records PROVE cs[i].records[m] # rec
  BY DEF Held, Recs, Elems
<1>6. Once(to)
  <2> SUFFICES ASSUME NEW i \in Lives(list), NEW k \in Lives(list),
                      NEW m \in DOMAIN cs2[i].records, NEW n \in DOMAIN cs2[k].records,
                      cs2[i].records[m] = cs2[k].records[n]
               PROVE  i = k /\ m = n
    BY <1>1 DEF Once
  <2>1. \/ m \in DOMAIN cs[i].records /\ cs2[i].records[m] = cs[i].records[m]
        \/ i = c /\ m = Len(s) + 1 /\ cs2[i].records[m] = rec
    BY <1>4
  <2>2. \/ n \in DOMAIN cs[k].records /\ cs2[k].records[n] = cs[k].records[n]
        \/ k = c /\ n = Len(s) + 1 /\ cs2[k].records[n] = rec
    BY <1>4
  <2> QED  BY <1>5, <2>1, <2>2 DEF Once
<1>7. /\ Recs(to, c) = Recs(list, c) \cup {rec}
      /\ \A i \in Lives(list) : i # c => Recs(to, i) = Recs(list, i)
  BY <1>2, <1>3 DEF Recs
<1>8. Follows(list, to)
  <2>1. \A i \in Lives(list) : /\ i \in Lives(to) /\ Recs(list, i) \subseteq Recs(to, i)
                               /\ KeySet(list, i) \subseteq KeySet(to, i)
    BY <1>1, <1>7
  <2> QED  BY <2>1 DEF Follows
<1>9. ASSUME NEW i \in Lives(to), NEW r \in Recs(to, i) PROVE r = rec \/ Held(list, r)
  BY <1>1, <1>7 DEF Held
<1> QED  BY <1>1, <1>6, <1>7, <1>8, <1>9 DEF Carried

(* Or has a cluster to itself.                                             *)
LEMMA NewCarried ==
    ASSUME NEW list, Once(list), NEW rec, ~ Held(list, rec), NEW to, NEW c,
           c \notin DOMAIN list.clusters, DOMAIN to.clusters = DOMAIN list.clusters \cup {c},
           to.clusters[c].live, to.clusters[c].records = <<rec>>,
           \A i \in DOMAIN list.clusters : to.clusters[i] = list.clusters[i]
    PROVE  Carried(list, to, rec, c)
<1> DEFINE cs == list.clusters
           cs2 == to.clusters
<1>1. /\ Lives(to) = Lives(list) \cup {c} /\ \A i \in Lives(list) : i \in DOMAIN cs /\ i # c
  BY DEF Lives
<1>2. DOMAIN <<rec>> = {1} /\ <<rec>>[1] = rec
  OBVIOUS
<1>3. /\ DOMAIN cs2[c].records = {1} /\ cs2[c].records[1] = rec /\ Recs(to, c) = {rec}
      /\ \A i \in Lives(list) : Recs(to, i) = Recs(list, i) /\ KeySet(to, i) = KeySet(list, i)
                                /\ cs2[i].records = cs[i].records
  <2>1. DOMAIN cs2[c].records = {1} /\ cs2[c].records[1] = rec
    BY <1>2
  <2>2. Recs(to, c) = {rec}
    BY <2>1 DEF Recs, Elems
  <2> QED  BY <1>1, <2>1, <2>2 DEF Recs, KeySet
<1>4. ASSUME NEW i \in Lives(list), NEW m \in DOMAIN cs[i].records PROVE cs[i].records[m] # rec
  BY DEF Held, Recs, Elems
<1>5. Once(to)
  <2> SUFFICES ASSUME NEW i \in Lives(to), NEW k \in Lives(to),
                      NEW m \in DOMAIN cs2[i].records, NEW n \in DOMAIN cs2[k].records,
                      cs2[i].records[m] = cs2[k].records[n]
               PROVE  i = k /\ m = n
    BY DEF Once
  <2>1. CASE i \in Lives(list) /\ k \in Lives(list)
    BY <1>3, <2>1 DEF Once
  <2>2. CASE i = c /\ k \in Lives(list)
    BY <1>3, <1>4, <2>2
  <2>3. CASE i \in Lives(list) /\ k = c
    BY <1>3, <1>4, <2>3
  <2>4. CASE i = c /\ k = c
    BY <1>3, <2>4
  <2> QED  BY <1>1, <2>1, <2>2, <2>3, <2>4
<1>6. Follows(list, to)
  BY <1>1, <1>3 DEF Follows
<1>7. ASSUME NEW i \in Lives(to), NEW r \in Recs(to, i) PROVE r = rec \/ Held(list, r)
  BY <1>1, <1>3 DEF Held
<1> QED  BY <1>1, <1>3, <1>5, <1>6, <1>7 DEF Carried
-----------------------------------------------------------------------------
(* What reclist_insert made of a record, coming from list l0: a duplicate, *)
(* nothing yet, or a record of a cluster that has the record's first key.  *)
Story(st, l0, rec, k1) ==
    IF st.duplicate THEN Again(l0, rec, k1)
    ELSE IF st.cluster = 0 THEN st.list = l0
    ELSE k1 \in KeySet(st.list, st.cluster) /\ Carried(l0, st.list, rec, st.cluster)

(* The list it came from.                                                  *)
Before(l0, rec, k1) ==
    ListOk(l0) /\ Keyed(l0, 0, {}) /\ Once(l0) /\ (Held(l0, rec) => Again(l0, rec, k1))

(* A cluster that has the first key and no record like it.                 *)
LEMMA NotHeld ==
    ASSUME NEW l0, NEW rec, NEW k1, Before(l0, rec, k1), NEW c \in Lives(l0), k1 \in KeySet(l0, c),
           ~ \E r \in Recs(l0, c) : r.client = rec.client /\ SameMetadata(rec, r)
    PROVE  ~ Held(l0, rec)
<1>1. \A i \in Lives(l0) : k1 \in KeySet(l0, i) => i = c
  BY DEF Before, Keyed, KeysApart
<1>2. ~ Again(l0, rec, k1)
  BY <1>1 DEF Again
<1> QED  BY <1>2 DEF Before

(* One bucket.                                                             *)
LEMMA MeetBucketStory ==
    ASSUME NEW l0, NEW rec, NEW k1, Before(l0, rec, k1),
           NEW st, NEW rem, NEW n, NEW key, Hash(key) \in Buckets,
           NEW t \in 1 .. Len(st.list.chains[Hash(key)]), Scanning(st, key, rem, n, t - 1),
           Story(st, l0, rec, k1), ~ st.duplicate /\ st.cluster = 0 => key = k1
    PROVE  Story(MeetBucket(st, t, rec, key), l0, rec, k1)
<1> DEFINE to == MeetBucket(st, t, rec, key)
           list == st.list
           chain == list.chains[Hash(key)]
           c == chain[t]
<1>1. StateOk(st) /\ ListOk(list)
  BY DEF Scanning, StateOk
<1>2. /\ Len(chain) \in Nat /\ DOMAIN chain = 1 .. Len(chain)
      /\ \A p \in DOMAIN chain : chain[p] \in DOMAIN list.clusters /\ chain[p] \in Elems(chain)
  BY <1>1, Chained
<1>3. c \in DOMAIN list.clusters /\ c \in Elems(chain)
  BY <1>2
<1>4. to = IF st.duplicate \/ key \notin Elems(list.clusters[c].keys) THEN st
           ELSE IF st.cluster = 0 THEN [JoinCluster(st, c, rec) EXCEPT !.found = TRUE]
           ELSE IF st.cluster = c THEN [st EXCEPT !.found = TRUE]
           ELSE [MergeCluster(st, c) EXCEPT !.found = TRUE]
  BY DEF MeetBucket
<1> HIDE DEF to
<1>5. ASSUME NEW u, StateOk(u), Story(u, l0, rec, k1), to = [u EXCEPT !.found = TRUE]
      PROVE  Story(to, l0, rec, k1)
  <2> DEFINE v == [u EXCEPT !.found = TRUE]
  <2>1. v.duplicate = u.duplicate /\ v.cluster = u.cluster /\ v.list = u.list
    BY <1>5, FoundIs
  <2>2. to = v
    BY <1>5
  <2> HIDE DEF v
  <2> QED  BY <1>5, <2>1, <2>2 DEF Story
<1>6. CASE st.duplicate \/ key \notin Elems(list.clusters[c].keys)
  BY <1>4, <1>6 DEF to
<1>7. CASE ~ st.duplicate /\ key \in Elems(list.clusters[c].keys)
  <2>1. Underway(st, rem, n) /\ key \in KeySet(list, c)
    BY <1>7 DEF Scanning, KeySet
  <2>2. c \in Lives(list)
    <3>1. KeysGone(list) /\ Leads(list, c, key)
      BY <1>3, <2>1 DEF Underway, Keyed, Leads
    <3> QED  BY <1>1, <1>3, <2>1, <3>1, LedLives
  <2>3. CASE st.cluster = 0
    <3> DEFINE u == JoinCluster(st, c, rec)
    <3>1. list = l0 /\ key = k1
      BY <1>7, <2>3 DEF Story
    <3>2. u.duplicate <=> \E r \in Recs(l0, c) : r.client = rec.client /\ SameMetadata(rec, r)
      <4>1. u.duplicate <=> \E r \in Recs(list, c) : r.client = rec.client /\ SameMetadata(rec, r)
        BY <1>1, <1>3, <1>7, JoinAgain
      <4> QED  BY <3>1, <4>1
    <3>3. StateOk(u)
      BY <1>1, <1>3, JoinIs
    <3>4. u.duplicate => Story(u, l0, rec, k1)
      BY <2>1, <2>2, <3>1, <3>2 DEF Story, Again
    <3>5. ASSUME ~ u.duplicate PROVE Story(u, l0, rec, k1)
      <4>1. /\ u.cluster = c /\ DOMAIN u.list.clusters = DOMAIN l0.clusters
            /\ \A i \in DOMAIN l0.clusters :
                  /\ u.list.clusters[i].live = l0.clusters[i].live
                  /\ KeySet(u.list, i) = KeySet(l0, i)
                  /\ u.list.clusters[i].records =
                        IF i = c THEN Append(l0.clusters[c].records, rec) ELSE l0.clusters[i].records
        <5>1. /\ u.cluster = c /\ DOMAIN u.list.clusters = DOMAIN list.clusters
              /\ \A i \in DOMAIN list.clusters :
                    /\ u.list.clusters[i].live = list.clusters[i].live
                    /\ KeySet(u.list, i) = KeySet(list, i)
                    /\ u.list.clusters[i].records =
                          IF i = c THEN Append(list.clusters[c].records, rec) ELSE list.clusters[i].records
          <6>1. StateOk(st) /\ c \in DOMAIN st.list.clusters
            BY <1>1, <1>3
          <6> HIDE DEF c
          <6>2. \/ u.duplicate
                \/ /\ u.cluster = c /\ DOMAIN u.list.clusters = DOMAIN st.list.clusters
                   /\ \A i \in DOMAIN st.list.clusters :
                         /\ u.list.clusters[i].live = st.list.clusters[i].live
                         /\ KeySet(u.list, i) = KeySet(st.list, i)
                         /\ u.list.clusters[i].records =
                               IF i = c THEN Append(st.list.clusters[c].records, rec)
                               ELSE st.list.clusters[i].records
            BY ONLY <6>1, JoinIs
          <6> HIDE DEF u
          <6> QED  BY <3>5, <6>2
        <5> QED  BY <3>1, <5>1
      <4> DEFINE ul == u.list
      <4> HIDE DEF c, u
      <4>2. c \in Lives(l0) /\ k1 \in KeySet(l0, c)
        BY <2>1, <2>2, <3>1
      <4>3. ~ Held(l0, rec)
        BY <3>2, <3>5, <4>2, NotHeld
      <4>4. ListOk(l0) /\ Once(l0)
        BY DEF Before
      <4>5. /\ DOMAIN ul.clusters = DOMAIN l0.clusters
            /\ \A i \in DOMAIN l0.clusters :
                  /\ ul.clusters[i].live = l0.clusters[i].live
                  /\ KeySet(ul, i) = KeySet(l0, i)
                  /\ ul.clusters[i].records =
                        IF i = c THEN Append(l0.clusters[c].records, rec) ELSE l0.clusters[i].records
        BY <4>1
      <4> HIDE DEF ul
      <4>6. Carried(l0, ul, rec, c)
        BY <4>2, <4>3, <4>4, <4>5, JoinCarried
      <4>7. k1 \in KeySet(ul, c) /\ c # 0
        <5>1. c # 0 /\ c \in DOMAIN l0.clusters
          BY <4>2, <4>4, NotZero
        <5> QED  BY <4>2, <4>5, <5>1
      <4> QED  BY <3>5, <4>1, <4>6, <4>7 DEF Story, ul
    <3>6. Story(u, l0, rec, k1)
      BY <3>4, <3>5
    <3>7. to = [u EXCEPT !.found = TRUE]
      BY <1>4, <1>7, <2>3
    <3> HIDE DEF u
    <3> QED  BY <1>5, <3>3, <3>6, <3>7 DEF to
  <2>4. CASE st.cluster # 0 /\ st.cluster = c
    <3>1. to = [st EXCEPT !.found = TRUE]
      BY <1>4, <1>7, <2>4
    <3> QED  BY <1>1, <1>5, <3>1 DEF to
  <2>5. CASE st.cluster # 0 /\ st.cluster # c
    <3> DEFINE u == MergeCluster(st, c)
    <3>1. st.cluster \in Lives(list) /\ Carried(l0, list, rec, st.cluster)
          /\ k1 \in KeySet(list, st.cluster)
      BY <1>7, <2>1, <2>5 DEF Underway, Story
    <3>2. /\ StateOk(u) /\ u.cluster = st.cluster /\ u.duplicate = st.duplicate
      BY <1>1, <1>3, <2>5, <3>1, MergeIs DEF Lives
    <3>3. Carried(l0, u.list, rec, st.cluster) /\ KeySet(list, st.cluster) \subseteq KeySet(u.list, st.cluster)
      BY <1>1, <2>2, <2>5, <3>1, MergeCarried
    <3>4. to = [u EXCEPT !.found = TRUE]
      BY <1>4, <1>7, <2>5
    <3> HIDE DEF u
    <3>5. Story(u, l0, rec, k1)
      BY <1>7, <2>5, <3>1, <3>2, <3>3 DEF Story
    <3> QED  BY <1>5, <3>2, <3>4, <3>5 DEF to
  <2> QED  BY <2>3, <2>4, <2>5
<1>8. st.duplicate \in BOOLEAN
  BY <1>1 DEF StateOk
<1> QED  BY <1>6, <1>7

(* One key.                                                                *)
LEMMA MeetKeyStory ==
    ASSUME NEW l0, NEW rec, NEW k1, Before(l0, rec, k1),
           NEW st, NEW rem, NEW n, Inserting(st, rem, n), NEW keys, IsSeq(keys),
           NEW key \in Elems(keys), \A k \in Elems(keys) : Hash(k) \in Buckets,
           Story(st, l0, rec, k1), ~ st.duplicate /\ st.cluster = 0 => key = k1
    PROVE  Story(MeetKey(st, rec, key, keys), l0, rec, k1)
<1> DEFINE to == MeetKey(st, rec, key, keys)
           chain == st.list.chains[Hash(key)]
           m == Len(chain)
           start == [st EXCEPT !.found = FALSE]
           L == [i \in DOMAIN chain |-> i]
           met == FoldLeft(LAMBDA s, i : MeetBucket(s, i, rec, key), start, L)
<1>1. StateOk(st) /\ ListOk(st.list) /\ Hash(key) \in Buckets
  BY DEF Inserting, StateOk
<1>2. m \in Nat /\ DOMAIN chain = 1 .. m /\ DOMAIN L = 1 .. m
  BY <1>1, Chained
<1>3. to = IF met.duplicate \/ met.found THEN met
           ELSE NewBucket(IF met.cluster = 0 THEN NewCluster(met, rec, keys) ELSE met, key)
  BY DEF MeetKey
<1>4. PICK h : /\ h[0] = start
               /\ \A k \in 1 .. m : h[k] = MeetBucket(h[k - 1], L[k], rec, key)
               /\ met = h[m]
  <2>1. met = BucketOver(start, L, rec, key)
    BY DEF BucketOver
  <2> HIDE DEF L, m, start, met
  <2>2. \E h : /\ h[0] = start
               /\ \A k \in 1 .. m : h[k] = MeetBucket(h[k - 1], L[k], rec, key)
               /\ BucketOver(start, L, rec, key) = h[m]
    BY <1>2, BucketFold
  <2> QED  BY <2>1, <2>2
<1>5. \A k \in 1 .. m : L[k] = k
  BY <1>2
<1>6. /\ StateOk(start) /\ start.found = FALSE /\ start.duplicate = st.duplicate
      /\ start.cluster = st.cluster /\ start.total = st.total /\ start.list = st.list
  BY <1>1, FoundIs
<1> HIDE DEF L, met, start, to, m
<1> DEFINE Fine(s, t) == /\ Scanning(s, key, rem, n, t)
                         /\ DOMAIN s.list.chains[Hash(key)] = 1 .. m
                         /\ Story(s, l0, rec, k1)
                         /\ ~ s.duplicate /\ s.cluster = 0 => key = k1
           T == {t \in 0 .. m : Fine(h[t], t)}
<1>7. Fine(start, 0)
  <2>1. Scanned(start, key, 0)
    BY <1>6 DEF Scanned
  <2>2. st.duplicate \/ Underway(start, rem, n)
    BY <1>6 DEF Inserting, Underway
  <2>3. Scanning(start, key, rem, n, 0)
    BY <1>6, <2>1, <2>2 DEF Scanning
  <2> QED  BY <1>2, <1>6, <2>3 DEF Story
<1>8. ASSUME NEW k \in 1 .. m, Fine(h[k - 1], k - 1) PROVE Fine(h[k], k)
  <2> DEFINE s == h[k - 1]
             s2 == MeetBucket(s, k, rec, key)
  <2>1. h[k] = s2
    BY <1>4, <1>5
  <2>2. Scanning(s, key, rem, n, k - 1)
    BY <1>8
  <2>3. k \in 1 .. Len(s.list.chains[Hash(key)])
    <3>1. ListOk(s.list)
      BY <2>2 DEF Scanning, StateOk
    <3>2. /\ DOMAIN s.list.chains[Hash(key)] = 1 .. Len(s.list.chains[Hash(key)])
          /\ DOMAIN s.list.chains[Hash(key)] = 1 .. m
      BY <1>1, <1>8, <3>1, Chained
    <3> QED  BY <3>2
  <2> HIDE DEF s, Fine
  <2>4. /\ Scanning(s2, key, rem, n, k)
        /\ DOMAIN s2.list.chains[Hash(key)] = DOMAIN s.list.chains[Hash(key)]
        /\ s.cluster # 0 => s2.cluster # 0
        /\ s.duplicate => s2.duplicate
    BY <1>1, <2>2, <2>3, MeetBucketKeeps
  <2>5. Fine(s, k - 1)
    BY <1>8 DEF s
  <2>6. Story(s2, l0, rec, k1)
    <3>1. Story(s, l0, rec, k1) /\ (~ s.duplicate /\ s.cluster = 0 => key = k1)
      BY <2>5 DEF Fine
    <3> QED  BY <1>1, <2>2, <2>3, <3>1, MeetBucketStory
  <2>7. s.duplicate \in BOOLEAN
    BY <2>2 DEF Scanning, StateOk
  <2> HIDE DEF s2
  <2> QED  BY <2>1, <2>4, <2>5, <2>6, <2>7 DEF Fine
<1> HIDE DEF Fine
<1>9. Fine(met, m)
  <2>1. 0 \in T
    BY <1>2, <1>4, <1>7
  <2>2. \A k \in 1 .. m : k - 1 \in T => k \in T
    BY <1>2, <1>8
  <2> HIDE DEF T
  <2>3. m \in T
    BY <1>2, <2>1, <2>2, UpTo
  <2> QED  BY <1>4, <2>3 DEF T
<1> DEFINE list == met.list
<1>10. StateOk(met) /\ ListOk(list) /\ Story(met, l0, rec, k1)
  BY <1>9 DEF Fine, Scanning, StateOk
<1>11. CASE met.duplicate \/ met.found
  BY <1>3, <1>10, <1>11 DEF to
<1>12. CASE ~ met.duplicate /\ ~ met.found
  <2> DEFINE u == IF met.cluster = 0 THEN NewCluster(met, rec, keys) ELSE met
             v == NewBucket(u, key)
  <2>1. to = v
    BY <1>3, <1>12
  <2>2. Underway(met, rem, n) /\ Scanned(met, key, m)
    BY <1>9, <1>12 DEF Fine, Scanning
  <2>3. StateOk(u) /\ Story(u, l0, rec, k1) /\ u.cluster \in DOMAIN u.list.clusters /\ ~ u.duplicate
    <3>1. CASE met.cluster = 0
      <4>1. u = NewCluster(met, rec, keys) /\ list = l0 /\ key = k1
        BY <1>9, <1>10, <1>12, <3>1 DEF Fine, Story
      <4>2. \A i \in Lives(l0) : k1 \notin KeySet(l0, i)
        <5> SUFFICES ASSUME NEW i \in Lives(l0), k1 \in KeySet(l0, i) PROVE FALSE
          OBVIOUS
        <5>1. Leads(l0, i, k1)
          BY DEF Before, Keyed, KeysLead
        <5>2. i \in Elems(list.chains[Hash(key)])
          BY <4>1, <5>1 DEF Leads
        <5>3. PICK p \in DOMAIN list.chains[Hash(key)] : i = list.chains[Hash(key)][p]
          BY <5>2 DEF Elems
        <5>4. p \in 1 .. m
          BY <1>9 DEF Fine
        <5> QED  BY <1>12, <2>2, <4>1, <5>3, <5>4 DEF Scanned
      <4>3. ~ Held(l0, rec)
        BY <4>2 DEF Before, Again
      <4> DEFINE c == Len(list.clusters) + 1
                 ul == u.list
      <4> HIDE DEF u
      <4>4. /\ StateOk(u) /\ u.cluster = c /\ u.duplicate = met.duplicate
            /\ c \notin DOMAIN list.clusters
            /\ DOMAIN ul.clusters = DOMAIN list.clusters \cup {c}
            /\ ul.clusters[c].live /\ KeySet(ul, c) = Elems(keys)
            /\ ul.clusters[c].records = <<rec>>
            /\ \A i \in DOMAIN list.clusters : ul.clusters[i] = list.clusters[i]
        BY <1>10, <4>1, NewClusterIs
      <4>5. c # 0
        BY <1>10, SeqIs DEF ListOk
      <4> HIDE DEF c, ul, list
      <4>6. Carried(l0, ul, rec, c)
        BY <4>1, <4>3, <4>4, NewCarried DEF Before
      <4> QED  BY <1>12, <4>1, <4>4, <4>5, <4>6 DEF Story, ul
    <3>2. CASE met.cluster # 0
      <4>1. u = met /\ met.cluster \in DOMAIN met.list.clusters
        BY <2>2, <3>2 DEF Underway, Lives
      <4> HIDE DEF u
      <4> QED  BY <1>10, <1>12, <4>1
    <3> QED  BY <3>1, <3>2
  <2> HIDE DEF u
  <2>4. /\ StateOk(v) /\ v.duplicate = u.duplicate /\ v.cluster = u.cluster
        /\ v.list.clusters = u.list.clusters
    BY <1>1, <2>3, NewBucketIs
  <2>5. u.cluster # 0
    BY <2>3, NotZero DEF StateOk
  <2>6. /\ k1 \in KeySet(u.list, u.cluster) /\ Carried(l0, u.list, rec, u.cluster)
    BY <2>3, <2>5 DEF Story
  <2> DEFINE ul == u.list
             vl == v.list
  <2> HIDE DEF v
  <2>7. Lives(vl) = Lives(ul) /\ \A i : KeySet(vl, i) = KeySet(ul, i)
    BY <2>4 DEF Lives, KeySet
  <2>8. Carried(l0, vl, rec, u.cluster)
    <3>1. \A i \in Lives(ul) : /\ vl.clusters[i].records = ul.clusters[i].records
                               /\ KeySet(vl, i) = KeySet(ul, i)
      BY <2>4, <2>7
    <3> HIDE DEF ul, vl
    <3> QED  BY <2>6, <2>7, <3>1, SameCarried DEF ul
  <2>9. Story(v, l0, rec, k1)
    BY <2>3, <2>4, <2>5, <2>6, <2>7, <2>8 DEF Story
  <2> QED  BY <2>1, <2>9 DEF to
<1> QED  BY <1>11, <1>12

(* reclist_insert: a record that is dropped was there before, in the       *)
(* cluster with the first of the keys; one that is not is there now.       *)
LEMMA InsertStory ==
    ASSUME NEW list, NEW total, NEW n, Good(list, total, n), Once(list), NEW rec, NEW keys,
           IsSeq(keys), Elems(keys) # {}, \A k \in Elems(keys) : Hash(k) \in Buckets,
           Held(list, rec) => Again(list, rec, keys[1])
    PROVE  LET ins == Insert(list, total, rec, keys)
           IN  IF ins.duplicate THEN Again(list, rec, keys[1])
               ELSE /\ keys[1] \in KeySet(ins.list, ins.cluster)
                    /\ Carried(list, ins.list, rec, ins.cluster)
<1> DEFINE ins == Insert(list, total, rec, keys)
           start == [list |-> list, total |-> total, cluster |-> 0, duplicate |-> FALSE,
                     found |-> FALSE]
           m == Len(keys)
           k1 == keys[1]
           Rem(k) == {keys[j] : j \in k + 1 .. m}
<1>1. m \in Nat /\ DOMAIN keys = 1 .. m /\ m # 0 /\ \A k \in 1 .. m : keys[k] \in Elems(keys)
  BY SeqIs
<1>2. ins = KeyOver(start, keys, rec, keys)
  BY DEF Insert, KeyOver
<1> HIDE DEF m, start, ins
<1>3. PICK h : /\ h[0] = start
               /\ \A k \in 1 .. m : h[k] = MeetKey(h[k - 1], rec, keys[k], keys)
               /\ ins = h[m]
  BY <1>1, <1>2, KeyFold
<1>4. /\ Rem(0) = Elems(keys)
      /\ \A k \in 1 .. m : Rem(k - 1) \ {keys[k]} \subseteq Rem(k)
  <2>1. Rem(0) = Elems(keys)
    BY <1>1 DEF Elems
  <2>2. \A k \in 1 .. m : k - 1 + 1 .. m = {k} \cup (k + 1 .. m)
    BY <1>1
  <2>3. \A k \in 1 .. m : Rem(k - 1) \ {keys[k]} \subseteq Rem(k)
    BY <2>2
  <2> QED  BY <2>1, <2>3
<1> HIDE DEF Rem, k1
<1> DEFINE Fine(s, k) == /\ Inserting(s, Rem(k), n)
                         /\ ~ s.duplicate /\ s.cluster = 0 => k = 0
                         /\ Story(s, list, rec, k1)
           T == {k \in 0 .. m : Fine(h[k], k)}
<1>5. Fine(start, 0)
  <2>1. StateOk(start)
    BY DEF Good, StateOk, start
  <2>2. Keyed(list, 0, Rem(0))
    BY DEF Good, Keyed, KeysLead, KeysApart
  <2>3. Underway(start, Rem(0), n)
    BY <2>2 DEF Good, Underway, start
  <2>4. Story(start, list, rec, k1)
    BY DEF Story, start
  <2> QED  BY <2>1, <2>3, <2>4 DEF Inserting
<1>6. ASSUME NEW k \in 1 .. m, Fine(h[k - 1], k - 1) PROVE Fine(h[k], k)
  <2> DEFINE s == h[k - 1]
             to == MeetKey(s, rec, keys[k], keys)
             rem == Rem(k - 1)
  <2>1. /\ Inserting(s, rem, n) /\ (~ s.duplicate /\ s.cluster = 0 => Elems(keys) \subseteq rem)
        /\ (~ s.duplicate /\ s.cluster = 0 => keys[k] = k1)
    <3>1. ~ s.duplicate /\ s.cluster = 0 => k = 1
      BY <1>6
    <3>2. ~ s.duplicate /\ s.cluster = 0 => Elems(keys) \subseteq rem
      BY <1>4, <3>1
    <3>3. ~ s.duplicate /\ s.cluster = 0 => keys[k] = k1
      BY <3>1 DEF k1
    <3> QED  BY <1>6, <3>2, <3>3
  <2>2. keys[k] \in Elems(keys) /\ Story(s, list, rec, k1)
    BY <1>1, <1>6
  <2>3. h[k] = to
    BY <1>3
  <2> HIDE DEF s, rem, Fine
  <2>4. Inserting(to, rem \ {keys[k]}, n) /\ (~ to.duplicate => to.cluster # 0)
    BY <2>1, <2>2, MeetKeyKeeps
  <2>5. Story(to, list, rec, k1)
    <3>1. Before(list, rec, k1)
      BY DEF Before, Good, k1
    <3> QED  BY <2>1, <2>2, <3>1, MeetKeyStory
  <2> HIDE DEF to
  <2>6. Inserting(to, Rem(k), n)
    <3>1. rem \ {keys[k]} \subseteq Rem(k)
      BY <1>4 DEF rem
    <3> QED  BY <2>4, <3>1, UnderwayMore DEF Inserting
  <2> QED  BY <2>3, <2>4, <2>5, <2>6 DEF Fine
<1> HIDE DEF Fine
<1>7. Fine(ins, m)
  <2>1. 0 \in T
    BY <1>1, <1>3, <1>5
  <2>2. \A k \in 1 .. m : k - 1 \in T => k \in T
    BY <1>1, <1>6
  <2> HIDE DEF T
  <2>3. m \in T
    BY <1>1, <2>1, <2>2, UpTo
  <2> QED  BY <1>3, <2>3 DEF T
<1> QED  BY <1>1, <1>7 DEF Fine, Story, ins, k1
-----------------------------------------------------------------------------
(* The records of a list, where a term of a field is in those that count,  *)
(* and the facets of a list but for what the targets reported, n.          *)
All(list) == UNION {Recs(list, i) : i \in Lives(list)}

Found(list, f, t) ==
    UNION {{r} \X Marks(f, t, r.md) : r \in {x \in All(list) : Counts(f, x.client)}}

Tallied(s, n) ==
    /\ s.facets \in Tables
    /\ \A f \in Fields, t \in Terms :
          /\ IsFiniteSet(Found(s.list, f, t))
          /\ s.facets[f][t] = Cardinality(Found(s.list, f, t)) + n[f][t]

(* Whatever the targets reported, it is still that and what is found.      *)
Tallies(s, to) == \A n \in Tables : Tallied(s, n) => Tallied(to, n)

(* Sets that have nothing in common are counted together, ...              *)
LEMMA Together ==
    ASSUME NEW S, IsFiniteSet(S), NEW T, IsFiniteSet(T), S \cap T = {}
    PROVE  /\ IsFiniteSet(S \cup T) /\ Cardinality(S) \in Nat /\ Cardinality(T) \in Nat
           /\ Cardinality(S \cup T) = Cardinality(S) + Cardinality(T)
<1>1. /\ IsFiniteSet(S \cup T)
      /\ Cardinality(S \cup T) = Cardinality(S) + Cardinality(T) - Cardinality(S \cap T)
  BY FS_Union
<1>2. Cardinality(S \cap T) = 0 /\ Cardinality(S) \in Nat /\ Cardinality(T) \in Nat
  BY FS_EmptySet, FS_CardinalityType
<1> QED  BY <1>1, <1>2

(* ... and each pair with one thing in front for one.                      *)
LEMMA Tagged ==
    ASSUME NEW x, NEW M, IsFiniteSet(M)
    PROVE  IsFiniteSet({x} \X M) /\ Cardinality({x} \X M) = Cardinality(M)
<1>1. IsFiniteSet({x}) /\ Cardinality({x}) = 1
  BY FS_Singleton
<1>2. IsFiniteSet({x} \X M) /\ Cardinality({x} \X M) = Cardinality({x}) * Cardinality(M)
  BY <1>1, FS_Product
<1>3. Cardinality(M) \in Nat
  BY FS_CardinalityType
<1> QED  BY <1>1, <1>2, <1>3

(* Where a term is in a list with one more record.                         *)
LEMMA FoundMore ==
    ASSUME NEW list, NEW to, NEW rec, NEW p, Carried(list, to, rec, p), NEW f, NEW t,
           IsFiniteSet(Found(list, f, t)), IsFiniteSet(Marks(f, t, rec.md))
    PROVE  /\ IsFiniteSet(Found(to, f, t)) /\ Cardinality(Found(list, f, t)) \in Nat
           /\ Cardinality(Found(to, f, t)) =
                 Cardinality(Found(list, f, t))
                    + (IF Counts(f, rec.client) THEN Cardinality(Marks(f, t, rec.md)) ELSE 0)
<1> DEFINE more == {rec} \X Marks(f, t, rec.md)
<1>1. All(to) = All(list) \cup {rec}
  <2>1. All(to) \subseteq All(list) \cup {rec}
    BY DEF All, Carried, Held
  <2>2. \A i \in Lives(list) : Recs(list, i) \subseteq All(to)
    BY DEF Carried, Follows, All
  <2>3. rec \in All(to)
    BY DEF Carried, All
  <2> QED  BY <2>1, <2>2, <2>3 DEF All
<1>2. rec \notin All(list)
  BY DEF Carried, Held, All
<1>3. Found(to, f, t) = Found(list, f, t) \cup (IF Counts(f, rec.client) THEN more ELSE {})
  BY <1>1 DEF Found
<1>4. Found(list, f, t) \cap more = {}
  <2> SUFFICES ASSUME NEW x \in Found(list, f, t), x \in more PROVE FALSE
    OBVIOUS
  <2>1. PICK r \in All(list) : x \in {r} \X Marks(f, t, r.md)
    BY DEF Found
  <2>2. x[1] = r /\ x[1] = rec
    BY <2>1
  <2> QED  BY <1>2, <2>1, <2>2
<1>5. IsFiniteSet(more) /\ Cardinality(more) = Cardinality(Marks(f, t, rec.md))
  BY Tagged
<1>6. Cardinality(Found(list, f, t)) \in Nat
  BY FS_CardinalityType
<1> HIDE DEF more
<1>7. CASE Counts(f, rec.client)
  <2>1. Found(to, f, t) = Found(list, f, t) \cup more
    BY <1>3, <1>7
  <2>2. /\ IsFiniteSet(Found(list, f, t) \cup more)
        /\ Cardinality(Found(list, f, t) \cup more) = Cardinality(Found(list, f, t)) + Cardinality(more)
    BY <1>4, <1>5, Together
  <2> QED  BY <1>5, <1>6, <1>7, <2>1, <2>2
<1>8. CASE ~ Counts(f, rec.client)
  BY <1>3, <1>6, <1>8
<1> QED  BY <1>7, <1>8

(* The record is counted when it is new.                                   *)
LEMMA TallyMore ==
    ASSUME NEW s, NEW c, NEW sub, ValuesFine(sub), NEW rec,
           rec.client = c, rec.md = sub.md, NEW to, to.facets = AddFacets(s.facets, c, sub),
           NEW p, Carried(s.list, to.list, rec, p)
    PROVE  Tallies(s, to)
<1> SUFFICES ASSUME NEW n \in Tables, Tallied(s, n) PROVE Tallied(to, n)
  BY DEF Tallies
<1>1. /\ to.facets \in Tables
      /\ \A g \in Fields, u \in Terms :
            /\ IsFiniteSet(Marks(g, u, sub.md)) /\ Cardinality(Marks(g, u, sub.md)) \in Nat
            /\ to.facets[g][u] =
                  s.facets[g][u] + (IF Counts(g, c) THEN Cardinality(Marks(g, u, sub.md)) ELSE 0)
  <2>1. s.facets \in Tables
    BY DEF Tallied
  <2> QED  BY <2>1, AddFacetsIs
<1>2. ASSUME NEW f \in Fields, NEW t \in Terms
      PROVE  /\ IsFiniteSet(Found(to.list, f, t))
             /\ to.facets[f][t] = Cardinality(Found(to.list, f, t)) + n[f][t]
  <2> DEFINE was == Cardinality(Found(s.list, f, t))
             more == IF Counts(f, c) THEN Cardinality(Marks(f, t, sub.md)) ELSE 0
  <2>1. IsFiniteSet(Found(s.list, f, t)) /\ s.facets[f][t] = was + n[f][t] /\ n[f][t] \in Nat
    BY DEF Tallied, Tables
  <2>2. /\ IsFiniteSet(Found(to.list, f, t)) /\ was \in Nat
        /\ Cardinality(Found(to.list, f, t)) = was + more
    BY <1>1, <2>1, FoundMore
  <2>3. to.facets[f][t] = s.facets[f][t] + more /\ more \in Nat
    BY <1>1
  <2> HIDE DEF was, more
  <2> QED  BY <2>1, <2>2, <2>3
<1> QED  BY <1>1, <1>2 DEF Tallied

(* A record was there already, or is there now, where its key is.          *)
Brought(list, to, rec, key) ==
    \/ to = list /\ Again(list, rec, key)
    \/ \E i \in Lives(to) : key \in KeySet(to, i) /\ Carried(list, to, rec, i)

(* ingest_to_cluster.                                                      *)
LEMMA IntoClusterStory ==
    ASSUME NEW asked, NEW s, SetGood(s, asked), Once(s.list), NEW c, NEW pos, NEW sub, NEW term,
           NEW keys, KeysFine(keys), NEW rec, rec = [client |-> c, pos |-> pos, md |-> sub.md],
           Held(s.list, rec) => Again(s.list, rec, keys[1]), ValuesFine(sub)
    PROVE  /\ Brought(s.list, IntoCluster(s, c, pos, sub, keys, term).list, rec, keys[1])
           /\ Tallies(s, IntoCluster(s, c, pos, sub, keys, term))
<1> DEFINE ins == Insert(s.list, s.merged, rec, keys)
           cl == ins.list.clusters[ins.cluster]
           cluster == AddToCluster(cl, sub, term)
           list == [ins.list EXCEPT !.clusters[ins.cluster] = cluster]
           to == [list |-> list, records |-> s.records + 1, merged |-> ins.total,
                  facets |-> AddFacets(s.facets, c, sub), rel |-> DoneRecord(s.rel, cluster)]
           k1 == keys[1]
<1>1. IntoCluster(s, c, pos, sub, keys, term) = IF ins.duplicate THEN s ELSE to
  BY DEF IntoCluster
<1>6. IsSeq(keys) /\ Elems(keys) # {} /\ \A k \in Elems(keys) : Hash(k) \in Buckets
  BY DEF KeysFine
<1>2. ~ ins.duplicate => /\ ins.cluster \in Lives(ins.list)
                         /\ Good(ins.list, ins.total, s.records + 1)
  BY <1>6, InsertKeeps DEF SetGood
<1>3. IF ins.duplicate THEN Again(s.list, rec, k1)
      ELSE k1 \in KeySet(ins.list, ins.cluster) /\ Carried(s.list, ins.list, rec, ins.cluster)
  BY <1>6, InsertStory DEF SetGood
<1> HIDE DEF ins
<1>4. CASE ins.duplicate
  BY <1>1, <1>3, <1>4 DEF Brought, Tallies
<1>5. CASE ~ ins.duplicate
  <2> DEFINE old == ins.list
             i == ins.cluster
  <2>1. Good(old, ins.total, s.records + 1) /\ ListOk(old) /\ i \in DOMAIN old.clusters
    BY <1>2, <1>5 DEF Good, Lives
  <2>2. /\ DOMAIN old = {"chains", "clusters", "sorted", "num"}
        /\ IsSeq(old.clusters) /\ \A j \in DOMAIN old.clusters : ClusterOk(old.clusters[j])
    BY <2>1 DEF ListOk
  <2>3. SameCluster(cl, cluster)
    BY <2>1, <2>2, AddToClusterKeeps DEF ClusterOk
  <2> HIDE DEF cluster
  <2>4. /\ DOMAIN list = DOMAIN old /\ list.chains = old.chains
        /\ list.clusters = [old.clusters EXCEPT ![i] = cluster]
    BY <2>2
  <2>5. /\ DOMAIN list.clusters = DOMAIN old.clusters
        /\ \A j \in DOMAIN old.clusters :
              list.clusters[j] = IF j = i THEN cluster ELSE old.clusters[j]
    BY <2>1, <2>2, <2>4, SeqExcept
  <2>6. \A j \in DOMAIN old.clusters :
           /\ list.clusters[j].live = old.clusters[j].live
           /\ KeySet(list, j) = KeySet(old, j)
           /\ list.clusters[j].records = old.clusters[j].records
    BY <2>2, <2>3, <2>5 DEF KeySet, SameCluster
  <2>7. to.list = list /\ to.facets = AddFacets(s.facets, c, sub)
    OBVIOUS
  <2> HIDE DEF list, to
  <2>8. Lives(list) = Lives(old) /\ \A j \in Lives(old) : j \in DOMAIN old.clusters
    BY <2>5, <2>6 DEF Lives
  <2>9. Carried(s.list, list, rec, i)
    <3> HIDE DEF old
    <3>1. \A j \in Lives(old) : /\ list.clusters[j].records = old.clusters[j].records
                                /\ KeySet(list, j) = KeySet(old, j)
      BY <2>6, <2>8
    <3>2. Carried(s.list, old, rec, i)
      BY <1>3, <1>5 DEF old
    <3> QED  BY <2>8, <3>1, <3>2, SameCarried
  <2>10. i \in Lives(list) /\ k1 \in KeySet(list, i)
    BY <1>2, <1>3, <1>5, <2>6, <2>8
  <2>11. Tallies(s, to)
    <3>1. rec.client = c /\ rec.md = sub.md
      OBVIOUS
    <3>2. Carried(s.list, to.list, rec, i)
      BY <2>7, <2>9
    <3> QED  BY ONLY ValuesFine(sub), <2>7, <3>1, <3>2, TallyMore
  <2> QED  BY <1>1, <1>5, <2>7, <2>9, <2>10, <2>11 DEF Brought
<1> QED  BY <1>4, <1>5

(* What passes the filters and limits of a document, see Kept.             *)
KeptBy(limit, c, doc) ==
    IF doc.root \notin {"record", "cluster"} THEN {}
    ELSE {j \in DOMAIN doc.subs :
            /\ PassesFilter(c, doc.subs[j])
            /\ ~\E k \in 1 .. j : /\ PassesFilter(c, doc.subs[k])
                                  /\ ~PassesLocal(limit, c, doc.subs[k])}

(* Record j of a document is in a cluster that has one of its keys.        *)
Got(list, sess, c, pos, doc, j) ==
    \E i \in Lives(list) :
        /\ \E r \in Recs(list, i) : r.client = c /\ r.md = doc.subs[j].md /\ r.pos <= pos
        /\ KeySet(list, i) \cap Elems(MergeKeys(sess, doc, c, pos)) # {}

(* It stays in one.                                                        *)
LEMMA GotOn ==
    ASSUME NEW list, NEW to, Follows(list, to), NEW sess, NEW c, NEW pos, NEW doc, NEW j,
           Got(list, sess, c, pos, doc, j)
    PROVE  Got(to, sess, c, pos, doc, j)
<1> DEFINE K == Elems(MergeKeys(sess, doc, c, pos))
           Is(r) == r.client = c /\ r.md = doc.subs[j].md /\ r.pos <= pos
<1>1. PICK i \in Lives(list) : (\E r \in Recs(list, i) : Is(r)) /\ KeySet(list, i) \cap K # {}
  BY DEF Got
<1>2. PICK k \in Lives(to) : Recs(list, i) \subseteq Recs(to, k) /\ KeySet(list, i) \subseteq KeySet(to, k)
  BY DEF Follows
<1>3. (\E r \in Recs(to, k) : Is(r)) /\ KeySet(to, k) \cap K # {}
  BY <1>1, <1>2
<1> QED  BY <1>3 DEF Got

(* What a document adds to the list.                                       *)
Added(list, to, sess, c, pos, doc, K) ==
    /\ Once(to) /\ Follows(list, to)
    /\ \A i \in Lives(to) : \A r \in Recs(to, i) :
          \/ Held(list, r)
          \/ r.client = c /\ r.pos = pos /\ \E j \in K : doc.subs[j].md = r.md
    /\ \A j \in K : Got(to, sess, c, pos, doc, j)

(* The records of the client at a position are where the key is.           *)
Placed(list, c, pos, key) ==
    \A i \in Lives(list) : \A r \in Recs(list, i) :
        r.client = c /\ r.pos = pos => key \in KeySet(list, i)

(* One more record of a document.                                          *)
LEMMA BroughtAdded ==
    ASSUME NEW base, NEW list, NEW to, NEW sess, NEW c, NEW pos \in Int, NEW doc, NEW K,
           Added(base, list, sess, c, pos, doc, K),
           \A r : Held(base, r) /\ r.client = c => r.pos \in Int /\ r.pos < pos,
           NEW key \in Elems(MergeKeys(sess, doc, c, pos)), Placed(list, c, pos, key),
           NEW k, NEW rec, rec = [client |-> c, pos |-> pos, md |-> doc.subs[k].md],
           Brought(list, to, rec, key)
    PROVE  Added(base, to, sess, c, pos, doc, K \cup {k}) /\ Placed(to, c, pos, key)
<1>1. CASE to = list /\ Again(list, rec, key)
  <2>1. PICK i \in Lives(list) :
           key \in KeySet(list, i)
           /\ \E r \in Recs(list, i) : r.client = rec.client /\ SameMetadata(rec, r)
    BY <1>1 DEF Again
  <2>2. PICK r \in Recs(list, i) : r.client = rec.client /\ SameMetadata(rec, r)
    BY <2>1
  <2>3. r.client = c /\ r.md = doc.subs[k].md
    BY <2>2 DEF SameMetadata
  <2>4. r.pos <= pos
    BY <2>3 DEF Added
  <2>5. Got(to, sess, c, pos, doc, k)
    BY <1>1, <2>1, <2>3, <2>4 DEF Got
  <2> QED  BY <1>1, <2>5 DEF Added
<1>2. ASSUME NEW p \in Lives(to), key \in KeySet(to, p), Carried(list, to, rec, p)
      PROVE  Added(base, to, sess, c, pos, doc, K \cup {k}) /\ Placed(to, c, pos, key)
  <2>1. Once(to) /\ Follows(list, to) /\ rec \in Recs(to, p)
    BY <1>2 DEF Carried
  <2>2. Follows(base, to)
    BY <2>1, FollowsOn DEF Added
  <2>3. ASSUME NEW i \in Lives(to), NEW r \in Recs(to, i)
        PROVE  \/ Held(base, r)
               \/ r.client = c /\ r.pos = pos /\ \E j \in K \cup {k} : doc.subs[j].md = r.md
    <3>1. CASE r = rec
      BY <3>1
    <3>2. CASE Held(list, r)
      BY <3>2 DEF Added, Held
    <3> QED  BY <1>2, <3>1, <3>2 DEF Carried
  <2>4. Got(to, sess, c, pos, doc, k)
    BY <1>2, <2>1 DEF Got
  <2>5. \A j \in K : Got(to, sess, c, pos, doc, j)
    BY <2>1, GotOn DEF Added
  <2>6. Placed(to, c, pos, key)
    <3> SUFFICES ASSUME NEW i \in Lives(to), NEW r \in Recs(to, i), r.client = c, r.pos = pos
                 PROVE  key \in KeySet(to, i)
      BY DEF Placed
    <3>1. CASE r = rec
      <4>1. i = p
        BY <2>1, <3>1, OneHolds
      <4> QED  BY <1>2, <4>1
    <3>2. CASE Held(list, r)
      <4>1. PICK x \in Lives(list) : r \in Recs(list, x)
        BY <3>2 DEF Held
      <4>2. key \in KeySet(list, x)
        BY <4>1 DEF Placed
      <4>3. PICK y \in Lives(to) : Recs(list, x) \subseteq Recs(to, y) /\ KeySet(list, x) \subseteq KeySet(to, y)
        BY <2>1 DEF Follows
      <4>4. r \in Recs(to, y)
        BY <4>1, <4>3
      <4>5. y = i
        BY <2>1, <4>4, OneHolds
      <4> QED  BY <4>2, <4>3, <4>5
    <3> QED  BY <1>2, <3>1, <3>2 DEF Carried
  <2> QED  BY <2>1, <2>2, <2>3, <2>4, <2>5, <2>6 DEF Added
<1> QED  BY <1>1, <1>2 DEF Brought

(* ingest_xml_record: what passes is there, each record once.              *)
LEMMA IngestDocExact ==
    ASSUME NEW asked, NEW s, SetGood(s, asked), Once(s.list),
           NEW sess, sess.mergekey \in SessionKeys, NEW c \in Clients,
           NEW pos \in Int, NEW doc, Fetchable(c, pos, doc),
           \A r : Held(s.list, r) /\ r.client = c => r.pos \in Int /\ r.pos < pos
    PROVE  /\ Added(s.list, IngestDoc(s, sess, c, pos, doc, asked[c]).set.list, sess, c, pos, doc,
                    KeptBy(sess.limit, c, doc))
           /\ Tallies(s, IngestDoc(s, sess, c, pos, doc, asked[c]).set)
<1> DEFINE keys == MergeKeys(sess, doc, c, pos)
           start == [set |-> s, rc |-> "ok"]
           m == Len(doc.subs)
           done == SubOver(start, doc.subs, sess, c, pos, keys, asked[c])
           K == KeptBy(sess.limit, c, doc)
           base == s.list
           Turned(j) == PassesFilter(c, doc.subs[j]) /\ ~ PassesLocal(sess.limit, c, doc.subs[j])
<1>1. PICK q \in Queries : pos \in 1 .. Len(ResultSet[c][q]) /\ doc \in Elems(ResultSet[c][q])
  BY DEF Fetchable
<1>2. IsSeq(doc.subs) /\ m \in Nat /\ DOMAIN doc.subs = 1 .. m
  <2>1. IsSeq(doc.subs)
    BY <1>1, DocumentsAssumption DEF IsSeq
  <2> QED  BY <2>1, SeqIs
<1>3. IngestDoc(s, sess, c, pos, doc, asked[c]) =
         IF doc.root \notin {"record", "cluster"} THEN [set |-> s, rc |-> "failed"] ELSE done
  BY DEF IngestDoc, SubOver
<1>4. Added(base, base, sess, c, pos, doc, {}) /\ \A key : Placed(base, c, pos, key)
  <2>1. Follows(base, base)
    BY DEF Follows
  <2>2. \A i \in Lives(base) : \A r \in Recs(base, i) : Held(base, r)
    BY DEF Held
  <2>3. Added(base, base, sess, c, pos, doc, {})
    BY <2>1, <2>2 DEF Added
  <2>4. ASSUME NEW key PROVE Placed(base, c, pos, key)
    BY <2>2 DEF Placed
  <2> QED  BY <2>3, <2>4
<1>5. CASE doc.root \notin {"record", "cluster"}
  <2>1. K = {}
    BY <1>5 DEF KeptBy
  <2>2. Tallies(s, s)
    BY DEF Tallies
  <2> QED  BY <1>3, <1>4, <1>5, <2>1, <2>2
<1>6. CASE doc.root \in {"record", "cluster"}
  <2>1. K = {j \in 1 .. m : PassesFilter(c, doc.subs[j]) /\ ~ \E k \in 1 .. j : Turned(k)}
    BY <1>2, <1>6 DEF KeptBy
  <2> HIDE DEF keys, start, m, done, K
  <2>2. PICK h : /\ h[0] = start
                 /\ \A k \in 1 .. m : h[k] = SubStep(h[k - 1], doc.subs[k], sess, c, pos, keys, asked[c])
                 /\ done = h[m]
    BY <1>2, SubFold DEF done
  <2> DEFINE k1 == keys[1]
             Upto(k) == {j \in K : j <= k}
             Fine(st, k) == /\ SetGood(st.set, asked)
                            /\ Added(base, st.set.list, sess, c, pos, doc, Upto(k))
                            /\ Placed(st.set.list, c, pos, k1) /\ Tallies(s, st.set)
                            /\ st.rc = "ok" <=> ~ \E j \in 1 .. k : Turned(j)
             T == {k \in 0 .. m : Fine(h[k], k)}
  <2>3. Fine(start, 0)
    <3>1. Upto(0) = {}
      BY <2>1
    <3>2. start.set = s /\ start.rc = "ok"
      BY DEF start
    <3>3. ~ \E j \in 1 .. 0 : Turned(j)
      OBVIOUS
    <3>4. Tallies(s, s)
      BY DEF Tallies
    <3> HIDE DEF Turned, Upto, base
    <3> QED  BY <1>4, <3>1, <3>2, <3>3, <3>4 DEF base
  <2>4. ASSUME NEW k \in 1 .. m, Fine(h[k - 1], k - 1) PROVE Fine(h[k], k)
    <3> DEFINE was == h[k - 1]
               sub == doc.subs[k]
               to == h[k]
               now == IngestSub(was.set, sess, c, pos, sub, keys, asked[c])
    <3>1. KeysFine(keys) /\ k1 \in Elems(keys)
      <4>1. doc.subs # <<>>
        BY <1>2, SeqEmpty
      <4>2. KeysFine(keys)
        BY <1>1, <4>1, MergeKeysFine DEF keys
      <4>3. 1 \in DOMAIN keys
        BY <4>2, SeqIs DEF KeysFine
      <4> QED  BY <4>2, <4>3 DEF Elems
    <3>2. ValuesFine(sub) /\ CountWords(asked[c], sub.md) \in Nat /\ pos \in Nat
      <4>1. sub \in Elems(doc.subs)
        BY <1>2 DEF Elems
      <4> HIDE DEF sub
      <4>2. ValuesFine(sub)
        BY <1>1, <4>1, DocumentsAssumption DEF ValuesFine
      <4>3. \A f \in Fields : IsFiniteSet(DOMAIN sub.md[f])
        BY <4>2, FiniteValues
      <4>4. CountWords(asked[c], sub.md) \in Nat
        BY <4>3, CountNat
      <4>5. pos \in Nat
        BY <1>1
      <4> QED  BY <4>2, <4>4, <4>5
    <3>3. to = IF was.rc # "ok" THEN was ELSE now
      BY <2>2 DEF SubStep
    <3>4. 1 .. k = (1 .. k - 1) \cup {k} /\ k \in 1 .. m /\ k \in Nat
      BY <1>2
    <3>5. Upto(k) = IF k \in K THEN Upto(k - 1) \cup {k} ELSE Upto(k - 1)
      <4>1. \A j \in K : j \in Int
        BY <2>1
      <4>2. \A j \in Int : j <= k <=> j <= k - 1 \/ j = k
        BY <3>4
      <4> QED  BY <4>1, <4>2
    <3>6. k \in K <=> PassesFilter(c, sub) /\ PassesLocal(sess.limit, c, sub) /\ was.rc = "ok"
      <4>1. k \in K <=> PassesFilter(c, sub) /\ ~ Turned(k) /\ ~ \E j \in 1 .. k - 1 : Turned(j)
        BY <2>1, <3>4
      <4> QED  BY <2>4, <4>1
    <3>7. (\E j \in 1 .. k : Turned(j)) <=> (\E j \in 1 .. k - 1 : Turned(j)) \/ Turned(k)
      BY <3>4
    <3>8. Fine(was, k - 1)
      BY <2>4
    <3> HIDE DEF Upto, was, to, sub, now, k1
    <3>9. CASE was.rc # "ok"
      BY <3>3, <3>5, <3>6, <3>7, <3>8, <3>9 DEF to
    <3>10. CASE was.rc = "ok" /\ ~ PassesFilter(c, sub)
      <4>1. to.set = was.set /\ to.rc = "ok"
        BY <3>3, <3>10 DEF now, IngestSub
      <4> QED  BY <3>5, <3>6, <3>7, <3>8, <3>10, <4>1 DEF to, sub
    <3>11. CASE was.rc = "ok" /\ PassesFilter(c, sub) /\ ~ PassesLocal(sess.limit, c, sub)
      <4>1. to.set = was.set /\ to.rc # "ok"
        BY <3>3, <3>11 DEF now, IngestSub
      <4> QED  BY <3>5, <3>6, <3>7, <3>8, <3>11, <4>1 DEF to, sub
    <3>12. CASE was.rc = "ok" /\ PassesFilter(c, sub) /\ PassesLocal(sess.limit, c, sub)
      <4> DEFINE into == IntoCluster(was.set, c, pos, sub, keys, asked[c])
                 list == was.set.list
                 rec == [client |-> c, pos |-> pos, md |-> sub.md]
      <4>1. to.set = into /\ to.rc = "ok"
        BY <3>3, <3>12 DEF now, IngestSub
      <4>2. SetGood(was.set, asked) /\ Added(base, list, sess, c, pos, doc, Upto(k - 1))
            /\ Placed(list, c, pos, k1) /\ Once(list)
        BY <3>8 DEF Added
      <4>3. SetGood(into, asked)
        BY <3>1, <3>2, <4>2, IntoClusterKeeps
      <4>4. Held(list, rec) => Again(list, rec, k1)
        <5> SUFFICES ASSUME NEW i \in Lives(list), rec \in Recs(list, i)
                     PROVE  Again(list, rec, k1)
          BY DEF Held
        <5>1. k1 \in KeySet(list, i)
          BY <4>2 DEF Placed
        <5>2. rec.client = rec.client /\ SameMetadata(rec, rec)
          BY DEF SameMetadata
        <5> QED  BY <5>1, <5>2 DEF Again
      <4>5. Brought(list, into.list, rec, k1) /\ Tallies(was.set, into)
        <5> HIDE DEF rec
        <5>1. rec = [client |-> c, pos |-> pos, md |-> sub.md]
          BY DEF rec
        <5>2. SetGood(was.set, asked) /\ Once(was.set.list)
          BY <4>2
        <5>3. KeysFine(keys) /\ ValuesFine(sub)
          BY <3>1, <3>2
        <5>4. Held(was.set.list, rec) => Again(was.set.list, rec, keys[1])
          BY <4>4 DEF k1
        <5> HIDE DEF into, list
        <5>5. /\ Brought(was.set.list, IntoCluster(was.set, c, pos, sub, keys, asked[c]).list,
                         rec, keys[1])
              /\ Tallies(was.set, IntoCluster(was.set, c, pos, sub, keys, asked[c]))
          BY ONLY <5>1, <5>2, <5>3, <5>4, IntoClusterStory
        <5> QED  BY <5>5 DEF into, k1, list
      <4>6. Added(base, into.list, sess, c, pos, doc, Upto(k - 1) \cup {k}) /\ Placed(into.list, c, pos, k1)
        <5> HIDE DEF rec, into, list, base
        <5>1. rec = [client |-> c, pos |-> pos, md |-> doc.subs[k].md]
          BY DEF rec, sub
        <5>2. \A r : Held(base, r) /\ r.client = c => r.pos \in Int /\ r.pos < pos
          BY DEF base
        <5>3. k1 \in Elems(MergeKeys(sess, doc, c, pos))
          BY <3>1 DEF keys
        <5> DEFINE was_list == list
                   into_list == into.list
                   before == Upto(k - 1)
        <5>4. /\ Added(base, was_list, sess, c, pos, doc, before) /\ Placed(was_list, c, pos, k1)
              /\ Brought(was_list, into_list, rec, k1)
          BY <4>2, <4>5
        <5> HIDE DEF was_list, into_list, before
        <5>5. /\ Added(base, into_list, sess, c, pos, doc, before \cup {k})
              /\ Placed(into_list, c, pos, k1)
          BY ONLY pos \in Int, <5>1, <5>2, <5>3, <5>4, BroughtAdded
        <5> QED  BY <5>5 DEF into_list, before
      <4>7. ~ Turned(k)
        BY <3>12 DEF sub
      <4>8. Tallies(s, into)
        BY <3>8, <4>5 DEF Tallies
      <4> HIDE DEF into, Turned
      <4> QED  BY <3>5, <3>6, <3>7, <3>8, <3>12, <4>1, <4>3, <4>6, <4>7, <4>8 DEF to
    <3> QED  BY <3>9, <3>10, <3>11, <3>12
  <2> HIDE DEF Fine
  <2>5. Fine(done, m)
    <3>1. 0 \in T
      BY <1>2, <2>2, <2>3
    <3>2. \A k \in 1 .. m : k - 1 \in T => k \in T
      BY <1>2, <2>4
    <3> HIDE DEF T
    <3>3. m \in T
      BY <1>2, <3>1, <3>2, UpTo
    <3> QED  BY <2>2, <3>3 DEF T
  <2>6. Upto(m) = K
    BY <1>2, <2>1
  <2> QED  BY <1>3, <1>6, <2>5, <2>6 DEF Fine, K
<1> QED  BY <1>5, <1>6
-----------------------------------------------------------------------------
(* The target has said what it found.                                      *)
Answered(cl) == cl.results # None /\ cl.results.answered

(* The client has what it was asked for, or is getting it.                 *)
Busy(cl) == cl.conn /\ cl.state \in {"Working", "Idle"}
Now(cl) == cl.active /\ Busy(cl) /\ Answered(cl)

(* Documents are kept for their position in the result set, and a          *)
(* connection has one.                                                     *)
Known(c, cl) ==
    /\ ~ Answered(cl) => cl.xdocs = {}
    /\ \A p \in cl.xdocs : p[1] \in DOMAIN Docs(c, cl) /\ p[2] = Docs(c, cl)[p[1]]
    /\ cl.conn => cl.results # None

(* That result set is of the last query and the last sort.                 *)
Matched(cl) ==
    Busy(cl) => cl.results.query = cl.query /\ (cl.sort = None \/ cl.results.sort = cl.sort)

(* A record is one that was fetched from the result set, and passed.       *)
Belongs(r, limit, c, cl) ==
    /\ cl.active /\ Answered(cl)
    /\ r.pos \in cl.startrecs + 1 .. cl.offset /\ r.pos \in DOMAIN Docs(c, cl)
    /\ \E j \in KeptBy(limit, c, Docs(c, cl)[r.pos]) : Docs(c, cl)[r.pos].subs[j].md = r.md

(* All records of the list are.                                            *)
Owned(list, limit, cls) ==
    \A r : Held(list, r) => r.client \in Clients /\ Belongs(r, limit, r.client, cls[r.client])

(* What was fetched is there.                                              *)
Full(list, sess, c, cl) ==
    \A pos \in cl.startrecs + 1 .. cl.offset : pos \in DOMAIN Docs(c, cl) =>
        \A j \in KeptBy(sess.limit, c, Docs(c, cl)[pos]) : Got(list, sess, c, pos, Docs(c, cl)[pos], j)

NoneOf(list, c) == \A r : Held(list, r) => r.client # c

(* A client that has its part.                                             *)
Whole(list, sess, c, cl) ==
    /\ Matched(cl)
    /\ Busy(cl) /\ Answered(cl) => cl.startrecs <= cl.offset
    /\ Now(cl) => Full(list, sess, c, cl)

(* Records and clients while a command is carried out: clients U are still *)
(* to start.                                                               *)
StepExact(st, sess, U) ==
    /\ Once(st.set.list) /\ Owned(st.set.list, sess.limit, st.client)
    /\ \A c \in Clients : Known(c, st.client[c])
    /\ \A c \in Clients \ U : Whole(st.set.list, sess, c, st.client[c])
    /\ \A c \in U : NoneOf(st.set.list, c) /\ (st.client[c].same => Matched(st.client[c]))

(* Where a term is in what the targets of S report of a field for the      *)
(* query of their result set, see ReportedBy, and how often.               *)
Sent(S, cls, f, t) ==
    UNION {{c} \X ReportMarks(c, cls[c].results.query, f, t) : c \in {x \in S : f \in FacetMap[x]}}

Sums(S, cls) == [f \in Fields |-> [t \in Terms |-> Cardinality(Sent(S, cls, f, t))]]

(* The facets count what is found and what some targets reported: those of *)
(* the clients that have what they were asked for, or are getting it, and  *)
(* perhaps some others that had an answer.  Clients U are still to start.  *)
Told(st, U) ==
    \E S \in SUBSET (Clients \ U) :
        /\ \A c \in S : st.client[c].active /\ Answered(st.client[c])
        /\ \A c \in Clients \ U : Now(st.client[c]) => c \in S
        /\ \A f \in Fields, t \in Terms : IsFiniteSet(Sent(S, st.client, f, t))
        /\ Tallied(st.set, Sums(S, st.client))

(* What is reported is a table.                                            *)
LEMMA SumsAre ==
    ASSUME NEW S, NEW cls, \A f \in Fields, t \in Terms : IsFiniteSet(Sent(S, cls, f, t))
    PROVE  /\ Sums(S, cls) \in Tables
           /\ \A f \in Fields, t \in Terms : Sums(S, cls)[f][t] = Cardinality(Sent(S, cls, f, t))
<1>1. \A f \in Fields, t \in Terms : Cardinality(Sent(S, cls, f, t)) \in Nat
  BY FS_CardinalityType
<1> QED  BY <1>1 DEF Sums, Tables

(* It does not depend on other clients.                                    *)
LEMMA SentSame ==
    ASSUME NEW S, NEW cls, NEW to, \A c \in S : to[c].results = cls[c].results
    PROVE  /\ \A f, t : Sent(S, to, f, t) = Sent(S, cls, f, t)
           /\ Sums(S, to) = Sums(S, cls)
<1>1. ASSUME NEW f, NEW t PROVE Sent(S, to, f, t) = Sent(S, cls, f, t)
  <2>1. \A c \in {x \in S : f \in FacetMap[x]} :
           {c} \X ReportMarks(c, to[c].results.query, f, t)
              = {c} \X ReportMarks(c, cls[c].results.query, f, t)
    OBVIOUS
  <2> QED  BY <2>1 DEF Sent
<1> QED  BY <1>1 DEF Sums

(* Nothing is reported: clients of U start with something to wait for, or  *)
(* none does.                                                              *)
LEMMA ToldOn ==
    ASSUME NEW st, NEW U, Told(st, U), NEW W \in SUBSET U, NEW to, Tallies(st.set, to.set),
           \A c \in Clients \ U : /\ to.client[c].active = st.client[c].active
                                  /\ to.client[c].results = st.client[c].results,
           \A c \in Clients \ W : Now(to.client[c]) => c \notin U /\ Now(st.client[c])
    PROVE  Told(to, W)
<1>1. PICK S \in SUBSET (Clients \ U) :
         /\ \A c \in S : st.client[c].active /\ Answered(st.client[c])
         /\ \A c \in Clients \ U : Now(st.client[c]) => c \in S
         /\ \A f \in Fields, t \in Terms : IsFiniteSet(Sent(S, st.client, f, t))
         /\ Tallied(st.set, Sums(S, st.client))
  BY DEF Told
<1>2. \A c \in S : to.client[c].active /\ Answered(to.client[c])
  BY <1>1 DEF Answered
<1>3. \A c \in Clients \ W : Now(to.client[c]) => c \in S
  BY <1>1
<1>4. /\ \A f, t : Sent(S, to.client, f, t) = Sent(S, st.client, f, t)
      /\ Sums(S, to.client) = Sums(S, st.client)
  <2>1. \A c \in S : to.client[c].results = st.client[c].results
    BY <1>1
  <2> DEFINE cls == st.client
             cls2 == to.client
  <2>2. \A c \in S : cls2[c].results = cls[c].results
    BY <2>1
  <2> HIDE DEF cls, cls2
  <2>3. (\A f, t : Sent(S, cls2, f, t) = Sent(S, cls, f, t)) /\ Sums(S, cls2) = Sums(S, cls)
    BY <2>2, SentSame
  <2> QED  BY <2>3 DEF cls, cls2
<1>5. Tallied(to.set, Sums(S, st.client))
  BY <1>1, SumsAre DEF Tallies
<1>6. S \in SUBSET (Clients \ W)
  BY <1>1
<1>7. /\ \A f \in Fields, t \in Terms : IsFiniteSet(Sent(S, to.client, f, t))
      /\ Tallied(to.set, Sums(S, to.client))
  BY <1>1, <1>4, <1>5
<1> QED  BY <1>2, <1>3, <1>6, <1>7 DEF Told

(* A target reports: that of a client that was still to start, and no      *)
(* longer is.                                                              *)
LEMMA ToldAlso ==
    ASSUME NEW st, NEW U, Told(st, U), NEW c \in U, c \in Clients, NEW to, NEW q \in Queries,
           to.client[c].active, Answered(to.client[c]), to.client[c].results.query = q,
           "facets" \in DOMAIN st.set, to.set = ReportFacets(st.set, c, q),
           \A k \in Clients : k # c => to.client[k] = st.client[k]
    PROVE  Told(to, U \ {c})
<1>1. PICK S \in SUBSET (Clients \ U) :
         /\ \A k \in S : st.client[k].active /\ Answered(st.client[k])
         /\ \A k \in Clients \ U : Now(st.client[k]) => k \in S
         /\ \A f \in Fields, t \in Terms : IsFiniteSet(Sent(S, st.client, f, t))
         /\ Tallied(st.set, Sums(S, st.client))
  BY DEF Told
<1> DEFINE S2 == S \cup {c}
           facets == ReportFacets(st.set, c, q).facets
<1>2. c \notin S /\ S2 \in SUBSET (Clients \ (U \ {c}))
  BY <1>1
<1>3. /\ \A k \in S2 : to.client[k].active /\ Answered(to.client[k])
      /\ \A k \in Clients \ (U \ {c}) : Now(to.client[k]) => k \in S2
  BY <1>1
<1>4. \A f, t : Sent(S, to.client, f, t) = Sent(S, st.client, f, t)
  <2>1. \A k \in S : to.client[k].results = st.client[k].results
    BY <1>1, <1>2
  <2> DEFINE cls == st.client
             cls2 == to.client
  <2>2. \A k \in S : cls2[k].results = cls[k].results
    BY <2>1
  <2> HIDE DEF cls, cls2
  <2>3. \A f, t : Sent(S, cls2, f, t) = Sent(S, cls, f, t)
    BY <2>2, SentSame
  <2> QED  BY <2>3 DEF cls, cls2
<1>5. /\ to.set = [st.set EXCEPT !.facets = facets] /\ facets \in Tables
      /\ \A g \in Fields, u \in Terms :
            /\ IsFiniteSet(ReportMarks(c, q, g, u)) /\ Cardinality(ReportMarks(c, q, g, u)) \in Nat
            /\ facets[g][u] = st.set.facets[g][u]
                  + (IF g \in FacetMap[c] THEN Cardinality(ReportMarks(c, q, g, u)) ELSE 0)
  <2>1. st.set.facets \in Tables
    BY <1>1 DEF Tallied
  <2> QED  BY <2>1, ReportFacetsIs
<1> HIDE DEF facets
<1>6. to.set.list = st.set.list /\ to.set.facets = facets
  BY <1>5
<1> HIDE DEF S2
<1>7. ASSUME NEW f \in Fields, NEW t \in Terms
      PROVE  /\ IsFiniteSet(Sent(S2, to.client, f, t))
             /\ Cardinality(Sent(S2, to.client, f, t)) =
                   Cardinality(Sent(S, st.client, f, t))
                      + (IF f \in FacetMap[c] THEN Cardinality(ReportMarks(c, q, f, t)) ELSE 0)
             /\ Cardinality(Sent(S, st.client, f, t)) \in Nat
  <2> DEFINE old == Sent(S, st.client, f, t)
             marks == ReportMarks(c, q, f, t)
             more == {c} \X marks
  <2>1. IsFiniteSet(old) /\ Cardinality(old) \in Nat
    BY <1>1, FS_CardinalityType
  <2>2. Sent(S2, to.client, f, t) = old \cup (IF f \in FacetMap[c] THEN more ELSE {})
    <3>1. Sent(S2, to.client, f, t) =
             Sent(S, to.client, f, t)
                \cup (IF f \in FacetMap[c] THEN {c} \X ReportMarks(c, to.client[c].results.query, f, t)
                      ELSE {})
      BY DEF Sent, S2
    <3> QED  BY <1>4, <3>1
  <2>3. old \cap more = {}
    <3> SUFFICES ASSUME NEW x \in old, x \in more PROVE FALSE
      OBVIOUS
    <3>1. PICK k \in S : x \in {k} \X ReportMarks(k, st.client[k].results.query, f, t)
      BY DEF Sent
    <3>2. x[1] = k /\ x[1] = c
      BY <3>1
    <3> QED  BY <1>2, <3>2
  <2>4. IsFiniteSet(more) /\ Cardinality(more) = Cardinality(marks) /\ Cardinality(marks) \in Nat
    BY <1>5, Tagged
  <2> HIDE DEF old, more, marks
  <2>5. /\ IsFiniteSet(old \cup more)
        /\ Cardinality(old \cup more) = Cardinality(old) + Cardinality(more)
    BY <2>1, <2>3, <2>4, Together
  <2>6. CASE f \in FacetMap[c]
    BY <2>1, <2>2, <2>4, <2>5, <2>6 DEF old, marks
  <2>7. CASE f \notin FacetMap[c]
    BY <2>1, <2>2, <2>7 DEF old
  <2> QED  BY <2>6, <2>7
<1>8. \A f \in Fields, t \in Terms :
         /\ Sums(S, st.client)[f][t] = Cardinality(Sent(S, st.client, f, t))
         /\ Sums(S2, to.client)[f][t] = Cardinality(Sent(S2, to.client, f, t))
  BY <1>1, <1>7, SumsAre
<1>9. Tallied(to.set, Sums(S2, to.client))
  <2> SUFFICES ASSUME NEW f \in Fields, NEW t \in Terms
               PROVE  /\ IsFiniteSet(Found(to.set.list, f, t))
                      /\ to.set.facets[f][t] = Cardinality(Found(to.set.list, f, t))
                                                  + Sums(S2, to.client)[f][t]
    BY <1>5, <1>6 DEF Tallied
  <2> DEFINE n == Cardinality(Found(st.set.list, f, t))
             sum == Cardinality(Sent(S, st.client, f, t))
             more == IF f \in FacetMap[c] THEN Cardinality(ReportMarks(c, q, f, t)) ELSE 0
  <2>1. IsFiniteSet(Found(st.set.list, f, t)) /\ st.set.facets[f][t] = n + sum
    BY <1>1, <1>8 DEF Tallied
  <2>2. n \in Nat
    BY <2>1, FS_CardinalityType
  <2>3. more \in Nat /\ facets[f][t] = st.set.facets[f][t] + more
    BY <1>5
  <2>4. sum \in Nat /\ Sums(S2, to.client)[f][t] = sum + more
    BY <1>7, <1>8
  <2>5. IsFiniteSet(Found(to.set.list, f, t)) /\ Cardinality(Found(to.set.list, f, t)) = n
    BY <1>6, <2>1
  <2> HIDE DEF n, sum, more
  <2>6. to.set.facets[f][t] = n + Sums(S2, to.client)[f][t]
    BY <1>6, <2>1, <2>2, <2>3, <2>4
  <2> QED  BY <2>5, <2>6
<1>10. \A f \in Fields, t \in Terms : IsFiniteSet(Sent(S2, to.client, f, t))
  BY <1>7
<1> QED  BY <1>2, <1>3, <1>9, <1>10 DEF Told, S2

(* A client that has no answer yet may as well be one that is to start.    *)
LEMMA ToldLess ==
    ASSUME NEW st, Told(st, {}), NEW c \in Clients, ~ Answered(st.client[c])
    PROVE  Told(st, {c})
<1>1. PICK S \in SUBSET (Clients \ {}) :
         /\ \A k \in S : st.client[k].active /\ Answered(st.client[k])
         /\ \A k \in Clients \ {} : Now(st.client[k]) => k \in S
         /\ \A f \in Fields, t \in Terms : IsFiniteSet(Sent(S, st.client, f, t))
         /\ Tallied(st.set, Sums(S, st.client))
  BY DEF Told
<1>2. S \in SUBSET (Clients \ {c})
  BY <1>1
<1> QED  BY <1>1, <1>2 DEF Told

(* Only a list and the facets are told about; ranks and orders do not      *)
(* matter.                                                                 *)
LEMMA SameTallies ==
    ASSUME NEW s, NEW to, to.facets = s.facets, to.list.clusters = s.list.clusters
    PROVE  Tallies(s, to)
<1>1. \A f, t : Found(to.list, f, t) = Found(s.list, f, t)
  <2>1. Lives(to.list) = Lives(s.list)
    BY DEF Lives
  <2>2. \A i : Recs(to.list, i) = Recs(s.list, i)
    BY DEF Recs
  <2>3. All(to.list) = All(s.list)
    BY <2>1, <2>2 DEF All
  <2> QED  BY <2>3 DEF Found
<1> QED  BY <1>1 DEF Tallies, Tallied

(* An empty list, of which nothing was told.                               *)
LEMMA EmptyTold ==
    ASSUME NEW cls, NEW U, \A c \in Clients \ U : ~ Now(cls[c])
    PROVE  Told([set |-> EmptySet, client |-> cls], U)
<1> DEFINE st == [set |-> EmptySet, client |-> cls]
           list == EmptyList
<1>1. /\ st.client = cls /\ st.set.list = list
      /\ st.set.facets = [f \in Fields |-> [t \in Terms |-> 0]]
  BY DEF EmptySet
<1>2. Lives(list) = {}
  BY DEF EmptyList, Lives
<1> HIDE DEF list, st
<1>3. All(list) = {}
  BY <1>2 DEF All
<1>4. IsFiniteSet({}) /\ Cardinality({}) = 0
  BY FS_EmptySet
<1>5. \A f, t : Sent({}, cls, f, t) = {} /\ Found(list, f, t) = {}
  BY <1>3 DEF Sent, Found
<1>6. \A f \in Fields, t \in Terms : IsFiniteSet(Sent({}, cls, f, t)) /\ Sums({}, cls)[f][t] = 0
  BY <1>4, <1>5 DEF Sums
<1>7. Tallied(st.set, Sums({}, cls))
  BY <1>1, <1>4, <1>5, <1>6 DEF Tallied, Tables
<1>8. /\ {} \in SUBSET (Clients \ U)
      /\ \A c \in {} : st.client[c].active /\ Answered(st.client[c])
      /\ \A c \in Clients \ U : Now(st.client[c]) => c \in {}
      /\ \A f \in Fields, t \in Terms : IsFiniteSet(Sent({}, st.client, f, t))
      /\ Tallied(st.set, Sums({}, st.client))
  BY <1>1, <1>6, <1>7
<1>9. Told(st, U)
  BY <1>8 DEF Told
<1> QED  BY <1>9 DEF st

(* What does not change when a record comes in.                            *)
Alike(cl, to) ==
    /\ to.active = cl.active /\ to.conn = cl.conn /\ to.state = cl.state /\ to.same = cl.same
    /\ to.query = cl.query /\ to.sort = cl.sort /\ to.results = cl.results
    /\ to.startrecs = cl.startrecs

LEMMA AlikeSame ==
    ASSUME NEW cl, NEW to, Alike(cl, to), NEW c
    PROVE  /\ Answered(to) = Answered(cl) /\ Busy(to) = Busy(cl) /\ Now(to) = Now(cl)
           /\ Docs(c, to) = Docs(c, cl) /\ Matched(to) = Matched(cl)
  BY DEF Alike, Answered, Busy, Now, Docs, Matched

(* What is there of other clients stays.                                   *)
LEMMA WholeOn ==
    ASSUME NEW list, NEW to, Follows(list, to), NEW sess, NEW c, NEW cl, Whole(list, sess, c, cl)
    PROVE  Whole(to, sess, c, cl)
<1>1. Full(list, sess, c, cl) => Full(to, sess, c, cl)
  BY GotOn DEF Full
<1> QED  BY <1>1 DEF Whole

(* One more position, and what is there of it.                             *)
Grown(st, sess, c, cl, pos, cl2, to) ==
    /\ cl = st.client[c] /\ DOMAIN st.client = Clients /\ cl.offset \in Nat /\ cl.startrecs \in Nat
    /\ Answered(cl) => cl.startrecs <= cl.offset
    /\ Alike(cl, cl2) /\ cl2.offset = cl.offset + 1 /\ Known(c, cl2) /\ pos = cl.offset + 1
    /\ to.client = [st.client EXCEPT ![c] = cl2]
    /\ Once(to.set.list) /\ Follows(st.set.list, to.set.list)
    /\ \A r : Held(to.set.list, r) =>
          \/ Held(st.set.list, r)
          \/ /\ r.client = c /\ r.pos = pos
             /\ cl.active /\ Answered(cl) /\ pos \in DOMAIN Docs(c, cl)
             /\ \E j \in KeptBy(sess.limit, c, Docs(c, cl)[pos]) : Docs(c, cl)[pos].subs[j].md = r.md
    /\ cl.active /\ Answered(cl) /\ pos \in DOMAIN Docs(c, cl) =>
          \A j \in KeptBy(sess.limit, c, Docs(c, cl)[pos]) :
             Got(to.set.list, sess, c, pos, Docs(c, cl)[pos], j)

(* The record of one more position.                                        *)
LEMMA OneMore ==
    ASSUME NEW st, NEW sess, NEW U, U \subseteq Clients, StepExact(st, sess, U),
           NEW c \in Clients \ U, NEW cl, NEW pos, NEW cl2, NEW to,
           Grown(st, sess, c, cl, pos, cl2, to)
    PROVE  StepExact(to, sess, U) /\ (Answered(cl2) => cl2.startrecs <= cl2.offset)
<1> USE DEF Grown
<1> DEFINE old == st.set.list
           list == to.set.list
<1>1. to.client[c] = cl2 /\ \A k \in Clients : k # c => to.client[k] = st.client[k]
  OBVIOUS
<1>2. /\ Answered(cl2) = Answered(cl) /\ Busy(cl2) = Busy(cl) /\ Now(cl2) = Now(cl)
      /\ Docs(c, cl2) = Docs(c, cl) /\ Matched(cl2) = Matched(cl)
      /\ cl2.startrecs = cl.startrecs /\ cl2.active = cl.active /\ cl2.same = cl.same
  BY AlikeSame DEF Alike
<1>3. /\ \A p : p \in cl2.startrecs + 1 .. cl2.offset => p \in cl.startrecs + 1 .. cl.offset \/ p = pos
      /\ \A p : p \in cl.startrecs + 1 .. cl.offset => p \in cl2.startrecs + 1 .. cl2.offset
      /\ Answered(cl) => cl2.startrecs <= cl2.offset /\ pos \in cl2.startrecs + 1 .. cl2.offset
  BY <1>2
<1>4. /\ Owned(old, sess.limit, st.client) /\ \A k \in Clients : Known(k, st.client[k])
      /\ \A k \in Clients \ U : Whole(old, sess, k, st.client[k])
      /\ \A k \in U : NoneOf(old, k) /\ (st.client[k].same => Matched(st.client[k]))
  BY DEF StepExact
<1>5. Owned(list, sess.limit, to.client)
  <2> SUFFICES ASSUME NEW r, Held(list, r)
               PROVE  r.client \in Clients /\ Belongs(r, sess.limit, r.client, to.client[r.client])
    BY DEF Owned
  <2>1. CASE Held(old, r)
    <3>1. r.client \in Clients /\ Belongs(r, sess.limit, r.client, st.client[r.client])
      BY <1>4, <2>1 DEF Owned
    <3>2. CASE r.client # c
      <4>1. to.client[r.client] = st.client[r.client]
        BY ONLY <1>1, <3>1, <3>2
      <4> QED  BY ONLY <3>1, <4>1
    <3>3. CASE r.client = c
      <4>1. Belongs(r, sess.limit, c, cl)
        BY <3>1, <3>3
      <4>2. /\ cl2.active /\ Answered(cl2) /\ Docs(c, cl2) = Docs(c, cl)
            /\ r.pos \in cl2.startrecs + 1 .. cl2.offset
        BY <1>2, <1>3, <4>1 DEF Belongs
      <4>3. Belongs(r, sess.limit, c, cl2)
        BY ONLY <4>1, <4>2 DEF Belongs
      <4>4. c \in Clients /\ to.client[c] = cl2
        BY <1>1
      <4> QED  BY ONLY <3>3, <4>3, <4>4
    <3> QED  BY ONLY <3>2, <3>3
  <2>2. CASE /\ r.client = c /\ r.pos = pos
             /\ cl.active /\ Answered(cl) /\ pos \in DOMAIN Docs(c, cl)
             /\ \E j \in KeptBy(sess.limit, c, Docs(c, cl)[pos]) : Docs(c, cl)[pos].subs[j].md = r.md
    <3>1. /\ r.pos \in cl2.startrecs + 1 .. cl2.offset /\ r.pos \in DOMAIN Docs(c, cl2)
          /\ cl2.active /\ Answered(cl2)
      BY <1>2, <1>3, <2>2
    <3>2. \E j \in KeptBy(sess.limit, c, Docs(c, cl2)[r.pos]) : Docs(c, cl2)[r.pos].subs[j].md = r.md
      BY ONLY <1>2, <2>2
    <3>3. Belongs(r, sess.limit, c, cl2)
      BY ONLY <3>1, <3>2 DEF Belongs
    <3> QED  BY <1>1, <2>2, <3>3
  <2> QED  BY <2>1, <2>2
<1>6. \A k \in Clients : Known(k, to.client[k])
  BY <1>1, <1>4
<1>7. ASSUME NEW k \in Clients \ U PROVE Whole(list, sess, k, to.client[k])
  <2>1. Whole(old, sess, k, st.client[k])
    BY <1>4
  <2>2. CASE k # c
    BY <1>1, <2>1, <2>2, WholeOn
  <2>3. CASE k = c
    <3>1. Whole(list, sess, c, cl)
      BY <2>1, <2>3, WholeOn
    <3>2. Matched(cl2) /\ (Busy(cl2) /\ Answered(cl2) => cl2.startrecs <= cl2.offset)
      BY <1>2, <1>3, <3>1 DEF Whole
    <3>3. ASSUME Now(cl2) PROVE Full(list, sess, c, cl2)
      <4> SUFFICES ASSUME NEW p \in cl2.startrecs + 1 .. cl2.offset, p \in DOMAIN Docs(c, cl),
                          NEW j \in KeptBy(sess.limit, c, Docs(c, cl)[p])
                   PROVE  Got(list, sess, c, p, Docs(c, cl)[p], j)
        BY <1>2 DEF Full
      <4>1. CASE p \in cl.startrecs + 1 .. cl.offset
        <5>1. Full(list, sess, c, cl)
          BY <1>2, <3>1, <3>3 DEF Whole
        <5> QED  BY <4>1, <5>1 DEF Full
      <4>2. CASE p = pos
        BY <1>2, <3>3, <4>2 DEF Now
      <4> QED  BY <1>3, <4>1, <4>2
    <3> QED  BY <1>1, <2>3, <3>2, <3>3 DEF Whole
  <2> QED  BY <2>2, <2>3
<1>8. ASSUME NEW k \in U
      PROVE  NoneOf(list, k) /\ (to.client[k].same => Matched(to.client[k]))
  <2>1. NoneOf(list, k)
    BY <1>4 DEF NoneOf
  <2> QED  BY <1>1, <1>4, <2>1
<1> QED  BY <1>2, <1>3, <1>5, <1>6, <1>7, <1>8 DEF StepExact

(* The document at a position is that of the result set, if there is one.  *)
LEMMA DocumentIs ==
    ASSUME NEW c, NEW cl, Known(c, cl), NEW pos
    PROVE  /\ Answered(cl) /\ pos \in DOMAIN Docs(c, cl) => DocumentAt(c, cl, pos) = {Docs(c, cl)[pos]}
           /\ ~(Answered(cl) /\ pos \in DOMAIN Docs(c, cl)) => DocumentAt(c, cl, pos) = {}
<1> DEFINE cached == CachedDocs(cl, pos)
<1>1. \A d \in cached : Answered(cl) /\ pos \in DOMAIN Docs(c, cl) /\ d = Docs(c, cl)[pos]
  <2> SUFFICES ASSUME NEW d \in cached
               PROVE  Answered(cl) /\ pos \in DOMAIN Docs(c, cl) /\ d = Docs(c, cl)[pos]
    OBVIOUS
  <2>1. PICK p \in cl.xdocs : p[1] = pos /\ d = p[2]
    BY DEF CachedDocs
  <2> QED  BY <2>1 DEF Known
<1>2. DocumentAt(c, cl, pos) =
         IF cached # {} THEN cached
         ELSE IF Answered(cl) /\ pos \in DOMAIN Docs(c, cl) THEN {Docs(c, cl)[pos]} ELSE {}
  BY DEF DocumentAt, Answered
<1> HIDE DEF cached
<1> QED  BY <1>1, <1>2

(* What is told is not of the records.                                     *)
LEMMA OneTold ==
    ASSUME NEW st, DOMAIN st.client = Clients, NEW U, NEW c \in Clients, NEW cl,
           Alike(st.client[c], cl), NEW to, to.client = [st.client EXCEPT ![c] = cl],
           Tallies(st.set, to.set)
    PROVE  Told(st, U) => Told(to, U)
<1> SUFFICES ASSUME Told(st, U) PROVE Told(to, U)
  OBVIOUS
<1>1. ASSUME NEW k \in Clients
      PROVE  /\ to.client[k].active = st.client[k].active
             /\ to.client[k].results = st.client[k].results
             /\ Now(to.client[k]) = Now(st.client[k])
  <2>1. CASE k = c
    <3>1. to.client[k] = cl /\ Now(cl) = Now(st.client[c])
      BY <2>1, AlikeSame
    <3> QED  BY <2>1, <3>1 DEF Alike
  <2>2. CASE k # c
    BY <2>2
  <2> QED  BY <2>1, <2>2
<1> DEFINE W == U \cap Clients
<1>2. Told(to, W)
  <2>1. W \in SUBSET U
    OBVIOUS
  <2>2. \A k \in Clients \ W : Now(to.client[k]) => k \notin U /\ Now(st.client[k])
    BY <1>1
  <2>3. \A k \in Clients \ U : /\ to.client[k].active = st.client[k].active
                               /\ to.client[k].results = st.client[k].results
    BY <1>1
  <2> HIDE DEF W
  <2> QED  BY <2>1, <2>2, <2>3, ToldOn
<1>3. Clients \ W = Clients \ U
  OBVIOUS
<1> QED  BY <1>2, <1>3 DEF Told

(* client_record_ingest.                                                   *)
LEMMA RecordIngestExact ==
    ASSUME NEW st, StepOk(st), NEW sess, sess.mergekey \in SessionKeys,
           NEW U, U \subseteq Clients, StepExact(st, sess, U), NEW c \in Clients \ U,
           Answered(st.client[c]) => st.client[c].startrecs <= st.client[c].offset
    PROVE  LET to == RecordIngest(st, sess, c)
           IN  /\ StepExact(to, sess, U) /\ Alike(st.client[c], to.client[c])
               /\ Told(st, U) => Told(to, U)
               /\ Answered(to.client[c]) => to.client[c].startrecs <= to.client[c].offset
<1> DEFINE cl == st.client[c]
           pos == cl.offset + 1
           docs == DocumentAt(c, cl, pos)
           doc == CHOOSE d \in docs : TRUE
           done == IngestDoc(st.set, sess, c, pos, doc, cl.query)
           stored == StoreDoc(cl, pos, doc)
           cl2 == [stored EXCEPT !.offset = @ + 1,
                                 !.failures = IF done.rc = "failed" THEN @ + 1 ELSE @,
                                 !.filtered = IF done.rc = "filtered" THEN @ + 1 ELSE @]
           to == RecordIngest(st, sess, c)
           asked == Asked(st.client)
<1>1. /\ DOMAIN st = {"set", "client"} /\ SetGood(st.set, asked) /\ ClientsOk(st.client)
      /\ ClientOk(c, cl) /\ DOMAIN st.client = Clients /\ cl.query = asked[c] /\ c \in Clients
  BY DEF StepOk, ClientsOk, Asked
<1>2. to = IF ~ cl.active \/ docs = {} THEN [st EXCEPT !.client[c].offset = @ + 1]
           ELSE [set |-> done.set, client |-> [st.client EXCEPT ![c] = cl2]]
  BY DEF RecordIngest
<1>3. /\ cl.offset \in Nat /\ cl.startrecs \in Nat /\ DOMAIN cl = ClientParts /\ Known(c, cl)
      /\ Once(st.set.list) /\ Owned(st.set.list, sess.limit, st.client)
  BY <1>1 DEF ClientOk, StepExact
<1>4. /\ Answered(cl) /\ pos \in DOMAIN Docs(c, cl) => docs = {Docs(c, cl)[pos]}
      /\ ~(Answered(cl) /\ pos \in DOMAIN Docs(c, cl)) => docs = {}
  BY <1>3, DocumentIs
<1> HIDE DEF to, docs, done, stored, asked
<1>5. CASE ~ cl.active \/ docs = {}
  <2> DEFINE cl3 == [cl EXCEPT !.offset = @ + 1]
             list == st.set.list
  <2>1. /\ to.set = st.set /\ to.client = [st.client EXCEPT ![c] = cl3]
    BY <1>1, <1>2, <1>5
  <2>2. Alike(cl, cl3) /\ cl3.offset = cl.offset + 1 /\ cl3.xdocs = cl.xdocs
    BY <1>3 DEF ClientParts, Alike
  <2> HIDE DEF cl3
  <2>3. Known(c, cl3)
    BY <1>3, <2>2, AlikeSame DEF Known, Alike
  <2>4. Follows(list, list)
    BY DEF Follows
  <2>5. ~(cl.active /\ Answered(cl) /\ pos \in DOMAIN Docs(c, cl))
    BY <1>4, <1>5
  <2>6. to.client[c] = cl3
    BY <1>1, <2>1
  <2> HIDE DEF cl, pos
  <2>7. StepExact(to, sess, U) /\ (Answered(cl3) => cl3.startrecs <= cl3.offset)
    <3>1. cl = st.client[c] /\ pos = cl.offset + 1
      BY DEF cl, pos
    <3>2. Answered(cl) => cl.startrecs <= cl.offset
      BY DEF cl
    <3>3. Grown(st, sess, c, cl, pos, cl3, to)
      BY <1>1, <1>3, <2>1, <2>2, <2>3, <2>4, <2>5, <3>1, <3>2 DEF Grown
    <3> QED  BY <3>3, OneMore
  <2>8. Told(st, U) => Told(to, U)
    BY <1>1, <2>1, <2>2, OneTold DEF cl, Tallies
  <2> QED  BY <2>2, <2>6, <2>7, <2>8 DEF to, cl
<1>6. CASE cl.active /\ docs # {}
  <2> DEFINE doc1 == Docs(c, cl)[pos]
             list == st.set.list
  <2>1. Answered(cl) /\ pos \in DOMAIN Docs(c, cl) /\ doc = doc1 /\ docs = {doc1}
    <3>1. Answered(cl) /\ pos \in DOMAIN Docs(c, cl) /\ docs = {doc1}
      BY <1>4, <1>6
    <3>2. doc \in docs
      BY <1>6
    <3> HIDE DEF doc, doc1
    <3> QED  BY <3>1, <3>2
  <2>2. Fetchable(c, pos, doc)
    <3>1. doc \in DocumentAt(c, cl, pos)
      BY <2>1 DEF docs
    <3> HIDE DEF doc
    <3> QED  BY <1>1, <3>1, DocumentFetchable
  <2> HIDE DEF doc, doc1
  <2>3. /\ Added(list, done.set.list, sess, c, pos, doc, KeptBy(sess.limit, c, doc))
        /\ Tallies(st.set, done.set)
    <3>1. done = IngestDoc(st.set, sess, c, pos, doc, asked[c])
      BY <1>1 DEF done
    <3>2. \A r : Held(list, r) /\ r.client = c => r.pos \in Int /\ r.pos < pos
      <4> SUFFICES ASSUME NEW r, Held(list, r), r.client = c
                   PROVE  r.pos \in Int /\ r.pos < pos
        OBVIOUS
      <4>1. Belongs(r, sess.limit, c, cl)
        BY <1>3 DEF Owned
      <4>2. r.pos \in cl.startrecs + 1 .. cl.offset
        BY <4>1 DEF Belongs
      <4> QED  BY <1>3, <4>2
    <3>3. pos \in Int
      BY <1>3
    <3> HIDE DEF cl, pos
    <3> QED  BY <1>1, <1>3, <2>2, <3>1, <3>2, <3>3, IngestDocExact
  <2>4. stored = cl \/ stored = [cl EXCEPT !.xdocs = {p \in @ : p[1] # pos} \cup {<<pos, doc>>}]
    BY DEF StoreDoc, stored
  <2>5. Alike(cl, cl2) /\ cl2.offset = cl.offset + 1
        /\ (cl2.xdocs = cl.xdocs \/ cl2.xdocs = {p \in cl.xdocs : p[1] # pos} \cup {<<pos, doc>>})
    BY <1>3, <2>4 DEF ClientParts, Alike
  <2>6. to.set = done.set /\ to.client = [st.client EXCEPT ![c] = cl2]
    BY <1>2, <1>6
  <2> HIDE DEF cl2
  <2>7. Known(c, cl2)
    <3>1. /\ Answered(cl2) = Answered(cl) /\ Docs(c, cl2) = Docs(c, cl)
          /\ cl2.conn = cl.conn /\ cl2.results = cl.results
      BY <2>5, AlikeSame DEF Alike
    <3>2. \A p \in cl2.xdocs : p \in cl.xdocs \/ (p[1] = pos /\ p[2] = doc)
      BY <2>5
    <3> QED  BY <1>3, <2>1, <3>1, <3>2 DEF Known, doc1
  <2>8. to.client[c] = cl2
    BY <1>1, <2>6
  <2>9. StepExact(to, sess, U) /\ (Answered(cl2) => cl2.startrecs <= cl2.offset)
    <3> HIDE DEF cl, pos
    <3>1. cl = st.client[c] /\ pos = cl.offset + 1
      BY DEF cl, pos
    <3>2. Answered(cl) => cl.startrecs <= cl.offset
      BY DEF cl
    <3>3. Once(to.set.list) /\ Follows(list, to.set.list)
      BY <2>3, <2>6 DEF Added
    <3>4. \A r : Held(to.set.list, r) =>
             \/ Held(list, r)
             \/ /\ r.client = c /\ r.pos = pos
                /\ cl.active /\ Answered(cl) /\ pos \in DOMAIN Docs(c, cl)
                /\ \E j \in KeptBy(sess.limit, c, doc) : doc.subs[j].md = r.md
      <4>1. \A r : Held(to.set.list, r) =>
               \/ Held(list, r)
               \/ r.client = c /\ r.pos = pos /\ \E j \in KeptBy(sess.limit, c, doc) : doc.subs[j].md = r.md
        BY <2>3, <2>6 DEF Added, Held
      <4> QED  BY <1>6, <2>1, <4>1
    <3>5. \A j \in KeptBy(sess.limit, c, doc) : Got(to.set.list, sess, c, pos, doc, j)
      BY <2>3, <2>6 DEF Added
    <3>6. doc = Docs(c, cl)[pos]
      BY <2>1 DEF doc1
    <3>7. \A r : Held(to.set.list, r) =>
             \/ Held(st.set.list, r)
             \/ /\ r.client = c /\ r.pos = pos
                /\ cl.active /\ Answered(cl) /\ pos \in DOMAIN Docs(c, cl)
                /\ \E j \in KeptBy(sess.limit, c, Docs(c, cl)[pos]) : Docs(c, cl)[pos].subs[j].md = r.md
      BY <3>4, <3>6
    <3>8. \A j \in KeptBy(sess.limit, c, Docs(c, cl)[pos]) :
             Got(to.set.list, sess, c, pos, Docs(c, cl)[pos], j)
      BY <3>5, <3>6
    <3>9. Once(to.set.list) /\ Follows(st.set.list, to.set.list)
      BY <3>3 DEF list
    <3>10. Alike(cl, cl2) /\ cl2.offset = cl.offset + 1 /\ to.client = [st.client EXCEPT ![c] = cl2]
      BY <2>5, <2>6
    <3>11. DOMAIN st.client = Clients /\ cl.offset \in Nat /\ cl.startrecs \in Nat
      BY <1>1, <1>3
    <3>12. cl.active /\ Answered(cl) /\ pos \in DOMAIN Docs(c, cl) =>
              \A j \in KeptBy(sess.limit, c, Docs(c, cl)[pos]) :
                 Got(to.set.list, sess, c, pos, Docs(c, cl)[pos], j)
      BY <3>8
    <3> HIDE DEF list, to
    <3>13. Grown(st, sess, c, cl, pos, cl2, to)
      BY <2>7, <3>1, <3>2, <3>7, <3>9, <3>10, <3>11, <3>12 DEF Grown
    <3> QED  BY <3>13, OneMore
  <2>10. Told(st, U) => Told(to, U)
    BY <1>1, <2>3, <2>5, <2>6, OneTold DEF cl
  <2> QED  BY <2>5, <2>8, <2>9, <2>10 DEF to, cl
<1> QED  BY <1>5, <1>6
-----------------------------------------------------------------------------
(* A client of those that are still to start, with nothing to start from,  *)
(* has its part.                                                           *)
LEMMA StartsExact ==
    ASSUME NEW st, NEW sess, NEW U, U \subseteq Clients, StepExact(st, sess, U),
           DOMAIN st.client = Clients, NEW c \in U, NEW cl, Known(c, cl),
           Whole(st.set.list, sess, c, cl),
           NEW to, to.client = [st.client EXCEPT ![c] = cl], to.set.list = st.set.list
    PROVE  StepExact(to, sess, U \ {c})
<1> DEFINE list == st.set.list
<1>1. to.client[c] = cl /\ \A k \in Clients : k # c => to.client[k] = st.client[k]
  OBVIOUS
<1>2. /\ Once(list) /\ Owned(list, sess.limit, st.client) /\ \A k \in Clients : Known(k, st.client[k])
      /\ \A k \in Clients \ U : Whole(list, sess, k, st.client[k])
      /\ \A k \in U : NoneOf(list, k) /\ (st.client[k].same => Matched(st.client[k]))
  BY DEF StepExact
<1> HIDE DEF list
<1>3. Owned(list, sess.limit, to.client)
  <2> SUFFICES ASSUME NEW r, Held(list, r)
               PROVE  r.client \in Clients /\ Belongs(r, sess.limit, r.client, to.client[r.client])
    BY DEF Owned
  <2>1. r.client # c
    BY <1>2 DEF NoneOf
  <2>2. r.client \in Clients /\ Belongs(r, sess.limit, r.client, st.client[r.client])
    BY <1>2 DEF Owned
  <2> QED  BY <1>1, <2>1, <2>2
<1>4. \A k \in Clients : Known(k, to.client[k])
  BY <1>1, <1>2
<1>5. \A k \in Clients \ (U \ {c}) : Whole(list, sess, k, to.client[k])
  BY <1>1, <1>2 DEF list
<1>6. \A k \in U \ {c} : NoneOf(list, k) /\ (to.client[k].same => Matched(to.client[k]))
  BY <1>1, <1>2
<1> QED  BY <1>2, <1>3, <1>4, <1>5, <1>6 DEF StepExact, list

(* client_reingest.                                                        *)
LEMMA ReingestExact ==
    ASSUME NEW st, StepOk(st), NEW sess, sess.mergekey \in SessionKeys,
           NEW U, U \subseteq Clients, StepExact(st, sess, U), NEW c \in U, st.client[c].same,
           Told(st, U \ {c})
    PROVE  StepExact(Reingest(st, sess, c), sess, U \ {c}) /\ Told(Reingest(st, sess, c), U \ {c})
<1> DEFINE cl == st.client[c]
           cl2 == [cl EXCEPT !.failures = 0, !.filtered = 0, !.offset = cl.startrecs]
           start == [st EXCEPT !.client[c] = cl2]
           L == [i \in 1 .. cl.offset - cl.startrecs |-> i]
           m == IF cl.offset > cl.startrecs THEN cl.offset - cl.startrecs ELSE 0
           to == Reingest(st, sess, c)
           W == U \ {c}
<1>1. /\ DOMAIN st = {"set", "client"} /\ SetGood(st.set, Asked(st.client)) /\ ClientsOk(st.client)
      /\ ClientOk(c, cl) /\ DOMAIN st.client = Clients /\ c \in Clients
  BY DEF StepOk, ClientsOk
<1>2. cl.offset \in Nat /\ cl.startrecs \in Nat /\ DOMAIN cl = ClientParts
  BY <1>1 DEF ClientOk
<1>3. m \in Nat /\ DOMAIN L = 1 .. m
  BY <1>2
<1>4. to = AgainOver(start, L, sess, c)
  BY DEF Reingest, AgainOver
<1>5. ClientOk(c, cl2) /\ Stays(cl, cl2)
  BY <1>1 DEF ClientOk, ClientParts, Stays
<1>6. Alike(cl, cl2) /\ cl2.offset = cl.startrecs /\ cl2.xdocs = cl.xdocs /\ cl2.startrecs \in Nat
  BY <1>2 DEF ClientParts, Alike
<1> HIDE DEF L, m, to
<1>7. /\ DOMAIN start = {"set", "client"} /\ start.set = st.set
      /\ start.client = [st.client EXCEPT ![c] = cl2] /\ start.client[c] = cl2
  BY <1>1
<1>8. Known(c, cl) /\ Matched(cl)
  BY <1>1 DEF StepExact
<1> HIDE DEF start, cl2
<1>9. StepOk(start)
  <2>1. ClientsOk(start.client) /\ SameSearch(st.client, start.client)
    BY <1>1, <1>5, <1>7, ClientsKeep
  <2>2. Asked(start.client) = Asked(st.client)
    BY <2>1, SameAsked
  <2> QED  BY <1>1, <1>7, <2>1, <2>2 DEF StepOk
<1>10. StepExact(start, sess, W)
  <2>1. Known(c, cl2) /\ Matched(cl2)
    <3> HIDE DEF cl
    <3>1. /\ Answered(cl2) = Answered(cl) /\ Docs(c, cl2) = Docs(c, cl) /\ Matched(cl2) = Matched(cl)
          /\ cl2.conn = cl.conn /\ cl2.results = cl.results
      BY <1>6, AlikeSame DEF Alike
    <3> QED  BY <1>6, <1>8, <3>1 DEF Known
  <2>2. cl2.startrecs <= cl2.offset /\ cl2.startrecs + 1 .. cl2.offset = {}
    BY <1>2, <1>6 DEF Alike
  <2>3. Whole(st.set.list, sess, c, cl2)
    BY <2>1, <2>2 DEF Whole, Full
  <2> HIDE DEF cl
  <2>4. start.set.list = st.set.list
    BY <1>7
  <2> QED  BY <1>1, <1>7, <2>1, <2>3, <2>4, StartsExact
<1>16. Told(start, W)
  <2>1. Tallies(st.set, start.set)
    BY <1>7 DEF Tallies
  <2>2. DOMAIN st.client = Clients /\ c \in Clients /\ Alike(st.client[c], cl2)
    BY <1>1, <1>6
  <2>3. start.client = [st.client EXCEPT ![c] = cl2]
    BY <1>7
  <2> HIDE DEF W, cl
  <2>4. Told(st, W) => Told(start, W)
    BY ONLY <2>1, <2>2, <2>3, OneTold
  <2> QED  BY <2>4 DEF W
<1>11. Answered(start.client[c]) => start.client[c].startrecs <= start.client[c].offset
  BY <1>2, <1>6, <1>7 DEF Alike
<1>12. PICK h : /\ h[0] = start
                /\ \A k \in 1 .. m : h[k] = RecordIngest(h[k - 1], sess, c)
                /\ to = h[m]
  <2> HIDE DEF W, cl
  <2> QED  BY ONLY <1>3, <1>4, AgainFold
<1> DEFINE Ahead(s) == Answered(s.client[c]) => s.client[c].startrecs <= s.client[c].offset
           T == {k \in 0 .. m : /\ StepOk(h[k]) /\ StepExact(h[k], sess, W) /\ Ahead(h[k])
                                /\ Told(h[k], W)}
<1>13. 0 \in T
  BY <1>3, <1>9, <1>10, <1>11, <1>12, <1>16
<1>14. ASSUME NEW k \in 1 .. m, k - 1 \in T PROVE k \in T
  <2> DEFINE was == h[k - 1]
             next == RecordIngest(was, sess, c)
  <2>1. StepOk(was) /\ StepExact(was, sess, W) /\ Ahead(was) /\ Told(was, W)
    BY <1>14
  <2>2. h[k] = next
    BY <1>12
  <2>3. W \subseteq Clients /\ c \in Clients \ W
    BY <1>1
  <2> HIDE DEF was, W
  <2>4. StepOk(next)
    BY <1>1, <2>1, RecordIngestKeeps
  <2>5. StepExact(next, sess, W) /\ Ahead(next) /\ Told(next, W)
    BY <2>1, <2>3, RecordIngestExact
  <2> HIDE DEF next, Ahead
  <2> QED  BY <1>3, <2>2, <2>4, <2>5
<1> HIDE DEF T
<1>15. m \in T
  BY <1>3, <1>13, <1>14, UpTo
<1> QED  BY <1>12, <1>15 DEF T, to

(* A client that starts has nothing to tell.                               *)
LEMMA WaitTold ==
    ASSUME NEW st, DOMAIN st.client = Clients, NEW U, U \subseteq Clients, Told(st, U),
           NEW c \in U, NEW cl, ~ Now(cl),
           NEW to, to.client = [st.client EXCEPT ![c] = cl], to.set = st.set
    PROVE  Told(to, U \ {c})
<1>1. to.client[c] = cl /\ \A k \in Clients : k # c => to.client[k] = st.client[k]
  OBVIOUS
<1>2. Tallies(st.set, to.set)
  BY DEF Tallies
<1>3. \A k \in Clients \ U : /\ to.client[k].active = st.client[k].active
                             /\ to.client[k].results = st.client[k].results
  BY <1>1
<1>4. \A k \in Clients \ (U \ {c}) : Now(to.client[k]) => k \notin U /\ Now(st.client[k])
  BY <1>1
<1> QED  BY <1>2, <1>3, <1>4, ToldOn

(* client_start_search.                                                    *)
LEMMA StartSearchExact ==
    ASSUME NEW st, StepOk(st), NEW sess, sess.mergekey \in SessionKeys,
           NEW U, U \subseteq Clients, StepExact(st, sess, U), NEW c \in U, NEW connect,
           Told(st, U), st.client[c].active
    PROVE  /\ StepExact(StartSearch(st, sess, c, connect), sess, U \ {c})
           /\ Told(StartSearch(st, sess, c, connect), U \ {c})
<1> DEFINE cl == st.client[c]
           reported == ReportFacets(st.set, c, cl.results.query)
           st2 == [st EXCEPT !.set = IF cl.results.answered THEN reported ELSE @]
           sent == SendSearch(cl)
           idle == [cl EXCEPT !.failures = 0, !.filtered = 0,
                              !.state = IF connect = "full" THEN @ ELSE "Disconnected"]
           to == StartSearch(st, sess, c, connect)
<1>1. /\ DOMAIN st = {"set", "client"} /\ SetGood(st.set, Asked(st.client)) /\ ClientsOk(st.client)
      /\ ClientOk(c, cl) /\ DOMAIN st.client = Clients /\ DOMAIN cl = ClientParts /\ c \in Clients
  BY DEF StepOk, ClientsOk, ClientOk
<1>2. to = IF cl.same /\ cl.conn THEN Reingest(st2, sess, c)
           ELSE IF cl.conn \/ connect = "made" THEN [st EXCEPT !.client[c] = sent]
           ELSE [st EXCEPT !.client[c] = idle]
  BY DEF StartSearch
<1>3. StepOk(st2) /\ st2.client = st.client /\ st2.set.list = st.set.list
  <2>1. SetGood(reported, Asked(st.client))
    BY <1>1, ReportFacetsKeeps
  <2>2. DOMAIN st.set = {"list", "records", "merged", "facets", "rel"}
    BY <1>1 DEF SetGood
  <2>3. reported.list = st.set.list
    BY <2>2 DEF ReportFacets
  <2> HIDE DEF reported
  <2>4. DOMAIN st2 = DOMAIN st /\ st2.client = st.client /\ (st2.set = reported \/ st2.set = st.set)
    BY <1>1
  <2> QED  BY <1>1, <2>1, <2>3, <2>4 DEF StepOk
<1>4. Known(c, cl)
  BY <1>1 DEF StepExact
<1>8. Told(st, U) /\ cl.active
  OBVIOUS
<1>9. st2.set = IF cl.results.answered THEN reported ELSE st.set
  BY <1>1
<1> HIDE DEF st2, to
<1>5. CASE cl.same /\ cl.conn
  <2>1. StepExact(st2, sess, U)
    BY <1>3 DEF StepExact
  <2>3. Told(st2, U \ {c})
    <3> HIDE DEF cl, reported
    <3>1. cl.results # None
      BY <1>4, <1>5 DEF Known
    <3>2. CASE cl.results.answered
      <4>1. Answered(cl) /\ cl.results.query \in Queries
        BY <1>1, <3>1, <3>2 DEF Answered, ClientOk, ResultsOk
      <4>2. "facets" \in DOMAIN st.set
        BY <1>1 DEF SetGood
      <4>3. st2.set = ReportFacets(st.set, c, cl.results.query)
        BY <1>9, <3>2 DEF reported
      <4>4. st2.client[c] = cl /\ \A k \in Clients : st2.client[k] = st.client[k]
        BY <1>3 DEF cl
      <4> QED  BY <1>1, <1>8, <4>1, <4>2, <4>3, <4>4, ToldAlso
    <3>3. CASE ~ cl.results.answered
      <4>1. st2.client[c] = cl /\ \A k \in Clients : st2.client[k] = st.client[k]
        BY <1>3 DEF cl
      <4>2. Tallies(st.set, st2.set)
        BY <1>9, <3>3 DEF Tallies
      <4>3. ~ Now(cl)
        BY <3>3 DEF Now, Answered
      <4>4. \A k \in Clients \ (U \ {c}) : Now(st2.client[k]) => k \notin U /\ Now(st.client[k])
        BY <4>1, <4>3
      <4> QED  BY <1>8, <4>1, <4>2, <4>4, ToldOn
    <3> QED  BY <3>2, <3>3
  <2>2. /\ StepExact(Reingest(st2, sess, c), sess, U \ {c})
        /\ Told(Reingest(st2, sess, c), U \ {c})
    BY <1>3, <1>5, <2>1, <2>3, ReingestExact
  <2> QED  BY <1>2, <1>5, <2>2 DEF to
<1>6. CASE ~(cl.same /\ cl.conn) /\ (cl.conn \/ connect = "made")
  <2>1. /\ sent.query = cl.query /\ sent.sort = cl.sort /\ sent.xdocs = {}
        /\ sent.results = [query |-> cl.query, sort |-> cl.sort, answered |-> FALSE]
    BY <1>1 DEF SendSearch, ClientParts
  <2> HIDE DEF sent, cl
  <2>2. sent.results # None /\ ~ sent.results.answered
    <3>1. DOMAIN sent.results = {"query", "sort", "answered"} /\ DOMAIN None = {"none"}
      BY <2>1 DEF None
    <3>2. "query" \in DOMAIN sent.results /\ "query" \notin DOMAIN None
      BY <3>1
    <3> QED  BY <2>1, <3>2
  <2>3. Known(c, sent) /\ Whole(st.set.list, sess, c, sent) /\ ~ Now(sent)
    BY <2>1, <2>2 DEF Known, Whole, Now, Matched, Answered
  <2>4. to.client = [st.client EXCEPT ![c] = sent] /\ to.set = st.set
    BY <1>1, <1>2, <1>6
  <2>5. to.set.list = st.set.list
    BY <2>4
  <2>6. StepExact(to, sess, U \ {c})
    BY <1>1, <2>3, <2>4, <2>5, StartsExact
  <2>7. Told(to, U \ {c})
    BY <1>1, <1>8, <2>3, <2>4, WaitTold
  <2> QED  BY <2>6, <2>7 DEF to
<1>7. CASE ~(cl.same /\ cl.conn) /\ ~(cl.conn \/ connect = "made")
  <2>1. idle.results = cl.results /\ ~ idle.conn /\ idle.xdocs = cl.xdocs
    BY <1>1, <1>7 DEF ClientParts
  <2> HIDE DEF idle, cl
  <2>2. Answered(idle) = Answered(cl) /\ Docs(c, idle) = Docs(c, cl)
    BY <2>1 DEF Answered, Docs
  <2>3. Known(c, idle) /\ Whole(st.set.list, sess, c, idle) /\ ~ Now(idle)
    BY <1>4, <2>1, <2>2 DEF Known, Whole, Now, Matched, Busy
  <2>4. to.client = [st.client EXCEPT ![c] = idle] /\ to.set = st.set
    BY <1>1, <1>2, <1>7
  <2>5. to.set.list = st.set.list
    BY <2>4
  <2>6. StepExact(to, sess, U \ {c})
    BY <1>1, <2>3, <2>4, <2>5, StartsExact
  <2>7. Told(to, U \ {c})
    BY <1>1, <1>8, <2>3, <2>4, WaitTold
  <2> QED  BY <2>6, <2>7 DEF to
<1> QED  BY <1>5, <1>6, <1>7

(* The clients of a set, each once.                                        *)
LEMMA InOrderAll ==
    ASSUME NEW S, S \subseteq Clients
    PROVE  LET L == InOrder(S)
           IN  /\ \A i, k \in DOMAIN L : L[i] = L[k] => i = k
               /\ Elems(L) = S
<1>1. IsFiniteSet(S)
  BY ClientsAssumption, FS_Subset
<1> QED  BY <1>1, SetToSeqAll DEF InOrder

(* The clients start one after the other.                                  *)
LEMMA StartAllExact ==
    ASSUME NEW st, StepOk(st), NEW sess, sess.mergekey \in SessionKeys,
           NEW S, S \subseteq Clients, \A c \in S : st.client[c].active, NEW connect,
           StepExact(st, sess, S), Told(st, S)
    PROVE  /\ StepExact(StartAll(st, sess, S, connect), sess, {})
           /\ Told(StartAll(st, sess, S, connect), {})
<1> DEFINE L == InOrder(S)
           m == Len(L)
           to == StartAll(st, sess, S, connect)
<1>1. IsSeq(L) /\ Elems(L) = S /\ \A i, k \in DOMAIN L : L[i] = L[k] => i = k
  BY InOrderIs, InOrderAll
<1> HIDE DEF L
<1>2. m \in Nat /\ DOMAIN L = 1 .. m /\ \A k \in 1 .. m : L[k] \in S
  BY <1>1, SeqIs
<1>3. to = StartOver(st, L, sess, connect)
  BY DEF StartAll, StartOver, L
<1> HIDE DEF m, to
<1>4. PICK h : /\ h[0] = st
               /\ \A k \in 1 .. m : h[k] = StartStep(h[k - 1], L[k], sess, connect)
               /\ to = h[m]
  BY <1>2, <1>3, StartFold
<1> DEFINE U(k) == S \ {L[j] : j \in 1 .. k}
           T == {k \in 0 .. m : /\ StepOk(h[k]) /\ SameSearch(st.client, h[k].client)
                                /\ StepExact(h[k], sess, U(k)) /\ Told(h[k], U(k))}
<1>5. 0 \in T
  <2>1. U(0) = S
    OBVIOUS
  <2>2. SameSearch(st.client, st.client)
    BY DEF SameSearch, Stays
  <2> HIDE DEF U
  <2> QED  BY <1>2, <1>4, <2>1, <2>2
<1>6. ASSUME NEW k \in 1 .. m, k - 1 \in T PROVE k \in T
  <2> DEFINE was == h[k - 1]
             next == StartSearch(was, sess, L[k], connect[L[k]])
             u == U(k - 1)
  <2>1. StepOk(was) /\ SameSearch(st.client, was.client) /\ StepExact(was, sess, u)
        /\ Told(was, u)
    BY <1>6
  <2>2. h[k] = next
    BY <1>4 DEF StartStep
  <2>3. u \subseteq Clients /\ L[k] \in u /\ U(k) = u \ {L[k]}
    <3>1. \A j \in 1 .. k - 1 : j \in 1 .. m /\ j # k
      BY <1>2
    <3>2. \A j \in 1 .. k - 1 : L[j] # L[k]
      BY <1>1, <1>2, <3>1
    <3>3. \A j : j \in 1 .. k <=> j \in 1 .. k - 1 \/ j = k
      BY <1>2
    <3> QED  BY <1>2, <3>2, <3>3
  <2> HIDE DEF was, u, U
  <2>4. L[k] \in Clients /\ was.client[L[k]].active
    BY <1>2, <2>1 DEF SameSearch, Stays
  <2>5. StepOk(next) /\ SameSearch(was.client, next.client)
    BY <2>1, <2>4, StartSearchKeeps
  <2>6. StepExact(next, sess, U(k)) /\ Told(next, U(k))
    BY <2>1, <2>3, <2>4, StartSearchExact
  <2> HIDE DEF next
  <2>7. SameSearch(st.client, next.client)
    BY <2>1, <2>5 DEF SameSearch, Stays
  <2> QED  BY <1>2, <2>2, <2>5, <2>6, <2>7
<1>7. U(m) = {}
  BY <1>1, <1>2 DEF Elems
<1> HIDE DEF T
<1>8. m \in T
  BY <1>2, <1>5, <1>6, UpTo
<1>9. StepExact(to, sess, {}) /\ Told(to, {})
  <2> HIDE DEF U
  <2> QED  BY <1>4, <1>7, <1>8 DEF T
<1> QED  BY <1>9 DEF to
-----------------------------------------------------------------------------
(* What the commands and events keep: no client is left to start.          *)
ExactInv ==
    /\ StepExact([set |-> set, client |-> client], session, {})
    /\ Told([set |-> set, client |-> client], {})

(* What may happen to a client whose records stay as they are.             *)
Calm(cl, to) ==
    /\ to.active = cl.active /\ to.results = cl.results /\ to.xdocs = cl.xdocs
    /\ to.startrecs = cl.startrecs /\ to.offset = cl.offset
    /\ to.conn => cl.conn
    /\ Busy(to) => Busy(cl)
    /\ Matched(cl) => Matched(to)

LEMMA CalmIs ==
    ASSUME NEW c, NEW cl, NEW to, Calm(cl, to)
    PROVE  /\ Answered(to) = Answered(cl) /\ Docs(c, to) = Docs(c, cl)
           /\ Now(to) => Now(cl)
           /\ Known(c, cl) => Known(c, to)
<1>1. Answered(to) = Answered(cl) /\ Docs(c, to) = Docs(c, cl)
  BY DEF Calm, Answered, Docs
<1>2. Now(to) => Now(cl)
  BY <1>1 DEF Calm, Now
<1>3. Known(c, cl) => Known(c, to)
  BY <1>1 DEF Calm, Known
<1> QED  BY <1>1, <1>2, <1>3

(* The order in which clusters are shown does not matter, and of the       *)
(* session only the merge key and the limits do.                           *)
LEMMA CalmExact ==
    ASSUME NEW st, NEW sess, StepExact(st, sess, {}),
           NEW to, \A c \in Clients : Calm(st.client[c], to.client[c]),
           to.set.list.clusters = st.set.list.clusters,
           NEW sess2, sess2.mergekey = sess.mergekey, sess2.limit = sess.limit
    PROVE  StepExact(to, sess2, {})
<1> DEFINE list == st.set.list
           list2 == to.set.list
<1>1. /\ Lives(list2) = Lives(list)
      /\ \A i : Recs(list2, i) = Recs(list, i) /\ KeySet(list2, i) = KeySet(list, i)
  BY DEF Lives, Recs, KeySet
<1>2. \A r : Held(list2, r) <=> Held(list, r)
  BY <1>1 DEF Held
<1>3. Once(list2)
  BY <1>1 DEF StepExact, Once
<1>4. \A doc, c, pos : MergeKeys(sess2, doc, c, pos) = MergeKeys(sess, doc, c, pos)
  BY DEF MergeKeys, MergeKey
<1>5. \A c, pos, doc, j : Got(list2, sess2, c, pos, doc, j) <=> Got(list, sess, c, pos, doc, j)
  <2> HIDE DEF list, list2
  <2> QED  BY <1>1, <1>4 DEF Got
<1>6. /\ Owned(list, sess.limit, st.client) /\ \A c \in Clients : Known(c, st.client[c])
      /\ \A c \in Clients : Whole(list, sess, c, st.client[c])
  BY DEF StepExact
<1> HIDE DEF list, list2
<1>7. Owned(list2, sess2.limit, to.client)
  <2> SUFFICES ASSUME NEW r, Held(list2, r)
               PROVE  r.client \in Clients /\ Belongs(r, sess2.limit, r.client, to.client[r.client])
    BY DEF Owned
  <2> DEFINE c == r.client
             cl == st.client[c]
             cl2 == to.client[c]
  <2>1. c \in Clients /\ Belongs(r, sess.limit, c, cl)
    BY <1>2, <1>6 DEF Owned
  <2>2. Calm(cl, cl2)
    BY <2>1
  <2> HIDE DEF cl, cl2
  <2>3. Answered(cl2) = Answered(cl) /\ Docs(c, cl2) = Docs(c, cl)
    BY <2>2, CalmIs
  <2>4. cl2.active = cl.active /\ cl2.startrecs = cl.startrecs /\ cl2.offset = cl.offset
    BY <2>2 DEF Calm
  <2>5. Belongs(r, sess2.limit, c, cl2)
    BY <2>1, <2>3, <2>4 DEF Belongs
  <2> QED  BY <2>1, <2>5 DEF cl2
<1>8. ASSUME NEW c \in Clients
      PROVE  Known(c, to.client[c]) /\ Whole(list2, sess2, c, to.client[c])
  <2> DEFINE cl == st.client[c]
             cl2 == to.client[c]
  <2>1. Calm(cl, cl2) /\ Known(c, cl) /\ Whole(list, sess, c, cl)
    BY <1>6
  <2> HIDE DEF cl, cl2
  <2>2. /\ Answered(cl2) = Answered(cl) /\ Docs(c, cl2) = Docs(c, cl) /\ Known(c, cl2)
        /\ Now(cl2) => Now(cl)
    BY <2>1, CalmIs
  <2>3. cl2.startrecs = cl.startrecs /\ cl2.offset = cl.offset /\ (Busy(cl2) => Busy(cl))
        /\ (Matched(cl) => Matched(cl2))
    BY <2>1 DEF Calm
  <2>4. Full(list, sess, c, cl) => Full(list2, sess2, c, cl2)
    BY <1>5, <2>2, <2>3 DEF Full
  <2>5. Whole(list2, sess2, c, cl2)
    BY <2>1, <2>2, <2>3, <2>4 DEF Whole
  <2> QED  BY <2>2, <2>5 DEF cl2
<1> QED  BY <1>3, <1>7, <1>8 DEF StepExact, list2

(* Nor do they for what is told.                                           *)
LEMMA CalmTold ==
    ASSUME NEW st, Told(st, {}), NEW to, \A c \in Clients : Calm(st.client[c], to.client[c]),
           to.set.list.clusters = st.set.list.clusters, to.set.facets = st.set.facets
    PROVE  Told(to, {})
<1>1. Tallies(st.set, to.set)
  BY SameTallies
<1>2. \A c \in Clients \ {} : /\ to.client[c].active = st.client[c].active
                              /\ to.client[c].results = st.client[c].results
  BY DEF Calm
<1>3. ASSUME NEW c \in Clients \ {}, Now(to.client[c]) PROVE c \notin {} /\ Now(st.client[c])
  <2> DEFINE cl == st.client[c]
             cl2 == to.client[c]
  <2>1. Calm(cl, cl2) /\ Now(cl2)
    BY <1>3
  <2> HIDE DEF cl, cl2
  <2>2. Now(cl)
    BY <2>1, CalmIs
  <2> QED  BY <2>2 DEF cl
<1> QED  BY <1>1, <1>2, <1>3, ToldOn

(* A list that is empty.                                                   *)
LEMMA EmptyExact ==
    ASSUME NEW cls, NEW sess, NEW U,
           \A c \in Clients : Known(c, cls[c]),
           \A c \in Clients \ U :
              /\ Matched(cls[c]) /\ ~ Now(cls[c])
              /\ Busy(cls[c]) /\ Answered(cls[c]) => cls[c].startrecs <= cls[c].offset,
           \A c \in U : cls[c].same => Matched(cls[c])
    PROVE  StepExact([set |-> EmptySet, client |-> cls], sess, U)
<1> DEFINE st == [set |-> EmptySet, client |-> cls]
           list == EmptyList
<1>1. st.client = cls /\ st.set.list = list
  BY DEF EmptySet
<1>2. Lives(list) = {}
  BY DEF EmptyList, Lives
<1> HIDE DEF list
<1>3. Once(list) /\ \A r : ~ Held(list, r)
  BY <1>2 DEF Once, Held
<1>4. Owned(list, sess.limit, cls) /\ \A c : NoneOf(list, c)
  BY <1>3 DEF Owned, NoneOf
<1>5. \A c \in Clients \ U : Whole(list, sess, c, cls[c])
  BY DEF Whole
<1> HIDE DEF st
<1>6. StepExact(st, sess, U)
  BY <1>1, <1>3, <1>4, <1>5 DEF StepExact
<1> QED  BY <1>6 DEF st

(* A client whose search is prepared: what it has, and whether that is     *)
(* what it is asked for.                                                   *)
Parsed(cl, to) ==
    /\ to.conn = cl.conn /\ to.state = cl.state /\ to.results = cl.results /\ to.xdocs = cl.xdocs
    /\ to.same => cl.query = to.query /\ (to.sort = None \/ to.sort = cl.sort)

LEMMA ParsedIs ==
    ASSUME NEW c, NEW cl, NEW to, Parsed(cl, to), Known(c, cl), Matched(cl)
    PROVE  Known(c, to) /\ Busy(to) = Busy(cl) /\ (to.same => Matched(to))
<1>1. Answered(to) = Answered(cl) /\ Docs(c, to) = Docs(c, cl) /\ Busy(to) = Busy(cl)
  BY DEF Parsed, Answered, Docs, Busy
<1>2. Known(c, to)
  BY <1>1 DEF Parsed, Known
<1>3. to.same => Matched(to)
  BY <1>1 DEF Parsed, Matched
<1> QED  BY <1>1, <1>2, <1>3

(* client_parse_sort.                                                      *)
LEMMA ParseSortParsed ==
    ASSUME NEW c, NEW cl, DOMAIN cl = ClientParts, NEW sp
    PROVE  LET to == ParseSort(c, cl, sp)
           IN  /\ DOMAIN to = ClientParts
               /\ to.conn = cl.conn /\ to.state = cl.state /\ to.results = cl.results
               /\ to.xdocs = cl.xdocs /\ to.query = cl.query /\ to.active = cl.active
               /\ to.startrecs = cl.startrecs /\ to.offset = cl.offset
               /\ to.same => cl.same /\ (to.sort = None \/ to.sort = cl.sort)
<1> DEFINE sort == NativeSort(sp)
           to == ParseSort(c, cl, sp)
<1>1. \/ to = [cl EXCEPT !.sort = None]
      \/ to = [cl EXCEPT !.same = @ /\ cl.sort = sort, !.sort = sort]
  BY DEF ParseSort
<1> HIDE DEF sort, to
<1>2. CASE to = [cl EXCEPT !.sort = None]
  BY <1>2 DEF to, ClientParts
<1>3. CASE to = [cl EXCEPT !.same = @ /\ cl.sort = sort, !.sort = sort]
  <2> DEFINE still == cl.same /\ cl.sort = sort
  <2>1. to = [cl EXCEPT !.same = still, !.sort = sort]
    BY <1>3
  <2> HIDE DEF still
  <2>2. /\ DOMAIN to = ClientParts
        /\ to.conn = cl.conn /\ to.state = cl.state /\ to.results = cl.results
        /\ to.xdocs = cl.xdocs /\ to.query = cl.query /\ to.active = cl.active
        /\ to.startrecs = cl.startrecs /\ to.offset = cl.offset
        /\ to.same = still /\ to.sort = sort
    BY <2>1 DEF ClientParts
  <2> QED  BY <2>2 DEF to, still
<1> QED  BY <1>1, <1>2, <1>3

(* client_parse_query, client_parse_range, client_parse_sort.              *)
LEMMA PrepareParsed ==
    ASSUME NEW c, DOMAIN client[c] = ClientParts, NEW query, NEW sp, NEW range
    PROVE  Parsed(client[c], Prepare(c, query, sp, range))
<1> DEFINE cl == client[c]
           cl1 == [cl EXCEPT !.same = TRUE]
           still2 == cl1.same /\ cl1.query = query
           cl2 == ParseQuery(cl1, query)
           cl3 == ParseRange(cl2, range)
           still3 == cl2.same /\ cl2.startrecs = range.start /\ cl2.maxrecs = range.max
           cl4 == ParseSort(c, cl3, Head(sp))
           cl5 == [cl4 EXCEPT !.active = TRUE]
           Has(to) == /\ DOMAIN to = ClientParts
                      /\ to.conn = cl.conn /\ to.state = cl.state /\ to.results = cl.results
                      /\ to.xdocs = cl.xdocs /\ to.sort = cl.sort
<1>1. Has(cl1) /\ cl1.query = cl.query
  BY DEF ClientParts
<1> HIDE DEF cl1, still2
<1>2. Has(cl2) /\ cl2.query = query /\ (cl2.same => cl.query = query)
  <2>1. cl2 = [cl1 EXCEPT !.same = still2, !.query = query]
    BY DEF ParseQuery, still2
  <2> HIDE DEF cl2, cl
  <2>2. Has(cl2) /\ cl2.query = query /\ cl2.same = still2
    BY <1>1, <2>1 DEF ClientParts
  <2> QED  BY <1>1, <2>2 DEF still2
<1> HIDE DEF cl2, still3
<1>3. Has(cl3) /\ cl3.query = query /\ (cl3.same => cl.query = query)
  <2>1. \/ cl3 = cl2
        \/ cl3 = [cl2 EXCEPT !.same = still3, !.startrecs = range.start, !.maxrecs = range.max]
    BY DEF ParseRange, still3
  <2> HIDE DEF cl3, cl
  <2>2. CASE cl3 = cl2
    BY <1>2, <2>2
  <2>3. CASE cl3 = [cl2 EXCEPT !.same = still3, !.startrecs = range.start, !.maxrecs = range.max]
    <3>1. Has(cl3) /\ cl3.query = cl2.query /\ cl3.same = still3
      BY <1>2, <2>3 DEF ClientParts
    <3> QED  BY <1>2, <3>1 DEF still3
  <2> QED  BY <2>1, <2>2, <2>3
<1> HIDE DEF cl3, cl
<1>4. /\ DOMAIN cl4 = ClientParts /\ cl4.conn = cl.conn /\ cl4.state = cl.state
      /\ cl4.results = cl.results /\ cl4.xdocs = cl.xdocs /\ cl4.query = query
      /\ cl4.same => cl.query = query /\ (cl4.sort = None \/ cl4.sort = cl.sort)
  BY <1>3, ParseSortParsed
<1> HIDE DEF cl4
<1>5. Parsed(cl, cl5)
  BY <1>4 DEF Parsed, ClientParts
<1>6. Prepare(c, query, sp, range) = cl5
  BY DEF Prepare, cl, cl1, cl2, cl3, cl4
<1> HIDE DEF cl5
<1> QED  BY <1>5, <1>6 DEF cl
-----------------------------------------------------------------------------
(* Every state starts from an empty list, ...                              *)
LEMMA ExactInit == Init => ExactInv
<1> SUFFICES ASSUME Init PROVE ExactInv
  OBVIOUS
<1> DEFINE cl == FreshClient
<1>1. cl.results = None /\ cl.xdocs = {} /\ ~ cl.conn
  BY DEF FreshClient
<1>2. set = EmptySet /\ client = [c \in Clients |-> cl]
  BY DEF Init
<1> HIDE DEF cl
<1>3. ~ Answered(cl) /\ ~ Busy(cl)
  BY <1>1 DEF Answered, Busy
<1>4. Matched(cl) /\ ~ Now(cl) /\ \A c \in Clients : Known(c, cl)
  BY <1>1, <1>3 DEF Matched, Now, Known
<1>5. \A c \in Clients : client[c] = cl
  BY <1>2
<1>6. StepExact([set |-> EmptySet, client |-> client], session, {})
  BY <1>3, <1>4, <1>5, EmptyExact
<1>7. Told([set |-> EmptySet, client |-> client], {})
  BY <1>4, <1>5, EmptyTold
<1> QED  BY <1>2, <1>6, <1>7 DEF ExactInv

(* same_search does not matter when all have started.                      *)
LEMMA DoneExact ==
    ASSUME NEW st, NEW sess, StepExact(st, sess, {}), Told(st, {}), ClientsOk(st.client),
           set' = st.set, client' = Done(st.client),
           session'.mergekey = sess.mergekey, session'.limit = sess.limit
    PROVE  ExactInv'
<1>1. ASSUME NEW c \in Clients PROVE Calm(st.client[c], client'[c])
  <2> DEFINE cl == st.client[c]
             cl2 == [cl EXCEPT !.same = FALSE]
  <2>1. client'[c] = cl2 /\ DOMAIN cl = ClientParts
    BY DEF Done, ClientsOk, ClientOk
  <2> HIDE DEF cl
  <2>2. Calm(cl, cl2)
    BY <2>1 DEF Calm, ClientParts, Busy, Matched
  <2> QED  BY <2>1, <2>2 DEF cl
<1> DEFINE to == [set |-> set', client |-> client']
<1>2. to.client = client' /\ to.set = set'
  OBVIOUS
<1> HIDE DEF to
<1>3. \A c \in Clients : Calm(st.client[c], to.client[c])
  BY <1>1, <1>2
<1>4. to.set.list.clusters = st.set.list.clusters
  BY <1>2
<1>5. StepExact(to, session', {})
  BY <1>3, <1>4, CalmExact
<1>6. Told(to, {})
  BY <1>2, <1>3, <1>4, CalmTold
<1> QED  BY <1>5, <1>6 DEF ExactInv, to

(* A step in which no record comes in.                                     *)
LEMMA CalmStep ==
    ASSUME ExactInv, \A c \in Clients : Calm(client[c], client'[c]),
           set'.list.clusters = set.list.clusters, set'.facets = set.facets,
           session'.mergekey = session.mergekey, session'.limit = session.limit
    PROVE  ExactInv'
<1> DEFINE st == [set |-> set, client |-> client]
           to == [set |-> set', client |-> client']
<1>1. StepExact(st, session, {}) /\ Told(st, {}) /\ st.client = client /\ st.set = set
      /\ to.client = client' /\ to.set = set'
  BY DEF ExactInv
<1> HIDE DEF st, to
<1>2. StepExact(to, session', {}) /\ Told(to, {})
  <2>1. \A c \in Clients : Calm(st.client[c], to.client[c])
    BY <1>1
  <2>2. to.set.list.clusters = st.set.list.clusters
    BY <1>1
  <2>3. StepExact(to, session', {})
    BY <1>1, <2>1, <2>2, CalmExact
  <2>4. Told(to, {})
    BY <1>1, <2>1, <2>2, CalmTold
  <2> QED  BY <2>3, <2>4
<1> QED  BY <1>2 DEF ExactInv, to

(* What the invariant says of each client.                                 *)
LEMMA ExactClient ==
    ASSUME ExactInv, RecordsInv, NEW c \in Clients
    PROVE  /\ Known(c, client[c]) /\ Matched(client[c]) /\ ClientOk(c, client[c])
           /\ DOMAIN client[c] = ClientParts
           /\ Busy(client[c]) /\ Answered(client[c]) => client[c].startrecs <= client[c].offset
<1> DEFINE st == [set |-> set, client |-> client]
<1>1. StepExact(st, session, {}) /\ st.client = client
  BY DEF ExactInv
<1> HIDE DEF st
<1>2. Known(c, client[c]) /\ Whole(st.set.list, session, c, client[c])
  BY <1>1 DEF StepExact
<1>3. ClientOk(c, client[c])
  BY DEF RecordsInv, ClientsOk
<1> QED  BY <1>2, <1>3 DEF Whole, ClientOk

(* ... a search keeps it exact, ...                                        *)
LEMMA SearchExact == RecordsInv /\ ExactInv /\ Search => ExactInv'
<1> SUFFICES ASSUME RecordsInv, ExactInv, NEW r \in Searches, NEW connect,
                    SessionSearch(r.targets, r.query, r.sort, r.limit, r.range, r.mergekey, connect)
             PROVE  ExactInv'
  BY DEF Search
<1> DEFINE S == r.targets
           sess0 == WithMergeKey(session, r.mergekey)
           force == Cardinality(S) = 1 /\ \A c \in S : Head(r.sort).field \in SortMap[c]
           sess == [sess0 EXCEPT !.limit = r.limit, !.sorted = {Head(r.sort)}, !.searched = TRUE,
                                 !.force = force]
           prepared == [c \in Clients |-> IF c \in S THEN Prepare(c, r.query, r.sort, r.range)
                                          ELSE [client[c] EXCEPT !.active = FALSE]]
           start == [set |-> ClearSet, client |-> prepared]
           st == StartAll(start, sess, S, connect)
<1>1. session' = sess /\ set' = st.set /\ client' = Done(st.client)
  BY DEF SessionSearch
<1>2. S \subseteq Clients
  BY SearchesAssumption
<1>3. sess.mergekey \in SessionKeys
  <2>1. DOMAIN sess0 = DOMAIN session /\ sess0.mergekey \in SessionKeys
    BY MergeKeyKept DEF RecordsInv
  <2> HIDE DEF sess0, force
  <2> QED  BY <2>1 DEF RecordsInv, SessionOk
<1>4. ASSUME NEW c \in Clients
      PROVE  /\ ClientOk(c, prepared[c]) /\ (c \in S => prepared[c].active)
             /\ Known(c, prepared[c])
             /\ c \in S => (prepared[c].same => Matched(prepared[c]))
             /\ c \notin S => /\ Matched(prepared[c]) /\ ~ Now(prepared[c])
                              /\ Busy(prepared[c]) /\ Answered(prepared[c])
                                    => prepared[c].startrecs <= prepared[c].offset
  <2>1. /\ Known(c, client[c]) /\ Matched(client[c]) /\ ClientOk(c, client[c])
        /\ DOMAIN client[c] = ClientParts
        /\ Busy(client[c]) /\ Answered(client[c]) => client[c].startrecs <= client[c].offset
    BY ExactClient
  <2>2. CASE c \in S
    <3> DEFINE cl == Prepare(c, r.query, r.sort, r.range)
    <3>1. prepared[c] = cl
      BY <2>2
    <3>2. Parsed(client[c], cl) /\ ClientOk(c, cl) /\ cl.active
      BY <2>1, PrepareParsed, PrepareKeeps DEF RecordsInv
    <3> HIDE DEF cl, prepared
    <3>3. Known(c, cl) /\ (cl.same => Matched(cl))
      BY <2>1, <3>2, ParsedIs
    <3> QED  BY <2>2, <3>1, <3>2, <3>3
  <2>3. CASE c \notin S
    <3> DEFINE old == client[c]
               cl == [old EXCEPT !.active = FALSE]
    <3>1. prepared[c] = cl
      BY <2>3
    <3> HIDE DEF prepared, old
    <3>2. /\ cl.conn = old.conn /\ cl.state = old.state /\ cl.results = old.results
          /\ cl.xdocs = old.xdocs /\ cl.query = old.query /\ cl.sort = old.sort /\ ~ cl.active
          /\ cl.startrecs = old.startrecs /\ cl.offset = old.offset
      BY <2>1 DEF ClientParts, old
    <3>3. ClientOk(c, cl)
      BY <2>1 DEF ClientOk, ClientParts, old
    <3> HIDE DEF cl
    <3>4. Answered(cl) = Answered(old) /\ Busy(cl) = Busy(old) /\ Docs(c, cl) = Docs(c, old)
      BY <3>2 DEF Answered, Busy, Docs
    <3>5. Known(c, cl) /\ Matched(cl) /\ ~ Now(cl)
      BY <2>1, <3>2, <3>4 DEF Known, Matched, Now, old
    <3> QED  BY <2>1, <2>3, <3>1, <3>2, <3>3, <3>4, <3>5 DEF old
  <2> QED  BY <2>2, <2>3
<1>5. DOMAIN prepared = Clients
  OBVIOUS
<1> HIDE DEF prepared, S
<1>6. ClientsOk(prepared) /\ \A c \in S : prepared[c].active
  BY <1>2, <1>4, <1>5 DEF ClientsOk
<1>7. StepOk(start)
  BY <1>6, EmptyGood DEF StepOk, ClearSet
<1>8. session'.mergekey = sess.mergekey /\ session'.limit = sess.limit
  BY <1>1
<1> HIDE DEF sess
<1>9. StepExact(start, sess, S)
  BY <1>2, <1>4, EmptyExact DEF ClearSet
<1>12. Told(start, S)
  BY <1>4, EmptyTold DEF ClearSet
<1>10. StepOk(st) /\ StepExact(st, sess, {}) /\ Told(st, {})
  <2>1. \A c \in S : start.client[c].active
    BY <1>6
  <2> HIDE DEF start
  <2> QED  BY <1>2, <1>3, <1>7, <1>9, <1>12, <2>1, StartAllKeeps, StartAllExact
<1> HIDE DEF st
<1>11. ClientsOk(st.client)
  BY <1>10 DEF StepOk
<1> QED  BY <1>1, <1>8, <1>10, <1>11, DoneExact

(* ... so does a sort, ...                                                 *)
LEMMA SortExact == RecordsInv /\ ExactInv /\ SortAgain => ExactInv'
<1> SUFFICES ASSUME RecordsInv, ExactInv, NEW r \in Sorts, NEW connect,
                    SessionSort(r.sort, r.mergekey, connect)
             PROVE  ExactInv'
  BY DEF SortAgain
<1> DEFINE sp == r.sort
           mk == r.mergekey
           newKey == mk # <<>> /\ Head(mk) # session.mergekey
           sess == WithMergeKey(session, r.mergekey)
           parsed == [c \in Clients |->
                        IF client[c].active
                        THEN ParseSort(c, [client[c] EXCEPT !.same = TRUE], Head(sp))
                        ELSE client[c]]
           research == newKey \/ \E c \in Active : ~parsed[c].same
           running == {c \in Active : client[c].state \in {"Working", "Idle"}}
           start == [set |-> ClearSet, client |-> parsed]
           st == StartAll(start, sess, running, connect)
<1>1. \/ UNCHANGED vars
      \/ /\ ~ research
         /\ session' = [sess EXCEPT !.sorted = @ \cup {Head(sp)}] /\ client' = Done(parsed)
         /\ UNCHANGED set
      \/ /\ session' = [sess EXCEPT !.sorted = {Head(sp)}, !.force = FALSE]
         /\ set' = st.set /\ client' = Done(st.client)
  BY DEF SessionSort
<1>2. /\ DOMAIN sess = DOMAIN session /\ sess.mergekey \in SessionKeys
      /\ sess.limit = session.limit /\ (~ newKey => sess.mergekey = session.mergekey)
  <2>1. DOMAIN sess = DOMAIN session /\ sess.mergekey \in SessionKeys
    BY MergeKeyKept DEF RecordsInv
  <2>2. sess = IF mk = <<>> THEN session ELSE [session EXCEPT !.mergekey = Head(mk)]
    BY DEF WithMergeKey
  <2>3. DOMAIN session = {"mergekey", "limit", "sorted", "force", "searched"}
    BY DEF RecordsInv, SessionOk
  <2> HIDE DEF sess, mk
  <2>4. sess.limit = session.limit /\ (~ newKey => sess.mergekey = session.mergekey)
    BY <2>2, <2>3
  <2> QED  BY <2>1, <2>4
<1> HIDE DEF sess, newKey
<1>3. ASSUME NEW c \in Clients
      PROVE  /\ ClientOk(c, parsed[c]) /\ Stays(client[c], parsed[c]) /\ Known(c, parsed[c])
             /\ Busy(parsed[c]) = Busy(client[c])
             /\ client[c].active /\ parsed[c].same => Matched(parsed[c])
             /\ ~ client[c].active => Matched(parsed[c])
             /\ parsed[c].startrecs = client[c].startrecs /\ parsed[c].offset = client[c].offset
             /\ parsed[c].results = client[c].results /\ parsed[c].conn = client[c].conn
             /\ parsed[c].xdocs = client[c].xdocs
  <2> DEFINE old == client[c]
             cl == [old EXCEPT !.same = TRUE]
             to == ParseSort(c, cl, Head(sp))
  <2>1. Known(c, old) /\ Matched(old) /\ ClientOk(c, old) /\ DOMAIN old = ClientParts
    BY ExactClient
  <2>2. parsed[c] = IF old.active THEN to ELSE old
    OBVIOUS
  <2> HIDE DEF parsed, old
  <2>3. /\ DOMAIN cl = ClientParts
        /\ cl.conn = old.conn /\ cl.state = old.state /\ cl.results = old.results
        /\ cl.xdocs = old.xdocs /\ cl.query = old.query /\ cl.active = old.active
        /\ cl.startrecs = old.startrecs /\ cl.offset = old.offset /\ cl.sort = old.sort
    BY <2>1 DEF ClientParts
  <2>4. ClientOk(c, cl)
    BY <2>1 DEF ClientOk, ClientParts
  <2> HIDE DEF cl
  <2>5. ClientOk(c, to) /\ Stays(cl, to)
    BY <2>4, ParseSortKeeps
  <2>6. /\ to.conn = cl.conn /\ to.state = cl.state /\ to.results = cl.results
        /\ to.xdocs = cl.xdocs /\ to.query = cl.query /\ to.active = cl.active
        /\ to.startrecs = cl.startrecs /\ to.offset = cl.offset
        /\ to.same => (to.sort = None \/ to.sort = cl.sort)
    BY <2>3, ParseSortParsed
  <2> HIDE DEF to
  <2>7. Parsed(old, to) /\ Stays(old, to)
    BY <2>3, <2>6 DEF Parsed, Stays
  <2>8. Known(c, to) /\ Busy(to) = Busy(old) /\ (to.same => Matched(to))
    BY <2>1, <2>7, ParsedIs
  <2> QED  BY <2>1, <2>2, <2>3, <2>5, <2>6, <2>7, <2>8 DEF Stays, old
<1>4. /\ DOMAIN parsed = Clients
      /\ running \subseteq Clients /\ \A c \in running : client[c].active
      /\ \A c \in Clients \ running : ~ client[c].active \/ ~ Busy(client[c])
  BY DEF Active, Busy
<1>5. ClientsOk(parsed) /\ \A c \in running : parsed[c].active
  <2> HIDE DEF parsed, running
  <2> QED  BY <1>3, <1>4 DEF ClientsOk, Stays
<1>6. ~ research => ~ newKey /\ \A c \in Clients : client[c].active => parsed[c].same
  <2> HIDE DEF parsed
  <2> QED  BY DEF Active
<1>7. CASE UNCHANGED vars
  BY <1>7 DEF vars, ExactInv
<1> HIDE DEF parsed, running, research
<1>8. CASE /\ ~ research
           /\ session' = [sess EXCEPT !.sorted = @ \cup {Head(sp)}] /\ client' = Done(parsed)
           /\ UNCHANGED set
  <2>1. \A c \in Clients : Matched(parsed[c])
    BY <1>3, <1>6, <1>8
  <2>2. ASSUME NEW c \in Clients PROVE Calm(client[c], parsed[c])
    BY <1>3, <2>1 DEF Calm, Stays
  <2> DEFINE was == [set |-> set, client |-> client]
             via == [set |-> set, client |-> parsed]
  <2>3. StepExact(was, session, {}) /\ Told(was, {}) /\ was.client = client /\ was.set = set
        /\ via.client = parsed /\ via.set = set
    BY DEF ExactInv
  <2> HIDE DEF was, via
  <2>4. \A c \in Clients : Calm(was.client[c], via.client[c])
    BY <2>2, <2>3
  <2>5. via.set.list.clusters = was.set.list.clusters
    BY <2>3
  <2>6. sess.mergekey = session.mergekey /\ sess.limit = session.limit
    BY <1>2, <1>6, <1>8
  <2>7. StepExact(via, sess, {})
    BY <2>3, <2>4, <2>5, <2>6, CalmExact
  <2>10. Told(via, {})
    BY <2>3, <2>4, CalmTold
  <2>8. session'.mergekey = sess.mergekey /\ session'.limit = sess.limit
    BY <1>8
  <2>9. set' = via.set /\ client' = Done(via.client) /\ ClientsOk(via.client)
    BY <1>5, <1>8, <2>3
  <2> QED  BY <2>7, <2>8, <2>9, <2>10, DoneExact
<1>9. CASE /\ session' = [sess EXCEPT !.sorted = {Head(sp)}, !.force = FALSE]
           /\ set' = st.set /\ client' = Done(st.client)
  <2>1. session'.mergekey = sess.mergekey /\ session'.limit = sess.limit
    BY <1>9
  <2>2. StepOk(start)
    BY <1>5, EmptyGood DEF StepOk, ClearSet
  <2>3. \A c \in Clients \ running :
           /\ Matched(parsed[c]) /\ ~ Now(parsed[c])
           /\ Busy(parsed[c]) /\ Answered(parsed[c]) => parsed[c].startrecs <= parsed[c].offset
    <3> SUFFICES ASSUME NEW c \in Clients \ running
                 PROVE  /\ Matched(parsed[c]) /\ ~ Now(parsed[c])
                        /\ Busy(parsed[c]) /\ Answered(parsed[c])
                              => parsed[c].startrecs <= parsed[c].offset
      OBVIOUS
    <3>1. Busy(client[c]) /\ Answered(client[c]) => client[c].startrecs <= client[c].offset
      BY ExactClient
    <3>2. Answered(parsed[c]) = Answered(client[c])
      BY <1>3 DEF Answered
    <3>3. CASE ~ Busy(client[c])
      BY <1>3, <3>3 DEF Matched, Now
    <3>4. CASE ~ client[c].active
      BY <1>3, <3>1, <3>2, <3>4 DEF Now, Stays
    <3> QED  BY <1>4, <3>3, <3>4
  <2>4. StepExact(start, sess, running)
    BY <1>3, <1>4, <2>3, EmptyExact DEF ClearSet
  <2>7. Told(start, running)
    BY <2>3, EmptyTold DEF ClearSet
  <2>5. StepOk(st) /\ StepExact(st, sess, {}) /\ Told(st, {})
    <3>1. \A c \in running : start.client[c].active
      BY <1>5
    <3> HIDE DEF start
    <3> QED  BY <1>2, <1>4, <2>2, <2>4, <2>7, <3>1, StartAllKeeps, StartAllExact
  <2> HIDE DEF st
  <2>6. ClientsOk(st.client)
    BY <2>5 DEF StepOk
  <2> QED  BY <1>9, <2>1, <2>5, <2>6, DoneExact
<1> QED  BY <1>1, <1>7, <1>8, <1>9
-----------------------------------------------------------------------------
(* ... a record that comes in, ...                                         *)
LEMMA IngestExact ==
    ASSUME RecordsInv, ExactInv, NEW c \in Clients, NEW cl, ClientOk(c, cl), Stays(client[c], cl),
           Calm(client[c], cl), Busy(cl),
           Took(RecordIngest([set |-> set, client |-> [client EXCEPT ![c] = cl]], session, c))
    PROVE  ExactInv'
<1> DEFINE cls == [client EXCEPT ![c] = cl]
           was == [set |-> set, client |-> client]
           st == [set |-> set, client |-> cls]
           to == RecordIngest(st, session, c)
<1>1. ClientsOk(cls) /\ Asked(cls) = Asked(client)
  <2>1. ClientsOk(cls) /\ SameSearch(client, cls)
    BY ClientsKeep DEF RecordsInv
  <2> HIDE DEF cls
  <2> QED  BY <2>1, SameAsked
<1>2. cls[c] = cl /\ \A k \in Clients : Calm(client[k], cls[k])
  <2>1. DOMAIN client = Clients
    BY DEF RecordsInv, ClientsOk
  <2> QED  BY <2>1 DEF Calm
<1> HIDE DEF cls
<1>3. set' = to.set /\ client' = to.client /\ UNCHANGED session
  BY DEF Took, cls
<1>4. StepOk(st) /\ session.mergekey \in SessionKeys
  BY <1>1 DEF StepOk, RecordsInv, SessionOk
<1>5. /\ StepExact(was, session, {}) /\ Told(was, {}) /\ was.client = client /\ was.set = set
      /\ st.client = cls /\ st.set = set
  BY DEF ExactInv
<1> HIDE DEF was, st
<1>6. StepExact(st, session, {}) /\ Told(st, {})
  <2>1. st.set.list.clusters = was.set.list.clusters
    BY <1>5
  <2>2. \A k \in Clients : Calm(was.client[k], st.client[k])
    BY <1>2, <1>5
  <2>3. StepExact(st, session, {})
    BY <1>5, <2>1, <2>2, CalmExact
  <2>4. Told(st, {})
    BY <1>5, <2>2, CalmTold
  <2> QED  BY <2>3, <2>4
<1>7. Answered(st.client[c]) => st.client[c].startrecs <= st.client[c].offset
  <2>1. Whole(st.set.list, session, c, st.client[c])
    BY <1>6 DEF StepExact
  <2> QED  BY <1>2, <1>5, <2>1 DEF Whole
<1>8. StepExact(to, session, {}) /\ Told(to, {})
  <2>1. c \in Clients \ {} /\ {} \subseteq Clients
    OBVIOUS
  <2> QED  BY <1>4, <1>6, <1>7, <2>1, RecordIngestExact
<1> HIDE DEF to
<1>9. [set |-> set', client |-> client'].client = to.client
      /\ [set |-> set', client |-> client'].set = to.set
  BY <1>3
<1>10. /\ StepExact([set |-> set', client |-> client'], session', {})
       /\ Told([set |-> set', client |-> client'], {})
  BY <1>3, <1>8, <1>9 DEF StepExact, Told
<1> QED  BY <1>10 DEF ExactInv

(* ... an answer, ...                                                      *)
LEMMA AnswerExact ==
    ASSUME RecordsInv, ExactInv, NEW c \in Clients, Answer(c)
    PROVE  ExactInv'
<1> DEFINE cl == client[c]
           hits == Len(Docs(c, cl))
           available == Available(cl, hits)
           results == [cl.results EXCEPT !.answered = TRUE]
           cl2 == [cl EXCEPT !.offset = cl.startrecs, !.hits = hits, !.results = results,
                             !.pending = available]
           reported == ReportFacets(set, c, cl.results.query)
           st == [set |-> set, client |-> client]
           to == [set |-> set', client |-> client']
           list == set.list
<1>1. /\ Known(c, cl) /\ Matched(cl) /\ ClientOk(c, cl) /\ DOMAIN cl = ClientParts
      /\ cl.startrecs \in Nat /\ cl.conn /\ ~ cl.results.answered
  <2>1. Known(c, cl) /\ Matched(cl) /\ ClientOk(c, cl) /\ DOMAIN cl = ClientParts
    BY ExactClient
  <2> QED  BY <2>1 DEF ClientOk, Answer
<1>2. set' = reported /\ client' = [client EXCEPT ![c] = cl2] /\ UNCHANGED session
  BY DEF Answer, Took, SearchResponse
<1>3. set'.list = list
  <2>1. DOMAIN set = {"list", "records", "merged", "facets", "rel"}
    BY DEF RecordsInv, SetGood
  <2> QED  BY <1>2, <2>1 DEF ReportFacets
<1>4. DOMAIN client = Clients
  BY DEF RecordsInv, ClientsOk
<1>5. /\ StepExact(st, session, {}) /\ Told(st, {}) /\ st.client = client /\ st.set = set
      /\ st.set.list = list /\ to.client = client' /\ to.set = set'
  BY DEF ExactInv
<1> HIDE DEF cl, hits, available, reported, st, to, list
<1>6. /\ cl.results # None /\ ~ Answered(cl) /\ cl.xdocs = {}
      /\ DOMAIN cl.results = {"query", "sort", "answered"}
  BY <1>1 DEF Known, Answered, ClientOk, ResultsOk
<1>7. /\ DOMAIN results = {"query", "sort", "answered"} /\ results.answered
      /\ results.query = cl.results.query /\ results.sort = cl.results.sort
  BY <1>6
<1>8. results # None
  <2>1. "query" \in DOMAIN results /\ "query" \notin DOMAIN None
    BY <1>7 DEF None
  <2> QED  BY <2>1
<1> HIDE DEF results
<1>9. /\ cl2.conn = cl.conn /\ cl2.state = cl.state /\ cl2.query = cl.query /\ cl2.sort = cl.sort
      /\ cl2.xdocs = {} /\ cl2.results = results
      /\ cl2.startrecs = cl.startrecs /\ cl2.offset = cl.startrecs
  BY <1>1, <1>6 DEF ClientParts
<1>17. cl2.active = cl.active
  BY <1>1 DEF ClientParts
<1> HIDE DEF cl2
<1>10. Known(c, cl2)
  BY <1>7, <1>8, <1>9 DEF Known, Answered
<1>11. Whole(list, session, c, cl2)
  <2>1. Matched(cl2)
    BY <1>1, <1>7, <1>9 DEF Matched, Busy
  <2>2. cl2.startrecs <= cl2.offset /\ cl2.startrecs + 1 .. cl2.offset = {}
    BY <1>1, <1>9
  <2> QED  BY <2>1, <2>2 DEF Whole, Full
<1>12. StepExact(st, session, {c})
  <2>1. /\ Once(list) /\ Owned(list, session.limit, client) /\ \A k \in Clients : Known(k, client[k])
        /\ \A k \in Clients : Whole(list, session, k, client[k])
    BY <1>5 DEF StepExact
  <2>2. NoneOf(list, c)
    <3> SUFFICES ASSUME NEW r, Held(list, r), r.client = c PROVE FALSE
      BY DEF NoneOf
    <3>1. Belongs(r, session.limit, c, cl)
      BY <2>1 DEF Owned, cl
    <3> QED  BY <1>6, <3>1 DEF Belongs
  <2> QED  BY <1>1, <1>5, <2>1, <2>2 DEF StepExact, cl
<1>13. StepExact(to, session, {c} \ {c})
  <2>1. to.client = [st.client EXCEPT ![c] = cl2] /\ to.set.list = st.set.list /\ st.set.list = list
        /\ DOMAIN st.client = Clients /\ {c} \subseteq Clients /\ c \in {c}
    BY <1>2, <1>3, <1>4, <1>5
  <2>2. Whole(st.set.list, session, c, cl2)
    BY <1>11, <2>1
  <2> QED  BY <1>10, <1>12, <2>1, <2>2, StartsExact
<1>14. {c} \ {c} = {} /\ session' = session
  BY <1>2
<1>15. StepExact(to, session', {})
  BY <1>13, <1>14
<1>16. Told(to, {})
  <2>1. Told(st, {c}) /\ c \in {c} /\ {c} \ {c} = {}
    BY <1>5, <1>6, ToldLess DEF cl
  <2>2. cl.results.query \in Queries
    BY <1>1, <1>6 DEF ClientOk, ResultsOk
  <2>3. /\ to.client[c] = cl2 /\ \A k \in Clients : k # c => to.client[k] = st.client[k]
        /\ to.set = ReportFacets(st.set, c, cl.results.query)
    BY <1>2, <1>4, <1>5 DEF reported
  <2>4. "facets" \in DOMAIN st.set /\ st.set.facets \in Tables
    <3>1. "facets" \in DOMAIN st.set
      BY <1>5 DEF RecordsInv, SetGood
    <3>2. st.set.facets \in Tables
      BY <1>5 DEF Told, Tallied
    <3> QED  BY <3>1, <3>2
  <2>5. CASE cl.active
    <3>1. cl2.active /\ Answered(cl2) /\ cl2.results.query = cl.results.query
      BY <1>7, <1>8, <1>9, <1>17, <2>5 DEF Answered
    <3> QED  BY <2>1, <2>2, <2>3, <2>4, <3>1, ToldAlso
  <2>6. CASE ~ cl.active
    <3>1. /\ \A g \in FacetMap[c], u \in Terms : ReportMarks(c, cl.results.query, g, u) = {}
          /\ ~ Now(cl2) /\ Cardinality({}) = 0
      BY <1>17, <2>6, FS_EmptySet DEF Answer, MayReport, ReportMarks, cl, Now
    <3>2. Tallies(st.set, to.set)
      <4> DEFINE facets == ReportFacets(st.set, c, cl.results.query).facets
      <4>0. /\ to.set = [st.set EXCEPT !.facets = facets] /\ facets \in Tables
            /\ \A g \in Fields, u \in Terms :
                  facets[g][u] = st.set.facets[g][u]
                      + (IF g \in FacetMap[c]
                         THEN Cardinality(ReportMarks(c, cl.results.query, g, u)) ELSE 0)
        BY <2>2, <2>3, <2>4, ReportFacetsIs
      <4> HIDE DEF facets
      <4>1. /\ to.set = [st.set EXCEPT !.facets = facets] /\ facets \in Tables
            /\ \A g \in Fields, u \in Terms : facets[g][u] = st.set.facets[g][u] + 0
        BY ONLY <3>1, <4>0
      <4>2. to.set.list = st.set.list /\ to.set.facets = facets
        BY <2>4, <4>1
      <4>3. \A g \in Fields, u \in Terms : facets[g][u] = st.set.facets[g][u]
        BY <2>4, <4>1 DEF Tables
      <4> QED  BY <4>1, <4>2, <4>3 DEF Tallies, Tallied
    <3>3. /\ \A k \in Clients \ {c} : /\ to.client[k].active = st.client[k].active
                                      /\ to.client[k].results = st.client[k].results
          /\ \A k \in Clients \ {} : Now(to.client[k]) => k \notin {c} /\ Now(st.client[k])
      BY <2>3, <3>1
    <3> QED  BY <2>1, <3>2, <3>3, ToldOn
  <2> QED  BY <2>5, <2>6
<1> QED  BY <1>15, <1>16 DEF ExactInv, to

(* ... and whatever else happens to a client.                              *)
LEMMA ClientCalm ==
    ASSUME RecordsInv, ExactInv, NEW c \in Clients, NEW cl, Calm(client[c], cl),
           client' = [client EXCEPT ![c] = cl], UNCHANGED <<set, session>>
    PROVE  ExactInv'
<1>1. \A k \in Clients : Calm(client[k], client'[k])
  <2>1. DOMAIN client = Clients
    BY DEF RecordsInv, ClientsOk
  <2> QED  BY <2>1 DEF Calm
<1>2. set'.list.clusters = set.list.clusters /\ set'.facets = set.facets
      /\ session'.mergekey = session.mergekey /\ session'.limit = session.limit
  OBVIOUS
<1> QED  BY <1>1, <1>2, CalmStep

(* A page, and fetching more.                                              *)
LEMMA ShowExact == RecordsInv /\ ExactInv /\ (Show \/ Record) => ExactInv'
<1> SUFFICES ASSUME RecordsInv, ExactInv, Show \/ Record PROVE ExactInv'
  OBVIOUS
<1>1. DOMAIN set = {"list", "records", "merged", "facets", "rel"}
  BY DEF RecordsInv, SetGood
<1>2. ASSUME NEW sp \in SortParams, NEW page \in Pages, ShowRange(sp, page) PROVE ExactInv'
  <2> DEFINE limited == Limited(FALSE)
             ranked == IF \E i \in DOMAIN sp : sp[i].type = "relevance"
                       THEN PrepareRead(limited, set.rel) ELSE limited
             order == Sort(ranked, IF session.force THEN ByPosition ELSE sp).sorted
             upto == Min({Len(order), page.start + page.num})
             shown == FoldLeft(LAMBDA n, i : CountShown(n, limited.clusters[order[i]]),
                               [c \in Clients |-> 0], [i \in 1 .. upto |-> i])
             list == [limited EXCEPT !.sorted = order]
  <2>1. /\ set' = [set EXCEPT !.list = list]
        /\ client' = [c \in Clients |-> FetchMore(client[c], shown[c])]
        /\ UNCHANGED session
    BY <1>2 DEF ShowRange
  <2> HIDE DEF order, shown
  <2>2. /\ DOMAIN limited = {"chains", "clusters", "sorted", "num"}
        /\ limited.clusters = set.list.clusters
    BY LimitedKeeps
  <2> HIDE DEF limited
  <2>3. set'.list.clusters = set.list.clusters /\ set'.facets = set.facets
    BY <1>1, <2>1, <2>2
  <2>4. ASSUME NEW c \in Clients, NEW n PROVE Calm(client[c], FetchMore(client[c], n))
    <3> DEFINE cl == client[c]
               more == Min({cl.hits - cl.offset, ExtendRecs})
               cl2 == [cl EXCEPT !.state = "Working", !.pending = more]
    <3>1. DOMAIN cl = ClientParts
      BY ExactClient
    <3>2. FetchMore(cl, n) = cl \/ (FetchMore(cl, n) = cl2 /\ cl.state = "Idle" /\ cl.conn)
      BY DEF FetchMore, WantsMore
    <3> HIDE DEF cl, more
    <3>3. Calm(cl, cl)
      BY DEF Calm
    <3>4. cl.state = "Idle" /\ cl.conn => Calm(cl, cl2)
      BY <3>1 DEF Calm, ClientParts, Busy, Matched
    <3> QED  BY <3>2, <3>3, <3>4 DEF cl
  <2>5. \A c \in Clients : Calm(client[c], client'[c])
    BY <2>1, <2>4
  <2> QED  BY <2>1, <2>3, <2>5, CalmStep
<1>3. ASSUME ShowSingle PROVE ExactInv'
  <2> DEFINE list == Limited(TRUE)
  <2>1. set' = [set EXCEPT !.list = list] /\ UNCHANGED <<session, client>>
    BY <1>3 DEF ShowSingle
  <2>2. list.clusters = set.list.clusters
    BY LimitedKeeps
  <2> HIDE DEF list
  <2>3. \A c \in Clients : Calm(client[c], client'[c])
    BY <2>1 DEF Calm
  <2> QED  BY <1>1, <2>1, <2>2, <2>3, CalmStep
<1> QED  BY <1>2, <1>3 DEF Show, Record

(* The invariant holds in every state.                                     *)
LEMMA ExactStep == RecordsInv /\ ExactInv /\ [Next]_vars => ExactInv'
<1> SUFFICES ASSUME RecordsInv, ExactInv, [Next]_vars PROVE ExactInv'
  OBVIOUS
<1>1. ASSUME NEW c \in Clients PROVE ClientOk(c, client[c]) /\ DOMAIN client[c] = ClientParts
  BY ExactClient
<1>2. CASE Search
  BY <1>2, SearchExact
<1>3. CASE SortAgain
  BY <1>3, SortExact
<1>4. CASE Show \/ Record
  BY <1>4, ShowExact
<1>5. CASE Stop
  <2> DEFINE Stopped(c) == [client[c] EXCEPT !.conn = FALSE, !.pending = 0, !.late = 0,
                                             !.state = "Disconnected"]
  <2>1. /\ client' = [c \in Clients |->
                        IF client[c].active /\ client[c].state = "Working"
                        THEN Stopped(c) ELSE client[c]]
        /\ UNCHANGED <<set, session>>
    BY <1>5 DEF Stop
  <2>2. ASSUME NEW c \in Clients PROVE Calm(client[c], Stopped(c)) /\ Calm(client[c], client[c])
    BY <1>1 DEF ClientParts, Calm, Busy, Matched
  <2> HIDE DEF Stopped
  <2>3. \A c \in Clients : Calm(client[c], client'[c])
    BY <2>1, <2>2
  <2> QED  BY <2>1, <2>3, CalmStep
<1>6. ASSUME NEW c \in Clients, LateRecord(c) PROVE ExactInv'
  <2> DEFINE cl == [client[c] EXCEPT !.late = @ - 1]
  <2>1. ClientOk(c, cl) /\ Stays(client[c], cl)
    BY <1>1 DEF ClientOk, ClientParts, Stays
  <2>2. Calm(client[c], cl) /\ Busy(cl)
    BY <1>1, <1>6 DEF ClientParts, Calm, Busy, Matched, LateRecord
  <2>3. Took(RecordIngest([set |-> set, client |-> [client EXCEPT ![c] = cl]], session, c))
    BY <1>6 DEF LateRecord
  <2> HIDE DEF cl
  <2> QED  BY <2>1, <2>2, <2>3, IngestExact
<1>7. ASSUME NEW c \in Clients, Answer(c) PROVE ExactInv'
  BY <1>7, AnswerExact
<1>8. ASSUME NEW c \in Clients, RecordArrives(c) PROVE ExactInv'
  <2> DEFINE cl == [client[c] EXCEPT !.pending = @ - 1]
  <2>1. ClientOk(c, cl) /\ Stays(client[c], cl)
    BY <1>1 DEF ClientOk, ClientParts, Stays
  <2>2. Calm(client[c], cl) /\ Busy(cl)
    BY <1>1, <1>8 DEF ClientParts, Calm, Busy, Matched, RecordArrives
  <2>3. Took(RecordIngest([set |-> set, client |-> [client EXCEPT ![c] = cl]], session, c))
    BY <1>8 DEF RecordArrives
  <2> HIDE DEF cl
  <2> QED  BY <2>1, <2>2, <2>3, IngestExact
<1>9. ASSUME NEW c \in Clients, Ready(c) PROVE ExactInv'
  <2> DEFINE cl == [client[c] EXCEPT !.state = "Idle"]
  <2>1. Calm(client[c], cl)
    BY <1>1, <1>9 DEF ClientParts, Calm, Busy, Matched, Ready
  <2>2. client' = [client EXCEPT ![c] = cl] /\ UNCHANGED <<set, session>>
    BY <1>9 DEF Ready
  <2> HIDE DEF cl
  <2> QED  BY <2>1, <2>2, ClientCalm
<1>10. ASSUME NEW c \in Clients, Fails(c) PROVE ExactInv'
  <2> DEFINE cl == [client[c] EXCEPT !.state = "Error", !.pending = 0, !.late = 0]
  <2>1. Calm(client[c], cl)
    BY <1>1 DEF ClientParts, Calm, Busy, Matched
  <2>2. client' = [client EXCEPT ![c] = cl] /\ UNCHANGED <<set, session>>
    BY <1>10 DEF Fails
  <2> HIDE DEF cl
  <2> QED  BY <2>1, <2>2, ClientCalm
<1>11. ASSUME NEW c \in Clients, Lost(c) PROVE ExactInv'
  <2> DEFINE cl == [client[c] EXCEPT !.conn = FALSE, !.pending = 0, !.late = 0,
                                     !.state = IF @ = "Idle" THEN @ ELSE "Disconnected"]
  <2>1. Calm(client[c], cl)
    BY <1>1 DEF ClientParts, Calm, Busy, Matched
  <2>2. client' = [client EXCEPT ![c] = cl] /\ UNCHANGED <<set, session>>
    BY <1>11 DEF Lost
  <2> HIDE DEF cl
  <2> QED  BY <2>1, <2>2, ClientCalm
<1>12. CASE UNCHANGED vars
  BY <1>12 DEF vars, ExactInv
<1> QED  BY <1>2, <1>3, <1>4, <1>5, <1>6, <1>7, <1>8, <1>9, <1>10, <1>11, <1>12 DEF Next

(* At all times no record is in the list twice, each is of the result set  *)
(* its client has for the last search, and what was fetched of it is there.*)
THEOREM Exactness == Spec => [](RecordsInv /\ ExactInv)
<1>1. Init => RecordsInv /\ ExactInv
  BY RecordsInit, ExactInit
<1>2. RecordsInv /\ ExactInv /\ [Next]_vars => RecordsInv' /\ ExactInv'
  BY RecordsStep, ExactStep
<1> QED  BY <1>1, <1>2, PTL DEF Spec
-----------------------------------------------------------------------------
(* The positions of a result set.                                          *)
LEMMA DocsAre ==
    ASSUME NEW c \in Clients, NEW cl, ResultsOk(cl.results), cl.results # None
    PROVE  Len(Docs(c, cl)) \in Nat /\ DOMAIN Docs(c, cl) = 1 .. Len(Docs(c, cl))
<1> DEFINE q == cl.results.query
           s == ResultSet[c][q]
           r == Reverse(s)
<1>1. q \in Queries
  BY DEF ResultsOk
<1>2. IsSeq(s)
  BY <1>1, DocumentsAssumption DEF IsSeq
<1>3. Len(s) \in Nat /\ DOMAIN s = 1 .. Len(s) /\ \A i \in DOMAIN s : s[i] \in Elems(s)
  BY <1>2, SeqIs
<1>4. Docs(c, cl) = s \/ Docs(c, cl) = r
  BY DEF Docs
<1>5. r = [i \in 1 .. Len(s) |-> s[(Len(s) - i) + 1]]
  BY DEF Reverse
<1> HIDE DEF q, s, r
<1>6. r \in [1 .. Len(s) -> Elems(s)]
  <2>1. \A i \in 1 .. Len(s) : (Len(s) - i) + 1 \in DOMAIN s
    BY <1>3
  <2> QED  BY <1>3, <1>5, <2>1
<1>7. Len(r) = Len(s) /\ DOMAIN r = 1 .. Len(s)
  BY <1>3, <1>6, SeqFunction
<1> QED  BY <1>3, <1>4, <1>7

(* The smaller of two numbers.                                             *)
LEMMA MinOfTwo ==
    ASSUME NEW a \in Nat, NEW b \in Nat
    PROVE  LET m == Min({a, b}) IN m \in {a, b} /\ m <= a /\ m <= b
<1> DEFINE T == {a, b}
<1>1. \E x \in T : \A y \in T : x <= y
  OBVIOUS
<1>2. Min(T) \in T /\ \A y \in T : Min(T) <= y
  BY <1>1 DEF Min
<1> QED  BY <1>2

(* What was fetched, for a client that has what it was asked for.          *)
LEMMA FetchedIs ==
    ASSUME RecordsInv, ExactInv, NEW c \in Clients, Current(c),
           client[c].sort # None \/ client[c].results.sort = None
    PROVE  LET cl == client[c]
           IN  /\ Now(cl) /\ Wanted(c) = Docs(c, cl)
               /\ \A pos : pos \in Fetched(c)
                     <=> pos \in cl.startrecs + 1 .. cl.offset /\ pos \in DOMAIN Docs(c, cl)
<1> DEFINE cl == client[c]
           docs == Docs(c, cl)
           min == Min({cl.offset, Len(docs)})
<1>1. /\ Known(c, cl) /\ Matched(cl) /\ ResultsOk(cl.results)
      /\ cl.offset \in Nat /\ cl.startrecs \in Nat
  BY ExactClient DEF ClientOk
<1>2. cl.results # None /\ Now(cl)
  BY <1>1 DEF Known, Current, Now, Busy, Answered
<1>3. Wanted(c) = docs
  BY <1>1, <1>2 DEF Wanted, Docs, Matched, Now
<1>4. Len(docs) \in Nat /\ DOMAIN docs = 1 .. Len(docs)
  BY <1>1, <1>2, DocsAre
<1>5. Fetched(c) = cl.startrecs + 1 .. min
  BY <1>3 DEF Fetched
<1> HIDE DEF docs, cl
<1>6. min \in {cl.offset, Len(docs)} /\ min <= cl.offset /\ min <= Len(docs)
  BY <1>1, <1>4, MinOfTwo
<1> HIDE DEF min
<1>7. \A pos : pos \in cl.startrecs + 1 .. min
         <=> pos \in cl.startrecs + 1 .. cl.offset /\ pos \in 1 .. Len(docs)
  BY <1>1, <1>4, <1>6
<1> QED  BY <1>2, <1>3, <1>4, <1>5, <1>7 DEF cl, docs

(* RecordsExact: each record that was fetched for the last search is in a  *)
(* cluster that goes by one of its keys, unless the same client has a      *)
(* record like it there; no cluster has a record of another search, of a   *)
(* position that was not asked for, or one that a filter or a limit keeps  *)
(* out; and none has one twice.  For any documents, keys that collide,     *)
(* searches, sorts that search again and result sets that are used again,  *)
(* with connections that are lost and records that come late               *)
(* (client_start_search, client_reingest, client_record_ingest,            *)
(* session_clear_set, ingest_record, reclist_insert).                      *)
THEOREM RecordsExactAlways == Spec => []RecordsExact
<1>1. RecordsInv /\ ExactInv => RecordsExact
  <2> SUFFICES ASSUME RecordsInv, ExactInv PROVE RecordsExact
    OBVIOUS
  <2> DEFINE list == set.list
  <2>1. /\ Once(list) /\ Owned(list, session.limit, client)
        /\ \A c \in Clients : Whole(list, session, c, client[c])
    <3> DEFINE st == [set |-> set, client |-> client]
    <3>1. StepExact(st, session, {}) /\ st.set = set /\ st.client = client
      BY DEF ExactInv
    <3> HIDE DEF st
    <3> QED  BY <3>1 DEF StepExact
  <2>2. /\ Live = Lives(list)
        /\ \A i \in Live : /\ Elems(Clusters[i].records) = Recs(list, i)
                           /\ Elems(Clusters[i].keys) = KeySet(list, i)
                           /\ Clusters[i] = list.clusters[i]
    BY DEF Live, Lives, Clusters, Recs, KeySet
  <2>3. \A c, doc : Kept(c, doc) = KeptBy(session.limit, c, doc)
    BY DEF Kept, KeptBy
  <2> HIDE DEF list
  <2>4. NothingLost
    <3> SUFFICES ASSUME NEW c \in Clients, Current(c),
                        client[c].sort # None \/ client[c].results.sort = None,
                        NEW pos \in Fetched(c), NEW j \in Kept(c, Wanted(c)[pos])
                 PROVE  \E i \in Live :
                           /\ \E r \in Elems(Clusters[i].records) :
                                 r.client = c /\ r.md = Wanted(c)[pos].subs[j].md /\ r.pos <= pos
                           /\ Elems(Clusters[i].keys)
                                 \cap Elems(MergeKeys(session, Wanted(c)[pos], c, pos)) # {}
      BY DEF NothingLost
    <3> DEFINE cl == client[c]
               doc == Wanted(c)[pos]
    <3>1. /\ Now(cl) /\ Wanted(c) = Docs(c, cl)
          /\ pos \in cl.startrecs + 1 .. cl.offset /\ pos \in DOMAIN Docs(c, cl)
      BY FetchedIs
    <3>2. Full(list, session, c, cl)
      BY <2>1, <3>1 DEF Whole
    <3>3. Got(list, session, c, pos, doc, j)
      BY <2>3, <3>1, <3>2 DEF Full
    <3> HIDE DEF cl, doc
    <3>4. \E i \in Live :
             /\ \E r \in Elems(Clusters[i].records) : r.client = c /\ r.md = doc.subs[j].md /\ r.pos <= pos
             /\ Elems(Clusters[i].keys) \cap Elems(MergeKeys(session, doc, c, pos)) # {}
      BY <2>2, <3>3 DEF Got
    <3> QED  BY <3>4 DEF doc
  <2>5. NothingForeign
    <3> SUFFICES ASSUME NEW i \in Live, NEW m \in DOMAIN Clusters[i].records
                 PROVE  LET r == Clusters[i].records[m]
                            c == r.client
                        IN  /\ client[c].active
                            /\ Current(c) /\ (client[c].sort # None \/ client[c].results.sort = None) =>
                                 r.pos \in Fetched(c)
                                 /\ \E j \in Kept(c, Wanted(c)[r.pos]) : Wanted(c)[r.pos].subs[j].md = r.md
                            /\ \A k \in Live : \A n \in DOMAIN Clusters[k].records :
                                  <<k, n>> # <<i, m>> => Clusters[k].records[n] # r
      BY DEF NothingForeign
    <3> DEFINE r == Clusters[i].records[m]
               c == r.client
    <3>1. Held(list, r)
      BY <2>2 DEF Held, Recs, Elems
    <3> HIDE DEF r
    <3>2. c \in Clients /\ Belongs(r, session.limit, c, client[c])
      BY <2>1, <3>1 DEF Owned
    <3>3. client[c].active
      BY <3>2 DEF Belongs
    <3>4. ASSUME Current(c), client[c].sort # None \/ client[c].results.sort = None
          PROVE  r.pos \in Fetched(c)
                 /\ \E j \in Kept(c, Wanted(c)[r.pos]) : Wanted(c)[r.pos].subs[j].md = r.md
      <4>1. /\ Wanted(c) = Docs(c, client[c])
            /\ r.pos \in client[c].startrecs + 1 .. client[c].offset /\ r.pos \in DOMAIN Docs(c, client[c])
                  => r.pos \in Fetched(c)
        <5> HIDE DEF c
        <5> QED  BY <3>2, <3>4, FetchedIs
      <4> QED  BY <2>3, <3>2, <4>1 DEF Belongs
    <3>5. ASSUME NEW k \in Live, NEW n \in DOMAIN Clusters[k].records, <<k, n>> # <<i, m>>
          PROVE  Clusters[k].records[n] # r
      BY <2>1, <2>2, <3>5 DEF Once, r
    <3> QED  BY <3>3, <3>4, <3>5 DEF r
  <2> QED  BY <2>4, <2>5 DEF RecordsExact
<1> QED  BY <1>1, Exactness, PTL
-----------------------------------------------------------------------------
(* What clients were told is finite, and more when they are more.          *)
LEMMA SentMore ==
    ASSUME NEW cls, NEW T \in SUBSET Clients, \A c \in T : cls[c].results.query \in Queries,
           NEW S \in SUBSET T, NEW f \in Fields, NEW t \in Terms
    PROVE  /\ Cardinality(Sent(S, cls, f, t)) \in Nat /\ Cardinality(Sent(T, cls, f, t)) \in Nat
           /\ Cardinality(Sent(S, cls, f, t)) <= Cardinality(Sent(T, cls, f, t))
<1> DEFINE D == {x \in T : f \in FacetMap[x]}
           F == [c \in D |-> {c} \X ReportMarks(c, cls[c].results.query, f, t)]
           R == {F[c] : c \in D}
<1>1. \A c \in D : IsFiniteSet(F[c])
  <2> SUFFICES ASSUME NEW c \in D PROVE IsFiniteSet(F[c])
    OBVIOUS
  <2> DEFINE marks == ReportMarks(c, cls[c].results.query, f, t)
             L == Reported[c][cls[c].results.query]
  <2>1. L \in Seq(Fields \X Terms)
    BY DocumentsAssumption
  <2>2. Len(L) \in Nat /\ marks \subseteq 1 .. Len(L)
    <3>1. DOMAIN L = 1 .. Len(L) /\ Len(L) \in Nat
      <4> HIDE DEF L
      <4> QED  BY <2>1
    <3> QED  BY <3>1 DEF ReportMarks
  <2>4. F[c] = {c} \X marks
    OBVIOUS
  <2> HIDE DEF F, marks, L
  <2>3. IsFiniteSet(marks)
    <3>1. IsFiniteSet(1 .. Len(L))
      BY ONLY <2>2, FS_Interval
    <3> QED  BY ONLY <2>2, <3>1, FS_Subset
  <2>5. IsFiniteSet({c} \X marks)
    BY ONLY <2>3, Tagged
  <2> QED  BY ONLY <2>4, <2>5
<1>2. IsFiniteSet(D)
  BY ClientsAssumption, FS_Subset
<1>3. IsFiniteSet(R)
  <2>1. F \in Surjection(D, R)
    <3>1. F \in [D -> R]
      OBVIOUS
    <3> HIDE DEF F
    <3> QED  BY <3>1 DEF Surjection
  <2> HIDE DEF R, F, D
  <2> QED  BY <1>2, <2>1, FS_Surjection
<1>4. Sent(T, cls, f, t) = UNION R
  BY DEF Sent
<1>5. IsFiniteSet(Sent(T, cls, f, t))
  <2>1. \A x \in R : IsFiniteSet(x)
    BY <1>1
  <2> HIDE DEF R
  <2> QED  BY <1>3, <1>4, <2>1, FS_UNION
<1>6. Sent(S, cls, f, t) \subseteq Sent(T, cls, f, t)
  BY DEF Sent
<1>7. IsFiniteSet(Sent(S, cls, f, t))
  BY <1>5, <1>6, FS_Subset
<1> QED  BY <1>5, <1>6, <1>7, FS_Subset, FS_CardinalityType

(* FacetsExact: the facets count each record of the clusters once for a    *)
(* value of it that has the term, and what a target reports once, even if  *)
(* its result set is used again, and never both for a field; and what was  *)
(* reported is all that those have that are current, and nothing of those  *)
(* that were not asked or did not answer.  For any documents and facets,   *)
(* fields with facets of their own at some targets, searches, sorts that   *)
(* search again, merges, and connections that are lost (client_report_     *)
(* facets, add_facet, ingest_to_cluster, session_clear_set).               *)
THEOREM FacetsExactAlways == Spec => []FacetsExact
<1>1. RecordsInv /\ ExactInv => FacetsExact
  <2> SUFFICES ASSUME RecordsInv, ExactInv, NEW f \in Fields, NEW t \in Terms
               PROVE  LET mayReport == {c \in Active : client[c].results # None
                                                         /\ client[c].results.answered}
                          local == LocalCount(f, t)
                      IN  /\ set.facets[f][t] >= local + ReportedBy({c \in Clients : Current(c)}, f, t)
                          /\ set.facets[f][t] <= local + ReportedBy(mayReport, f, t)
    BY DEF FacetsExact
  <2> DEFINE mayReport == {c \in Active : client[c].results # None /\ client[c].results.answered}
             current == {c \in Clients : Current(c)}
  <2>1. PICK S \in SUBSET Clients :
           /\ \A c \in S : client[c].active /\ Answered(client[c])
           /\ \A c \in Clients : Now(client[c]) => c \in S
           /\ \A g \in Fields, u \in Terms : IsFiniteSet(Sent(S, client, g, u))
           /\ Tallied(set, Sums(S, client))
    <3> DEFINE st == [set |-> set, client |-> client]
    <3>1. Told(st, {}) /\ st.set = set /\ st.client = client
      BY DEF ExactInv
    <3> HIDE DEF st
    <3>2. Clients \ {} = Clients
      OBVIOUS
    <3> QED  BY <3>1, <3>2 DEF Told
  <2>2. LocalCount(f, t) = Cardinality(Found(set.list, f, t))
    <3>1. UNION {Elems(Clusters[i].records) : i \in Live} = All(set.list)
      BY DEF Live, Lives, Clusters, Recs, All
    <3> QED  BY <3>1 DEF LocalCount, Found, Counts, Marks
  <2>3. \A T : ReportedBy(T, f, t) = Cardinality(Sent(T, client, f, t))
    BY DEF ReportedBy, Sent, ReportMarks
  <2>4. current \subseteq S /\ S \subseteq mayReport /\ mayReport \subseteq Clients
    <3>1. ASSUME NEW c \in current PROVE c \in S
      <4>1. Known(c, client[c]) /\ Current(c) /\ c \in Clients
        BY ExactClient
      <4>2. Now(client[c])
        BY <4>1 DEF Known, Current, Now, Busy, Answered
      <4> QED  BY <2>1, <4>1, <4>2
    <3>2. S \subseteq mayReport
      BY <2>1 DEF Active, Answered
    <3> QED  BY <3>1, <3>2 DEF Active
  <2>5. \A c \in mayReport : client[c].results.query \in Queries
    <3> SUFFICES ASSUME NEW c \in mayReport PROVE client[c].results.query \in Queries
      OBVIOUS
    <3>1. ClientOk(c, client[c]) /\ client[c].results # None
      BY ExactClient DEF Active
    <3> QED  BY <3>1 DEF ClientOk, ResultsOk
  <2> HIDE DEF mayReport, current
  <2> DEFINE local == Cardinality(Found(set.list, f, t))
             sum == Cardinality(Sent(S, client, f, t))
             least == Cardinality(Sent(current, client, f, t))
             most == Cardinality(Sent(mayReport, client, f, t))
  <2>6. sum \in Nat /\ least \in Nat /\ least <= sum
    <3>1. \A c \in S : client[c].results.query \in Queries
      BY <2>4, <2>5
    <3>2. S \in SUBSET Clients /\ current \in SUBSET S
      BY <2>4
    <3> QED  BY <3>1, <3>2, SentMore
  <2>7. most \in Nat /\ sum <= most
    <3>1. mayReport \in SUBSET Clients /\ S \in SUBSET mayReport
      BY <2>4
    <3> QED  BY <2>5, <3>1, SentMore
  <2>8. local \in Nat /\ set.facets[f][t] = local + sum
    <3>1. IsFiniteSet(Found(set.list, f, t)) /\ set.facets[f][t] = local + Sums(S, client)[f][t]
      BY <2>1 DEF Tallied
    <3>2. Sums(S, client)[f][t] = sum
      BY <2>1, SumsAre
    <3> HIDE DEF sum
    <3> QED  BY <3>1, <3>2, FS_CardinalityType
  <2>9. LocalCount(f, t) = local /\ ReportedBy(current, f, t) = least
        /\ ReportedBy(mayReport, f, t) = most
    BY <2>2, <2>3
  <2> HIDE DEF local, sum, least, most
  <2>10. /\ set.facets[f][t] >= LocalCount(f, t) + ReportedBy(current, f, t)
         /\ set.facets[f][t] <= LocalCount(f, t) + ReportedBy(mayReport, f, t)
    BY <2>6, <2>7, <2>8, <2>9
  <2> QED  BY <2>10 DEF current, mayReport
<1> QED  BY <1>1, Exactness, PTL
==============================================================================
