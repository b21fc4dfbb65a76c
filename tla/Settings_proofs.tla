-------------------------- MODULE Settings_proofs --------------------------
(***************************************************************************)
(* Proofs about Settings: whatever files, sessions and commands there are, *)
(* a session sees what it sets, what it sees changes by its own commands,  *)
(* and the connections it keeps were made with the settings it has.        *)
(*                                                                         *)
(* The invariant says of each list that some set of nodes, which nothing   *)
(* leads out of, holds it.  Writing a value, taking nodes out and putting  *)
(* nodes in front preserve that for all lists at once, whoever shares      *)
(* them.  The folds and recursive functions of the model are unfolded by   *)
(* the existence of a solution, and a least counterexample takes the place *)
(* of induction.                                                           *)
(***************************************************************************)
EXTENDS SettingsProps, FiniteSetTheorems, WellFoundedInduction, TLAPS

(* The numbers below one another are well-founded, ...                     *)
Below == {ss \in Nat \X Nat : ss[1] < ss[2]}

(* The numbers are well-founded.                                           *)
LEMMA BelowWellFounded == IsWellFoundedOn(Below, Nat)
  BY NatLessThanWellFounded DEF OpToRel, Below

(* ... so the least number for which something fails can be picked.        *)
LEMMA NatMin ==
    ASSUME NEW T, T \subseteq Nat, T # {}
    PROVE  \E x \in T : \A y \in T : x <= y
<1>1. PICK x \in T : \A y \in T : ~ (<<y, x>> \in Below)
  BY BelowWellFounded, WFMin
<1>2. ASSUME NEW y \in T PROVE x <= y
  <2>1. x \in Nat /\ y \in Nat /\ <<y, x>> \notin Below
    BY <1>1
  <2>2. <<y, x>> \in Nat \X Nat /\ <<y, x>>[1] = y /\ <<y, x>>[2] = x
    BY <2>1
  <2>3. ~(y < x)
    BY <2>1, <2>2 DEF Below
  <2> QED
    BY <2>1, <2>3
<1> QED
  BY <1>2

(* Max is the element that is above all.                                   *)
LEMMA MaxIs ==
    ASSUME NEW S, NEW m \in S, S \subseteq Int, \A x \in S : m >= x
    PROVE  Max(S) = m
<1>1. \E x \in S : \A y \in S : x >= y
  OBVIOUS
<1>2. Max(S) \in S /\ \A y \in S : Max(S) >= y
  BY <1>1 DEF Max
<1>3. Max(S) \in Int /\ m \in Int /\ Max(S) >= m /\ m >= Max(S)
  BY <1>2
<1> HIDE <1>1, <1>2
<1> QED  BY <1>3

(* The recursion over the subsets of 1 .. n that takes out the greatest.   *)
Solves(f, n, base, g) ==
    \A s \in SUBSET (1 .. n) :
        f[s] = IF s = {} THEN base ELSE g[<<Max(s), f[s \ {Max(s)}]>>]

(* Of numbers that are bounded there is a greatest.                        *)
LEMMA SetMax ==
    ASSUME NEW n \in Nat, NEW s \in SUBSET (1 .. n), s # {}
    PROVE  Max(s) \in s /\ \A x \in s : x <= Max(s)
<1> DEFINE T == {m \in 0 .. n : \A x \in s : x <= m}
<1>1. T \subseteq Nat /\ n \in T
  OBVIOUS
<1>2. PICK m \in T : \A y \in T : m <= y
  <2> HIDE DEF T
  <2> QED  BY <1>1, NatMin
<1>3. m \in s
  <2> SUFFICES ASSUME m \notin s PROVE FALSE
    OBVIOUS
  <2>1. \A x \in s : x <= m /\ x # m /\ x \in 1 .. n
    BY <1>2
  <2>2. \A x \in s : x <= m - 1
    BY <2>1, <1>2
  <2>3. PICK x \in s : TRUE
    OBVIOUS
  <2>4. m \in 1 .. n
    BY <2>1, <2>3, <1>2
  <2>5. m - 1 \in T
    BY <2>2, <2>4
  <2> QED  BY <1>2, <2>4, <2>5
<1>4. \A x \in s : m >= x
  BY <1>2
<1>5. s \subseteq Int
  OBVIOUS
<1>6. Max(s) = m
  BY <1>3, <1>4, <1>5, MaxIs
<1>7. \A x \in s : x <= m
  BY <1>2
<1> QED  BY <1>3, <1>6, <1>7

(* Such a recursion has a solution: it is built number by number.          *)
LEMMA RecursionExists ==
    ASSUME NEW n \in Nat, NEW S, NEW base \in S, NEW g \in [(1 .. n) \X S -> S]
    PROVE  \E f \in [SUBSET (1 .. n) -> S] : Solves(f, n, base, g)
<1> DEFINE T == {m \in 0 .. n : ~ \E f \in [SUBSET (1 .. m) -> S] : Solves(f, m, base, g)}
<1>0. n \in 0 .. n
  OBVIOUS
<1> SUFFICES ASSUME T # {} PROVE FALSE
  BY <1>0
<1>1. PICK m \in T : \A y \in T : m <= y
  <2> HIDE DEF T
  <2>1. T \subseteq Nat
    BY DEF T
  <2> QED  BY <2>1, NatMin
<1>a. /\ m \in 0 .. n
      /\ ~ \E f \in [SUBSET (1 .. m) -> S] : Solves(f, m, base, g)
  BY <1>1
<1>b. ASSUME NEW y \in 0 .. n, y < m PROVE \E f \in [SUBSET (1 .. y) -> S] : Solves(f, y, base, g)
  <2>1. y \notin T
    <3> HIDE DEF T
    <3>1. m <= y => ~(y < m)
      BY <1>a
    <3> QED  BY <1>1, <1>b, <3>1
  <2> QED  BY <2>1
<1> HIDE DEF T
<1>2. m # 0
  <2> DEFINE h == [s \in SUBSET (1 .. 0) |-> base]
  <2>1. 1 .. 0 = {}
    OBVIOUS
  <2>2. h \in [SUBSET (1 .. 0) -> S] /\ Solves(h, 0, base, g)
    BY <2>1 DEF Solves
  <2> HIDE DEF h
  <2> QED  BY <2>2, <1>a
<1>3. m - 1 \in 0 .. n /\ m \in 1 .. n /\ m - 1 < m
  BY <1>a, <1>2
<1>4. PICK f \in [SUBSET (1 .. m - 1) -> S] : Solves(f, m - 1, base, g)
  BY <1>3, <1>b
<1> DEFINE h == [s \in SUBSET (1 .. m) |-> IF m \in s THEN g[<<m, f[s \ {m}]>>] ELSE f[s]]
<1>5. \A s \in SUBSET (1 .. m) : s \ {m} \in SUBSET (1 .. m - 1)
  BY <1>3
<1>6. h \in [SUBSET (1 .. m) -> S]
  <2> SUFFICES ASSUME NEW s \in SUBSET (1 .. m) PROVE h[s] \in S
    OBVIOUS
  <2>1. CASE m \in s
    <3>1. f[s \ {m}] \in S
      BY <1>5
    <3> QED  BY <1>3, <2>1, <3>1
  <2>2. CASE m \notin s
    <3>1. s \in SUBSET (1 .. m - 1)
      BY <1>5, <2>2
    <3> QED  BY <2>2, <3>1
  <2> QED  BY <2>1, <2>2
<1>7. Solves(h, m, base, g)
  <2> SUFFICES ASSUME NEW s \in SUBSET (1 .. m)
               PROVE  h[s] = IF s = {} THEN base ELSE g[<<Max(s), h[s \ {Max(s)}]>>]
    BY DEF Solves
  <2>1. CASE m \in s
    <3>1. Max(s) = m
      <4>1. s \subseteq Int /\ \A x \in s : m >= x
        BY <1>3
      <4> QED  BY <2>1, <4>1, MaxIs
    <3>2. h[s \ {m}] = f[s \ {m}]
      <4>1. s \ {m} \in SUBSET (1 .. m)
        OBVIOUS
      <4> QED  BY <4>1
    <3> QED  BY <2>1, <3>1, <3>2
  <2>2. CASE m \notin s
    <3>1. s \in SUBSET (1 .. m - 1)
      BY <1>5, <2>2
    <3>2. h[s] = f[s]
      BY <2>2
    <3>3. f[s] = IF s = {} THEN base ELSE g[<<Max(s), f[s \ {Max(s)}]>>]
      BY <1>4, <3>1 DEF Solves
    <3>4. h[s \ {Max(s)}] = f[s \ {Max(s)}]
      <4>1. s \ {Max(s)} \in SUBSET (1 .. m) /\ m \notin s \ {Max(s)}
        BY <2>2
      <4> QED  BY <4>1
    <3> HIDE DEF h
    <3> QED  BY <3>2, <3>3, <3>4
  <2> QED  BY <2>1, <2>2
<1> HIDE DEF h
<1> QED  BY <1>a, <1>6, <1>7

(* What holds at the start and each step keeps holds at the end.           *)
LEMMA StaysIn ==
    ASSUME NEW n \in Nat, NEW S, NEW h, h[0] \in S[0],
           \A k \in 1 .. n : h[k - 1] \in S[k - 1] => h[k] \in S[k]
    PROVE  \A k \in 0 .. n : h[k] \in S[k]
<1> DEFINE T == {m \in 0 .. n : h[m] \notin S[m]}
<1> SUFFICES ASSUME T # {} PROVE FALSE
  OBVIOUS
<1>1. PICK m \in T : \A y \in T : m <= y
  <2> HIDE DEF T
  <2>1. T \subseteq Nat
    BY DEF T
  <2> QED  BY <2>1, NatMin
<1>2. m # 0
  BY <1>1
<1>3. m \in 1 .. n /\ m - 1 \in 0 .. n /\ m - 1 \notin T
  BY <1>1, <1>2
<1>4. h[m - 1] \in S[m - 1]
  BY <1>3
<1> QED  BY <1>1, <1>3, <1>4

(* The greatest of 1 .. k.                                                 *)
LEMMA PrefixMax ==
    ASSUME NEW k \in Nat, k > 0
    PROVE  Max(1 .. k) = k /\ (1 .. k) \ {k} = 1 .. k - 1 /\ 1 .. k # {}
<1>1. k \in 1 .. k /\ 1 .. k \subseteq Int /\ \A x \in 1 .. k : k >= x
  OBVIOUS
<1>2. Max(1 .. k) = k
  BY <1>1, MaxIs
<1>3. (1 .. k) \ {k} = 1 .. k - 1
  OBVIOUS
<1> QED  BY <1>1, <1>2, <1>3

-----------------------------------------------------------------------------
(* Every node leads to an older one: what a setting is put in front of.    *)
Chained(heap) == \A m \in 1 .. Len(heap) : heap[m].next \in 0 .. m - 1

(* No node of these leads out of them.                                     *)
Closed(heap, P) == P \subseteq 1 .. Len(heap) /\ \A m \in P : heap[m].next \in P \cup {0}

(* The lists from the nodes up to k.                                       *)
Lists(heap, f, k) ==
    /\ f \in [0 .. k -> Seq(1 .. Len(heap))]
    /\ f[0] = <<>>
    /\ \A m \in 1 .. k : f[m] = <<m>> \o f[heap[m].next]

(* There is a function of lists for the first k nodes, ...                 *)
LEMMA ListsExist ==
    ASSUME NEW S, NEW heap \in Seq(S), Chained(heap)
    PROVE  \A k \in 0 .. Len(heap) : \E f : Lists(heap, f, k)
<1> DEFINE T == {k \in 0 .. Len(heap) : ~ \E f : Lists(heap, f, k)}
<1> SUFFICES ASSUME T # {} PROVE FALSE
  OBVIOUS
<1>1. PICK k \in T : \A y \in T : k <= y
  <2> HIDE DEF T
  <2>1. T \subseteq Nat
    BY DEF T
  <2> QED  BY <2>1, NatMin
<1>2. k # 0
  <2> DEFINE f == [i \in 0 .. 0 |-> <<>>]
  <2>1. Lists(heap, f, 0)
    BY DEF Lists
  <2> HIDE DEF f
  <2> QED  BY <2>1, <1>1
<1>3. k \in 1 .. Len(heap) /\ k - 1 \in 0 .. Len(heap) /\ k - 1 \notin T
  BY <1>1, <1>2
<1>4. PICK f : Lists(heap, f, k - 1)
  BY <1>3
<1>5. heap[k].next \in 0 .. k - 1
  BY <1>3 DEF Chained
<1> DEFINE g == [i \in 0 .. k |-> IF i = k THEN <<k>> \o f[heap[k].next] ELSE f[i]]
<1>6. g \in [0 .. k -> Seq(1 .. Len(heap))]
  <2> SUFFICES ASSUME NEW i \in 0 .. k PROVE g[i] \in Seq(1 .. Len(heap))
    OBVIOUS
  <2>1. CASE i = k
    <3>1. f[heap[k].next] \in Seq(1 .. Len(heap))
      BY <1>4, <1>5 DEF Lists
    <3>2. <<k>> \in Seq(1 .. Len(heap))
      BY <1>3
    <3> QED  BY <2>1, <3>1, <3>2
  <2>2. CASE i # k
    <3>1. i \in 0 .. k - 1
      BY <2>2, <1>3
    <3> QED  BY <3>1, <2>2, <1>4 DEF Lists
  <2> QED  BY <2>1, <2>2
<1>7. g[0] = <<>>
  BY <1>3, <1>4 DEF Lists
<1>8. ASSUME NEW m \in 1 .. k PROVE g[m] = <<m>> \o g[heap[m].next]
  <2>1. m \in 1 .. Len(heap)
    BY <1>3
  <2>2. heap[m].next \in 0 .. m - 1
    BY <2>1 DEF Chained
  <2>3. heap[m].next \in 0 .. k /\ heap[m].next # k /\ m \in 0 .. k
    BY <2>1, <2>2, <1>3
  <2>4. g[heap[m].next] = f[heap[m].next]
    BY <2>3
  <2>5. CASE m = k
    BY <2>4, <2>5, <2>3
  <2>6. CASE m # k
    <3>1. m \in 1 .. k - 1
      BY <2>6, <1>3
    <3>2. f[m] = <<m>> \o f[heap[m].next]
      BY <3>1, <1>4 DEF Lists
    <3> QED  BY <3>2, <2>3, <2>4, <2>6
  <2> QED  BY <2>5, <2>6
<1> HIDE DEF g
<1>9. Lists(heap, g, k)
  BY <1>6, <1>7, <1>8 DEF Lists
<1> QED  BY <1>9, <1>1

(* The recursion of List has a solution, so List is one.                   *)
Listing(heap, f) ==
    [m \in 0 .. Len(heap) |-> IF m = 0 THEN <<>> ELSE <<m>> \o f[heap[m].next]]

(* ... so List is one.                                                     *)
LEMMA ListDef ==
    ASSUME NEW S, NEW heap \in Seq(S), Chained(heap)
    PROVE  /\ List(heap, 0) = <<>>
           /\ \A m \in 1 .. Len(heap) : List(heap, m) = <<m>> \o List(heap, heap[m].next)
<1>1. PICK g : Lists(heap, g, Len(heap))
  <2>1. Len(heap) \in 0 .. Len(heap)
    OBVIOUS
  <2> QED  BY <2>1, ListsExist
<1>2. g = Listing(heap, g)
  <2>1. ASSUME NEW m \in 0 .. Len(heap) PROVE g[m] = Listing(heap, g)[m]
    <3>1. CASE m = 0
      BY <3>1, <1>1 DEF Lists, Listing
    <3>2. CASE m # 0
      <4>1. m \in 1 .. Len(heap)
        BY <3>2
      <4> QED  BY <4>1, <3>2, <1>1 DEF Lists, Listing
    <3> QED  BY <3>1, <3>2
  <2> QED  BY <2>1, <1>1 DEF Lists, Listing
<1> DEFINE f == CHOOSE f : f = Listing(heap, f)
<1>3. f = Listing(heap, f)
  BY <1>2
<1>4. \A n : List(heap, n) = f[n]
  BY DEF List, Listing
<1> HIDE DEF f
<1>5. \A m \in 0 .. Len(heap) : f[m] = IF m = 0 THEN <<>> ELSE <<m>> \o f[heap[m].next]
  <2>1. \A m \in 0 .. Len(heap) : f[m] = Listing(heap, f)[m]
    BY <1>3
  <2> QED  BY <2>1 DEF Listing
<1>6. 0 \in 0 .. Len(heap) /\ \A m \in 1 .. Len(heap) : m \in 0 .. Len(heap) /\ m # 0
  OBVIOUS
<1> QED  BY <1>4, <1>5, <1>6

(* A list goes from each of its nodes to the next, to the end.             *)
IsWalk(heap, n, L) ==
    /\ L \in Seq(1 .. Len(heap))
    /\ n = 0 => L = <<>>
    /\ n # 0 => Len(L) >= 1 /\ L[1] = n
    /\ \A i \in 1 .. Len(L) : heap[L[i]].next = IF i < Len(L) THEN L[i + 1] ELSE 0

(* A node in front of a walk.                                              *)
LEMMA WalkOn ==
    ASSUME NEW S, NEW heap \in Seq(S), NEW n \in 1 .. Len(heap), NEW L,
           IsWalk(heap, heap[n].next, L)
    PROVE  IsWalk(heap, n, <<n>> \o L)
<1> DEFINE M == <<n>> \o L
<1>1. /\ L \in Seq(1 .. Len(heap)) /\ Len(L) \in Nat
      /\ heap[n].next = 0 => L = <<>>
      /\ heap[n].next # 0 => Len(L) >= 1 /\ L[1] = heap[n].next
  BY DEF IsWalk
<1>2. /\ M \in Seq(1 .. Len(heap)) /\ Len(M) = Len(L) + 1 /\ M[1] = n
      /\ \A i \in 1 .. Len(L) : M[i + 1] = L[i]
  BY <1>1
<1> HIDE DEF M
<1>3. ASSUME NEW i \in 1 .. Len(M)
      PROVE  heap[M[i]].next = IF i < Len(M) THEN M[i + 1] ELSE 0
  <2>1. CASE i = 1 /\ heap[n].next = 0
    <3>1. Len(L) = 0
      BY <1>1, <2>1
    <3> QED  BY <1>2, <2>1, <3>1
  <2>2. CASE i = 1 /\ heap[n].next # 0
    <3>1. 1 \in 1 .. Len(L) /\ M[1 + 1] = L[1]
      BY <1>1, <1>2, <2>2
    <3> QED  BY <1>1, <1>2, <2>2, <3>1
  <2>3. CASE i > 1
    <3>0. Len(L) \in Nat /\ i \in 1 .. Len(L) + 1
      BY <1>1, <1>2
    <3>1. i - 1 \in 1 .. Len(L) /\ (i - 1) + 1 = i
      BY <3>0, <2>3
    <3>2. M[i] = L[i - 1]
      BY <3>1, <1>2
    <3>3. heap[L[i - 1]].next = IF i - 1 < Len(L) THEN L[i] ELSE 0
      BY <3>1 DEF IsWalk
    <3>4. i - 1 < Len(L) => i < Len(M) /\ i \in 1 .. Len(L)
      <4>1. Len(M) = Len(L) + 1
        BY <1>2
      <4> QED  BY <3>0, <3>1, <4>1
    <3>5. i - 1 < Len(L) => M[i + 1] = L[i]
      BY <3>4, <1>2
    <3>6. i < Len(M) => i - 1 < Len(L)
      BY <1>1, <1>2
    <3> QED  BY <3>2, <3>3, <3>4, <3>5, <3>6
  <2> QED  BY <2>1, <2>2, <2>3
<1>4. n # 0 /\ Len(M) >= 1
  BY <1>1, <1>2
<1>5. IsWalk(heap, n, M)
  BY <1>2, <1>3, <1>4 DEF IsWalk
<1> QED  BY <1>5 DEF M

(* What List returns is the walk from the node.                            *)
LEMMA ListWalk ==
    ASSUME NEW S, NEW heap \in Seq(S), Chained(heap)
    PROVE  \A n \in 0 .. Len(heap) : IsWalk(heap, n, List(heap, n))
<1> DEFINE T == {n \in 0 .. Len(heap) : ~ IsWalk(heap, n, List(heap, n))}
<1> SUFFICES ASSUME T # {} PROVE FALSE
  OBVIOUS
<1>1. PICK n \in T : \A y \in T : n <= y
  <2> HIDE DEF T
  <2>1. T \subseteq Nat
    BY DEF T
  <2> QED  BY <2>1, NatMin
<1>2. n # 0
  <2>1. IsWalk(heap, 0, <<>>)
    BY DEF IsWalk
  <2> QED  BY <2>1, <1>1, ListDef
<1>3. n \in 1 .. Len(heap)
  BY <1>1, <1>2
<1>4. heap[n].next \in 0 .. n - 1
  BY <1>3 DEF Chained
<1>5. heap[n].next \in 0 .. Len(heap) /\ heap[n].next < n /\ ~(n <= heap[n].next)
  BY <1>3, <1>4
<1>6. IsWalk(heap, heap[n].next, List(heap, heap[n].next))
  BY <1>1, <1>5
<1>7. IsWalk(heap, n, List(heap, n))
  BY <1>3, <1>6, ListDef, WalkOn
<1> QED  BY <1>1, <1>7

(* It goes down.                                                           *)
LEMMA WalkDown ==
    ASSUME NEW S, NEW heap \in Seq(S), Chained(heap), NEW n, NEW L, IsWalk(heap, n, L)
    PROVE  \A j \in 1 .. Len(L) : \A i \in 1 .. j - 1 : L[j] < L[i]
<1> DEFINE T == {j \in 1 .. Len(L) : \E i \in 1 .. j - 1 : ~ (L[j] < L[i])}
<1> SUFFICES ASSUME T # {} PROVE FALSE
  OBVIOUS
<1>1. PICK j \in T : \A y \in T : j <= y
  <2> HIDE DEF T
  <2>1. T \subseteq Nat
    BY DEF T
  <2> QED  BY <2>1, NatMin
<1>2. PICK i \in 1 .. j - 1 : ~ (L[j] < L[i])
  BY <1>1
<1>3. j - 1 \in 1 .. Len(L) /\ j - 1 < Len(L) /\ (j - 1) + 1 = j /\ Len(L) \in Nat /\ j \in 1 .. Len(L)
  <2>1. j \in 1 .. Len(L)
    BY <1>1
  <2>2. L \in Seq(1 .. Len(heap))
    BY DEF IsWalk
  <2>3. Len(L) \in Nat
    BY <2>2
  <2>4. j \in Nat /\ i \in Nat /\ 1 <= i /\ i <= j - 1
    BY <1>2, <2>1
  <2> QED  BY <2>1, <2>3, <2>4
<1>4. j - 1 \notin T
  BY <1>1, <1>3
<1>5. L[j] \in 1 .. Len(heap) /\ L[j - 1] \in 1 .. Len(heap) /\ L[i] \in 1 .. Len(heap)
  <2>1. \A l \in 1 .. Len(L) : L[l] \in 1 .. Len(heap)
    <3>1. L \in Seq(1 .. Len(heap))
      BY DEF IsWalk
    <3> HIDE DEF T
    <3> QED  BY <3>1
  <2>2. i \in 1 .. Len(L)
    BY <1>2, <1>3
  <2> QED  BY <2>1, <2>2, <1>3
<1>6. heap[L[j - 1]].next = L[j]
  BY <1>3 DEF IsWalk
<1>7. L[j] < L[j - 1]
  BY <1>5, <1>6 DEF Chained
<1>8. CASE i = j - 1
  BY <1>2, <1>7, <1>8
<1>9. CASE i < j - 1
  <2>1. i \in 1 .. (j - 1) - 1
    BY <1>2, <1>3, <1>9
  <2>2. L[j - 1] < L[i]
    BY <2>1, <1>3, <1>4
  <2> QED  BY <2>2, <1>2, <1>5, <1>7
<1> QED  BY <1>2, <1>3, <1>8, <1>9

-----------------------------------------------------------------------------
(* What FirstFrom finds: the first of the nodes K.                         *)
Firsts(heap, K, f) ==
    \A m \in 0 .. Len(heap) :
        f[m] = IF m = 0 THEN 0 ELSE IF m \in K THEN m ELSE f[heap[m].next]

(* There is such a function: it is built node by node.                     *)
LEMMA FirstsExist ==
    ASSUME NEW S, NEW heap \in Seq(S), Chained(heap), NEW K
    PROVE  \E f : DOMAIN f = 0 .. Len(heap) /\ f = [i \in 0 .. Len(heap) |-> f[i]]
                  /\ Firsts(heap, K, f)
<1> DEFINE Upto(f, k) ==
             /\ f = [i \in 0 .. k |-> f[i]]
             /\ \A m \in 0 .. k :
                   f[m] = IF m = 0 THEN 0 ELSE IF m \in K THEN m ELSE f[heap[m].next]
           T == {k \in 0 .. Len(heap) : ~ \E f : Upto(f, k)}
<1>1. T = {}
  <2> SUFFICES ASSUME T # {} PROVE FALSE
    OBVIOUS
  <2>1. PICK k \in T : \A y \in T : k <= y
    <3> HIDE DEF T
    <3>1. T \subseteq Nat
      BY DEF T
    <3> QED  BY <3>1, NatMin
  <2>2. k # 0
    <3> DEFINE f == [i \in 0 .. 0 |-> 0]
    <3>1. Upto(f, 0)
      OBVIOUS
    <3> HIDE DEF f, Upto
    <3> QED  BY <3>1, <2>1
  <2>3. k \in 1 .. Len(heap) /\ k - 1 \in 0 .. Len(heap) /\ k - 1 \notin T
    BY <2>1, <2>2
  <2>4. PICK f : Upto(f, k - 1)
    <3> HIDE DEF Upto
    <3> QED  BY <2>3
  <2> DEFINE g == [i \in 0 .. k |-> IF i = k THEN IF k \in K THEN k ELSE f[heap[k].next] ELSE f[i]]
  <2>5. g = [i \in 0 .. k |-> g[i]]
    OBVIOUS
  <2>6. ASSUME NEW m \in 0 .. k
        PROVE  g[m] = IF m = 0 THEN 0 ELSE IF m \in K THEN m ELSE g[heap[m].next]
    <3>1. CASE m = 0
      <4>1. 0 \in 0 .. k - 1
        BY <2>3
      <4>2. f[0] = 0
        BY <4>1, <2>4
      <4>3. g[m] = f[0]
        BY <3>1, <2>3
      <4> HIDE DEF g
      <4> QED  BY <4>2, <4>3, <3>1
    <3>2. CASE m # 0
      <4>1. m \in 1 .. Len(heap)
        BY <3>2, <2>3
      <4>2. heap[m].next \in 0 .. m - 1
        BY <4>1 DEF Chained
      <4>3. heap[m].next \in 0 .. k /\ heap[m].next # k
        BY <4>1, <4>2, <2>3
      <4>4. g[heap[m].next] = f[heap[m].next]
        BY <4>3
      <4>5. CASE m = k
        <5>1. g[m] = IF m \in K THEN m ELSE f[heap[m].next]
          BY <4>5
        <5> HIDE DEF g
        <5> QED  BY <5>1, <4>4, <4>5, <3>2
      <4>6. CASE m # k
        <5>1. m \in 0 .. k - 1
          BY <4>6, <2>3
        <5>2. f[m] = IF m \in K THEN m ELSE f[heap[m].next]
          BY <5>1, <2>4, <3>2
        <5>3. g[m] = f[m]
          BY <4>6
        <5> HIDE DEF g
        <5> QED  BY <5>2, <5>3, <4>4, <3>2
      <4> QED  BY <4>5, <4>6
    <3> QED  BY <3>1, <3>2
  <2> HIDE DEF g
  <2>7. Upto(g, k)
    BY <2>5, <2>6
  <2> HIDE DEF Upto
  <2> QED  BY <2>7, <2>1
<1>2. Len(heap) \in 0 .. Len(heap) /\ Len(heap) \notin T
  BY <1>1
<1>3. PICK f : Upto(f, Len(heap))
  <2> HIDE DEF Upto
  <2> QED  BY <1>2
<1>4. DOMAIN f = 0 .. Len(heap)
  BY <1>3
<1> QED  BY <1>3, <1>4 DEF Firsts

(* So it is for the nodes of a name, ...                                   *)
Naming(heap, name, f) ==
    [m \in 0 .. Len(heap) |->
        IF m = 0 THEN 0 ELSE IF heap[m].name = name THEN m ELSE f[heap[m].next]]

Named(heap, name) == {m \in 1 .. Len(heap) : heap[m].name = name}

(* Find is one.                                                            *)
LEMMA FindDef ==
    ASSUME NEW S, NEW heap \in Seq(S), Chained(heap), NEW name
    PROVE  \E f : /\ Firsts(heap, Named(heap, name), f)
                  /\ \A table : Find(heap, table, name) = f[table[OffsetOf(name)]]
<1> DEFINE K == Named(heap, name)
<1>0. \A m \in 0 .. Len(heap) : m # 0 => (m \in K <=> heap[m].name = name)
  BY DEF Named
<1>1. PICK g : DOMAIN g = 0 .. Len(heap) /\ g = [i \in 0 .. Len(heap) |-> g[i]] /\ Firsts(heap, K, g)
  <2> HIDE DEF K
  <2> QED  BY FirstsExist
<1>2. g = Naming(heap, name, g)
  <2> HIDE DEF K
  <2>1. \A m \in 0 .. Len(heap) : g[m] = Naming(heap, name, g)[m]
    BY <1>0, <1>1 DEF Naming, Firsts
  <2> QED  BY <2>1, <1>1 DEF Naming
<1> DEFINE f == CHOOSE f : f = Naming(heap, name, f)
<1>3. f = Naming(heap, name, f)
  BY <1>2
<1>4. \A table : Find(heap, table, name) = f[table[OffsetOf(name)]]
  BY DEF Find, FirstFrom, Naming
<1> HIDE DEF f, K
<1>5. Firsts(heap, K, f)
  <2>1. \A m \in 0 .. Len(heap) : f[m] = Naming(heap, name, f)[m]
    BY <1>3
  <2> QED  BY <2>1, <1>0 DEF Naming, Firsts
<1> QED  BY <1>4, <1>5 DEF K

(* ... and for those that are just for a target.                           *)
Matching(heap, id, name, f) ==
    [m \in 0 .. Len(heap) |->
        IF m = 0 THEN 0 ELSE IF Exact(heap[m], id, name) THEN m ELSE f[heap[m].next]]

Exacts(heap, id, name) == {m \in 1 .. Len(heap) : Exact(heap[m], id, name)}

SameNode(heap, n, id, name) == FirstFrom(heap, n, LAMBDA m : Exact(heap[m], id, name))

(* The search of session_apply_setting is one.                             *)
LEMMA SameDef ==
    ASSUME NEW S, NEW heap \in Seq(S), Chained(heap), NEW id, NEW name
    PROVE  \E f : /\ Firsts(heap, Exacts(heap, id, name), f)
                  /\ \A n : SameNode(heap, n, id, name) = f[n]
<1> DEFINE K == Exacts(heap, id, name)
<1>0. \A m \in 0 .. Len(heap) : m # 0 => (m \in K <=> Exact(heap[m], id, name))
  BY DEF Exacts
<1>1. PICK g : DOMAIN g = 0 .. Len(heap) /\ g = [i \in 0 .. Len(heap) |-> g[i]] /\ Firsts(heap, K, g)
  <2> HIDE DEF K
  <2> QED  BY FirstsExist
<1>2. g = Matching(heap, id, name, g)
  <2> HIDE DEF K
  <2>1. \A m \in 0 .. Len(heap) : g[m] = Matching(heap, id, name, g)[m]
    BY <1>0, <1>1 DEF Matching, Firsts
  <2> QED  BY <2>1, <1>1 DEF Matching
<1> DEFINE f == CHOOSE f : f = Matching(heap, id, name, f)
<1>3. f = Matching(heap, id, name, f)
  BY <1>2
<1>4. \A n : SameNode(heap, n, id, name) = f[n]
  BY DEF SameNode, FirstFrom, Matching
<1> HIDE DEF f, K
<1>5. Firsts(heap, K, f)
  <2>1. \A m \in 0 .. Len(heap) : f[m] = Matching(heap, id, name, f)[m]
    BY <1>3
  <2> QED  BY <2>1, <1>0 DEF Matching, Firsts
<1> QED  BY <1>4, <1>5 DEF K

(* It finds one of them, in any set of nodes that nothing leads out of.    *)
LEMMA FirstIn ==
    ASSUME NEW S, NEW heap \in Seq(S), Chained(heap), NEW K, NEW f, Firsts(heap, K, f),
           NEW P, Closed(heap, P)
    PROVE  \A n \in P \cup {0} : f[n] = 0 \/ (f[n] \in P \cap K /\ f[n] <= n)
<1> DEFINE T == {n \in P \cup {0} : ~ (f[n] = 0 \/ (f[n] \in P \cap K /\ f[n] <= n))}
<1>0. P \subseteq 1 .. Len(heap)
  BY DEF Closed
<1> SUFFICES ASSUME T # {} PROVE FALSE
  OBVIOUS
<1>1. PICK n \in T : \A y \in T : n <= y
  <2> HIDE DEF T
  <2>1. T \subseteq Nat
    <3>1. T \subseteq P \cup {0}
      BY DEF T
    <3> QED  BY <1>0, <3>1
  <2> QED  BY <2>1, NatMin
<1>2. \A m \in 0 .. Len(heap) : f[m] = IF m = 0 THEN 0 ELSE IF m \in K THEN m ELSE f[heap[m].next]
  BY DEF Firsts
<1>3. n # 0
  <2>1. f[0] = 0
    BY <1>2
  <2> QED  BY <2>1, <1>1
<1>4. n \in P /\ n \in 1 .. Len(heap) /\ n \in 0 .. Len(heap)
  BY <1>0, <1>1, <1>3
<1>5. n \notin K
  BY <1>1, <1>2, <1>3, <1>4
<1>6. f[n] = f[heap[n].next]
  BY <1>2, <1>3, <1>4, <1>5
<1>7. heap[n].next \in 0 .. n - 1 /\ heap[n].next \in P \cup {0}
  BY <1>4 DEF Chained, Closed
<1>8. heap[n].next \notin T
  BY <1>1, <1>4, <1>7
<1>9. f[heap[n].next] = 0 \/ (f[heap[n].next] \in P \cap K /\ f[heap[n].next] <= heap[n].next)
  BY <1>7, <1>8
<1>10. f[n] = 0 \/ (f[n] \in P \cap K /\ f[n] <= n)
  <2>1. CASE f[n] = 0
    BY <2>1
  <2>2. CASE f[n] # 0
    <3>1. f[n] \in P \cap K /\ f[n] <= heap[n].next /\ f[n] \in 1 .. Len(heap)
      BY <2>2, <1>0, <1>6, <1>9
    <3> QED  BY <3>1, <1>4, <1>7
  <2> QED  BY <2>1, <2>2
<1> QED  BY <1>1, <1>10

(* The first of more nodes is not behind the first of fewer.               *)
LEMMA FirstOrder ==
    ASSUME NEW S, NEW heap \in Seq(S), Chained(heap), NEW K, NEW f, Firsts(heap, K, f),
           NEW K2 \in SUBSET K, NEW f2, Firsts(heap, K2, f2)
    PROVE  \A n \in 0 .. Len(heap) :
               f2[n] # 0 => f[n] # 0 /\ f2[n] <= f[n] /\ (f[n] \in K2 => f[n] = f2[n])
<1> DEFINE Good(n) == f2[n] # 0 => f[n] # 0 /\ f2[n] <= f[n] /\ (f[n] \in K2 => f[n] = f2[n])
           T == {n \in 0 .. Len(heap) : ~Good(n)}
<1> SUFFICES ASSUME T # {} PROVE FALSE
  OBVIOUS
<1>1. PICK n \in T : \A y \in T : n <= y
  <2> HIDE DEF T
  <2>1. T \subseteq Nat
    BY DEF T
  <2> QED  BY <2>1, NatMin
<1>2. f[n] = (IF n = 0 THEN 0 ELSE IF n \in K THEN n ELSE f[heap[n].next])
  BY DEF Firsts
<1>3. f2[n] = (IF n = 0 THEN 0 ELSE IF n \in K2 THEN n ELSE f2[heap[n].next])
  BY DEF Firsts
<1>4. n # 0
  BY <1>1, <1>3
<1>5. n \in 1 .. Len(heap)
  BY <1>1, <1>4
<1>6. heap[n].next \in 0 .. n - 1
  BY <1>5 DEF Chained
<1>7. heap[n].next \notin T /\ heap[n].next \in 0 .. Len(heap)
  BY <1>1, <1>5, <1>6
<1>8. Good(heap[n].next)
  BY <1>7
<1>9. CASE n \in K2
  <2>1. f[n] = n /\ f2[n] = n
    BY <1>2, <1>3, <1>4, <1>9
  <2> QED  BY <2>1, <1>1, <1>5
<1>10. CASE n \notin K2 /\ n \in K
  <2>1. f[n] = n /\ f2[n] = f2[heap[n].next]
    BY <1>2, <1>3, <1>4, <1>10
  <2>2. f2[n] # 0 => f2[n] <= n
    <3>1. Closed(heap, 1 .. Len(heap))
      BY DEF Closed, Chained
    <3>2. n \in (1 .. Len(heap)) \cup {0}
      BY <1>5
    <3> QED  BY <3>1, <3>2, FirstIn
  <2> QED  BY <2>1, <2>2, <1>1, <1>4, <1>10
<1>11. CASE n \notin K2 /\ n \notin K
  <2>1. f[n] = f[heap[n].next] /\ f2[n] = f2[heap[n].next]
    BY <1>2, <1>3, <1>4, <1>11
  <2>2. Good(n)
    BY <2>1, <1>8
  <2> QED  BY <2>2, <1>1
<1> QED  BY <1>9, <1>10, <1>11

(* It is the same in a heap that has grown.                                *)
LEMMA FirstSame ==
    ASSUME NEW S, NEW heap \in Seq(S), Chained(heap), NEW heap2 \in Seq(S), Len(heap) <= Len(heap2),
           \A m \in 1 .. Len(heap) : heap2[m].next = heap[m].next,
           NEW K, NEW f, Firsts(heap, K, f),
           NEW K2, NEW f2, Firsts(heap2, K2, f2),
           \A m \in 1 .. Len(heap) : m \in K <=> m \in K2
    PROVE  \A n \in 0 .. Len(heap) : f2[n] = f[n]
<1> DEFINE T == {n \in 0 .. Len(heap) : f2[n] # f[n]}
<1> SUFFICES ASSUME T # {} PROVE FALSE
  OBVIOUS
<1>1. PICK n \in T : \A y \in T : n <= y
  <2> HIDE DEF T
  <2>1. T \subseteq Nat
    BY DEF T
  <2> QED  BY <2>1, NatMin
<1>2. f[n] = (IF n = 0 THEN 0 ELSE IF n \in K THEN n ELSE f[heap[n].next])
  BY DEF Firsts
<1>3. f2[n] = (IF n = 0 THEN 0 ELSE IF n \in K2 THEN n ELSE f2[heap2[n].next])
  <2>1. n \in 0 .. Len(heap2)
    BY <1>1
  <2> QED  BY <2>1 DEF Firsts
<1>4. n # 0
  BY <1>1, <1>2, <1>3
<1>5. n \in 1 .. Len(heap)
  BY <1>1, <1>4
<1>6. heap[n].next \in 0 .. n - 1 /\ heap2[n].next = heap[n].next
  BY <1>5 DEF Chained
<1>7. heap[n].next \notin T /\ heap[n].next \in 0 .. Len(heap)
  BY <1>1, <1>5, <1>6
<1>8. f2[heap2[n].next] = f[heap[n].next]
  BY <1>6, <1>7
<1> QED  BY <1>1, <1>2, <1>3, <1>5, <1>8

-----------------------------------------------------------------------------
(* What the heap holds.                                                    *)
AllValues == {x.value : x \in DefaultSet} \cup {c.value : c \in SettingSet}
                \cup {v.value : v \in Overrides}
Owners == {Service} \cup Sessions
Node == [name : Names, target : [wild : 0 .. 2, ids : SUBSET Databases], precedence : Int,
         value : AllValues, by : Owners, valueBy : Owners, next : Nat]

(* What the configuration sets is for names of the dictionary.             *)
LEMMA SettingsNamed ==
    ASSUME NEW c \in SettingSet
    PROVE  IsSetting(c) /\ c.value \in AllValues /\ OffsetOf(c.name) \in Offsets
<1>1. PICK f \in SettingFiles : c \in Range(f)
  BY DEF SettingSet
<1>2. IsSetting(c)
  BY <1>1, SettingsAssumption
<1> QED  BY <1>2 DEF IsSetting, AllValues, Offsets

(* The databases of the service are target ids.                            *)
LEMMA KnownDatabases == Known \subseteq Databases
<1> SUFFICES ASSUME NEW d \in Known PROVE d \in Databases
  OBVIOUS
<1>1. PICK c \in SettingSet : d \in c.target.ids
  BY DEF Known
<1> QED  BY <1>1, SettingsNamed DEF IsSetting

(* A finite set in some order.                                             *)
LEMMA ToSeq ==
    ASSUME NEW T, IsFiniteSet(T)
    PROVE  SetToSeq(T) \in Seq(T)
<1>1. PICK n \in Nat : ExistsBijection(1 .. n, T)
  BY FS_NatBijection
<1>2. Cardinality(T) = n
  BY <1>1, FS_CountingElements
<1>3. PICK f : f \in Bijection(1 .. n, T)
  BY <1>1 DEF ExistsBijection
<1>4. f \in [1 .. Cardinality(T) -> T] /\ IsInjective(f)
  BY <1>2, <1>3 DEF Bijection, Injection
<1> DEFINE s == SetToSeq(T)
<1>5. s \in [1 .. Cardinality(T) -> T]
  BY <1>4 DEF SetToSeq
<1> HIDE DEF s
<1>6. s \in Seq(T)
  BY <1>2, <1>5
<1> QED  BY <1>6 DEF s

-----------------------------------------------------------------------------
(* The states of the search that Update makes in a heap of N nodes.        *)
Scans(N) == [heap : [1 .. N -> Node], first : 0 .. N, sp : 0 .. N, stop : BOOLEAN]

(* ScanNode as one of three steps.                                         *)
Keep(st, n) == [st EXCEPT !.sp = n]
Stop(st) == [st EXCEPT !.stop = TRUE]
Unlink(st, n) == IF st.sp = 0 THEN [st EXCEPT !.first = st.heap[n].next]
                 ELSE [st EXCEPT !.heap[st.sp].next = st.heap[n].next]

(* The two moves that leave the heap alone.                                *)
LEMMA KeepStop ==
    ASSUME NEW N \in Nat, NEW st \in Scans(N), NEW n \in 1 .. N
    PROVE  /\ Keep(st, n) \in Scans(N) /\ Stop(st) \in Scans(N)
           /\ Keep(st, n).heap = st.heap /\ Keep(st, n).first = st.first
           /\ Keep(st, n).sp = n /\ Keep(st, n).stop = st.stop
           /\ Stop(st).heap = st.heap /\ Stop(st).first = st.first /\ Stop(st).stop
<1>1. st = [heap |-> st.heap, first |-> st.first, sp |-> st.sp, stop |-> st.stop]
      /\ st.heap \in [1 .. N -> Node] /\ st.first \in 0 .. N /\ st.sp \in 0 .. N /\ st.stop \in BOOLEAN
  BY DEF Scans
<1> DEFINE x == Keep(st, n)
           y == Stop(st)
<1>2. x = [heap |-> st.heap, first |-> st.first, sp |-> n, stop |-> st.stop]
  BY <1>1 DEF Keep
<1>3. y = [heap |-> st.heap, first |-> st.first, sp |-> st.sp, stop |-> TRUE]
  <2>1. st \in [{"heap", "first", "sp", "stop"} -> UNION {{st.heap}, {st.first}, {st.sp}, {st.stop}}]
        /\ DOMAIN st = {"heap", "first", "sp", "stop"}
    BY <1>1
  <2>2. y = [i \in {"heap", "first", "sp", "stop"} |-> IF i = "stop" THEN TRUE ELSE st[i]]
    BY <2>1 DEF Stop
  <2> QED  BY <2>2
<1>4. n \in 0 .. N /\ TRUE \in BOOLEAN
  OBVIOUS
<1> HIDE DEF x, y
<1>5. x \in Scans(N) /\ x.heap = st.heap /\ x.first = st.first /\ x.sp = n /\ x.stop = st.stop
  BY <1>1, <1>2, <1>4 DEF Scans
<1>6. y \in Scans(N) /\ y.heap = st.heap /\ y.first = st.first /\ y.stop
  BY <1>1, <1>3, <1>4 DEF Scans
<1> QED  BY <1>5, <1>6 DEF x, y

(* Taking a node out of the list.                                          *)
LEMMA UnlinkIs ==
    ASSUME NEW N \in Nat, NEW st \in Scans(N), NEW n \in 1 .. N, st.heap[n].next \in 0 .. N
    PROVE  /\ Unlink(st, n) \in Scans(N)
           /\ Unlink(st, n).sp = st.sp /\ Unlink(st, n).stop = st.stop
           /\ Unlink(st, n).first = IF st.sp = 0 THEN st.heap[n].next ELSE st.first
           /\ \A m \in 1 .. N : Unlink(st, n).heap[m].next =
                                 IF m = st.sp THEN st.heap[n].next ELSE st.heap[m].next
           /\ \A m \in 1 .. N :
                 Unlink(st, n).heap[m] = [st.heap[m] EXCEPT !.next = Unlink(st, n).heap[m].next]
<1>1. st = [heap |-> st.heap, first |-> st.first, sp |-> st.sp, stop |-> st.stop]
      /\ st.heap \in [1 .. N -> Node] /\ st.first \in 0 .. N /\ st.sp \in 0 .. N /\ st.stop \in BOOLEAN
  BY DEF Scans
<1>2. \A m \in 1 .. N : st.heap[m] \in Node
  BY <1>1
<1>3. ASSUME NEW x \in Node, NEW y \in Nat
      PROVE  /\ [x EXCEPT !.next = y] \in Node /\ [x EXCEPT !.next = y].next = y
             /\ x = [x EXCEPT !.next = x.next]
  BY DEF Node
<1> DEFINE u == Unlink(st, n)
           y == st.heap[n].next
<1>4. CASE st.sp = 0
  <2>1. u = [st EXCEPT !.first = y]
    BY <1>4 DEF Unlink
  <2>2. u = [heap |-> st.heap, first |-> y, sp |-> st.sp, stop |-> st.stop]
    BY <1>1, <2>1
  <2> HIDE DEF u
  <2>3. u \in Scans(N) /\ u.heap = st.heap /\ u.sp = st.sp /\ u.stop = st.stop /\ u.first = y
    BY <1>1, <2>2 DEF Scans
  <2>4. \A m \in 1 .. N : m # st.sp
    BY <1>4
  <2> QED  BY <1>2, <1>3, <1>4, <2>3, <2>4 DEF u
<1>5. CASE st.sp # 0
  <2>1. st.sp \in 1 .. N
    BY <1>1, <1>5
  <2> DEFINE z == [st.heap[st.sp] EXCEPT !.next = y]
             h == [st.heap EXCEPT ![st.sp] = z]
  <2>2. u = [st EXCEPT !.heap = h]
    BY <1>5 DEF Unlink
  <2>3. z \in Node /\ z.next = y
    BY <1>2, <1>3, <2>1
  <2> HIDE DEF z
  <2>4. h \in [1 .. N -> Node]
    BY <1>1, <2>3
  <2>5. \A m \in 1 .. N : h[m] = IF m = st.sp THEN z ELSE st.heap[m]
    BY <1>1
  <2> HIDE DEF h
  <2>6. u = [heap |-> h, first |-> st.first, sp |-> st.sp, stop |-> st.stop]
    BY <1>1, <2>2
  <2> HIDE DEF u
  <2>7. u \in Scans(N) /\ u.heap = h /\ u.sp = st.sp /\ u.stop = st.stop /\ u.first = st.first
    BY <1>1, <2>4, <2>6 DEF Scans
  <2>8. ASSUME NEW m \in 1 .. N
        PROVE  /\ h[m].next = IF m = st.sp THEN y ELSE st.heap[m].next
               /\ h[m] = [st.heap[m] EXCEPT !.next = h[m].next]
    <3>1. CASE m = st.sp
      BY <3>1, <2>3, <2>5 DEF z
    <3>2. CASE m # st.sp
      BY <3>2, <2>5, <1>2, <1>3
    <3> QED  BY <3>1, <3>2
  <2> QED  BY <1>5, <2>7, <2>8 DEF u
<1> QED  BY <1>4, <1>5

(* A step of the search is one of the three.                               *)
LEMMA ScanKinds ==
    ASSUME NEW N \in Nat, NEW st \in Scans(N), NEW n \in 1 .. N, NEW c
    PROVE  \/ st.stop /\ ScanNode(st, n, c) = st
           \/ /\ ~st.stop /\ (st.heap[n].name # c.name \/ Rank(st.heap, n, c) = 0)
              /\ ScanNode(st, n, c) = Keep(st, n)
           \/ /\ ~st.stop /\ st.heap[n].name = c.name /\ Rank(st.heap, n, c) > 0
              /\ ScanNode(st, n, c) = Stop(st)
           \/ /\ ~st.stop /\ st.heap[n].name = c.name /\ Rank(st.heap, n, c) # 0
              /\ ~(Rank(st.heap, n, c) > 0) /\ ScanNode(st, n, c) = Unlink(st, n)
  BY DEF ScanNode, Keep, Stop, Unlink

(* It stays within the heap.                                               *)
LEMMA ScanTyped ==
    ASSUME NEW N \in Nat, NEW st \in Scans(N), NEW n \in 1 .. N, NEW c, st.heap[n].next \in 0 .. N
    PROVE  ScanNode(st, n, c) \in Scans(N)
  BY ScanKinds, KeepStop, UnlinkIs

(* The nodes whose successors exist: what a search may be in.              *)
Linked(N) == {st \in Scans(N) : \A m \in 1 .. N : st.heap[m].next \in 0 .. N}

(* So do the lists.                                                        *)
LEMMA ScanLinked ==
    ASSUME NEW N \in Nat, NEW st \in Linked(N), NEW n \in 1 .. N, NEW c
    PROVE  ScanNode(st, n, c) \in Linked(N)
<1>1. st \in Scans(N) /\ \A m \in 1 .. N : st.heap[m].next \in 0 .. N
  BY DEF Linked
<1>2. ScanNode(st, n, c) \in Scans(N)
  BY <1>1, ScanTyped
<1>3. Unlink(st, n) \in Linked(N)
  <2>1. Unlink(st, n) \in Scans(N)
    BY <1>1, UnlinkIs
  <2>2. ASSUME NEW m \in 1 .. N PROVE Unlink(st, n).heap[m].next \in 0 .. N
    <3>1. st.heap[n].next \in 0 .. N /\ st \in Scans(N)
      BY <1>1
    <3>2. \A k \in 1 .. N : Unlink(st, n).heap[k].next =
                            IF k = st.sp THEN st.heap[n].next ELSE st.heap[k].next
      <4>1. st.heap[n].next \in 0 .. N
        BY <3>1
      <4>2. st \in Scans(N)
        BY <3>1
      <4> QED  BY <4>1, <4>2, UnlinkIs
    <3> QED  BY <3>1, <3>2, <1>1
  <2> QED  BY <2>1, <2>2 DEF Linked
<1>4. Keep(st, n) \in Linked(N) /\ Stop(st) \in Linked(N)
  BY <1>1, KeepStop DEF Linked
<1> QED  BY <1>1, <1>3, <1>4, ScanKinds

(* The search is a sequence of states, one for each node of the list.      *)
ScanBase(heap, n) == [heap |-> heap, first |-> n, sp |-> 0, stop |-> FALSE]

Scan(base, L, c) == FoldLeft(LAMBDA st, n : ScanNode(st, n, c), base, L)

ScanIter(base, L, c, f) ==
    [s \in SUBSET (DOMAIN L) |->
        IF s = {} THEN base ELSE ScanNode(f[s \ {Max(s)}], L[Max(s)], c)]

(* The search over a list, as a recursion over its length.                 *)
LEMMA ScanFold ==
    ASSUME NEW N \in Nat, NEW base \in Linked(N), NEW L \in Seq(1 .. N), NEW c
    PROVE  \E h : /\ h[0] = base
                  /\ \A k \in 1 .. Len(L) : h[k] = ScanNode(h[k - 1], L[k], c)
                  /\ Scan(base, L, c) = h[Len(L)]
<1> DEFINE n == Len(L)
           S == Linked(N)
           g == [p \in (1 .. n) \X S |-> ScanNode(p[2], L[p[1]], c)]
<1>1. n \in Nat /\ DOMAIN L = 1 .. n /\ \A k \in 1 .. n : L[k] \in 1 .. N
  OBVIOUS
<1> HIDE DEF S, n
<1>2. g \in [(1 .. n) \X S -> S]
  <2> SUFFICES ASSUME NEW p \in (1 .. n) \X S PROVE ScanNode(p[2], L[p[1]], c) \in S
    OBVIOUS
  <2>1. p[1] \in 1 .. n /\ p[2] \in S
    OBVIOUS
  <2>2. L[p[1]] \in 1 .. N
    BY <1>1, <2>1
  <2> QED  BY <2>1, <2>2, ScanLinked DEF S
<1>3. \A k \in 1 .. n, st \in S : g[<<k, st>>] = ScanNode(st, L[k], c)
  OBVIOUS
<1> HIDE DEF g
<1>4. base \in S
  BY DEF S
<1>5. PICK f0 \in [SUBSET (1 .. n) -> S] : Solves(f0, n, base, g)
  BY <1>1, <1>2, <1>4, RecursionExists
<1>6. f0 = ScanIter(base, L, c, f0)
  <2>1. ASSUME NEW s \in SUBSET (1 .. n), s # {}
        PROVE  f0[s] = ScanNode(f0[s \ {Max(s)}], L[Max(s)], c)
    <3>1. Max(s) \in 1 .. n
      BY <1>1, <2>1, SetMax
    <3>2. f0[s \ {Max(s)}] \in S
      BY <1>5
    <3>3. f0[s] = g[<<Max(s), f0[s \ {Max(s)}]>>]
      BY <1>5, <2>1 DEF Solves
    <3> QED  BY <3>1, <3>2, <3>3, <1>3
  <2>2. f0[{}] = base
    BY <1>5 DEF Solves
  <2>3. f0 = [s \in SUBSET (1 .. n) |-> f0[s]]
    BY <1>5
  <2>4. \A s \in SUBSET (1 .. n) :
           f0[s] = IF s = {} THEN base ELSE ScanNode(f0[s \ {Max(s)}], L[Max(s)], c)
    BY <2>1, <2>2
  <2> QED  BY <2>3, <2>4, <1>1 DEF ScanIter
<1> DEFINE f == CHOOSE f : f = ScanIter(base, L, c, f)
<1>7. f = ScanIter(base, L, c, f)
  BY <1>6
<1>8. Scan(base, L, c) = f[DOMAIN L]
  BY DEF Scan, FoldLeft, MapThenFoldSet, ScanIter
<1> HIDE DEF f
<1>9. \A s \in SUBSET (1 .. n) :
           f[s] = IF s = {} THEN base ELSE ScanNode(f[s \ {Max(s)}], L[Max(s)], c)
  <2>1. \A s \in SUBSET (1 .. n) : f[s] = ScanIter(base, L, c, f)[s]
    BY <1>7
  <2> QED  BY <2>1, <1>1 DEF ScanIter
<1> DEFINE h == [k \in 0 .. n |-> f[1 .. k]]
<1>10. h[0] = base
  <2>1. 1 .. 0 = {} /\ {} \in SUBSET (1 .. n) /\ 0 \in 0 .. n
    BY <1>1
  <2>2. f[{}] = base
    BY <1>9
  <2> QED  BY <2>1, <2>2
<1>11. ASSUME NEW k \in 1 .. n PROVE h[k] = ScanNode(h[k - 1], L[k], c)
  <2>1. k \in Nat /\ k > 0 /\ 1 .. k \in SUBSET (1 .. n) /\ k \in 0 .. n /\ k - 1 \in 0 .. n
    BY <1>1
  <2>2. Max(1 .. k) = k /\ (1 .. k) \ {k} = 1 .. k - 1 /\ 1 .. k # {}
    BY <2>1, PrefixMax
  <2>3. f[1 .. k] = ScanNode(f[(1 .. k) \ {Max(1 .. k)}], L[Max(1 .. k)], c)
    BY <1>9, <2>1, <2>2
  <2>4. f[1 .. k] = ScanNode(f[1 .. k - 1], L[k], c)
    BY <2>2, <2>3
  <2>5. h[k] = f[1 .. k] /\ h[k - 1] = f[1 .. k - 1]
    BY <2>1
  <2> QED  BY <2>4, <2>5
<1>12. h[n] = f[DOMAIN L]
  <2>1. n \in 0 .. n
    BY <1>1
  <2> QED  BY <2>1, <1>1
<1> HIDE DEF h
<1> QED  BY <1>8, <1>10, <1>11, <1>12 DEF n

-----------------------------------------------------------------------------
(* The search through a list L of a heap.  What an entry says, but for its *)
(* value and its place, never changes.                                     *)
Alike(x, y) ==
    x.name = y.name /\ x.target = y.target /\ x.precedence = y.precedence /\ x.by = y.by

(* Whatever closed set a list is in, it stays in.                          *)
Fine(heap, n, st) ==
    /\ \A m \in 1 .. Len(heap) : Alike(st.heap[m], heap[m]) /\ st.heap[m].next \in 0 .. m - 1
    /\ \A P \in SUBSET (1 .. Len(heap)) :
          Closed(heap, P) => /\ \A m \in P : st.heap[m].next \in P \cup {0}
                             /\ n \in P \cup {0} => st.first \in P \cup {0}

(* The nodes of the list that c does not replace.                          *)
Staying(heap, L, c) ==
    {m \in {L[j] : j \in 1 .. Len(L)} : heap[m].name # c.name \/ Rank(heap, m, c) = 0}

Ahead(L, k) == IF k < Len(L) THEN L[k + 1] ELSE 0

(* After k nodes: what was passed and stays is a list, its end leads on.   *)
At(heap, L, c, k, st) ==
    /\ \A j \in k + 1 .. Len(L) : st.heap[L[j]].next = Ahead(L, j)
    /\ \A j \in 1 .. k : L[j] \in Staying(heap, L, c) /\ L[j] # st.sp =>
                            st.heap[L[j]].next \in Staying(heap, L, c)
    /\ \/ st.sp = 0 /\ st.first = Ahead(L, k)
       \/ /\ \E j \in 1 .. k : st.sp = L[j]
          /\ st.sp \in Staying(heap, L, c) /\ st.heap[st.sp].next = Ahead(L, k)
          /\ st.first \in Staying(heap, L, c)

(* Ranks are compared as numbers.                                          *)
LEMMA RankNumber ==
    ASSUME NEW N \in Nat, NEW heap \in [1 .. N -> Node], NEW m \in 1 .. N, NEW c, IsSetting(c)
    PROVE  Rank(heap, m, c) \in Int
<1>1. heap[m] \in Node
  OBVIOUS
<1>2. heap[m].precedence \in Int /\ heap[m].target.wild \in 0 .. 2
  BY <1>1 DEF Node
<1>3. c.precedence \in Int /\ c.target.wild \in 0 .. 2
  BY DEF IsSetting
<1>4. ASSUME NEW a \in Int, NEW b \in Int PROVE a - b \in Int
  OBVIOUS
<1>5. heap[m].target.wild \in Int /\ c.target.wild \in Int
  BY <1>2, <1>3
<1> QED  BY <1>2, <1>3, <1>4, <1>5 DEF Rank

(* What stays while the search goes on.                                    *)
LEMMA ScanStays ==
    ASSUME NEW heap \in Seq(Node), Chained(heap), NEW n \in 0 .. Len(heap), NEW L, IsWalk(heap, n, L),
           NEW c, IsSetting(c), NEW k \in 1 .. Len(L), NEW st \in Linked(Len(heap)), Fine(heap, n, st),
           At(heap, L, c, k - 1, st)
    PROVE  /\ L[k] \in 1 .. Len(heap) /\ Len(L) \in Nat
           /\ L[k] \in Staying(heap, L, c)
                 <=> (st.heap[L[k]].name # c.name \/ Rank(st.heap, L[k], c) = 0)
           /\ Ahead(L, k - 1) = L[k] /\ st.heap[L[k]].next = Ahead(L, k)
<1>1. L \in Seq(1 .. Len(heap))
  BY DEF IsWalk
<1>2. L[k] \in 1 .. Len(heap) /\ Len(L) \in Nat
  BY <1>1
<1>3. Alike(st.heap[L[k]], heap[L[k]])
  BY <1>2 DEF Fine
<1>4. L[k] \in Staying(heap, L, c) <=> (heap[L[k]].name # c.name \/ Rank(heap, L[k], c) = 0)
  BY DEF Staying
<1>5. k - 1 < Len(L) /\ (k - 1) + 1 = k /\ k \in (k - 1) + 1 .. Len(L)
  BY <1>2
<1>6. L[k] \in Staying(heap, L, c)
        <=> (st.heap[L[k]].name # c.name \/ Rank(st.heap, L[k], c) = 0)
  <2>1. Rank(st.heap, L[k], c) = Rank(heap, L[k], c) /\ st.heap[L[k]].name = heap[L[k]].name
    BY <1>3 DEF Rank, Alike
  <2> QED  BY <2>1, <1>4
<1>7. Ahead(L, k - 1) = L[k]
  BY <1>5 DEF Ahead
<1>8. st.heap[L[k]].next = Ahead(L, k)
  BY <1>5 DEF At
<1> QED  BY <1>2, <1>6, <1>7, <1>8

(* A node that stays.                                                      *)
LEMMA KeepAt ==
    ASSUME NEW heap \in Seq(Node), Chained(heap), NEW n \in 0 .. Len(heap), NEW L, IsWalk(heap, n, L),
           NEW c, IsSetting(c), NEW k \in 1 .. Len(L), NEW st \in Linked(Len(heap)), Fine(heap, n, st),
           At(heap, L, c, k - 1, st), L[k] \in Staying(heap, L, c)
    PROVE  Fine(heap, n, Keep(st, L[k])) /\ At(heap, L, c, k, Keep(st, L[k]))
<1> DEFINE st2 == Keep(st, L[k])
           Stay == Staying(heap, L, c)
<1>1. L[k] \in 1 .. Len(heap) /\ Len(L) \in Nat /\ Ahead(L, k - 1) = L[k]
      /\ st.heap[L[k]].next = Ahead(L, k)
  BY ScanStays
<1>2. st2.heap = st.heap /\ st2.first = st.first /\ st2.sp = L[k]
  <2>1. st \in Scans(Len(heap)) /\ Len(heap) \in Nat
    BY DEF Linked
  <2> QED  BY <2>1, <1>1, KeepStop
<1> HIDE DEF st2
<1>3. Fine(heap, n, st2)
  BY <1>2 DEF Fine
<1>4. \A j \in k + 1 .. Len(L) : st2.heap[L[j]].next = Ahead(L, j)
  <2>1. \A j \in k + 1 .. Len(L) : j \in (k - 1) + 1 .. Len(L)
    BY <1>1
  <2> QED  BY <2>1, <1>2 DEF At
<1>5. ASSUME NEW j \in 1 .. k, L[j] \in Stay, L[j] # L[k]
      PROVE  st2.heap[L[j]].next \in Stay
  <2>1. j \in 1 .. k - 1
    BY <1>5, <1>1
  <2>2. CASE L[j] # st.sp
    <3>1. st.heap[L[j]].next \in Stay
      BY <2>1, <2>2, <1>5 DEF At
    <3> QED  BY <3>1, <1>2
  <2>3. CASE L[j] = st.sp
    <3>1. L[j] \in 1 .. Len(heap)
      <4>1. L \in Seq(1 .. Len(heap)) /\ j \in 1 .. Len(L)
        BY <2>1, <1>1 DEF IsWalk
      <4> QED  BY <4>1
    <3>2. st.sp # 0
      BY <2>3, <3>1
    <3>3. st.heap[st.sp].next = Ahead(L, k - 1)
      BY <3>2 DEF At
    <3> QED  BY <3>3, <2>3, <1>1, <1>2
  <2> QED  BY <2>2, <2>3
<1>6. st2.first \in Stay
  BY <1>1, <1>2 DEF At
<1>7. \E j \in 1 .. k : st2.sp = L[j]
  <2>1. k \in 1 .. k
    BY <1>1
  <2> QED  BY <2>1, <1>2
<1>8. st2.heap[st2.sp].next = Ahead(L, k) /\ st2.sp \in Stay
  BY <1>1, <1>2
<1> HIDE DEF Stay
<1>9. At(heap, L, c, k, st2)
  BY <1>2, <1>4, <1>5, <1>6, <1>7, <1>8 DEF At, Stay
<1> QED  BY <1>3, <1>9 DEF st2

(* A node that goes: what was before it leads to what is behind.           *)
LEMMA UnlinkAt ==
    ASSUME NEW heap \in Seq(Node), Chained(heap), NEW n \in 0 .. Len(heap), NEW L, IsWalk(heap, n, L),
           NEW c, IsSetting(c), NEW k \in 1 .. Len(L), NEW st \in Linked(Len(heap)), Fine(heap, n, st),
           At(heap, L, c, k - 1, st), L[k] \notin Staying(heap, L, c)
    PROVE  Fine(heap, n, Unlink(st, L[k])) /\ At(heap, L, c, k, Unlink(st, L[k]))
<1> DEFINE N == Len(heap)
           st2 == Unlink(st, L[k])
           Stay == Staying(heap, L, c)
           x == L[k]
           y == st.heap[x].next
<1>1. x \in 1 .. N /\ Len(L) \in Nat /\ Ahead(L, k - 1) = x /\ y = Ahead(L, k)
  BY ScanStays
<1>2. st \in Scans(N) /\ N \in Nat /\ y \in 0 .. N /\ \A j \in 1 .. Len(L) : L[j] \in 1 .. N
  <2>1. L \in Seq(1 .. N)
    BY DEF IsWalk
  <2> QED  BY <2>1, <1>1 DEF Linked
<1>3. /\ st2.sp = st.sp
      /\ st2.first = IF st.sp = 0 THEN y ELSE st.first
      /\ \A m \in 1 .. N : st2.heap[m].next = IF m = st.sp THEN y ELSE st.heap[m].next
  BY <1>1, <1>2, UnlinkIs
<1>4. \A m \in 1 .. N : st2.heap[m] = [st.heap[m] EXCEPT !.next = st2.heap[m].next]
  BY <1>1, <1>2, UnlinkIs
<1> HIDE DEF st2
<1>5. \A m \in 1 .. N : st.heap[m] \in Node /\ Alike(st.heap[m], heap[m]) /\ st.heap[m].next \in 0 .. m - 1
  <2>1. st.heap \in [1 .. N -> Node]
    BY <1>2 DEF Scans
  <2> QED  BY <2>1 DEF Fine
<1>6. \A m \in 1 .. N : Alike(st2.heap[m], heap[m])
  <2> SUFFICES ASSUME NEW m \in 1 .. N PROVE Alike(st2.heap[m], heap[m])
    OBVIOUS
  <2>1. st2.heap[m] = [st.heap[m] EXCEPT !.next = st2.heap[m].next]
    BY <1>4
  <2>2. st.heap[m] \in Node /\ Alike(st.heap[m], heap[m])
    BY <1>5
  <2> DEFINE z == st2.heap[m].next
             w == st.heap[m]
             v == st2.heap[m]
  <2>3. v = [w EXCEPT !.next = z] /\ w \in Node
    BY <2>1, <2>2
  <2> HIDE DEF z, w, v
  <2>4. v.name = w.name /\ v.target = w.target /\ v.precedence = w.precedence /\ v.by = w.by
    BY <2>3 DEF Node
  <2> QED  BY <2>2, <2>4 DEF Alike, v, w
<1>7. \A j \in 1 .. Len(L) : \A i \in 1 .. j - 1 : L[j] < L[i]
  BY WalkDown
<1> HIDE DEF N
<1>8. CASE st.sp = 0
  <2>1. st.first = x /\ st2.first = y /\ st2.sp = 0
    BY <1>8, <1>1, <1>2, <1>3 DEF At
  <2>2. \A m \in 1 .. N : st2.heap[m].next = st.heap[m].next
    BY <1>3, <1>8
  <2>3. Fine(heap, n, st2)
    <3>1. ASSUME NEW P \in SUBSET (1 .. N), Closed(heap, P)
          PROVE  /\ \A m \in P : st2.heap[m].next \in P \cup {0}
                 /\ n \in P \cup {0} => st2.first \in P \cup {0}
      <4>1. /\ \A m \in P : st.heap[m].next \in P \cup {0}
            /\ n \in P \cup {0} => st.first \in P \cup {0}
        BY <3>1 DEF Fine, N
      <4>2. x # 0
        BY <1>1 DEF N
      <4> HIDE DEF x
      <4> QED  BY <4>1, <4>2, <2>1, <2>2 DEF y
    <3>2. \A m \in 1 .. N : st2.heap[m].next \in 0 .. m - 1
      BY <2>2, <1>5
    <3> QED  BY <3>1, <3>2, <1>6 DEF Fine, N
  <2>4. \A j \in k + 1 .. Len(L) : st2.heap[L[j]].next = Ahead(L, j)
    <3>1. \A j \in k + 1 .. Len(L) : j \in (k - 1) + 1 .. Len(L) /\ j \in 1 .. Len(L)
      BY <1>1
    <3> QED  BY <3>1, <2>2, <1>2 DEF At
  <2>5. ASSUME NEW j \in 1 .. k, L[j] \in Stay, L[j] # st2.sp
        PROVE  st2.heap[L[j]].next \in Stay
    <3>1. j \in 1 .. k - 1 /\ j \in 1 .. Len(L)
      <4>1. j # k
        BY <2>5
      <4> QED  BY <4>1, <1>1
    <3>2. st.heap[L[j]].next \in Stay
      BY <3>1, <2>1, <2>5, <1>8 DEF At
    <3> QED  BY <3>1, <3>2, <2>2, <1>2
  <2> HIDE DEF Stay, x, y
  <2>6. At(heap, L, c, k, st2)
    BY <2>1, <2>4, <2>5, <1>1 DEF At, Stay
  <2> QED  BY <2>3, <2>6 DEF st2, x
<1>9. CASE st.sp # 0
  <2> DEFINE sp == st.sp
  <2>1. PICK i \in 1 .. k - 1 : sp = L[i]
    BY <1>9 DEF At
  <2>2. sp \in Stay /\ st.heap[sp].next = x /\ st.first \in Stay /\ st2.first = st.first /\ st2.sp = sp
    BY <1>9, <1>1, <1>3 DEF At
  <2>3. i \in 1 .. Len(L) /\ sp \in 1 .. N
    BY <2>1, <1>1, <1>2
  <2>4. st2.heap[sp].next = y /\ \A m \in 1 .. N : m # sp => st2.heap[m].next = st.heap[m].next
    BY <2>3, <1>3
  <2>5. Fine(heap, n, st2)
    <3>1. ASSUME NEW P \in SUBSET (1 .. N), Closed(heap, P)
          PROVE  /\ \A m \in P : st2.heap[m].next \in P \cup {0}
                 /\ n \in P \cup {0} => st2.first \in P \cup {0}
      <4>1. /\ \A m \in P : st.heap[m].next \in P \cup {0}
            /\ n \in P \cup {0} => st.first \in P \cup {0}
        BY <3>1 DEF Fine, N
      <4>2. x # 0
        BY <1>1 DEF N
      <4>3. sp \in P => x \in P
        BY <4>1, <4>2, <2>2
      <4>4. x \in P => y \in P \cup {0}
        BY <4>1
      <4> HIDE DEF x, y, sp
      <4>5. ASSUME NEW m \in P PROVE st2.heap[m].next \in P \cup {0}
        <5>1. m \in 1 .. N
          BY <3>1
        <5> QED  BY <5>1, <4>1, <4>3, <4>4, <2>4
      <4> QED  BY <4>1, <4>5, <2>2
    <3>2. ASSUME NEW m \in 1 .. N PROVE st2.heap[m].next \in 0 .. m - 1
      <4>1. st.heap[m].next \in 0 .. m - 1 /\ st.heap[x].next \in 0 .. x - 1
            /\ st.heap[sp].next \in 0 .. sp - 1
        BY <1>1, <1>5, <2>3
      <4> HIDE DEF sp
      <4>2. CASE m = sp
        <5>1. x \in 0 .. sp - 1 /\ y \in 0 .. x - 1 /\ sp \in 1 .. N
          BY <4>1, <2>2, <2>3
        <5>2. y \in 0 .. sp - 1
          <6> HIDE DEF x, y
          <6> QED  BY <5>1, <1>2
        <5> QED  BY <5>2, <4>2, <2>4
      <4>3. CASE m # sp
        BY <4>1, <4>3, <2>4
      <4> QED  BY <4>2, <4>3
    <3> QED  BY <3>1, <3>2, <1>6 DEF Fine, N
  <2>6. \A j \in k + 1 .. Len(L) : st2.heap[L[j]].next = Ahead(L, j)
    <3> SUFFICES ASSUME NEW j \in k + 1 .. Len(L) PROVE st2.heap[L[j]].next = Ahead(L, j)
      OBVIOUS
    <3>1. j \in (k - 1) + 1 .. Len(L) /\ j \in 1 .. Len(L) /\ i \in 1 .. j - 1
      BY <1>1
    <3>2. L[j] < L[i] /\ L[j] \in 1 .. N /\ L[i] \in 1 .. N
      BY <3>1, <2>3, <1>2, <1>7
    <3>3. L[j] # sp
      <4> HIDE DEF sp
      <4> QED  BY <3>2, <2>1, <1>2
    <3>4. st.heap[L[j]].next = Ahead(L, j)
      BY <3>1 DEF At
    <3> HIDE DEF sp
    <3> QED  BY <3>2, <3>3, <3>4, <2>4
  <2>7. ASSUME NEW j \in 1 .. k, L[j] \in Stay, L[j] # st2.sp
        PROVE  st2.heap[L[j]].next \in Stay
    <3>1. j \in 1 .. k - 1 /\ j \in 1 .. Len(L)
      <4>1. j # k
        BY <2>7
      <4> QED  BY <4>1, <1>1
    <3>2. st.heap[L[j]].next \in Stay
      BY <3>1, <2>2, <2>7 DEF At
    <3> HIDE DEF sp, Stay
    <3> QED  BY <3>1, <3>2, <2>2, <2>4, <2>7, <1>2
  <2>8. \E j \in 1 .. k : st2.sp = L[j]
    <3>1. i \in 1 .. k
      BY <1>1
    <3> QED  BY <3>1, <2>1, <2>2
  <2> HIDE DEF Stay, x, y, sp
  <2>9. At(heap, L, c, k, st2)
    BY <2>2, <2>4, <2>6, <2>7, <2>8, <1>1 DEF At, Stay
  <2> QED  BY <2>5, <2>9 DEF st2, x
<1> QED  BY <1>8, <1>9

(* The states after k nodes.                                               *)
Scanned(heap, n, L, c, k) ==
    {st \in Linked(Len(heap)) : Fine(heap, n, st) /\ (st.stop \/ At(heap, L, c, k, st))}

(* One step of the search.                                                 *)
LEMMA ScanStep ==
    ASSUME NEW heap \in Seq(Node), Chained(heap), NEW n \in 0 .. Len(heap), NEW L, IsWalk(heap, n, L),
           NEW c, IsSetting(c), NEW k \in 1 .. Len(L), NEW st \in Scanned(heap, n, L, c, k - 1)
    PROVE  ScanNode(st, L[k], c) \in Scanned(heap, n, L, c, k)
<1>1. st \in Linked(Len(heap)) /\ Fine(heap, n, st) /\ (st.stop \/ At(heap, L, c, k - 1, st))
  BY DEF Scanned
<1>2. st \in Scans(Len(heap)) /\ Len(heap) \in Nat /\ L[k] \in 1 .. Len(heap)
  <2>1. L \in Seq(1 .. Len(heap))
    BY DEF IsWalk
  <2> QED  BY <2>1, <1>1 DEF Linked
<1>3. ScanNode(st, L[k], c) \in Linked(Len(heap))
  BY <1>1, <1>2, ScanLinked
<1>4. CASE st.stop
  <2>1. ScanNode(st, L[k], c) = st
    BY <1>4 DEF ScanNode
  <2> QED  BY <2>1, <1>1, <1>4 DEF Scanned
<1>5. CASE ~st.stop
  <2>1. At(heap, L, c, k - 1, st)
    BY <1>1, <1>5
  <2>2. L[k] \in Staying(heap, L, c)
          <=> (st.heap[L[k]].name # c.name \/ Rank(st.heap, L[k], c) = 0)
    BY <2>1, <1>1, ScanStays
  <2>3. CASE ScanNode(st, L[k], c) = Keep(st, L[k]) /\ L[k] \in Staying(heap, L, c)
    <3>1. Fine(heap, n, Keep(st, L[k])) /\ At(heap, L, c, k, Keep(st, L[k]))
      BY <2>1, <2>3, <1>1, KeepAt
    <3> QED  BY <3>1, <2>3, <1>3 DEF Scanned
  <2>4. CASE ScanNode(st, L[k], c) = Unlink(st, L[k]) /\ L[k] \notin Staying(heap, L, c)
    <3>1. Fine(heap, n, Unlink(st, L[k])) /\ At(heap, L, c, k, Unlink(st, L[k]))
      BY <2>1, <2>4, <1>1, UnlinkAt
    <3> QED  BY <3>1, <2>4, <1>3 DEF Scanned
  <2>5. CASE ScanNode(st, L[k], c) = Stop(st)
    <3>1. Stop(st).heap = st.heap /\ Stop(st).first = st.first /\ Stop(st).stop
      BY <1>2, KeepStop
    <3>2. Fine(heap, n, Stop(st))
      BY <3>1, <1>1 DEF Fine
    <3> QED  BY <3>1, <3>2, <2>5, <1>3 DEF Scanned
  <2> QED  BY <2>2, <2>3, <2>4, <2>5, <1>2, <1>5, ScanKinds
<1> QED  BY <1>4, <1>5

(* What the search leaves: closed sets are closed still, and if nothing    *)
(* keeps c out, what stays of the list is one.                             *)
LEMMA ScanResult ==
    ASSUME NEW heap \in Seq(Node), Chained(heap), NEW n \in 0 .. Len(heap), NEW c, IsSetting(c)
    PROVE  \E st : /\ Scan(ScanBase(heap, n), List(heap, n), c) = st
                   /\ st \in Linked(Len(heap)) /\ Fine(heap, n, st)
                   /\ ~st.stop =>
                        LET Stay == Staying(heap, List(heap, n), c)
                        IN  /\ \A m \in Stay : st.heap[m].next \in Stay \cup {0}
                            /\ st.first \in Stay \cup {0}
                   /\ List(heap, n) \in Seq(1 .. Len(heap))
<1> DEFINE L == List(heap, n)
           N == Len(heap)
           base == ScanBase(heap, n)
           Stay == Staying(heap, L, c)
<1>1. IsWalk(heap, n, L) /\ N \in Nat
  BY ListWalk
<1> HIDE DEF L
<1>2. L \in Seq(1 .. N) /\ Len(L) \in Nat
  <2>1. L \in Seq(1 .. N)
    BY <1>1 DEF IsWalk
  <2> QED  BY <2>1
<1>3. base.heap = heap /\ base.first = n /\ base.sp = 0 /\ ~base.stop /\ base \in Linked(N)
  <2>1. heap \in [1 .. N -> Node]
    OBVIOUS
  <2>2. \A m \in 1 .. N : heap[m].next \in 0 .. N
    <3>1. \A m \in 1 .. N : heap[m].next \in 0 .. m - 1
      BY DEF Chained
    <3> QED  BY <3>1, <1>1
  <2>3. 0 \in 0 .. N /\ FALSE \in BOOLEAN
    BY <1>1
  <2> HIDE DEF N
  <2>4. base.heap = heap /\ base.first = n /\ base.sp = 0 /\ base.stop = FALSE
    BY DEF ScanBase
  <2>5. base \in Scans(N)
    BY <2>1, <2>3 DEF ScanBase, Scans, N
  <2> HIDE DEF base
  <2> QED  BY <2>2, <2>4, <2>5 DEF Linked
<1> HIDE DEF base, N
<1>4. base \in Scanned(heap, n, L, c, 0)
  <2>1. Fine(heap, n, base)
    BY <1>3 DEF Fine, Alike, Chained, Closed
  <2>2. \A j \in 0 + 1 .. Len(L) : base.heap[L[j]].next = Ahead(L, j)
    BY <1>1, <1>2, <1>3 DEF IsWalk, Ahead
  <2>3. base.first = Ahead(L, 0)
    BY <1>1, <1>2, <1>3 DEF IsWalk, Ahead
  <2>4. At(heap, L, c, 0, base)
    BY <2>2, <2>3, <1>3 DEF At
  <2> QED  BY <2>1, <2>4, <1>3 DEF Scanned, N
<1>5. PICK h : /\ h[0] = base
               /\ \A k \in 1 .. Len(L) : h[k] = ScanNode(h[k - 1], L[k], c)
               /\ Scan(base, L, c) = h[Len(L)]
  BY <1>1, <1>2, <1>3, ScanFold
<1> DEFINE S == [k \in 0 .. Len(L) |-> Scanned(heap, n, L, c, k)]
<1>6. S[0] = Scanned(heap, n, L, c, 0) /\ S[Len(L)] = Scanned(heap, n, L, c, Len(L))
      /\ \A k \in 1 .. Len(L) : S[k] = Scanned(heap, n, L, c, k)
                                /\ S[k - 1] = Scanned(heap, n, L, c, k - 1)
  BY <1>2
<1> HIDE DEF S
<1>7. ASSUME NEW k \in 1 .. Len(L), h[k - 1] \in S[k - 1] PROVE h[k] \in S[k]
  <2>1. h[k - 1] \in Scanned(heap, n, L, c, k - 1)
    BY <1>6, <1>7
  <2>2. ScanNode(h[k - 1], L[k], c) \in Scanned(heap, n, L, c, k)
    BY <2>1, <1>1, ScanStep
  <2> QED  BY <2>2, <1>5, <1>6
<1>8. h[0] \in S[0]
  BY <1>4, <1>5, <1>6
<1>9. \A k \in 0 .. Len(L) : h[k] \in S[k]
  BY <1>2, <1>7, <1>8, StaysIn
<1>10. h[Len(L)] \in Scanned(heap, n, L, c, Len(L))
  <2>1. Len(L) \in 0 .. Len(L)
    BY <1>2
  <2> QED  BY <2>1, <1>6, <1>9
<1> DEFINE st == h[Len(L)]
<1>11. st \in Linked(N) /\ Fine(heap, n, st) /\ (st.stop \/ At(heap, L, c, Len(L), st))
  BY <1>10 DEF Scanned, N
<1> HIDE DEF st
<1>12. ASSUME At(heap, L, c, Len(L), st)
       PROVE  /\ \A m \in Stay : st.heap[m].next \in Stay \cup {0}
              /\ st.first \in Stay \cup {0}
  <2>1. Ahead(L, Len(L)) = 0
    BY <1>2 DEF Ahead
  <2>2. ASSUME NEW m \in Stay PROVE st.heap[m].next \in Stay \cup {0}
    <3>1. PICK j \in 1 .. Len(L) : m = L[j]
      BY DEF Staying
    <3>2. CASE m # st.sp
      BY <3>1, <3>2, <1>12 DEF At
    <3>3. CASE m = st.sp
      <4>1. m # 0
        BY <3>1, <1>2 DEF N
      <4> QED  BY <4>1, <3>3, <2>1, <1>12 DEF At
    <3> QED  BY <3>2, <3>3
  <2>3. st.first \in Stay \cup {0}
    BY <2>1, <1>12 DEF At
  <2> QED  BY <2>2, <2>3
<1> QED  BY <1>2, <1>5, <1>11, <1>12 DEF st, L, base, N

-----------------------------------------------------------------------------
(* Heaps that grow: lists lose members and get them at the front, entries  *)
(* stay what they are.                                                     *)
Heaps == {heap \in Seq(Node) : Chained(heap)}

Grows(h1, h2) ==
    /\ Len(h1) <= Len(h2)
    /\ \A m \in 1 .. Len(h1) : Alike(h2[m], h1[m])
    /\ \A P \in SUBSET (1 .. Len(h1)) : Closed(h1, P) => Closed(h2, P)

(* Growth goes on.                                                         *)
LEMMA GrowsOn ==
    ASSUME NEW h1 \in Heaps, NEW h2 \in Heaps, NEW h3 \in Heaps, Grows(h1, h2), Grows(h2, h3)
    PROVE  Grows(h1, h3)
<1>1. Len(h1) \in Nat /\ Len(h2) \in Nat /\ Len(h3) \in Nat
  BY DEF Heaps
<1>2. Len(h1) <= Len(h2) /\ Len(h2) <= Len(h3)
  BY DEF Grows
<1>3. Len(h1) <= Len(h3) /\ 1 .. Len(h1) \subseteq 1 .. Len(h2)
  BY <1>1, <1>2
<1>4. ASSUME NEW m \in 1 .. Len(h1) PROVE Alike(h3[m], h1[m])
  <2>1. m \in 1 .. Len(h2)
    BY <1>3
  <2>2. Alike(h2[m], h1[m]) /\ Alike(h3[m], h2[m])
    BY <2>1 DEF Grows
  <2> QED  BY <2>2 DEF Alike
<1>5. ASSUME NEW P \in SUBSET (1 .. Len(h1)), Closed(h1, P) PROVE Closed(h3, P)
  <2>1. P \in SUBSET (1 .. Len(h2))
    BY <1>3
  <2>2. Closed(h2, P)
    BY <1>5 DEF Grows
  <2> QED  BY <2>1, <2>2 DEF Grows
<1> QED  BY <1>3, <1>4, <1>5 DEF Grows

(* A heap that is left alone has grown.                                    *)
LEMMA GrowsSame == ASSUME NEW heap \in Heaps PROVE Grows(heap, heap)
<1>1. Len(heap) \in Nat
  BY DEF Heaps
<1> QED  BY <1>1 DEF Grows, Alike

(* A node in front of others.                                              *)
LEMMA GrowsNew ==
    ASSUME NEW heap \in Heaps, NEW x \in Node, x.next \in 0 .. Len(heap)
    PROVE  /\ NewNode(heap, x) \in Heaps /\ Grows(heap, NewNode(heap, x))
           /\ Len(NewNode(heap, x)) = Len(heap) + 1 /\ NewNode(heap, x)[Len(heap) + 1] = x
           /\ \A m \in 1 .. Len(heap) : NewNode(heap, x)[m] = heap[m]
<1> DEFINE N == Len(heap)
           h == Append(heap, x)
<1>1. heap \in Seq(Node) /\ N \in Nat /\ \A m \in 1 .. N : heap[m].next \in 0 .. m - 1
  BY DEF Heaps, Chained
<1>2. h \in Seq(Node) /\ Len(h) = N + 1 /\ h[N + 1] = x /\ \A m \in 1 .. N : h[m] = heap[m]
  BY <1>1
<1> HIDE DEF h
<1>3. Chained(h)
  <2> SUFFICES ASSUME NEW m \in 1 .. N + 1 PROVE h[m].next \in 0 .. m - 1
    BY <1>2 DEF Chained
  <2>1. CASE m = N + 1
    BY <2>1, <1>1, <1>2
  <2>2. CASE m # N + 1
    <3>1. m \in 1 .. N
      BY <2>2, <1>1
    <3> QED  BY <3>1, <1>1, <1>2
  <2> QED  BY <2>1, <2>2
<1>4. Grows(heap, h)
  <2>1. ASSUME NEW P \in SUBSET (1 .. N), Closed(heap, P) PROVE Closed(h, P)
    <3>1. P \subseteq 1 .. N + 1
      BY <1>1
    <3>2. \A m \in P : h[m].next \in P \cup {0}
      BY <1>2, <2>1 DEF Closed
    <3> QED  BY <3>1, <3>2, <1>2 DEF Closed
  <2>2. \A m \in 1 .. N : Alike(h[m], heap[m])
    BY <1>2 DEF Alike
  <2>3. N <= Len(h)
    BY <1>1, <1>2
  <2> QED  BY <2>1, <2>2, <2>3 DEF Grows
<1> QED  BY <1>2, <1>3, <1>4 DEF NewNode, Heaps, h

(* What a search leaves has grown.                                         *)
LEMMA GrowsScan ==
    ASSUME NEW heap \in Heaps, NEW n, NEW st \in Linked(Len(heap)), Fine(heap, n, st)
    PROVE  st.heap \in Heaps /\ Len(st.heap) = Len(heap) /\ Grows(heap, st.heap)
<1> DEFINE N == Len(heap)
           h == st.heap
<1>1. N \in Nat /\ h \in [1 .. N -> Node]
  BY DEF Heaps, Linked, Scans
<1> HIDE DEF h
<1>2. h \in Seq(Node) /\ Len(h) = N
  BY <1>1
<1>3. \A m \in 1 .. N : Alike(h[m], heap[m]) /\ h[m].next \in 0 .. m - 1
  BY DEF Fine, h
<1>4. ASSUME NEW P \in SUBSET (1 .. N), Closed(heap, P) PROVE Closed(h, P)
  BY <1>2, <1>4 DEF Fine, Closed, h
<1>5. h \in Heaps
  BY <1>2, <1>3 DEF Heaps, Chained
<1> QED  BY <1>1, <1>2, <1>3, <1>4, <1>5 DEF Grows, h

-----------------------------------------------------------------------------
(* A list that is good for target d at offset o: its nodes are for d, or   *)
(* for no target, and are owned by these; and of a name, one for exactly d *)
(* comes before all others.                                                *)
Fit(heap, P, d, o, own) ==
    /\ Closed(heap, P)
    /\ \A m \in P : /\ OffsetOf(heap[m].name) = o
                    /\ heap[m].target = NoTarget \/ d \in heap[m].target.ids
                    /\ heap[m].by \in own
    /\ \A k, m \in P : k < m /\ heap[k].name = heap[m].name /\ Exact(heap[k], d, heap[k].name)
                          => Exact(heap[m], d, heap[m].name)

Fits(heap, n, d, o, own) == \E P : Fit(heap, P, d, o, own) /\ n \in P \cup {0}

(* A good list stays one when the heap grows.                              *)
LEMMA FitGrows ==
    ASSUME NEW h1, NEW h2, Grows(h1, h2), NEW P, NEW d, NEW o, NEW own, Fit(h1, P, d, o, own)
    PROVE  Fit(h2, P, d, o, own)
<1>1. P \in SUBSET (1 .. Len(h1)) /\ Closed(h1, P)
  BY DEF Fit, Closed
<1>2. Closed(h2, P)
  BY <1>1 DEF Grows
<1>3. \A m \in P : h2[m].name = h1[m].name /\ h2[m].target = h1[m].target /\ h2[m].by = h1[m].by
  BY <1>1 DEF Grows, Alike
<1> QED  BY <1>2, <1>3 DEF Fit, Exact

(* So it does from a given first node.                                     *)
LEMMA FitsGrows ==
    ASSUME NEW h1, NEW h2, Grows(h1, h2), NEW n, NEW d, NEW o, NEW own, Fits(h1, n, d, o, own)
    PROVE  Fits(h2, n, d, o, own)
<1>1. PICK P : Fit(h1, P, d, o, own) /\ n \in P \cup {0}
  BY DEF Fits
<1>2. Fit(h2, P, d, o, own)
  BY <1>1, FitGrows
<1> QED  BY <1>1, <1>2 DEF Fits

(* With more owners it is still good.                                      *)
LEMMA FitsOwn ==
    ASSUME NEW heap, NEW n, NEW d, NEW o, NEW own, NEW own2, own \subseteq own2, Fits(heap, n, d, o, own)
    PROVE  Fits(heap, n, d, o, own2)
<1>1. PICK P : Fit(heap, P, d, o, own) /\ n \in P \cup {0}
  BY DEF Fits
<1>2. Fit(heap, P, d, o, own2)
  BY <1>1 DEF Fit
<1> QED  BY <1>1, <1>2 DEF Fits

(* A node in front of a part of a good list.                               *)
LEMMA FitNew ==
    ASSUME NEW heap \in Heaps, NEW x \in Node, x.next \in 0 .. Len(heap),
           NEW P, NEW d, NEW o, NEW own, Fit(heap, P, d, o, own), x.next \in P \cup {0},
           OffsetOf(x.name) = o, d \in x.target.ids, x.by \in own,
           \A k \in P : heap[k].name = x.name /\ Exact(heap[k], d, x.name) => Exact(x, d, x.name)
    PROVE  Fits(NewNode(heap, x), Len(heap) + 1, d, o, own)
<1> DEFINE N == Len(heap)
           h == NewNode(heap, x)
           Q == P \cup {N + 1}
<1>1. N \in Nat /\ P \subseteq 1 .. N
  BY DEF Heaps, Fit, Closed
<1>2. Grows(heap, h) /\ Len(h) = N + 1 /\ h[N + 1] = x /\ \A m \in 1 .. N : h[m] = heap[m]
  BY GrowsNew
<1> HIDE DEF h, N
<1>3. Fit(h, P, d, o, own)
  BY <1>2, FitGrows
<1>4. Closed(h, Q)
  <2>1. Q \subseteq 1 .. Len(h)
    <3>1. Len(h) = N + 1
      BY <1>2
    <3>2. N + 1 \in 1 .. Len(h) /\ \A m \in 1 .. N : m \in 1 .. Len(h)
      BY <3>1, <1>1
    <3> QED  BY <3>2, <1>1
  <2>2. \A m \in P : h[m].next \in P \cup {0}
    BY <1>3 DEF Fit, Closed
  <2> QED  BY <2>1, <2>2, <1>2 DEF Closed
<1>5. \A m \in Q : /\ OffsetOf(h[m].name) = o
                   /\ h[m].target = NoTarget \/ d \in h[m].target.ids
                   /\ h[m].by \in own
  BY <1>2, <1>3 DEF Fit
<1>6. ASSUME NEW k \in Q, NEW m \in Q, k < m, h[k].name = h[m].name, Exact(h[k], d, h[k].name)
      PROVE  Exact(h[m], d, h[m].name)
  <2>1. k \in P
    <3>1. m <= N + 1 /\ m \in Nat
      BY <1>1
    <3> QED  BY <3>1, <1>1, <1>6
  <2>2. CASE m \in P
    BY <2>1, <2>2, <1>3, <1>6 DEF Fit
  <2>3. CASE m = N + 1
    <3>1. h[k] = heap[k] /\ h[m] = x
      BY <2>1, <2>3, <1>1, <1>2
    <3> QED  BY <3>1, <2>1, <1>6
  <2> QED  BY <2>2, <2>3
<1>7. Fit(h, Q, d, o, own) /\ N + 1 \in Q
  BY <1>4, <1>5, <1>6 DEF Fit
<1> HIDE DEF Q
<1> QED  BY <1>7 DEF Fits, h, N

-----------------------------------------------------------------------------
(* Update of a table of good lists.                                        *)
GoodTable(heap, table, d, own) ==
    /\ table \in [Offsets -> 0 .. Len(heap)]
    /\ \A o \in Offsets : Fits(heap, table[o], d, o, own)

(* A table of good lists stays one when the heap grows.                    *)
LEMMA TableGrows ==
    ASSUME NEW h1 \in Heaps, NEW h2 \in Heaps, Grows(h1, h2), NEW table, NEW d, NEW own,
           GoodTable(h1, table, d, own)
    PROVE  GoodTable(h2, table, d, own)
<1>1. Len(h1) \in Nat /\ Len(h2) \in Nat /\ Len(h1) <= Len(h2)
  BY DEF Heaps, Grows
<1>2. \A n \in 0 .. Len(h1) : n \in 0 .. Len(h2)
  BY <1>1
<1>3. table \in [Offsets -> 0 .. Len(h2)]
  BY <1>2 DEF GoodTable
<1> QED  BY <1>3, FitsGrows DEF GoodTable

Put(table, o, n) == [table EXCEPT ![o] = n]

(* A good list put into it.                                                *)
LEMMA TableEntry ==
    ASSUME NEW heap, NEW table, NEW d, NEW own, GoodTable(heap, table, d, own),
           NEW o \in Offsets, NEW n \in 0 .. Len(heap), Fits(heap, n, d, o, own)
    PROVE  GoodTable(heap, Put(table, o, n), d, own)
<1> DEFINE t == Put(table, o, n)
<1>1. t \in [Offsets -> 0 .. Len(heap)] /\ \A p \in Offsets : t[p] = IF p = o THEN n ELSE table[p]
  BY DEF GoodTable, Put
<1> HIDE DEF t
<1>2. \A p \in Offsets : Fits(heap, t[p], d, p, own)
  BY <1>1 DEF GoodTable
<1>3. GoodTable(heap, t, d, own)
  BY <1>1, <1>2 DEF GoodTable
<1> QED  BY <1>3 DEF t

SettingNode(c, n) ==
    [name |-> c.name, target |-> c.target, precedence |-> c.precedence, value |-> c.value,
     by |-> Service, valueBy |-> Service, next |-> n]

(* update_database_fun: what the search left, and a node or none.          *)
LEMMA UpdateIs ==
    ASSUME NEW heap, NEW table, NEW c, NEW o, o = OffsetOf(c.name),
           NEW st, st = Scan(ScanBase(heap, table[o]), List(heap, table[o]), c)
    PROVE  /\ st.stop => /\ Update(heap, table, c).heap = st.heap
                         /\ Update(heap, table, c).table = Put(table, o, st.first)
           /\ ~st.stop => /\ Update(heap, table, c).heap = NewNode(st.heap, SettingNode(c, st.first))
                          /\ Update(heap, table, c).table = Put(table, o, Len(st.heap) + 1)
  BY DEF Update, Scan, ScanBase, SettingNode, Put

(* The node of a <set> element.                                            *)
LEMMA SettingNodeIs ==
    ASSUME NEW c \in SettingSet, NEW n \in Nat
    PROVE  /\ SettingNode(c, n) \in Node /\ SettingNode(c, n).next = n
           /\ SettingNode(c, n).name = c.name /\ SettingNode(c, n).target = c.target
           /\ SettingNode(c, n).by = Service
<1>1. IsSetting(c) /\ c.value \in AllValues
  BY SettingsNamed
<1>2. c.target \in [wild : 0 .. 2, ids : SUBSET Databases]
  BY <1>1 DEF IsSetting
<1>3. Service \in Owners
  BY DEF Owners
<1> QED  BY <1>1, <1>2, <1>3 DEF SettingNode, Node, IsSetting

(* After update_database_fun the lists of the database are good.           *)
LEMMA UpdateGood ==
    ASSUME NEW heap \in Heaps, NEW table, NEW c \in SettingSet, NEW d \in c.target.ids,
           GoodTable(heap, table, d, {Service})
    PROVE  /\ Update(heap, table, c).heap \in Heaps
           /\ Grows(heap, Update(heap, table, c).heap)
           /\ GoodTable(Update(heap, table, c).heap, Update(heap, table, c).table, d, {Service})
<1> DEFINE o == OffsetOf(c.name)
           n == table[o]
           L == List(heap, n)
           st == Scan(ScanBase(heap, n), L, c)
           u == Update(heap, table, c)
           Stay == Staying(heap, L, c)
           own == {Service}
<1>1. o \in Offsets /\ IsSetting(c)
  BY SettingsNamed
<1>2. heap \in Seq(Node) /\ Chained(heap) /\ Len(heap) \in Nat
  BY DEF Heaps
<1>3. n \in 0 .. Len(heap) /\ Fits(heap, n, d, o, own)
  BY <1>1 DEF GoodTable
<1>4. /\ st.stop => u.heap = st.heap /\ u.table = Put(table, o, st.first)
      /\ ~st.stop => /\ u.heap = NewNode(st.heap, SettingNode(c, st.first))
                     /\ u.table = Put(table, o, Len(st.heap) + 1)
  <2>1. o = OffsetOf(c.name) /\ st = Scan(ScanBase(heap, table[o]), List(heap, table[o]), c)
    OBVIOUS
  <2> HIDE DEF o, st, n, L
  <2>2. st.stop => u.heap = st.heap /\ u.table = Put(table, o, st.first)
    BY <2>1, UpdateIs
  <2>3. ~st.stop => /\ u.heap = NewNode(st.heap, SettingNode(c, st.first))
                    /\ u.table = Put(table, o, Len(st.heap) + 1)
    BY <2>1, UpdateIs
  <2> QED  BY <2>2, <2>3
<1> HIDE DEF u, o, n, L
<1>5. /\ st \in Linked(Len(heap)) /\ Fine(heap, n, st)
      /\ ~st.stop => /\ \A m \in Stay : st.heap[m].next \in Stay \cup {0}
                     /\ st.first \in Stay \cup {0}
      /\ L \in Seq(1 .. Len(heap))
  BY <1>1, <1>2, <1>3, ScanResult DEF L
<1> HIDE DEF st
<1>6. st.heap \in Heaps /\ Len(st.heap) = Len(heap) /\ Grows(heap, st.heap)
  BY <1>5, GrowsScan
<1>7. PICK P : Fit(heap, P, d, o, own) /\ n \in P \cup {0}
  BY <1>3 DEF Fits
<1>8. Fit(st.heap, P, d, o, own) /\ st.first \in P \cup {0} /\ st.first \in 0 .. Len(heap)
  <2>1. P \in SUBSET (1 .. Len(heap)) /\ Closed(heap, P)
    BY <1>7 DEF Fit, Closed
  <2>2. st.first \in P \cup {0}
    BY <2>1, <1>5, <1>7 DEF Fine
  <2>3. Fit(st.heap, P, d, o, own)
    BY <1>6, <1>7, FitGrows
  <2>4. \A m \in P \cup {0} : m \in 0 .. Len(heap)
    BY <2>1, <1>2
  <2> QED  BY <2>2, <2>3, <2>4
<1>9. GoodTable(st.heap, table, d, own)
  BY <1>6, TableGrows
<1>10. CASE st.stop
  <2>1. Fits(st.heap, st.first, d, o, own)
    BY <1>8 DEF Fits
  <2>2. GoodTable(st.heap, u.table, d, own)
    BY <2>1, <1>1, <1>4, <1>6, <1>8, <1>9, <1>10, TableEntry
  <2> QED  BY <2>2, <1>4, <1>6, <1>10 DEF u
<1>11. CASE ~st.stop
  <2> DEFINE x == SettingNode(c, st.first)
             h == NewNode(st.heap, x)
             Q == P \cap Stay
             N == Len(st.heap)
  <2>1. /\ x \in Node /\ x.next = st.first /\ x.name = c.name /\ x.target = c.target
        /\ x.by = Service /\ x.next \in 0 .. N
    BY <1>2, <1>6, <1>8, SettingNodeIs
  <2> HIDE DEF x
  <2>2. h \in Heaps /\ Grows(st.heap, h) /\ Len(h) = N + 1
    BY <2>1, <1>6, GrowsNew
  <2>3. Fit(st.heap, Q, d, o, own) /\ x.next \in Q \cup {0}
    <3>1. x.next \in Q \cup {0}
      BY <2>1, <1>5, <1>8, <1>11
    <3>2. \A m \in Q : st.heap[m].next \in Q \cup {0}
      BY <1>5, <1>8, <1>11 DEF Fit, Closed
    <3>3. Closed(st.heap, Q)
      BY <3>2, <1>8 DEF Fit, Closed
    <3> QED  BY <3>1, <3>3, <1>8 DEF Fit
  <2>4. ASSUME NEW k \in Q, st.heap[k].name = x.name, Exact(st.heap[k], d, x.name)
        PROVE  Exact(x, d, x.name)
    <3>1. k \in 1 .. Len(heap)
      BY <1>7 DEF Fit, Closed
    <3>2. Alike(st.heap[k], heap[k])
      BY <3>1, <1>6 DEF Grows
    <3>3. heap[k].name = c.name /\ heap[k].target = [wild |-> 0, ids |-> {d}]
      BY <3>2, <2>1, <2>4 DEF Alike, Exact
    <3>4. Rank(heap, k, c) = 0
      BY <3>3 DEF Staying
    <3>5. heap[k].precedence \in Int /\ c.precedence \in Int /\ c.target.wild \in 0 .. 2
      <4>1. heap[k] \in Node
        BY <3>1, <1>2
      <4> QED  BY <4>1, <1>1 DEF Node, IsSetting
    <3>6. heap[k].target.wild = 0
      BY <3>3
    <3>7. c.target.wild = 0
      BY <3>4, <3>5, <3>6 DEF Rank
    <3>8. c.target = [wild |-> 0, ids |-> {d}]
      BY <3>7, <1>1 DEF IsSetting
    <3> QED  BY <3>8, <2>1 DEF Exact
  <2>5. Fits(h, N + 1, d, o, own)
    <3>1. OffsetOf(x.name) = o /\ d \in x.target.ids /\ x.by \in own
      BY <2>1 DEF o
    <3> HIDE DEF Q, h, N, own
    <3> QED  BY <3>1, <2>1, <2>3, <2>4, <1>6, FitNew DEF h, N
  <2>6. GoodTable(h, table, d, own)
    BY <2>2, <1>6, <1>9, TableGrows
  <2>7. N + 1 \in 0 .. Len(h)
    BY <2>2, <1>2, <1>6
  <2>8. u.heap = h /\ u.table = Put(table, o, N + 1)
    BY <1>4, <1>11 DEF x
  <2> HIDE DEF h, N
  <2>9. GoodTable(h, u.table, d, own)
    BY <2>5, <2>6, <2>7, <2>8, <1>1, TableEntry
  <2>10. Grows(heap, h)
    BY <2>2, <1>6, GrowsOn
  <2> QED  BY <2>2, <2>8, <2>9, <2>10 DEF u
<1> QED  BY <1>10, <1>11

-----------------------------------------------------------------------------
(* Reading the settings.  A fold stays in S if each of its steps does.     *)
LEMMA FoldIn ==
    ASSUME NEW n \in Nat, NEW S, NEW f, f[{}] \in S,
           \A s \in SUBSET (1 .. n) : s # {} /\ f[s \ {Max(s)}] \in S => f[s] \in S
    PROVE  f[1 .. n] \in S
<1> DEFINE h == [k \in 0 .. n |-> f[1 .. k]]
           SS == [k \in 0 .. n |-> S]
<1>1. h[0] \in SS[0]
  <2>1. 1 .. 0 = {} /\ 0 \in 0 .. n
    OBVIOUS
  <2> QED  BY <2>1
<1>2. ASSUME NEW k \in 1 .. n, h[k - 1] \in SS[k - 1] PROVE h[k] \in SS[k]
  <2>1. k \in Nat /\ k > 0 /\ 1 .. k \in SUBSET (1 .. n) /\ k \in 0 .. n /\ k - 1 \in 0 .. n
    OBVIOUS
  <2>2. Max(1 .. k) = k /\ (1 .. k) \ {k} = 1 .. k - 1 /\ 1 .. k # {}
    BY <2>1, PrefixMax
  <2>3. f[(1 .. k) \ {Max(1 .. k)}] \in S
    BY <1>2, <2>1, <2>2
  <2>4. f[1 .. k] \in S
    BY <2>1, <2>2, <2>3
  <2> QED  BY <2>1, <2>4
<1> HIDE DEF h, SS
<1>3. \A k \in 0 .. n : h[k] \in SS[k]
  BY <1>1, <1>2, StaysIn
<1>4. n \in 0 .. n
  OBVIOUS
<1> QED  BY <1>3, <1>4 DEF h, SS

(* Heaps and tables of the databases that have grown from a heap.          *)
Grown(heap) ==
    {r \in [heap : Heaps, db : [Known -> [Offsets -> Nat]]] :
        /\ Grows(heap, r.heap)
        /\ \A d \in Known : GoodTable(r.heap, r.db[d], d, {Service})}

UpdateOne(r, d, c) ==
    LET u == Update(r.heap, r.db[d], c)
    IN  [heap |-> u.heap, db |-> [r.db EXCEPT ![d] = u.table]]

(* One database of update_databases.                                       *)
LEMMA UpdateOneGood ==
    ASSUME NEW heap \in Heaps, NEW r \in Grown(heap), NEW c \in SettingSet, NEW d \in Known \cap c.target.ids
    PROVE  UpdateOne(r, d, c) \in Grown(heap)
<1> DEFINE u == Update(r.heap, r.db[d], c)
           db == [r.db EXCEPT ![d] = u.table]
<1>1. /\ r.heap \in Heaps /\ Grows(heap, r.heap) /\ r.db \in [Known -> [Offsets -> Nat]]
      /\ \A x \in Known : GoodTable(r.heap, r.db[x], x, {Service})
  BY DEF Grown
<1>2. /\ u.heap \in Heaps /\ Grows(r.heap, u.heap) /\ GoodTable(u.heap, u.table, d, {Service})
  BY <1>1, UpdateGood
<1> HIDE DEF u
<1>3. Grows(heap, u.heap)
  BY <1>1, <1>2, GrowsOn
<1>4. u.table \in [Offsets -> Nat]
  <2>1. Len(u.heap) \in Nat
    BY <1>2 DEF Heaps
  <2> QED  BY <1>2, <2>1 DEF GoodTable
<1>5. db \in [Known -> [Offsets -> Nat]] /\ \A x \in Known : db[x] = IF x = d THEN u.table ELSE r.db[x]
  BY <1>1, <1>4
<1> HIDE DEF db
<1>6. \A x \in Known : GoodTable(u.heap, db[x], x, {Service})
  <2> SUFFICES ASSUME NEW x \in Known PROVE GoodTable(u.heap, db[x], x, {Service})
    OBVIOUS
  <2>1. GoodTable(u.heap, r.db[x], x, {Service})
    BY <1>1, <1>2, TableGrows
  <2> QED  BY <2>1, <1>2, <1>5
<1> DEFINE z == [heap |-> u.heap, db |-> db]
<1>7. z \in [heap : Heaps, db : [Known -> [Offsets -> Nat]]] /\ z.heap = u.heap /\ z.db = db
  BY <1>2, <1>5
<1>8. UpdateOne(r, d, c) = z
  BY DEF UpdateOne, u, db
<1> HIDE DEF z
<1> QED  BY <1>3, <1>6, <1>7, <1>8 DEF Grown

DatabasesIter(base, L, c, f) ==
    [s \in SUBSET (DOMAIN L) |->
        IF s = {} THEN base ELSE UpdateOne(f[s \ {Max(s)}], L[Max(s)], c)]

(* update_databases: all databases that a <set> element is for.            *)
LEMMA UpdateDatabasesGood ==
    ASSUME NEW heap \in Heaps, NEW base \in Grown(heap), NEW c \in SettingSet
    PROVE  UpdateDatabases(base, c) \in Grown(heap)
<1> DEFINE T == Known \cap c.target.ids
           L == SetToSeq(T)
           n == Len(L)
           S == Grown(heap)
           g == [p \in (1 .. n) \X S |-> UpdateOne(p[2], L[p[1]], c)]
<1>1. L \in Seq(T)
  <2>1. IsFiniteSet(T)
    <3>1. T \subseteq Databases
      BY KnownDatabases
    <3> QED  BY <3>1, SettingsAssumption, FS_Subset
  <2> HIDE DEF T
  <2> QED  BY <2>1, ToSeq
<1> HIDE DEF L, T
<1>2. n \in Nat /\ DOMAIN L = 1 .. n /\ \A k \in 1 .. n : L[k] \in T
  BY <1>1
<1> HIDE DEF S, n
<1>3. ASSUME NEW k \in 1 .. n, NEW r \in S PROVE UpdateOne(r, L[k], c) \in S
  BY <1>2, UpdateOneGood DEF S, T
<1>4. g \in [(1 .. n) \X S -> S]
  <2> SUFFICES ASSUME NEW p \in (1 .. n) \X S PROVE UpdateOne(p[2], L[p[1]], c) \in S
    OBVIOUS
  <2>1. p[1] \in 1 .. n /\ p[2] \in S
    OBVIOUS
  <2> QED  BY <2>1, <1>3
<1>5. \A k \in 1 .. n, r \in S : g[<<k, r>>] = UpdateOne(r, L[k], c)
  OBVIOUS
<1> HIDE DEF g
<1>6. base \in S
  BY DEF S
<1>7. PICK f0 \in [SUBSET (1 .. n) -> S] : Solves(f0, n, base, g)
  BY <1>2, <1>4, <1>6, RecursionExists
<1>8. f0 = DatabasesIter(base, L, c, f0)
  <2>1. ASSUME NEW s \in SUBSET (1 .. n), s # {}
        PROVE  f0[s] = UpdateOne(f0[s \ {Max(s)}], L[Max(s)], c)
    <3>1. Max(s) \in 1 .. n
      BY <1>2, <2>1, SetMax
    <3>2. f0[s \ {Max(s)}] \in S
      BY <1>7
    <3>3. f0[s] = g[<<Max(s), f0[s \ {Max(s)}]>>]
      BY <1>7, <2>1 DEF Solves
    <3> QED  BY <3>1, <3>2, <3>3, <1>5
  <2>2. f0[{}] = base
    BY <1>7 DEF Solves
  <2>3. f0 = [s \in SUBSET (1 .. n) |-> f0[s]]
    BY <1>7
  <2>4. \A s \in SUBSET (1 .. n) :
           f0[s] = IF s = {} THEN base ELSE UpdateOne(f0[s \ {Max(s)}], L[Max(s)], c)
    BY <2>1, <2>2
  <2> QED  BY <2>3, <2>4, <1>2 DEF DatabasesIter
<1> DEFINE f == CHOOSE f : f = DatabasesIter(base, L, c, f)
<1>9. f = DatabasesIter(base, L, c, f)
  BY <1>8
<1>10. UpdateDatabases(base, c) = f[DOMAIN L]
  BY DEF UpdateDatabases, FoldLeft, MapThenFoldSet, DatabasesIter, UpdateOne, L, T
<1> HIDE DEF f
<1>11. \A s \in SUBSET (1 .. n) :
           f[s] = IF s = {} THEN base ELSE UpdateOne(f[s \ {Max(s)}], L[Max(s)], c)
  <2>1. \A s \in SUBSET (1 .. n) : f[s] = DatabasesIter(base, L, c, f)[s]
    BY <1>9
  <2> QED  BY <2>1, <1>2 DEF DatabasesIter
<1>12. f[{}] \in S
  <2>1. {} \in SUBSET (1 .. n)
    OBVIOUS
  <2> QED  BY <2>1, <1>6, <1>11
<1>13. ASSUME NEW s \in SUBSET (1 .. n), s # {}, f[s \ {Max(s)}] \in S
       PROVE  f[s] \in S
  <2>1. Max(s) \in 1 .. n
    BY <1>2, <1>13, SetMax
  <2> QED  BY <2>1, <1>3, <1>11, <1>13
<1>14. f[1 .. n] \in S
  BY <1>2, <1>12, <1>13, FoldIn
<1> QED  BY <1>2, <1>10, <1>14 DEF S

FileIter(base, L, f) ==
    [s \in SUBSET (DOMAIN L) |->
        IF s = {} THEN base ELSE UpdateDatabases(f[s \ {Max(s)}], L[Max(s)])]

(* A whole file.                                                           *)
LEMMA FileGood ==
    ASSUME NEW heap \in Heaps, NEW base \in Grown(heap), NEW L \in SettingFiles
    PROVE  FoldLeft(UpdateDatabases, base, L) \in Grown(heap)
<1> DEFINE n == Len(L)
           S == Grown(heap)
           g == [p \in (1 .. n) \X S |-> UpdateDatabases(p[2], L[p[1]])]
<1>1. L \in Seq(Range(L)) /\ Range(L) \subseteq SettingSet
  BY SettingsAssumption DEF SettingSet
<1>2. n \in Nat /\ DOMAIN L = 1 .. n /\ \A k \in 1 .. n : L[k] \in SettingSet
  <2> DEFINE R == Range(L)
  <2>1. L \in Seq(R) /\ R \subseteq SettingSet
    BY <1>1
  <2> HIDE DEF R
  <2>2. n \in Nat /\ DOMAIN L = 1 .. n /\ \A k \in 1 .. n : L[k] \in R
    BY <2>1
  <2> QED  BY <2>1, <2>2
<1> HIDE DEF S, n
<1>3. ASSUME NEW k \in 1 .. n, NEW r \in S PROVE UpdateDatabases(r, L[k]) \in S
  BY <1>2, UpdateDatabasesGood DEF S
<1>4. g \in [(1 .. n) \X S -> S]
  <2> SUFFICES ASSUME NEW p \in (1 .. n) \X S PROVE UpdateDatabases(p[2], L[p[1]]) \in S
    OBVIOUS
  <2>1. p[1] \in 1 .. n /\ p[2] \in S
    OBVIOUS
  <2> QED  BY <2>1, <1>3
<1>5. \A k \in 1 .. n, r \in S : g[<<k, r>>] = UpdateDatabases(r, L[k])
  OBVIOUS
<1> HIDE DEF g
<1>6. base \in S
  BY DEF S
<1>7. PICK f0 \in [SUBSET (1 .. n) -> S] : Solves(f0, n, base, g)
  BY <1>2, <1>4, <1>6, RecursionExists
<1>8. f0 = FileIter(base, L, f0)
  <2>1. ASSUME NEW s \in SUBSET (1 .. n), s # {}
        PROVE  f0[s] = UpdateDatabases(f0[s \ {Max(s)}], L[Max(s)])
    <3>1. Max(s) \in 1 .. n
      BY <1>2, <2>1, SetMax
    <3>2. f0[s \ {Max(s)}] \in S
      BY <1>7
    <3>3. f0[s] = g[<<Max(s), f0[s \ {Max(s)}]>>]
      BY <1>7, <2>1 DEF Solves
    <3> QED  BY <3>1, <3>2, <3>3, <1>5
  <2>2. f0[{}] = base
    BY <1>7 DEF Solves
  <2>3. f0 = [s \in SUBSET (1 .. n) |-> f0[s]]
    BY <1>7
  <2>4. \A s \in SUBSET (1 .. n) :
           f0[s] = IF s = {} THEN base ELSE UpdateDatabases(f0[s \ {Max(s)}], L[Max(s)])
    BY <2>1, <2>2
  <2> QED  BY <2>3, <2>4, <1>2 DEF FileIter
<1> DEFINE f == CHOOSE f : f = FileIter(base, L, f)
<1>9. f = FileIter(base, L, f)
  BY <1>8
<1>10. FoldLeft(UpdateDatabases, base, L) = f[DOMAIN L]
  BY DEF FoldLeft, MapThenFoldSet, FileIter
<1> HIDE DEF f
<1>11. \A s \in SUBSET (1 .. n) :
           f[s] = IF s = {} THEN base ELSE UpdateDatabases(f[s \ {Max(s)}], L[Max(s)])
  <2>1. \A s \in SUBSET (1 .. n) : f[s] = FileIter(base, L, f)[s]
    BY <1>9
  <2> QED  BY <2>1, <1>2 DEF FileIter
<1>12. f[{}] \in S
  <2>1. {} \in SUBSET (1 .. n)
    OBVIOUS
  <2> QED  BY <2>1, <1>6, <1>11
<1>13. ASSUME NEW s \in SUBSET (1 .. n), s # {}, f[s \ {Max(s)}] \in S
       PROVE  f[s] \in S
  <2>1. Max(s) \in 1 .. n
    BY <1>2, <1>13, SetMax
  <2> QED  BY <2>1, <1>3, <1>11, <1>13
<1>14. f[1 .. n] \in S
  BY <1>2, <1>12, <1>13, FoldIn
<1> QED  BY <1>2, <1>10, <1>14 DEF S

-----------------------------------------------------------------------------
(* The default limitmaps.                                                  *)
LEMMA MaxIn ==
    ASSUME NEW n \in Nat, NEW T, T \subseteq 0 .. n, T # {}
    PROVE  Max(T) \in T
<1> DEFINE U == T \ {0}
<1>1. CASE U = {}
  <2>1. 0 \in T /\ \A x \in T : 0 >= x
    <3>1. \A x \in T : x = 0
      BY <1>1
    <3>2. 0 \in T
      BY <3>1
    <3> HIDE DEF U
    <3> QED  BY <3>1, <3>2
  <2>2. T \subseteq Int
    OBVIOUS
  <2>3. Max(T) = 0
    BY <2>1, <2>2, MaxIs
  <2> QED  BY <2>1, <2>3
<1>2. CASE U # {}
  <2>1. U \in SUBSET (1 .. n)
    OBVIOUS
  <2>2. Max(U) \in U /\ \A x \in U : x <= Max(U)
    <3> HIDE DEF U
    <3> QED  BY <1>2, <2>1, SetMax
  <2>3. PICK m \in U : \A x \in U : x <= m
    BY <2>2
  <2>4. m \in T /\ T \subseteq Int /\ \A x \in T : m >= x
    <3>1. m \in 1 .. n
      BY <2>1
    <3>2. ASSUME NEW x \in T PROVE m >= x
      <4>1. CASE x = 0
        BY <4>1, <3>1
      <4>2. CASE x # 0
        <5>1. x \in U /\ x \in Int
          BY <4>2
        <5> QED  BY <5>1, <3>1, <2>3
      <4> QED  BY <4>1, <4>2
    <3> QED  BY <3>2
  <2>5. Max(T) = m
    BY <2>4, MaxIs
  <2> QED  BY <2>4, <2>5
<1> QED  BY <1>1, <1>2

Limitmap(x, n) ==
    [name |-> x.name, target |-> NoTarget, precedence |-> 0, value |-> x.value,
     by |-> Service, valueBy |-> Service, next |-> n]

(* The node of a default limitmap.                                         *)
LEMMA LimitmapIs ==
    ASSUME NEW x \in DefaultSet, NEW n \in Nat
    PROVE  /\ Limitmap(x, n) \in Node /\ Limitmap(x, n).next = n /\ Limitmap(x, n).name = x.name
           /\ Limitmap(x, n).target = NoTarget /\ Limitmap(x, n).by = Service
<1>1. x.name \in Names /\ x.value \in AllValues /\ Service \in Owners
  BY SettingsAssumption DEF AllValues, Owners
<1>2. NoTarget \in [wild : 0 .. 2, ids : SUBSET Databases] /\ 0 \in Int
  BY DEF NoTarget
<1> HIDE DEF NoTarget
<1> QED  BY <1>1, <1>2 DEF Limitmap, Node

(* The nodes before i that have the offset o.                              *)
Before(ds, i, o) == {0} \cup {j \in 1 .. i - 1 : OffsetOf(ds[j].name) = o}

(* DefaultNodes, node by node.                                             *)
LEMMA DefaultIs ==
    \E ds \in Seq(DefaultSet) :
        /\ DefaultNodes = [i \in DOMAIN ds |-> Limitmap(ds[i], Max(Before(ds, i, OffsetOf(ds[i].name))))]
<1> DEFINE ds == SetToSeq(DefaultSet)
<1>1. ds \in Seq(DefaultSet)
  BY SettingsAssumption, ToSeq
<1>2. DefaultNodes = [i \in DOMAIN ds |-> Limitmap(ds[i], Max(Before(ds, i, OffsetOf(ds[i].name))))]
  BY DEF DefaultNodes, Limitmap, Before
<1> HIDE DEF ds
<1> QED  BY <1>1, <1>2

(* The defaults are a heap of lists.                                       *)
LEMMA DefaultHeap ==
    /\ DefaultNodes \in Heaps
    /\ \A m \in 1 .. Len(DefaultNodes) :
          /\ DefaultNodes[m].target = NoTarget /\ DefaultNodes[m].by = Service
          /\ \/ DefaultNodes[m].next = 0
             \/ /\ DefaultNodes[m].next \in 1 .. Len(DefaultNodes)
                /\ OffsetOf(DefaultNodes[DefaultNodes[m].next].name) = OffsetOf(DefaultNodes[m].name)
<1>1. PICK ds \in Seq(DefaultSet) :
          DefaultNodes = [i \in DOMAIN ds |-> Limitmap(ds[i], Max(Before(ds, i, OffsetOf(ds[i].name))))]
  BY DefaultIs
<1> DEFINE N == Len(ds)
           b == [i \in 1 .. N |-> Max(Before(ds, i, OffsetOf(ds[i].name)))]
           h == DefaultNodes
<1>2. N \in Nat /\ DOMAIN ds = 1 .. N /\ \A i \in 1 .. N : ds[i] \in DefaultSet
  BY <1>1
<1> HIDE DEF N
<1>3. ASSUME NEW i \in 1 .. N
      PROVE  b[i] \in Before(ds, i, OffsetOf(ds[i].name)) /\ b[i] \in 0 .. i - 1
  <2> DEFINE T == Before(ds, i, OffsetOf(ds[i].name))
  <2>1. T \subseteq 0 .. i - 1 /\ T # {} /\ i - 1 \in Nat
    BY <1>2 DEF Before
  <2> HIDE DEF T
  <2>2. Max(T) \in T
    BY <2>1, MaxIn
  <2>3. b[i] = Max(T)
    BY DEF T
  <2> HIDE DEF b
  <2> QED  BY <2>1, <2>2, <2>3 DEF T
<1>4. h = [i \in 1 .. N |-> Limitmap(ds[i], b[i])]
  BY <1>1, <1>2
<1> HIDE DEF b, h
<1>5. \A i \in 1 .. N : /\ h[i] \in Node /\ h[i].next = b[i] /\ h[i].name = ds[i].name
                        /\ h[i].target = NoTarget /\ h[i].by = Service
  <2> SUFFICES ASSUME NEW i \in 1 .. N
               PROVE  /\ h[i] \in Node /\ h[i].next = b[i] /\ h[i].name = ds[i].name
                      /\ h[i].target = NoTarget /\ h[i].by = Service
    OBVIOUS
  <2>1. h[i] = Limitmap(ds[i], b[i])
    BY <1>4
  <2>2. ds[i] \in DefaultSet /\ b[i] \in Nat
    BY <1>2, <1>3
  <2> QED  BY <2>1, <2>2, LimitmapIs
<1>6. h \in Seq(Node) /\ Len(h) = N
  <2>1. h \in [1 .. N -> Node]
    BY <1>4, <1>5
  <2> QED  BY <2>1, <1>2
<1>7. Chained(h)
  BY <1>3, <1>5, <1>6 DEF Chained
<1>8. ASSUME NEW m \in 1 .. N
      PROVE  \/ h[m].next = 0
             \/ h[m].next \in 1 .. N /\ OffsetOf(h[h[m].next].name) = OffsetOf(h[m].name)
  <2>1. b[m] \in Before(ds, m, OffsetOf(ds[m].name)) /\ b[m] \in 0 .. m - 1
    BY <1>3
  <2>2. CASE b[m] = 0
    BY <2>2, <1>5
  <2>3. CASE b[m] # 0
    <3>1. OffsetOf(ds[b[m]].name) = OffsetOf(ds[m].name)
      BY <2>1, <2>3 DEF Before
    <3>2. b[m] \in 1 .. N
      BY <2>1, <2>3, <1>2
    <3> QED  BY <3>1, <3>2, <1>5
  <2> QED  BY <2>2, <2>3
<1> QED  BY <1>5, <1>6, <1>7, <1>8 DEF Heaps, h

(* Their lists are good for every target: they are for none.               *)
LEMMA DefaultGood ==
    ASSUME NEW d
    PROVE  GoodTable(DefaultNodes, DefaultTable, d, {Service})
<1> DEFINE h == DefaultNodes
           N == Len(h)
           P(o) == {i \in 1 .. N : OffsetOf(h[i].name) = o}
<1>1. h \in Seq(Node) /\ N \in Nat /\ DOMAIN h = 1 .. N
  <2>1. h \in Seq(Node)
    BY DefaultHeap DEF Heaps
  <2> HIDE DEF h
  <2> QED  BY <2>1
<1>2. \A m \in 1 .. N :
          /\ h[m].target = NoTarget /\ h[m].by = Service
          /\ \/ h[m].next = 0
             \/ h[m].next \in 1 .. N /\ OffsetOf(h[h[m].next].name) = OffsetOf(h[m].name)
  BY DefaultHeap
<1>3. DefaultTable = [o \in Offsets |-> Max({0} \cup P(o))]
  BY <1>1 DEF DefaultTable
<1> HIDE DEF h
<1>4. ASSUME NEW o \in Offsets PROVE Max({0} \cup P(o)) \in {0} \cup P(o) /\ Max({0} \cup P(o)) \in 0 .. N
  <2> DEFINE T == {0} \cup P(o)
  <2>1. T \subseteq 0 .. N /\ T # {}
    BY <1>1
  <2> HIDE DEF T, N
  <2>2. Max(T) \in T
    BY <1>1, <2>1, MaxIn
  <2> QED  BY <2>1, <2>2 DEF T
<1>5. ASSUME NEW o \in Offsets PROVE Fit(h, P(o), d, o, {Service})
  <2>1. Closed(h, P(o))
    BY <1>2 DEF Closed
  <2>2. \A m \in P(o) : ~Exact(h[m], d, h[m].name)
    <3>1. NoTarget # [wild |-> 0, ids |-> {d}]
      <4>1. NoTarget.ids = {} /\ [wild |-> 0, ids |-> {d}].ids = {d}
        BY DEF NoTarget
      <4> QED  BY <4>1
    <3> QED  BY <3>1, <1>2 DEF Exact
  <2>3. \A m \in P(o) : /\ OffsetOf(h[m].name) = o
                        /\ h[m].target = NoTarget \/ d \in h[m].target.ids
                        /\ h[m].by \in {Service}
    BY <1>2
  <2> DEFINE Q == P(o)
  <2> HIDE DEF Q
  <2>4. Fit(h, Q, d, o, {Service})
    BY <2>1, <2>2, <2>3 DEF Fit, Q
  <2> QED  BY <2>4 DEF Q
<1>6. \A o \in Offsets : DefaultTable[o] = Max({0} \cup P(o))
  BY <1>3
<1>7. DefaultTable \in [Offsets -> 0 .. N]
  BY <1>3, <1>4
<1>8. ASSUME NEW o \in Offsets PROVE Fits(h, DefaultTable[o], d, o, {Service})
  <2>1. DefaultTable[o] \in P(o) \cup {0}
    BY <1>4, <1>6
  <2> DEFINE Q == P(o)
  <2>2. Fit(h, Q, d, o, {Service}) /\ DefaultTable[o] \in Q \cup {0}
    BY <2>1, <1>5
  <2> HIDE DEF Q
  <2> QED  BY <2>2 DEF Fits
<1> QED  BY <1>7, <1>8 DEF GoodTable, h

-----------------------------------------------------------------------------
(* The invariant: the lists of the databases are good, so are those of the *)
(* sessions, whose nodes the service or the session made; and settings are *)
(* read before there are sessions.                                         *)
Values == AllValues \cup {NoValue}
SessionRecord ==
    [up : BOOLEAN, gone : BOOLEAN, modified : BOOLEAN,
     table : UNION {[D -> [Offsets -> Nat]] : D \in SUBSET Databases},
     conn : [Databases -> {NoConn} \cup [auth : Values]], active : SUBSET Databases]

HeapInv ==
    /\ nodes \in Heaps
    /\ \A d \in Databases : GoodTable(nodes, DefaultTable, d, {Service})

DatabaseInv ==
    /\ database \in [Known -> [Offsets -> Nat]]
    /\ \A d \in Known : GoodTable(nodes, database[d], d, {Service})

SessionInv ==
    /\ session \in [Sessions -> SessionRecord]
    /\ \A s \in Sessions :
          IF session[s].up
          THEN /\ unread = {}
               /\ \A d \in DOMAIN session[s].table :
                     GoodTable(nodes, session[s].table[d], d, {Service, s})
          ELSE session[s].conn = [d \in Databases |-> NoConn]

SettingsInv == HeapInv /\ DatabaseInv /\ SessionInv

(* It holds at the start.                                                  *)
LEMMA InitSettings == Init => SettingsInv
<1> SUFFICES ASSUME Init PROVE SettingsInv
  OBVIOUS
<1>1. nodes \in Heaps /\ \A d : GoodTable(nodes, DefaultTable, d, {Service})
  BY DefaultHeap, DefaultGood DEF Init
<1>2. HeapInv
  BY <1>1 DEF HeapInv
<1>3. DatabaseInv
  <2>1. DefaultTable \in [Offsets -> Nat]
    <3>1. Len(nodes) \in Nat /\ DefaultTable \in [Offsets -> 0 .. Len(nodes)]
      BY <1>1 DEF Heaps, GoodTable
    <3> QED  BY <3>1
  <2>2. database = [d \in Known |-> DefaultTable]
    BY DEF Init
  <2> QED  BY <1>1, <2>1, <2>2 DEF DatabaseInv
<1>4. SessionInv
  <2>1. NoSession \in SessionRecord /\ NoSession.up = FALSE
        /\ NoSession.conn = [d \in Databases |-> NoConn]
    <3> DEFINE t == [d \in {} |-> NoTable]
               k == [d \in Databases |-> NoConn]
    <3>1. t \in UNION {[D -> [Offsets -> Nat]] : D \in SUBSET Databases}
      <4>1. {} \in SUBSET Databases /\ t \in [{} -> [Offsets -> Nat]]
        OBVIOUS
      <4> HIDE DEF t
      <4> QED  BY <4>1
    <3>2. k \in [Databases -> {NoConn} \cup [auth : Values]]
      OBVIOUS
    <3>3. FALSE \in BOOLEAN /\ {} \in SUBSET Databases
      OBVIOUS
    <3>4. NoSession = [up |-> FALSE, gone |-> FALSE, table |-> t, modified |-> FALSE,
                       conn |-> k, active |-> {}]
      BY DEF NoSession
    <3> HIDE DEF t, k
    <3> QED  BY <3>1, <3>2, <3>3, <3>4 DEF SessionRecord, k
  <2>2. session = [s \in Sessions |-> NoSession]
    BY DEF Init
  <2> QED  BY <2>1, <2>2 DEF SessionInv
<1> QED  BY <1>2, <1>3, <1>4 DEF SettingsInv

-----------------------------------------------------------------------------
(* Reading a file.                                                         *)
LEMMA ReadKeeps ==
    ASSUME SettingsInv, NEW f \in SettingFiles, ReadSettingsFile(f)
    PROVE  SettingsInv' /\ \A s \in Sessions : session[s].up = FALSE
<1> DEFINE base == [heap |-> nodes, db |-> database]
           st == FoldLeft(UpdateDatabases, base, f)
<1>1. /\ nodes \in Heaps /\ \A d \in Databases : GoodTable(nodes, DefaultTable, d, {Service})
      /\ database \in [Known -> [Offsets -> Nat]]
      /\ \A d \in Known : GoodTable(nodes, database[d], d, {Service})
  BY DEF SettingsInv, HeapInv, DatabaseInv
<1>2. base \in Grown(nodes)
  <2>1. Grows(nodes, nodes)
    BY <1>1, GrowsSame
  <2> QED  BY <1>1, <2>1 DEF Grown
<1>3. nodes' = st.heap /\ database' = st.db /\ unread # {} /\ session' = session
  BY DEF ReadSettingsFile
<1>4. st \in Grown(nodes)
  BY <1>1, <1>2, FileGood
<1> HIDE DEF st, base
<1>5. /\ st.heap \in Heaps /\ st.db \in [Known -> [Offsets -> Nat]] /\ Grows(nodes, st.heap)
      /\ \A d \in Known : GoodTable(st.heap, st.db[d], d, {Service})
  BY <1>4 DEF Grown
<1>6. \A d \in Databases : GoodTable(st.heap, DefaultTable, d, {Service})
  BY <1>1, <1>5, TableGrows
<1>7. \A s \in Sessions : /\ session[s].up = FALSE
                          /\ session[s].conn = [d \in Databases |-> NoConn]
  <2> SUFFICES ASSUME NEW s \in Sessions
               PROVE  session[s].up = FALSE /\ session[s].conn = [d \in Databases |-> NoConn]
    OBVIOUS
  <2>1. session[s].up \in BOOLEAN
    BY DEF SettingsInv, SessionInv, SessionRecord
  <2> QED  BY <2>1, <1>3 DEF SettingsInv, SessionInv
<1>8. HeapInv' /\ DatabaseInv'
  BY <1>3, <1>5, <1>6 DEF HeapInv, DatabaseInv
<1>9. SessionInv'
  BY <1>3, <1>7 DEF SettingsInv, SessionInv
<1> QED  BY <1>7, <1>8, <1>9 DEF SettingsInv

-----------------------------------------------------------------------------
(* A settings command.                                                     *)
OverrideNode(s, v, n) ==
    [name |-> v.name, target |-> [wild |-> 0, ids |-> {v.id}], precedence |-> 0,
     value |-> v.value, by |-> s, valueBy |-> s, next |-> n]

Overwritten(heap, m, s, v) == [heap EXCEPT ![m].value = v.value, ![m].valueBy = s]

Tables(old, v, mine) == [d \in DOMAIN old \cup {v.id} |-> IF d = v.id THEN mine ELSE old[d]]

(* The table that it is for, and the node that it writes into.             *)
TableOf(s, v) == IF v.id \in DOMAIN session[s].table THEN session[s].table[v.id] ELSE DefaultTable
FoundBy(s, v) == SameNode(nodes, TableOf(s, v)[OffsetOf(v.name)], v.id, v.name)
Mine(s, v) ==
    IF FoundBy(s, v) = 0 THEN Put(TableOf(s, v), OffsetOf(v.name), Len(nodes) + 1)
    ELSE TableOf(s, v)

(* What session_apply_setting does to the heap, ...                        *)
LEMMA ApplyIs ==
    ASSUME NEW s, NEW v, SessionApplySetting(s, v)
    PROVE  /\ session[s].up
           /\ FoundBy(s, v) = 0 =>
                nodes' = NewNode(nodes, OverrideNode(s, v, TableOf(s, v)[OffsetOf(v.name)]))
           /\ FoundBy(s, v) # 0 => nodes' = Overwritten(nodes, FoundBy(s, v), s, v)
           /\ UNCHANGED <<database, unread, taken>>
<1>1. session[s].up /\ UNCHANGED <<database, unread, taken>>
  BY DEF SessionApplySetting
<1>2. FoundBy(s, v) = 0 =>
        nodes' = NewNode(nodes, OverrideNode(s, v, TableOf(s, v)[OffsetOf(v.name)]))
  <2> DEFINE n == TableOf(s, v)[OffsetOf(v.name)]
  <2>1. [OverrideNode(s, v, 0) EXCEPT !.next = n] = OverrideNode(s, v, n)
    <3> HIDE DEF n
    <3> QED  BY DEF OverrideNode
  <2>2. FoundBy(s, v) = 0 => nodes' = NewNode(nodes, [OverrideNode(s, v, 0) EXCEPT !.next = n])
    BY DEF SessionApplySetting, FoundBy, SameNode, TableOf, OverrideNode, PutFirst
  <2> HIDE DEF n
  <2> QED  BY <2>1, <2>2 DEF n
<1>3. FoundBy(s, v) # 0 => nodes' = Overwritten(nodes, FoundBy(s, v), s, v)
  BY DEF SessionApplySetting, FoundBy, SameNode, TableOf, Overwritten
<1> QED  BY <1>1, <1>2, <1>3

(* ... and to the session.                                                 *)
LEMMA ApplySession ==
    ASSUME NEW s \in Sessions, NEW v, session \in [Sessions -> SessionRecord], SessionApplySetting(s, v)
    PROVE  session' = [session EXCEPT ![s] = [[session[s] EXCEPT !.modified = TRUE] EXCEPT
                          !.table = Tables(session[s].table, v, Mine(s, v))]]
<1> DEFINE mine == Mine(s, v)
<1>1. session' = [session EXCEPT ![s].modified = TRUE,
                     ![s].table = [d \in DOMAIN @ \cup {v.id} |-> IF d = v.id THEN mine ELSE @[d]]]
  BY DEF SessionApplySetting, Mine, FoundBy, SameNode, TableOf, Put, PutFirst
<1> HIDE DEF mine
<1>2. session[s] \in SessionRecord
  OBVIOUS
<1>3. [session[s] EXCEPT !.modified = TRUE].table = session[s].table
  BY <1>2 DEF SessionRecord
<1> QED  BY <1>1, <1>3 DEF Tables, mine

(* The node of a settings command.                                         *)
LEMMA OverrideNodeIs ==
    ASSUME NEW s \in Sessions, NEW v \in Overrides, NEW n \in Nat
    PROVE  /\ OverrideNode(s, v, n) \in Node /\ OverrideNode(s, v, n).next = n
           /\ OverrideNode(s, v, n).name = v.name /\ OverrideNode(s, v, n).by = s
           /\ OverrideNode(s, v, n).value = v.value
           /\ OverrideNode(s, v, n).target = [wild |-> 0, ids |-> {v.id}]
<1>1. v.name \in Names /\ v.id \in Databases /\ v.value \in AllValues /\ s \in Owners
  BY SettingsAssumption DEF AllValues, Owners
<1> DEFINE t == [wild |-> 0, ids |-> {v.id}]
<1>2. t \in [wild : 0 .. 2, ids : SUBSET Databases] /\ 0 \in Int
  BY <1>1
<1> HIDE DEF t
<1>3. OverrideNode(s, v, n) = [name |-> v.name, target |-> t, precedence |-> 0,
                               value |-> v.value, by |-> s, valueBy |-> s, next |-> n]
  BY DEF OverrideNode, t
<1> QED  BY <1>1, <1>2, <1>3 DEF Node, t

(* Of a heap, the value of one node is written.                            *)
Wrote(h1, h2, k) ==
    /\ Len(h1) <= Len(h2)
    /\ \A m \in 1 .. Len(h1) : /\ Alike(h2[m], h1[m]) /\ h2[m].next = h1[m].next
                               /\ m # k => h2[m].value = h1[m].value

(* Writing a value leaves lists and entries what they are.                 *)
LEMMA OverwrittenIs ==
    ASSUME NEW heap \in Heaps, NEW k \in 1 .. Len(heap), NEW s \in Sessions, NEW v \in Overrides
    PROVE  /\ Overwritten(heap, k, s, v) \in Heaps /\ Grows(heap, Overwritten(heap, k, s, v))
           /\ Len(Overwritten(heap, k, s, v)) = Len(heap)
           /\ Wrote(heap, Overwritten(heap, k, s, v), k)
           /\ Overwritten(heap, k, s, v)[k].value = v.value
<1> DEFINE N == Len(heap)
           w == heap[k]
           x == [[w EXCEPT !.value = v.value] EXCEPT !.valueBy = s]
           h == [heap EXCEPT ![k] = x]
<1>1. heap \in Seq(Node) /\ N \in Nat /\ heap \in [1 .. N -> Node] /\ \A m \in 1 .. N : heap[m].next \in 0 .. m - 1
  BY DEF Heaps, Chained
<1>2. w \in Node /\ v.value \in AllValues /\ s \in Owners
  BY <1>1 DEF AllValues, Owners
<1> HIDE DEF w, N
<1>3. x \in Node /\ x.value = v.value /\ Alike(x, w) /\ x.next = w.next
  BY <1>2 DEF Node, Alike
<1>4. Overwritten(heap, k, s, v) = h
  <2>1. heap[k] = w
    BY DEF w
  <2> QED  BY <2>1, <1>1, <1>2 DEF Overwritten, N, Node
<1> HIDE DEF x
<1>5. h \in [1 .. N -> Node] /\ \A m \in 1 .. N : h[m] = IF m = k THEN x ELSE heap[m]
  BY <1>1, <1>3
<1> HIDE DEF h
<1>6. h \in Seq(Node) /\ Len(h) = N
  BY <1>1, <1>5
<1>7. \A m \in 1 .. N : Alike(h[m], heap[m]) /\ h[m].next = heap[m].next
  BY <1>3, <1>5 DEF Alike, w
<1>8. h \in Heaps
  BY <1>1, <1>6, <1>7 DEF Heaps, Chained
<1>9. Grows(heap, h)
  <2>1. ASSUME NEW P \in SUBSET (1 .. N), Closed(heap, P) PROVE Closed(h, P)
    BY <2>1, <1>6, <1>7 DEF Closed
  <2> QED  BY <2>1, <1>1, <1>6, <1>7 DEF Grows, N
<1>10. h[k].value = v.value /\ \A m \in 1 .. N : m # k => h[m].value = heap[m].value
  BY <1>3, <1>5 DEF N
<1> QED  BY <1>1, <1>4, <1>6, <1>7, <1>8, <1>9, <1>10 DEF Wrote, N

(* The node that SessionApplySetting writes into.                          *)
LEMMA SameIs ==
    ASSUME NEW heap \in Heaps, NEW v, NEW o, NEW own, NEW n \in 0 .. Len(heap), Fits(heap, n, v.id, o, own)
    PROVE  \/ SameNode(heap, n, v.id, v.name) = 0
           \/ /\ SameNode(heap, n, v.id, v.name) \in 1 .. Len(heap)
              /\ Exact(heap[SameNode(heap, n, v.id, v.name)], v.id, v.name)
              /\ heap[SameNode(heap, n, v.id, v.name)].by \in own
<1>1. heap \in Seq(Node) /\ Chained(heap)
  BY DEF Heaps
<1>2. PICK P : Fit(heap, P, v.id, o, own) /\ n \in P \cup {0}
  BY DEF Fits
<1>3. Closed(heap, P) /\ P \subseteq 1 .. Len(heap)
  BY <1>2 DEF Fit, Closed
<1> DEFINE K == Exacts(heap, v.id, v.name)
<1>4. PICK f : Firsts(heap, K, f)
               /\ \A m : SameNode(heap, m, v.id, v.name) = f[m]
  <2> DEFINE id == v.id
             name == v.name
  <2> HIDE DEF id, name
  <2>1. \E f : /\ Firsts(heap, Exacts(heap, id, name), f)
              /\ \A m : SameNode(heap, m, id, name) = f[m]
    BY <1>1, SameDef
  <2> QED  BY <2>1 DEF id, name
<1>5. SameNode(heap, n, v.id, v.name) = f[n]
  BY <1>4
<1> HIDE DEF K
<1>6. f[n] = 0 \/ f[n] \in P \cap K
  BY <1>1, <1>2, <1>3, <1>4, FirstIn
<1> QED  BY <1>2, <1>3, <1>5, <1>6 DEF K, Exacts, Fit

(* Of what type a session is.                                              *)
LEMMA SessionTyped ==
    ASSUME SettingsInv, NEW s \in Sessions
    PROVE  /\ session[s] \in SessionRecord /\ session[s].up \in BOOLEAN /\ session[s].modified \in BOOLEAN
           /\ DOMAIN session[s].table \in SUBSET Databases
           /\ session[s].table \in [DOMAIN session[s].table -> [Offsets -> Nat]]
           /\ session[s].conn \in [Databases -> {NoConn} \cup [auth : Values]]
<1>1. session[s] \in SessionRecord
  BY DEF SettingsInv, SessionInv
<1>2. session[s].table \in UNION {[D -> [Offsets -> Nat]] : D \in SUBSET Databases}
  BY <1>1 DEF SessionRecord
<1>3. PICK D \in SUBSET Databases : session[s].table \in [D -> [Offsets -> Nat]]
  BY <1>2
<1> QED  BY <1>1, <1>3 DEF SessionRecord

(* The table that a settings command is for is good.                       *)
LEMMA ApplyTable ==
    ASSUME SettingsInv, NEW s \in Sessions, NEW v \in Overrides, SessionApplySetting(s, v)
    PROVE  /\ GoodTable(nodes, TableOf(s, v), v.id, {Service, s})
           /\ v.id \in Databases /\ OffsetOf(v.name) \in Offsets
           /\ TableOf(s, v)[OffsetOf(v.name)] \in 0 .. Len(nodes)
           /\ Fits(nodes, TableOf(s, v)[OffsetOf(v.name)], v.id, OffsetOf(v.name), {Service, s})
<1>1. v.id \in Databases /\ OffsetOf(v.name) \in Offsets
  BY SettingsAssumption DEF Offsets
<1>2. session[s].up
  BY ApplyIs
<1>3. CASE v.id \in DOMAIN session[s].table
  <2>1. GoodTable(nodes, session[s].table[v.id], v.id, {Service, s})
    BY <1>2, <1>3 DEF SettingsInv, SessionInv
  <2> QED  BY <2>1, <1>1, <1>3 DEF TableOf, GoodTable
<1>4. CASE v.id \notin DOMAIN session[s].table
  <2>1. GoodTable(nodes, DefaultTable, v.id, {Service})
    BY <1>1 DEF SettingsInv, HeapInv
  <2>2. GoodTable(nodes, DefaultTable, v.id, {Service, s})
    <3>1. {Service} \subseteq {Service, s}
      OBVIOUS
    <3>2. \A o \in Offsets : Fits(nodes, DefaultTable[o], v.id, o, {Service, s})
      BY <2>1, <3>1, FitsOwn DEF GoodTable
    <3> QED  BY <2>1, <3>2 DEF GoodTable
  <2> QED  BY <2>2, <1>1, <1>4 DEF TableOf, GoodTable
<1> QED  BY <1>3, <1>4

(* So is the one it leaves, and the heap grows.                            *)
LEMMA ApplyHeap ==
    ASSUME SettingsInv, NEW s \in Sessions, NEW v \in Overrides, SessionApplySetting(s, v)
    PROVE  /\ nodes' \in Heaps /\ Grows(nodes, nodes') /\ Wrote(nodes, nodes', FoundBy(s, v))
           /\ GoodTable(nodes', Mine(s, v), v.id, {Service, s})
           /\ \/ /\ FoundBy(s, v) = 0
                 /\ Len(nodes') = Len(nodes) + 1
                 /\ nodes'[Len(nodes) + 1] = OverrideNode(s, v, TableOf(s, v)[OffsetOf(v.name)])
              \/ /\ FoundBy(s, v) \in 1 .. Len(nodes)
                 /\ Exact(nodes[FoundBy(s, v)], v.id, v.name)
                 /\ nodes[FoundBy(s, v)].by \in {Service, s}
                 /\ nodes'[FoundBy(s, v)].value = v.value
<1> DEFINE o == OffsetOf(v.name)
           t == TableOf(s, v)
           k == FoundBy(s, v)
           own == {Service, s}
<1>1. nodes \in Heaps /\ Len(nodes) \in Nat
  BY DEF SettingsInv, HeapInv, Heaps
<1>2. /\ GoodTable(nodes, t, v.id, own) /\ o \in Offsets
      /\ t[o] \in 0 .. Len(nodes) /\ Fits(nodes, t[o], v.id, o, own)
  BY ApplyTable
<1>3. k = SameNode(nodes, t[o], v.id, v.name)
  BY DEF FoundBy
<1> HIDE DEF k
<1>4. \/ k = 0
      \/ k \in 1 .. Len(nodes) /\ Exact(nodes[k], v.id, v.name) /\ nodes[k].by \in own
  <2> HIDE DEF t, o, own
  <2> QED  BY <1>1, <1>2, <1>3, SameIs
<1>5. CASE k = 0
  <2> DEFINE x == OverrideNode(s, v, t[o])
             h == NewNode(nodes, x)
  <2>1. nodes' = h
    BY <1>5, ApplyIs DEF k
  <2>2. t[o] \in Nat
    BY <1>1, <1>2
  <2>3. /\ x \in Node /\ x.next = t[o] /\ x.name = v.name /\ x.by = s /\ x.value = v.value
        /\ x.target = [wild |-> 0, ids |-> {v.id}]
    <3> HIDE DEF t, o
    <3> QED  BY <2>2, OverrideNodeIs
  <2> HIDE DEF x
  <2>4. /\ h \in Heaps /\ Grows(nodes, h) /\ Len(h) = Len(nodes) + 1 /\ h[Len(nodes) + 1] = x
        /\ \A m \in 1 .. Len(nodes) : h[m] = nodes[m]
    BY <1>1, <1>2, <2>3, GrowsNew
  <2>5. PICK P : Fit(nodes, P, v.id, o, own) /\ t[o] \in P \cup {0}
    BY <1>2 DEF Fits
  <2>6. Fits(h, Len(nodes) + 1, v.id, o, own)
    <3>1. x.next \in 0 .. Len(nodes) /\ x.next \in P \cup {0} /\ OffsetOf(x.name) = o
          /\ v.id \in x.target.ids /\ x.by \in own /\ Exact(x, v.id, x.name)
      BY <1>2, <2>3, <2>5 DEF Exact
    <3> HIDE DEF t, o, own, h
    <3> QED  BY <3>1, <1>1, <2>3, <2>5, FitNew DEF h
  <2>7. GoodTable(h, t, v.id, own) /\ Len(nodes) + 1 \in 0 .. Len(h)
    <3>1. Len(nodes) + 1 \in 0 .. Len(h)
      BY <1>1, <2>4
    <3> QED  BY <3>1, <1>1, <1>2, <2>4, TableGrows
  <2>8. GoodTable(h, Put(t, o, Len(nodes) + 1), v.id, own)
    <3> HIDE DEF t, o, own, h
    <3> QED  BY <1>2, <2>6, <2>7, TableEntry
  <2>9. Wrote(nodes, h, k)
    BY <1>1, <2>4 DEF Wrote, Alike
  <2>10. Mine(s, v) = Put(t, o, Len(nodes) + 1)
    BY <1>5 DEF Mine, k
  <2> HIDE DEF h
  <2> QED  BY <2>1, <2>4, <2>8, <2>9, <2>10, <1>5 DEF k, x
<1>6. CASE k # 0
  <2>1. k \in 1 .. Len(nodes) /\ Exact(nodes[k], v.id, v.name) /\ nodes[k].by \in own
    BY <1>4, <1>6
  <2>2. nodes' = Overwritten(nodes, k, s, v) /\ Mine(s, v) = t
    BY <1>6, ApplyIs DEF k, Mine
  <2>3. /\ nodes' \in Heaps /\ Grows(nodes, nodes') /\ Wrote(nodes, nodes', k) /\ nodes'[k].value = v.value
    BY <1>1, <2>1, <2>2, OverwrittenIs
  <2>4. GoodTable(nodes', t, v.id, own)
    <3> HIDE DEF t, own
    <3> QED  BY <1>1, <1>2, <2>3, TableGrows
  <2> QED  BY <2>1, <2>2, <2>3, <2>4 DEF k
<1> QED  BY <1>5, <1>6

(* The other sessions are left alone.                                      *)
LEMMA ApplyRecord ==
    ASSUME SettingsInv, NEW s \in Sessions, NEW v \in Overrides, SessionApplySetting(s, v)
    PROVE  /\ session' \in [Sessions -> SessionRecord]
           /\ \A x \in Sessions \ {s} : session'[x] = session[x]
           /\ session'[s].up = session[s].up /\ session'[s].modified = TRUE
           /\ session'[s].conn = session[s].conn
           /\ session'[s].table = Tables(session[s].table, v, Mine(s, v))
<1> DEFINE t == Tables(session[s].table, v, Mine(s, v))
           r == [[session[s] EXCEPT !.modified = TRUE] EXCEPT !.table = t]
<1>1. session \in [Sessions -> SessionRecord] /\ session[s] \in SessionRecord
  BY SessionTyped DEF SettingsInv, SessionInv
<1>2. session' = [session EXCEPT ![s] = r]
  BY <1>1, ApplySession
<1>3. t \in UNION {[D -> [Offsets -> Nat]] : D \in SUBSET Databases}
  <2> DEFINE D == DOMAIN session[s].table \cup {v.id}
  <2>1. D \in SUBSET Databases
    BY ApplyTable, SessionTyped
  <2>2. Mine(s, v) \in [Offsets -> Nat]
    <3>1. nodes' \in Heaps /\ GoodTable(nodes', Mine(s, v), v.id, {Service, s})
      BY ApplyHeap
    <3>2. Len(nodes') \in Nat
      BY <3>1 DEF Heaps
    <3> QED  BY <3>1, <3>2 DEF GoodTable
  <2>3. t \in [D -> [Offsets -> Nat]]
    BY <2>2, SessionTyped DEF Tables
  <2> HIDE DEF t, D
  <2> QED  BY <2>1, <2>3
<1> HIDE DEF t
<1>4. r \in SessionRecord /\ r.up = session[s].up /\ r.modified = TRUE /\ r.conn = session[s].conn /\ r.table = t
  BY <1>1, <1>3 DEF SessionRecord
<1> HIDE DEF r
<1>5. session' \in [Sessions -> SessionRecord] /\ session'[s] = r /\ \A x \in Sessions \ {s} : session'[x] = session[x]
  BY <1>1, <1>2, <1>4
<1> QED  BY <1>4, <1>5 DEF t

(* A settings command preserves the invariant.                             *)
LEMMA ApplyKeeps ==
    ASSUME SettingsInv, NEW s \in Sessions, NEW v \in Overrides, SessionApplySetting(s, v)
    PROVE  SettingsInv'
<1>1. /\ nodes' \in Heaps /\ Grows(nodes, nodes') /\ GoodTable(nodes', Mine(s, v), v.id, {Service, s})
  BY ApplyHeap
<1>2. nodes \in Heaps /\ \A d \in Databases : GoodTable(nodes, DefaultTable, d, {Service})
  BY DEF SettingsInv, HeapInv
<1>3. session[s].up /\ database' = database /\ unread' = unread
  BY ApplyIs
<1>4. HeapInv'
  <2>1. \A d \in Databases : GoodTable(nodes', DefaultTable, d, {Service})
    BY <1>1, <1>2, TableGrows
  <2> QED  BY <2>1, <1>1 DEF HeapInv
<1>5. DatabaseInv'
  <2>1. \A d \in Known : GoodTable(nodes, database[d], d, {Service})
    BY DEF SettingsInv, DatabaseInv
  <2>2. \A d \in Known : GoodTable(nodes', database[d], d, {Service})
    BY <2>1, <1>1, <1>2, TableGrows
  <2> QED  BY <2>2, <1>3 DEF SettingsInv, DatabaseInv
<1>6. SessionInv'
  <2>1. session' \in [Sessions -> SessionRecord]
    BY ApplyRecord
  <2>2. ASSUME NEW x \in Sessions
        PROVE  IF session'[x].up
               THEN /\ unread' = {}
                    /\ \A d \in DOMAIN session'[x].table :
                          GoodTable(nodes', session'[x].table[d], d, {Service, x})
               ELSE session'[x].conn = [d \in Databases |-> NoConn]
    <3>1. CASE x = s
      <4>1. session'[s].up = session[s].up /\ session'[s].table = Tables(session[s].table, v, Mine(s, v))
        BY ApplyRecord
      <4>2. unread' = {}
        BY <1>3 DEF SettingsInv, SessionInv
      <4>3. ASSUME NEW d \in DOMAIN session'[s].table
            PROVE  GoodTable(nodes', session'[s].table[d], d, {Service, s})
        <5>1. d \in DOMAIN session[s].table \cup {v.id}
              /\ session'[s].table[d] = IF d = v.id THEN Mine(s, v) ELSE session[s].table[d]
          BY <4>1 DEF Tables
        <5>2. CASE d = v.id
          BY <5>1, <5>2, <1>1
        <5>3. CASE d # v.id
          <6>1. GoodTable(nodes, session[s].table[d], d, {Service, s})
            BY <5>1, <5>3, <1>3 DEF SettingsInv, SessionInv
          <6>2. GoodTable(nodes', session[s].table[d], d, {Service, s})
            BY <6>1, <1>1, <1>2, TableGrows
          <6> QED  BY <6>2, <5>1, <5>3
        <5> QED  BY <5>2, <5>3
      <4> QED  BY <3>1, <4>1, <4>2, <4>3, <1>3
    <3>2. CASE x # s
      <4>1. session'[x] = session[x]
        BY <3>2, ApplyRecord
      <4>2. ASSUME session[x].up, NEW d \in DOMAIN session[x].table
            PROVE  GoodTable(nodes', session[x].table[d], d, {Service, x})
        <5>1. GoodTable(nodes, session[x].table[d], d, {Service, x})
          BY <4>2 DEF SettingsInv, SessionInv
        <5> QED  BY <5>1, <1>1, <1>2, TableGrows
      <4>3. IF session[x].up THEN unread = {} ELSE session[x].conn = [d \in Databases |-> NoConn]
        BY DEF SettingsInv, SessionInv
      <4> QED  BY <4>1, <4>2, <4>3, <1>3
    <3> QED  BY <3>1, <3>2
  <2> QED  BY <2>1, <2>2 DEF SessionInv
<1> QED  BY <1>4, <1>5, <1>6 DEF SettingsInv

-----------------------------------------------------------------------------
(* What else a session does.                                               *)
LEMMA CreateIs ==
    ASSUME SettingsInv, NEW s \in Sessions, SessionCreate(s)
    PROVE  /\ session' \in [Sessions -> SessionRecord]
           /\ \A x \in Sessions \ {s} : session'[x] = session[x]
           /\ session'[s].up = TRUE /\ session'[s].table = database
           /\ session'[s].modified = session[s].modified
           /\ session'[s].conn = session[s].conn
           /\ ~session[s].up /\ unread = {} /\ UNCHANGED <<nodes, database, unread, taken>>
<1> DEFINE r == [[session[s] EXCEPT !.up = TRUE] EXCEPT !.table = database]
<1>1. session \in [Sessions -> SessionRecord] /\ session[s] \in SessionRecord
  BY SessionTyped DEF SettingsInv, SessionInv
<1>2. session' = [session EXCEPT ![s] = r]
  BY <1>1 DEF SessionCreate, SessionRecord
<1>3. database \in UNION {[D -> [Offsets -> Nat]] : D \in SUBSET Databases}
  <2>1. database \in [Known -> [Offsets -> Nat]] /\ Known \in SUBSET Databases
    BY KnownDatabases DEF SettingsInv, DatabaseInv
  <2> QED  BY <2>1
<1>4. /\ r \in SessionRecord /\ r.up = TRUE /\ r.table = database
      /\ r.modified = session[s].modified /\ r.conn = session[s].conn
  BY <1>1, <1>3 DEF SessionRecord
<1> HIDE DEF r
<1>5. session' \in [Sessions -> SessionRecord] /\ session'[s] = r /\ \A x \in Sessions \ {s} : session'[x] = session[x]
  BY <1>1, <1>2, <1>4
<1>6. ~session[s].up /\ unread = {} /\ UNCHANGED <<nodes, database, unread, taken>>
  BY DEF SessionCreate, Served
<1> QED  BY <1>4, <1>5, <1>6

(* session_destroy.                                                        *)
LEMMA DestroyIs ==
    ASSUME SettingsInv, NEW s \in Sessions, SessionDestroy(s)
    PROVE  /\ session' \in [Sessions -> SessionRecord]
           /\ \A x \in Sessions \ {s} : session'[x] = session[x]
           /\ session'[s].up = FALSE /\ session'[s].conn = [d \in Databases |-> NoConn]
           /\ UNCHANGED <<nodes, database, unread, taken>>
<1> DEFINE t == [d \in {} |-> NoTable]
           k == [d \in Databases |-> NoConn]
           r == [NoSession EXCEPT !.gone = TRUE]
<1>1. session \in [Sessions -> SessionRecord]
  BY DEF SettingsInv, SessionInv
<1>2. t \in UNION {[D -> [Offsets -> Nat]] : D \in SUBSET Databases}
  <2>1. {} \in SUBSET Databases /\ t \in [{} -> [Offsets -> Nat]]
    OBVIOUS
  <2> HIDE DEF t
  <2> QED  BY <2>1
<1>3. k \in [Databases -> {NoConn} \cup [auth : Values]]
  OBVIOUS
<1>4. NoSession = [up |-> FALSE, gone |-> FALSE, table |-> t, modified |-> FALSE,
                   conn |-> k, active |-> {}]
  BY DEF NoSession
<1> HIDE DEF t, k
<1>5. NoSession \in SessionRecord /\ NoSession.up = FALSE /\ NoSession.conn = k
  <2>1. FALSE \in BOOLEAN /\ {} \in SUBSET Databases
    OBVIOUS
  <2> QED  BY <1>2, <1>3, <1>4, <2>1 DEF SessionRecord
<1>6. r \in SessionRecord /\ r.up = FALSE /\ r.conn = k
  BY <1>5 DEF SessionRecord
<1>7. session' = [session EXCEPT ![s] = r] /\ UNCHANGED <<nodes, database, unread, taken>>
  BY DEF SessionDestroy
<1> HIDE DEF r
<1>8. session' \in [Sessions -> SessionRecord] /\ session'[s] = r /\ \A x \in Sessions \ {s} : session'[x] = session[x]
  BY <1>1, <1>6, <1>7
<1> QED  BY <1>6, <1>7, <1>8 DEF k

(* session_search: tables and nodes are left alone.                        *)
LEMMA SearchIs ==
    ASSUME SettingsInv, NEW s \in Sessions, NEW filter, SessionSearch(s, filter)
    PROVE  /\ session' \in [Sessions -> SessionRecord]
           /\ \A x \in Sessions \ {s} : session'[x] = session[x]
           /\ session[s].up /\ session'[s].up /\ session'[s].table = session[s].table
           /\ \A d \in Databases :
                 session'[s].conn[d] = IF d \in Grep(s, filter) /\ CachedClients(s)[d] = NoConn
                                       THEN [auth |-> ValueOf(s, d, PzAuth)] ELSE CachedClients(s)[d]
           /\ UNCHANGED <<nodes, database, unread, taken>>
<1> DEFINE S == Grep(s, filter)
           kept == CachedClients(s)
           k == [d \in Databases |-> IF d \in S /\ kept[d] = NoConn
                                     THEN [auth |-> ValueOf(s, d, PzAuth)] ELSE kept[d]]
           r == [[[session[s] EXCEPT !.modified = FALSE] EXCEPT !.active = S] EXCEPT !.conn = k]
<1>1. session \in [Sessions -> SessionRecord] /\ session[s] \in SessionRecord
      /\ DOMAIN session[s].table \in SUBSET Databases
      /\ session[s].conn \in [Databases -> {NoConn} \cup [auth : Values]]
  BY SessionTyped DEF SettingsInv, SessionInv
<1>2. session[s].up /\ session' = [session EXCEPT ![s] = r] /\ UNCHANGED <<nodes, database, unread, taken>>
  <2>1. session' = [session EXCEPT ![s].modified = FALSE, ![s].active = S, ![s].conn = k]
    BY DEF SessionSearch
  <2>2. session[s].up /\ UNCHANGED <<nodes, database, unread, taken>>
    BY DEF SessionSearch
  <2> HIDE DEF S, k
  <2> QED  BY <1>1, <2>1, <2>2 DEF SessionRecord
<1>3. S \in SUBSET (DOMAIN session[s].table)
  BY DEF Grep
<1> HIDE DEF S
<1>4. ASSUME NEW d \in S PROVE ValueOf(s, d, PzAuth) \in Values
  <2> DEFINE n == session[s].table[d][OffsetOf(PzAuth)]
  <2>1. GoodTable(nodes, session[s].table[d], d, {Service, s})
    BY <1>2, <1>3, <1>4 DEF SettingsInv, SessionInv
  <2>2. OffsetOf(PzAuth) \in Offsets
    BY SettingsAssumption DEF Offsets
  <2>3. n \in 0 .. Len(nodes)
    BY <2>1, <2>2 DEF GoodTable
  <2>4. nodes \in Seq(Node)
    BY DEF SettingsInv, HeapInv, Heaps
  <2>5. ValueOf(s, d, PzAuth) = IF n = 0 THEN NoValue ELSE nodes[n].value
    BY DEF ValueOf
  <2> HIDE DEF n
  <2>6. n # 0 => nodes[n] \in Node
    BY <2>3, <2>4
  <2> QED  BY <2>5, <2>6 DEF Values, Node
<1>5. kept \in [Databases -> {NoConn} \cup [auth : Values]]
  BY <1>1 DEF CachedClients
<1> HIDE DEF kept
<1>6. k \in [Databases -> {NoConn} \cup [auth : Values]]
  <2> SUFFICES ASSUME NEW d \in Databases PROVE k[d] \in {NoConn} \cup [auth : Values]
    OBVIOUS
  <2>1. kept[d] \in {NoConn} \cup [auth : Values]
    BY <1>5
  <2> QED  BY <2>1, <1>4
<1>7. \A d \in Databases : k[d] = IF d \in S /\ kept[d] = NoConn
                                  THEN [auth |-> ValueOf(s, d, PzAuth)] ELSE kept[d]
  OBVIOUS
<1> HIDE DEF k
<1>8. S \in SUBSET Databases
  BY <1>1, <1>3
<1>9. r \in SessionRecord /\ r.up = session[s].up /\ r.table = session[s].table /\ r.conn = k
  BY <1>1, <1>6, <1>8 DEF SessionRecord
<1> HIDE DEF r
<1>10. session' \in [Sessions -> SessionRecord] /\ session'[s] = r /\ \A x \in Sessions \ {s} : session'[x] = session[x]
  BY <1>1, <1>2, <1>9
<1> QED  BY <1>2, <1>7, <1>9, <1>10 DEF S, kept

(* Every step preserves the invariant.                                     *)
LEMMA SettingsStep == SettingsInv /\ [Next]_vars => SettingsInv'
<1> SUFFICES ASSUME SettingsInv, [Next]_vars PROVE SettingsInv'
  OBVIOUS
<1>1. ASSUME UNCHANGED <<nodes, database, unread>>, SessionInv' PROVE SettingsInv'
  BY <1>1 DEF SettingsInv, HeapInv, DatabaseInv
<1>2. ASSUME NEW f \in SettingFiles, ReadSettingsFile(f) PROVE SettingsInv'
  BY <1>2, ReadKeeps
<1>3. ASSUME NEW s \in Sessions, SessionCreate(s) PROVE SettingsInv'
  <2>1. \A d \in DOMAIN database : GoodTable(nodes, database[d], d, {Service, s})
    <3> SUFFICES ASSUME NEW d \in Known PROVE GoodTable(nodes, database[d], d, {Service, s})
      BY DEF SettingsInv, DatabaseInv
    <3>1. GoodTable(nodes, database[d], d, {Service}) /\ {Service} \subseteq {Service, s}
      BY DEF SettingsInv, DatabaseInv
    <3>2. \A o \in Offsets : Fits(nodes, database[d][o], d, o, {Service, s})
      BY <3>1, FitsOwn DEF GoodTable
    <3> QED  BY <3>1, <3>2 DEF GoodTable
  <2>2. SessionInv'
    BY <1>3, <2>1, CreateIs DEF SettingsInv, SessionInv
  <2> QED  BY <1>1, <1>3, <2>2, CreateIs
<1>4. ASSUME NEW s \in Sessions, SessionDestroy(s) PROVE SettingsInv'
  <2>1. SessionInv'
    BY <1>4, DestroyIs DEF SettingsInv, SessionInv
  <2> QED  BY <1>1, <1>4, <2>1, DestroyIs
<1>5. ASSUME NEW s \in Sessions, NEW v \in Overrides, SessionApplySetting(s, v) PROVE SettingsInv'
  BY <1>5, ApplyKeeps
<1>6. ASSUME NEW s \in Sessions, NEW filter \in Filters, SessionSearch(s, filter) PROVE SettingsInv'
  <2>1. /\ session' \in [Sessions -> SessionRecord]
        /\ \A x \in Sessions \ {s} : session'[x] = session[x]
        /\ session[s].up /\ session'[s].up /\ session'[s].table = session[s].table
        /\ UNCHANGED <<nodes, database, unread, taken>>
    BY <1>6, SearchIs
  <2>2. SessionInv'
    BY <2>1 DEF SettingsInv, SessionInv
  <2> QED  BY <1>1, <2>1, <2>2
<1>7. CASE UNCHANGED vars
  BY <1>7 DEF vars, SettingsInv, HeapInv, DatabaseInv, SessionInv
<1> QED  BY <1>2, <1>3, <1>4, <1>5, <1>6, <1>7 DEF Next

(* The invariant holds always: the list of an offset leads to settings for *)
(* this target only, of the service or of the session, though databases    *)
(* and sessions share its nodes, update_database_fun takes nodes out and   *)
(* session_apply_setting puts nodes in.                                    *)
THEOREM Safety == Spec => []SettingsInv
<1>1. Init => SettingsInv
  BY InitSettings
<1>2. SettingsInv /\ [Next]_vars => SettingsInv'
  BY SettingsStep
<1> QED  BY <1>1, <1>2, PTL DEF Spec

-----------------------------------------------------------------------------
(* What is found in good lists.                                            *)
ValueIn(heap, table, name) ==
    LET n == Find(heap, table, name) IN IF n = 0 THEN NoValue ELSE heap[n].value

SharedIn(heap, table, d, name) ==
    LET n == Find(heap, table, name)
    IN  n # 0 /\ Exact(heap[n], d, name) /\ heap[n].by = Service

(* It is for the target, and by the service or the session.                *)
LEMMA FindGood ==
    ASSUME NEW heap \in Heaps, NEW table, NEW d, NEW own, GoodTable(heap, table, d, own),
           NEW name \in Names
    PROVE  /\ table[OffsetOf(name)] \in 0 .. Len(heap)
           /\ \/ Find(heap, table, name) = 0
              \/ /\ Find(heap, table, name) \in 1 .. Len(heap)
                 /\ heap[Find(heap, table, name)].name = name
                 /\ \/ heap[Find(heap, table, name)].target = NoTarget
                    \/ d \in heap[Find(heap, table, name)].target.ids
                 /\ heap[Find(heap, table, name)].by \in own
<1> DEFINE o == OffsetOf(name)
           K == Named(heap, name)
<1>1. heap \in Seq(Node) /\ Chained(heap) /\ o \in Offsets
  BY DEF Heaps, Offsets
<1>2. table[o] \in 0 .. Len(heap) /\ Fits(heap, table[o], d, o, own)
  BY <1>1 DEF GoodTable
<1> HIDE DEF o
<1>3. PICK P : Fit(heap, P, d, o, own) /\ table[o] \in P \cup {0}
  BY <1>2 DEF Fits
<1>4. PICK f : Firsts(heap, K, f) /\ \A t : Find(heap, t, name) = f[t[OffsetOf(name)]]
  BY <1>1, FindDef
<1>5. Closed(heap, P) /\ P \subseteq 1 .. Len(heap)
  BY <1>3 DEF Fit, Closed
<1> HIDE DEF K
<1>6. f[table[o]] = 0 \/ f[table[o]] \in P \cap K
  BY <1>1, <1>3, <1>4, <1>5, FirstIn
<1>7. Find(heap, table, name) = f[table[o]]
  BY <1>4 DEF o
<1> QED  BY <1>2, <1>3, <1>5, <1>6, <1>7 DEF Fit, K, Named, o

(* It is the same node when a value is written or a node is new.           *)
LEMMA FindSame ==
    ASSUME NEW h1 \in Heaps, NEW h2 \in Heaps, NEW k, Wrote(h1, h2, k), NEW name,
           NEW table, table[OffsetOf(name)] \in 0 .. Len(h1)
    PROVE  Find(h2, table, name) = Find(h1, table, name)
<1>1. h1 \in Seq(Node) /\ Chained(h1) /\ h2 \in Seq(Node) /\ Chained(h2) /\ Len(h1) \in Nat /\ Len(h2) \in Nat
  BY DEF Heaps
<1> DEFINE K1 == Named(h1, name)
           K2 == Named(h2, name)
<1>2. PICK f1 : Firsts(h1, K1, f1) /\ \A t : Find(h1, t, name) = f1[t[OffsetOf(name)]]
  BY <1>1, FindDef
<1>3. PICK f2 : Firsts(h2, K2, f2) /\ \A t : Find(h2, t, name) = f2[t[OffsetOf(name)]]
  BY <1>1, FindDef
<1>4. Len(h1) <= Len(h2) /\ \A m \in 1 .. Len(h1) : h2[m].next = h1[m].next /\ h2[m].name = h1[m].name
  BY DEF Wrote, Alike
<1>5. \A m \in 1 .. Len(h1) : m \in K1 <=> m \in K2
  <2>1. \A m \in 1 .. Len(h1) : m \in 1 .. Len(h2)
    BY <1>1, <1>4
  <2> QED  BY <2>1, <1>4 DEF Named
<1> HIDE DEF K1, K2
<1>6. \A n \in 0 .. Len(h1) : f2[n] = f1[n]
  <2>1. h1 \in Seq(Node) /\ Chained(h1) /\ h2 \in Seq(Node) /\ Len(h1) <= Len(h2)
    BY <1>1, <1>4
  <2>2. \A m \in 1 .. Len(h1) : h2[m].next = h1[m].next
    BY <1>4
  <2>3. Firsts(h1, K1, f1) /\ Firsts(h2, K2, f2)
    BY <1>2, <1>3
  <2> QED  BY <2>1, <2>2, <2>3, <1>5, FirstSame
<1> QED  BY <1>2, <1>3, <1>6

(* A node in front: it is found by its name, and others as before.         *)
LEMMA FindNew ==
    ASSUME NEW heap \in Heaps, NEW n \in 1 .. Len(heap), NEW table \in [Offsets -> Nat],
           NEW o \in Offsets, heap[n].next = table[o], OffsetOf(heap[n].name) = o,
           NEW name \in Names
    PROVE  Find(heap, Put(table, o, n), name)
              = IF name = heap[n].name THEN n ELSE Find(heap, table, name)
<1>1. heap \in Seq(Node) /\ Chained(heap) /\ OffsetOf(name) \in Offsets
  BY DEF Heaps, Offsets
<1> DEFINE K == Named(heap, name)
           t == Put(table, o, n)
<1>2. PICK f : Firsts(heap, K, f) /\ \A x : Find(heap, x, name) = f[x[OffsetOf(name)]]
  BY <1>1, FindDef
<1>3. \A p \in Offsets : t[p] = IF p = o THEN n ELSE table[p]
  BY DEF Put
<1> HIDE DEF t
<1>4. n \in 0 .. Len(heap) /\ n # 0
  OBVIOUS
<1>5. f[n] = IF n \in K THEN n ELSE f[heap[n].next]
  BY <1>2, <1>4 DEF Firsts
<1>6. n \in K <=> heap[n].name = name
  BY DEF Named
<1>7. Find(heap, t, name) = f[t[OffsetOf(name)]] /\ Find(heap, table, name) = f[table[OffsetOf(name)]]
  BY <1>2
<1>8. CASE OffsetOf(name) = o
  BY <1>3, <1>5, <1>6, <1>7, <1>8 DEF t
<1>9. CASE OffsetOf(name) # o
  BY <1>1, <1>3, <1>7, <1>9 DEF t
<1> QED  BY <1>8, <1>9

(* The setting that a command writes into is the one that is found.        *)
LEMMA FindWritten ==
    ASSUME NEW heap \in Heaps, NEW v, v.name \in Names, NEW table, NEW own, GoodTable(heap, table, v.id, own),
           SameNode(heap, table[OffsetOf(v.name)], v.id, v.name) # 0
    PROVE  Find(heap, table, v.name) = SameNode(heap, table[OffsetOf(v.name)], v.id, v.name)
<1> DEFINE o == OffsetOf(v.name)
           K == Named(heap, v.name)
           E == Exacts(heap, v.id, v.name)
           n == table[o]
           k == SameNode(heap, n, v.id, v.name)
<1>1. heap \in Seq(Node) /\ Chained(heap) /\ o \in Offsets
  BY DEF Heaps, Offsets
<1>2. n \in 0 .. Len(heap) /\ Fits(heap, n, v.id, o, own)
  BY <1>1 DEF GoodTable
<1>3. PICK P : Fit(heap, P, v.id, o, own) /\ n \in P \cup {0}
  BY <1>2 DEF Fits
<1>4. Closed(heap, P) /\ P \subseteq 1 .. Len(heap)
  BY <1>3 DEF Fit, Closed
<1>5. PICK f : Firsts(heap, K, f) /\ \A t : Find(heap, t, v.name) = f[t[OffsetOf(v.name)]]
  BY <1>1, FindDef
<1>6. PICK g : Firsts(heap, E, g) /\ \A m : SameNode(heap, m, v.id, v.name) = g[m]
  BY <1>1, SameDef
<1>7. g[n] = k /\ f[n] = Find(heap, table, v.name) /\ k # 0
  BY <1>5, <1>6
<1>8. E \in SUBSET K
  BY DEF Exacts, Named, Exact
<1>9. /\ \A m \in P \cap K : heap[m].name = v.name /\ (Exact(heap[m], v.id, v.name) => m \in E)
      /\ \A m \in P \cap E : Exact(heap[m], v.id, heap[m].name) /\ heap[m].name = v.name
  BY DEF Named, Exacts, Exact
<1> HIDE DEF n, k, K, E
<1>10. f[n] # 0 /\ k <= f[n] /\ (f[n] \in E => f[n] = k)
  <2>1. \A m \in 0 .. Len(heap) :
           g[m] # 0 => f[m] # 0 /\ g[m] <= f[m] /\ (f[m] \in E => f[m] = g[m])
    <3>1. heap \in Seq(Node) /\ Chained(heap) /\ Firsts(heap, K, f) /\ Firsts(heap, E, g)
      BY <1>1, <1>5, <1>6
    <3> QED  BY <3>1, <1>8, FirstOrder
  <2> QED  BY <2>1, <1>2, <1>7
<1>11. f[n] \in P \cap K
  BY <1>1, <1>3, <1>4, <1>5, <1>10, FirstIn
<1>12. k \in P \cap E
  BY <1>1, <1>3, <1>4, <1>6, <1>7, FirstIn
<1>13. k < f[n] => f[n] \in E
  <2>1. heap[k].name = heap[f[n]].name /\ Exact(heap[k], v.id, heap[k].name)
    BY <1>9, <1>11, <1>12
  <2>2. k < f[n] => Exact(heap[f[n]], v.id, heap[f[n]].name)
    BY <2>1, <1>3, <1>11, <1>12 DEF Fit
  <2> QED  BY <2>2, <1>9, <1>11
<1>14. k \in Nat /\ f[n] \in Nat
  <2>1. k \in 1 .. Len(heap) /\ f[n] \in 1 .. Len(heap)
    BY <1>4, <1>11, <1>12
  <2> QED  BY <2>1
<1>15. f[n] = k
  BY <1>10, <1>13, <1>14
<1> QED  BY <1>7, <1>15 DEF k, n

-----------------------------------------------------------------------------
(* Whose nodes a session's lists hold.                                     *)
Own(x) == {Service, x}

(* A command writes into a node: the lists lead to the same nodes, and one *)
(* of another session or target is told apart by its owner or its target.  *)
LEMMA OtherSees ==
    ASSUME SettingsInv, NEW s \in Sessions, NEW v \in Overrides, SessionApplySetting(s, v),
           NEW x \in Sessions, NEW d, NEW table, GoodTable(nodes, table, d, Own(x)),
           NEW name \in Names
    PROVE  /\ Find(nodes', table, name) = Find(nodes, table, name)
           /\ SharedIn(nodes', table, d, name) <=> SharedIn(nodes, table, d, name)
           /\ ValueIn(nodes', table, name) # ValueIn(nodes, table, name) =>
                 name = v.name /\ d = v.id /\ (x # s => SharedIn(nodes, table, d, name))
<1> DEFINE k == FoundBy(s, v)
           n == Find(nodes, table, name)
<1>1. nodes \in Heaps /\ nodes' \in Heaps /\ Wrote(nodes, nodes', k)
  BY ApplyHeap DEF SettingsInv, HeapInv
<1>2. \/ k = 0
      \/ /\ k \in 1 .. Len(nodes) /\ Exact(nodes[k], v.id, v.name)
         /\ nodes[k].by \in {Service, s}
  BY ApplyHeap
<1>3. /\ table[OffsetOf(name)] \in 0 .. Len(nodes)
      /\ \/ n = 0
         \/ /\ n \in 1 .. Len(nodes) /\ nodes[n].name = name
            /\ nodes[n].target = NoTarget \/ d \in nodes[n].target.ids
            /\ nodes[n].by \in Own(x)
  BY <1>1, FindGood
<1> HIDE DEF k
<1>4. Find(nodes', table, name) = n
  BY <1>1, <1>3, FindSame
<1> HIDE DEF n
<1>5. /\ SharedIn(nodes', table, d, name) <=> (n # 0 /\ Exact(nodes'[n], d, name) /\ nodes'[n].by = Service)
      /\ SharedIn(nodes, table, d, name) <=> (n # 0 /\ Exact(nodes[n], d, name) /\ nodes[n].by = Service)
  BY <1>4 DEF SharedIn, n
<1>6. /\ ValueIn(nodes', table, name) = IF n = 0 THEN NoValue ELSE nodes'[n].value
      /\ ValueIn(nodes, table, name) = IF n = 0 THEN NoValue ELSE nodes[n].value
  BY <1>4 DEF ValueIn, n
<1>7. CASE n = 0
  BY <1>4, <1>5, <1>6, <1>7 DEF n
<1>8. CASE n # 0
  <2>1. /\ n \in 1 .. Len(nodes) /\ nodes[n].name = name
        /\ nodes[n].target = NoTarget \/ d \in nodes[n].target.ids
        /\ nodes[n].by \in {Service, x}
    BY <1>3, <1>8 DEF Own
  <2>2. Alike(nodes'[n], nodes[n]) /\ (n # k => nodes'[n].value = nodes[n].value)
    BY <1>1, <2>1 DEF Wrote
  <2>3. SharedIn(nodes', table, d, name) <=> SharedIn(nodes, table, d, name)
    BY <1>5, <2>2 DEF Alike, Exact
  <2>4. CASE n # k
    BY <1>4, <1>6, <2>2, <2>3, <2>4 DEF n
  <2>5. CASE n = k
    <3>1. Exact(nodes[n], v.id, v.name) /\ nodes[n].by \in {Service, s}
      BY <1>2, <1>8, <2>5
    <3>2. name = v.name /\ nodes[n].target = [wild |-> 0, ids |-> {v.id}]
      BY <2>1, <3>1 DEF Exact
    <3>3. d = v.id
      <4>1. nodes[n].target.ids = {v.id} /\ NoTarget.ids = {}
        BY <3>2 DEF NoTarget
      <4> QED  BY <4>1, <2>1
    <3>4. x # s => nodes[n].by = Service
      BY <2>1, <3>1, SettingsAssumption
    <3>5. x # s => SharedIn(nodes, table, d, name)
      BY <1>5, <1>8, <3>1, <3>2, <3>3, <3>4
    <3> QED  BY <1>4, <2>3, <3>2, <3>3, <3>5 DEF n
  <2> QED  BY <2>4, <2>5
<1> QED  BY <1>7, <1>8

(* The session sees what it set, and of that target nothing else changes.  *)
LEMMA OwnSees ==
    ASSUME SettingsInv, NEW s \in Sessions, NEW v \in Overrides, SessionApplySetting(s, v),
           NEW name \in Names
    PROVE  /\ name = v.name => ValueIn(nodes', Mine(s, v), name) = v.value
           /\ name # v.name =>
                 ValueIn(nodes', Mine(s, v), name) = ValueIn(nodes, TableOf(s, v), name)
<1> DEFINE o == OffsetOf(v.name)
           t == TableOf(s, v)
           k == FoundBy(s, v)
           n == Len(nodes) + 1
<1>1. nodes \in Heaps /\ nodes' \in Heaps /\ Len(nodes) \in Nat /\ Wrote(nodes, nodes', k)
  <2>1. nodes \in Heaps
    BY DEF SettingsInv, HeapInv
  <2>2. nodes' \in Heaps /\ Wrote(nodes, nodes', k)
    BY ApplyHeap
  <2>3. Len(nodes) \in Nat
    BY <2>1 DEF Heaps
  <2> QED  BY <2>1, <2>2, <2>3
<1>2. GoodTable(nodes, t, v.id, {Service, s}) /\ o \in Offsets /\ t \in [Offsets -> 0 .. Len(nodes)]
  BY ApplyTable DEF GoodTable
<1>3. v.name \in Names /\ OffsetOf(name) \in Offsets
  BY SettingsAssumption DEF Offsets
<1> HIDE DEF t
<1>6. /\ Find(nodes', t, name) = Find(nodes, t, name)
      /\ ValueIn(nodes', t, name) # ValueIn(nodes, t, name) => name = v.name
  <2>1. GoodTable(nodes, t, v.id, Own(s))
    BY <1>2 DEF Own
  <2> QED  BY <2>1, OtherSees
<1>7. Mine(s, v) = (IF k = 0 THEN Put(t, o, n) ELSE t) /\ k = SameNode(nodes, t[o], v.id, v.name)
  BY DEF Mine, FoundBy, t
<1>8. \/ /\ k = 0
         /\ Len(nodes') = n
         /\ nodes'[n] = OverrideNode(s, v, t[o])
      \/ /\ k \in 1 .. Len(nodes)
         /\ nodes'[k].value = v.value
  BY ApplyHeap DEF t
<1> HIDE DEF k
<1>9. k = 0 => k \notin 1 .. Len(nodes)
  BY <1>1
<1>4. CASE k = 0
  <2>1. Len(nodes') = n /\ nodes'[n] = OverrideNode(s, v, t[o]) /\ Mine(s, v) = Put(t, o, n)
    BY <1>4, <1>7, <1>8, <1>9
  <2>2. t[o] \in Nat /\ t \in [Offsets -> Nat] /\ t[OffsetOf(name)] \in 0 .. Len(nodes)
    BY <1>1, <1>2, <1>3
  <2>3. nodes'[n].next = t[o] /\ nodes'[n].name = v.name /\ nodes'[n].value = v.value
    <3> DEFINE x == OverrideNode(s, v, t[o])
    <3>1. x.next = t[o] /\ x.name = v.name /\ x.value = v.value
      BY DEF OverrideNode
    <3>2. nodes'[n] = x
      BY <2>1
    <3> HIDE DEF x
    <3> QED  BY <3>1, <3>2
  <2>4. n \in 1 .. Len(nodes') /\ n # 0
    BY <1>1, <2>1
  <2>5. Find(nodes', Put(t, o, n), name) = IF name = v.name THEN n ELSE Find(nodes', t, name)
    <3> HIDE DEF n
    <3>1. OffsetOf(nodes'[n].name) = o
      BY <2>3
    <3> HIDE DEF o
    <3> QED  BY <1>1, <1>2, <2>2, <2>3, <2>4, <3>1, FindNew
  <2>6. Find(nodes', t, name) = Find(nodes, t, name)
    BY <1>6
  <2>7. CASE name = v.name
    BY <2>1, <2>3, <2>4, <2>5, <2>7 DEF ValueIn
  <2>8. CASE name # v.name
    <3> DEFINE m == Find(nodes, t, name)
    <3>1. m = 0 \/ m \in 1 .. Len(nodes)
      BY <1>1, <1>2, FindGood
    <3>2. m # 0 => nodes'[m].value = nodes[m].value
      <4>1. m # 0 => m # k
        BY <1>4
      <4> HIDE DEF m
      <4> QED  BY <1>1, <3>1, <4>1 DEF Wrote
    <3>3. Find(nodes', Mine(s, v), name) = m
      BY <2>1, <2>5, <2>6, <2>8
    <3> QED  BY <2>8, <3>2, <3>3 DEF ValueIn, t
  <2> QED  BY <2>7, <2>8
<1>5. CASE k # 0
  <2>1. k \in 1 .. Len(nodes) /\ nodes'[k].value = v.value /\ Mine(s, v) = t
    BY <1>5, <1>7, <1>8
  <2>2. CASE name = v.name
    <3>1. Find(nodes', t, name) = Find(nodes, t, name)
      BY <1>6
    <3>2. k = SameNode(nodes, t[OffsetOf(v.name)], v.id, v.name)
      BY <1>7
    <3>3. Find(nodes, t, v.name) = SameNode(nodes, t[OffsetOf(v.name)], v.id, v.name)
      BY <1>1, <1>2, <1>3, <1>5, <3>2, FindWritten
    <3> QED  BY <2>1, <2>2, <3>1, <3>2, <3>3, <1>5 DEF ValueIn
  <2>3. CASE name # v.name
    <3>1. ValueIn(nodes', t, name) = ValueIn(nodes, t, name)
      BY <1>6, <2>3
    <3> QED  BY <2>1, <2>3, <3>1 DEF t
  <2> QED  BY <2>2, <2>3
<1> QED  BY <1>4, <1>5

-----------------------------------------------------------------------------
(* Another session, or another target of this one: what a session sees in  *)
(* the table it has for d.                                                 *)
LEMMA ApplySeen ==
    ASSUME SettingsInv, NEW y \in Sessions, NEW v \in Overrides, SessionApplySetting(y, v),
           NEW s \in Sessions, session[s].up, NEW d \in DOMAIN session[s].table, NEW name \in Names
    PROVE  \/ ValueIn(nodes', session'[s].table[d], name) = ValueIn(nodes, session[s].table[d], name)
           \/ SharedIn(nodes, session[s].table[d], d, name)
           \/ v.id = d /\ v.name = name /\ y = s
<1> DEFINE t == session[s].table[d]
<1>1. GoodTable(nodes, t, d, Own(s))
  BY DEF SettingsInv, SessionInv, Own
<1> HIDE DEF t
<1>2. ValueIn(nodes', t, name) # ValueIn(nodes, t, name) =>
         name = v.name /\ d = v.id /\ (s # y => SharedIn(nodes, t, d, name))
  BY <1>1, OtherSees
<1>3. CASE s # y
  <2>1. session'[s].table[d] = t
    BY <1>3, ApplyRecord DEF t
  <2> QED  BY <1>2, <1>3, <2>1 DEF t
<1>4. CASE s = y
  <2>1. session'[s].table = Tables(session[s].table, v, Mine(s, v))
    BY <1>4, ApplyRecord
  <2>2. session'[s].table[d] = IF d = v.id THEN Mine(s, v) ELSE t
    BY <2>1 DEF Tables, t
  <2>3. CASE d # v.id
    BY <1>2, <2>2, <2>3 DEF t
  <2>4. CASE d = v.id
    <3>1. TableOf(s, v) = t
      BY <2>4 DEF TableOf, t
    <3>2. name # v.name => ValueIn(nodes', Mine(s, v), name) = ValueIn(nodes, t, name)
      BY <1>4, <3>1, OwnSees
    <3> QED  BY <1>4, <2>2, <2>4, <3>2 DEF t
  <2> QED  BY <2>3, <2>4
<1> QED  BY <1>3, <1>4

(* What a session sets, it sees.                                           *)
LEMMA OwnSeen ==
    ASSUME SettingsInv, NEW s \in Sessions, NEW v \in Overrides, SessionApplySetting(s, v)
    PROVE  ValueIn(nodes', session'[s].table[v.id], v.name) = v.value
<1>1. v.name \in Names
  BY SettingsAssumption
<1>2. session'[s].table[v.id] = Mine(s, v)
  <2> DEFINE old == session[s].table
             mine == Mine(s, v)
  <2>1. session'[s].table = Tables(old, v, mine)
    BY ApplyRecord
  <2> HIDE DEF old, mine
  <2> QED  BY <2>1 DEF Tables, mine
<1>3. ValueIn(nodes', Mine(s, v), v.name) = v.value
  BY <1>1, OwnSees
<1> QED  BY <1>2, <1>3

(* A step: what a session sees of a target changes by its own commands.    *)
LEMMA ScopeStep ==
    ASSUME SettingsInv, [Next]_vars,
           NEW s \in Sessions, session[s].up, session'[s].up,
           NEW d \in DOMAIN session[s].table, NEW name \in Names,
           ValueIn(nodes', session'[s].table[d], name) # ValueIn(nodes, session[s].table[d], name)
    PROVE  \/ SharedIn(nodes, session[s].table[d], d, name)
           \/ \E v \in Overrides : v.id = d /\ v.name = name /\ SessionApplySetting(s, v)
<1>1. ASSUME nodes' = nodes, session'[s].table = session[s].table PROVE FALSE
  BY <1>1
<1>2. ASSUME NEW f \in SettingFiles, ReadSettingsFile(f) PROVE FALSE
  BY <1>2, ReadKeeps
<1>3. ASSUME NEW x \in Sessions, SessionCreate(x) PROVE FALSE
  <2>1. nodes' = nodes /\ session'[s] = session[s]
    BY <1>3, CreateIs
  <2> QED  BY <1>1, <2>1
<1>4. ASSUME NEW x \in Sessions, SessionDestroy(x) PROVE FALSE
  <2>1. nodes' = nodes /\ session'[s] = session[s]
    BY <1>4, DestroyIs
  <2> QED  BY <1>1, <2>1
<1>5. ASSUME NEW x \in Sessions, NEW filter \in Filters, SessionSearch(x, filter) PROVE FALSE
  <2>1. nodes' = nodes /\ session'[s].table = session[s].table
    BY <1>5, SearchIs
  <2> QED  BY <1>1, <2>1
<1>6. ASSUME UNCHANGED vars PROVE FALSE
  BY <1>1, <1>6 DEF vars
<1>7. PICK x \in Sessions, v \in Overrides : SessionApplySetting(x, v)
  BY <1>2, <1>3, <1>4, <1>5, <1>6 DEF Next
<1>8. \/ SharedIn(nodes, session[s].table[d], d, name)
      \/ v.id = d /\ v.name = name /\ x = s
  BY <1>7, ApplySeen
<1> QED  BY <1>7, <1>8

(* What a session sets, it sees; and what it sees of a target changes by a *)
(* settings command of its own for just that (session_apply_setting): no   *)
(* other session's command is seen, but for nodes of the configuration     *)
(* for exactly the target.                                                 *)
THEOREM OverrideScopedAlways == Spec => OverrideScoped
<1> DEFINE Scoped ==
      \A s \in Sessions : session[s].up /\ session'[s].up =>
          /\ \A v \in Overrides : SessionApplySetting(s, v) => Seen(s, v.id, v.name)' = v.value
          /\ \A d \in DOMAIN session[s].table, name \in Names :
                Seen(s, d, name)' # Seen(s, d, name) =>
                    \/ Shared(s, d, name)
                    \/ \E v \in Overrides : v.id = d /\ v.name = name
                                             /\ SessionApplySetting(s, v)
<1>1. ASSUME SettingsInv, [Next]_vars PROVE Scoped
  <2> SUFFICES ASSUME NEW s \in Sessions, session[s].up, session'[s].up
               PROVE  /\ \A v \in Overrides : SessionApplySetting(s, v) => Seen(s, v.id, v.name)' = v.value
                      /\ \A d \in DOMAIN session[s].table, name \in Names :
                            Seen(s, d, name)' # Seen(s, d, name) =>
                                \/ Shared(s, d, name)
                                \/ \E v \in Overrides : v.id = d /\ v.name = name
                                                         /\ SessionApplySetting(s, v)
    OBVIOUS
  <2>1. ASSUME NEW v \in Overrides, SessionApplySetting(s, v)
        PROVE  Seen(s, v.id, v.name)' = v.value
    <3>1. SettingsInv
      BY <1>1
    <3>2. ValueIn(nodes', session'[s].table[v.id], v.name) = v.value
      BY <3>1, <2>1, OwnSeen
    <3> QED  BY <3>2 DEF Seen, ValueIn
  <2>2. ASSUME NEW d \in DOMAIN session[s].table, NEW name \in Names,
               Seen(s, d, name)' # Seen(s, d, name)
        PROVE  \/ Shared(s, d, name)
               \/ \E v \in Overrides : v.id = d /\ v.name = name /\ SessionApplySetting(s, v)
    <3>1. ValueIn(nodes', session'[s].table[d], name) # ValueIn(nodes, session[s].table[d], name)
      BY <2>2 DEF Seen, ValueIn
    <3>2. \/ SharedIn(nodes, session[s].table[d], d, name)
          \/ \E v \in Overrides : v.id = d /\ v.name = name /\ SessionApplySetting(s, v)
      BY <1>1, <3>1, ScopeStep
    <3> QED  BY <3>2 DEF Shared, SharedIn
  <2> QED  BY <2>1, <2>2
<1>2. SettingsInv /\ [Next]_vars => [Scoped]_vars
  BY <1>1
<1> HIDE DEF Scoped
<1>3. Spec => [][Scoped]_vars
  BY <1>2, Safety, PTL DEF Spec
<1> QED  BY <1>3 DEF OverrideScoped, Scoped

-----------------------------------------------------------------------------
(* Nothing else is at the offset of PzAuth: the first setting there is the *)
(* one that is found.                                                      *)
OwnOffset == \A n \in Names : OffsetOf(n) = OffsetOf(PzAuth) => n = PzAuth

AuthIn(heap, table) ==
    LET n == table[OffsetOf(PzAuth)] IN IF n = 0 THEN NoValue ELSE heap[n].value

(* Of what is found by PzAuth, the value is that of the first node.        *)
LEMMA AuthFirst ==
    ASSUME OwnOffset, NEW heap \in Heaps, NEW table, NEW d, NEW own, GoodTable(heap, table, d, own)
    PROVE  AuthIn(heap, table) = ValueIn(heap, table, PzAuth)
<1> DEFINE o == OffsetOf(PzAuth)
           K == Named(heap, PzAuth)
           n == table[o]
<1>1. heap \in Seq(Node) /\ Chained(heap) /\ o \in Offsets
  BY SettingsAssumption DEF Heaps, Offsets
<1>2. n \in 0 .. Len(heap) /\ Fits(heap, n, d, o, own)
  BY <1>1 DEF GoodTable
<1>3. n # 0 => n \in K
  <2> SUFFICES ASSUME n # 0 PROVE n \in K
    OBVIOUS
  <2>1. n \in 1 .. Len(heap) /\ OffsetOf(heap[n].name) = o
    BY <1>2 DEF Fits, Fit
  <2>2. heap[n] \in Node
    BY <1>1, <2>1
  <2>3. heap[n].name \in Names
    BY <2>2 DEF Node
  <2> QED  BY <2>1, <2>3 DEF OwnOffset, Named
<1>4. PICK f : Firsts(heap, K, f) /\ \A t : Find(heap, t, PzAuth) = f[t[OffsetOf(PzAuth)]]
  BY <1>1, FindDef
<1>5. Find(heap, table, PzAuth) = f[n]
  BY <1>4
<1> HIDE DEF n, K
<1>6. f[n] = n
  BY <1>2, <1>3, <1>4 DEF Firsts
<1> QED  BY <1>5, <1>6 DEF AuthIn, ValueIn, n

(* What ClientsUpToDate says of a session.                                 *)
UpToDate(heap, r) ==
    r.up /\ ~r.modified =>
        \A d \in DOMAIN r.table :
            r.conn[d] # NoConn /\ ~SharedIn(heap, r.table[d], d, PzAuth) =>
                r.conn[d].auth = AuthIn(heap, r.table[d])

AllUpToDate == \A s \in Sessions : UpToDate(nodes, session[s])

(* It is the property.                                                     *)
LEMMA AllUpToDateIs == AllUpToDate <=> ClientsUpToDate
<1>1. ASSUME NEW s \in Sessions, NEW d
      PROVE  /\ SharedIn(nodes, session[s].table[d], d, PzAuth) <=> Shared(s, d, PzAuth)
             /\ AuthIn(nodes, session[s].table[d]) = ValueOf(s, d, PzAuth)
  BY DEF SharedIn, Shared, AuthIn, ValueOf
<1>2. ASSUME NEW s \in Sessions
      PROVE  UpToDate(nodes, session[s]) <=>
               (session[s].up /\ ~session[s].modified =>
                  \A d \in DOMAIN session[s].table :
                      session[s].conn[d] # NoConn /\ ~Shared(s, d, PzAuth) =>
                          session[s].conn[d].auth = ValueOf(s, d, PzAuth))
  BY <1>1 DEF UpToDate
<1> QED  BY <1>2 DEF AllUpToDate, ClientsUpToDate

(* A search: connections that are kept were up to date, or none is kept.   *)
LEMMA SearchUpToDate ==
    ASSUME SettingsInv, AllUpToDate, NEW s \in Sessions, NEW filter, SessionSearch(s, filter)
    PROVE  UpToDate(nodes', session'[s])
<1> SUFFICES ASSUME NEW d \in DOMAIN session'[s].table, session'[s].conn[d] # NoConn,
                    ~SharedIn(nodes', session'[s].table[d], d, PzAuth)
             PROVE  session'[s].conn[d].auth = AuthIn(nodes', session'[s].table[d])
  BY DEF UpToDate
<1>1. /\ session[s].up /\ nodes' = nodes /\ session'[s].table = session[s].table
      /\ \A x \in Databases :
            session'[s].conn[x] = IF x \in Grep(s, filter) /\ CachedClients(s)[x] = NoConn
                                  THEN [auth |-> ValueOf(s, x, PzAuth)] ELSE CachedClients(s)[x]
  BY SearchIs
<1>2. d \in Databases /\ d \in DOMAIN session[s].table
  BY <1>1, SessionTyped
<1>3. ValueOf(s, d, PzAuth) = AuthIn(nodes, session[s].table[d])
  BY DEF ValueOf, AuthIn
<1>4. CASE d \in Grep(s, filter) /\ CachedClients(s)[d] = NoConn
  <2>1. session'[s].conn[d] = [auth |-> ValueOf(s, d, PzAuth)]
    BY <1>1, <1>2, <1>4
  <2> QED  BY <2>1, <1>1, <1>3
<1>5. CASE ~(d \in Grep(s, filter) /\ CachedClients(s)[d] = NoConn)
  <2>1. session'[s].conn[d] = CachedClients(s)[d]
    BY <1>1, <1>2, <1>5
  <2>2. ~session[s].modified /\ session'[s].conn[d] = session[s].conn[d]
    BY <2>1, <1>2 DEF CachedClients
  <2>3. UpToDate(nodes, session[s])
    BY DEF AllUpToDate
  <2>4. session[s].conn[d] # NoConn /\ ~SharedIn(nodes, session[s].table[d], d, PzAuth)
    BY <1>1, <2>2
  <2>5. session[s].conn[d].auth = AuthIn(nodes, session[s].table[d])
    BY <1>1, <1>2, <2>2, <2>3, <2>4 DEF UpToDate
  <2> QED  BY <1>1, <2>2, <2>5
<1> QED  BY <1>4, <1>5

(* A settings command of another session: where it writes is Shared.       *)
LEMMA ApplyUpToDate ==
    ASSUME OwnOffset, SettingsInv, AllUpToDate,
           NEW y \in Sessions, NEW v \in Overrides, SessionApplySetting(y, v),
           NEW s \in Sessions, s # y
    PROVE  UpToDate(nodes', session'[s])
<1>1. session'[s] = session[s]
  BY ApplyRecord
<1> SUFFICES ASSUME session[s].up, ~session[s].modified, NEW d \in DOMAIN session[s].table,
                    session[s].conn[d] # NoConn, ~SharedIn(nodes', session[s].table[d], d, PzAuth)
             PROVE  session[s].conn[d].auth = AuthIn(nodes', session[s].table[d])
  BY <1>1 DEF UpToDate
<1> DEFINE t == session[s].table[d]
<1>2. GoodTable(nodes, t, d, Own(s)) /\ nodes \in Heaps
  BY DEF SettingsInv, SessionInv, HeapInv, Own
<1>3. nodes' \in Heaps /\ Grows(nodes, nodes')
  BY ApplyHeap
<1>4. UpToDate(nodes, session[s])
  BY DEF AllUpToDate
<1>5. ~SharedIn(nodes', t, d, PzAuth) /\ PzAuth \in Names
  BY SettingsAssumption
<1>6. ~SharedIn(nodes, t, d, PzAuth) => session[s].conn[d].auth = AuthIn(nodes, t)
  BY <1>4 DEF UpToDate
<1> HIDE DEF t
<1>7. GoodTable(nodes', t, d, Own(s))
  BY <1>2, <1>3, TableGrows
<1>8. /\ ~SharedIn(nodes, t, d, PzAuth)
      /\ ValueIn(nodes', t, PzAuth) = ValueIn(nodes, t, PzAuth)
  BY <1>2, <1>5, OtherSees
<1>9. AuthIn(nodes', t) = AuthIn(nodes, t)
  <2>1. AuthIn(nodes, t) = ValueIn(nodes, t, PzAuth)
    BY <1>2, AuthFirst
  <2>2. AuthIn(nodes', t) = ValueIn(nodes', t, PzAuth)
    BY <1>3, <1>7, AuthFirst
  <2> QED  BY <2>1, <2>2, <1>8
<1> QED  BY <1>6, <1>8, <1>9 DEF t

(* Every step preserves it.                                                *)
LEMMA UpToDateStep ==
    ASSUME OwnOffset PROVE SettingsInv /\ AllUpToDate /\ [Next]_vars => AllUpToDate'
<1> SUFFICES ASSUME SettingsInv, AllUpToDate, [Next]_vars, NEW s \in Sessions
             PROVE  UpToDate(nodes', session'[s])
  BY DEF AllUpToDate
<1>0. UpToDate(nodes, session[s])
  BY DEF AllUpToDate
<1>1. ASSUME nodes' = nodes, session'[s] = session[s] PROVE UpToDate(nodes', session'[s])
  BY <1>0, <1>1
<1>2. ASSUME NEW f \in SettingFiles, ReadSettingsFile(f) PROVE UpToDate(nodes', session'[s])
  <2>1. session' = session /\ session[s].up = FALSE
    BY <1>2, ReadKeeps DEF ReadSettingsFile
  <2> QED  BY <2>1 DEF UpToDate
<1>3. ASSUME NEW x \in Sessions, SessionCreate(x) PROVE UpToDate(nodes', session'[s])
  <2>1. CASE s = x
    <3>1. session'[s].conn = [d \in Databases |-> NoConn]
      BY <1>3, <2>1, CreateIs DEF SettingsInv, SessionInv
    <3>2. session'[s].table = database /\ DOMAIN database \subseteq Databases
      BY <1>3, <2>1, CreateIs, KnownDatabases DEF SettingsInv, DatabaseInv
    <3> QED  BY <3>1, <3>2 DEF UpToDate
  <2>2. CASE s # x
    BY <1>1, <1>3, <2>2, CreateIs
  <2> QED  BY <2>1, <2>2
<1>4. ASSUME NEW x \in Sessions, SessionDestroy(x) PROVE UpToDate(nodes', session'[s])
  <2>1. CASE s = x
    BY <1>4, <2>1, DestroyIs DEF UpToDate
  <2>2. CASE s # x
    BY <1>1, <1>4, <2>2, DestroyIs
  <2> QED  BY <2>1, <2>2
<1>5. ASSUME NEW x \in Sessions, NEW v \in Overrides, SessionApplySetting(x, v)
      PROVE  UpToDate(nodes', session'[s])
  <2>1. CASE s = x
    <3>1. session'[s].modified = TRUE
      BY <1>5, <2>1, ApplyRecord
    <3> QED  BY <3>1 DEF UpToDate
  <2>2. CASE s # x
    BY <1>5, <2>2, ApplyUpToDate
  <2> QED  BY <2>1, <2>2
<1>6. ASSUME NEW x \in Sessions, NEW filter \in Filters, SessionSearch(x, filter)
      PROVE  UpToDate(nodes', session'[s])
  <2>1. CASE s = x
    BY <1>6, <2>1, SearchUpToDate
  <2>2. CASE s # x
    BY <1>1, <1>6, <2>2, SearchIs
  <2> QED  BY <2>1, <2>2
<1>7. CASE UNCHANGED vars
  BY <1>1, <1>7 DEF vars
<1> QED  BY <1>2, <1>3, <1>4, <1>5, <1>6, <1>7 DEF Next

(* A connection that a session goes on using was made with the settings it *)
(* has now (session_search, session_remove_cached_clients); the name       *)
(* PzAuth has an offset of its own in the dictionary, as all have that are *)
(* not pz:x:... (settings_index_lookup).                                   *)
THEOREM ClientsUpToDateAlways ==
    ASSUME \A n \in Names : OffsetOf(n) = OffsetOf(PzAuth) => n = PzAuth
    PROVE  Spec => []ClientsUpToDate
<1>0. OwnOffset
  BY DEF OwnOffset
<1>1. Init => AllUpToDate
  BY DEF Init, NoSession, AllUpToDate, UpToDate
<1>2. SettingsInv /\ AllUpToDate /\ [Next]_vars => AllUpToDate'
  BY <1>0, UpToDateStep
<1>3. AllUpToDate => ClientsUpToDate
  BY AllUpToDateIs
<1> QED  BY <1>1, <1>2, <1>3, Safety, PTL DEF Spec

=============================================================================
