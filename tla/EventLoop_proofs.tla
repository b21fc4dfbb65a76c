-------------------------- MODULE EventLoop_proofs --------------------------
(***************************************************************************)
(* Proofs about EventLoop: whatever the number of channels and workers and *)
(* whatever handlers do to channels, none is freed while somebody has it,  *)
(* and the pool is given a channel only when it holds it no more.          *)
(***************************************************************************)
EXTENDS EventLoopProps, WellFoundedInduction, TLAPS

-----------------------------------------------------------------------------
(* The pool: a job is in one place of it at a time, so no two workers have *)
(* it, as long as it is submitted only when the pool does not hold it.     *)

(* A job is in one place.                                                  *)
PoolOnce ==
    /\ \A i, j \in 1..Len(queue) : queue[i] = queue[j] => i = j
    /\ \A i, j \in 1..Len(results) : results[i] = results[j] => i = j
    /\ \A i \in 1..Len(queue), j \in 1..Len(results) : queue[i] # results[j]
    /\ \A w \in Workers : running[w] # None => ~InQueue(running[w]) /\ ~InResults(running[w])
    /\ \A v, w \in Workers : running[v] = running[w] /\ running[v] # None => v = w

(* A job that the pool does not hold is put at the end of the queue.       *)
LEMMA PoolSubmit ==
  ASSUME PoolTypeOK, PoolOnce, NEW c \in Jobs, ~Outstanding(c), Submit(c)
  PROVE  /\ PoolTypeOK' /\ PoolOnce' /\ Outstanding(c)'
         /\ \A d \in Jobs \ {c} : Outstanding(d)' <=> Outstanding(d)
<1> USE DEF Submit, PoolTypeOK
<1>1. /\ Len(queue') = Len(queue) + 1 /\ Len(queue) \in Nat
      /\ \A i \in 1..Len(queue) : queue'[i] = queue[i]
      /\ queue'[Len(queue) + 1] = c
  OBVIOUS
<1>2. PoolTypeOK'
  OBVIOUS
<1>3. \A d : InQueue(d)' <=> InQueue(d) \/ d = c
  BY <1>1 DEF InQueue
<1>4. \A d : Outstanding(d)' <=> Outstanding(d) \/ d = c
  BY <1>3 DEF Outstanding, InResults, RunBy
<1>5. PoolOnce'
  <2>1. \A i, j \in 1..Len(queue') : queue'[i] = queue'[j] => i = j
    BY <1>1 DEF PoolOnce, Outstanding, InQueue
  <2>2. \A i \in 1..Len(queue'), j \in 1..Len(results') : queue'[i] # results'[j]
    BY <1>1 DEF PoolOnce, Outstanding, InResults
  <2>3. \A w \in Workers : running'[w] # None => ~InQueue(running[w])' /\ ~InResults(running[w])'
    BY <1>3 DEF PoolOnce, Outstanding, InResults, RunBy
  <2> QED
    BY <2>1, <2>2, <2>3 DEF PoolOnce
<1> QED
  BY <1>2, <1>4, <1>5

(* The oldest job goes from the queue to a worker.                         *)
LEMMA PoolStart ==
  ASSUME PoolTypeOK, PoolOnce, NEW w \in Workers, Start(w)
  PROVE  /\ PoolTypeOK' /\ PoolOnce'
         /\ \A d \in Jobs : Outstanding(d)' <=> Outstanding(d)
<1> USE DEF Start, PoolTypeOK
<1>0. PICK c \in Jobs : c = queue[1]
  OBVIOUS
<1>1. /\ Len(queue) \in Nat \ {0} /\ Len(queue') = Len(queue) - 1
      /\ \A i \in 1..Len(queue') : queue'[i] = queue[i + 1]
      /\ c = queue[1] /\ running' = [running EXCEPT ![w] = c]
  BY <1>0
<1>2. PoolTypeOK'
  BY <1>1
<1>3. \A d : InQueue(d) <=> InQueue(d)' \/ d = c
  <2>1. ASSUME NEW d, InQueue(d) PROVE InQueue(d)' \/ d = c
    <3>1. PICK i \in 1..Len(queue) : queue[i] = d
      BY <2>1 DEF InQueue
    <3>2. CASE i = 1
      BY <3>1, <3>2, <1>1
    <3>3. CASE i # 1
      <4>1. i - 1 \in 1..Len(queue') /\ queue'[i - 1] = d
        BY <3>1, <3>3, <1>1
      <4> QED
        BY <4>1 DEF InQueue
    <3> QED
      BY <3>2, <3>3
  <2>2. ASSUME NEW d, InQueue(d)' \/ d = c PROVE InQueue(d)
    BY <2>2, <1>1 DEF InQueue
  <2> QED
    BY <2>1, <2>2
<1>4. ~InQueue(c)' /\ ~InResults(c) /\ (\A v \in Workers : running[v] # c)
  <2>1. ASSUME InQueue(c)' PROVE FALSE
    <3>1. PICK i \in 1..Len(queue') : queue'[i] = c
      BY <2>1 DEF InQueue
    <3>2. i + 1 \in 1..Len(queue) /\ 1 \in 1..Len(queue) /\ queue[i + 1] = queue[1] /\ i + 1 # 1
      BY <3>1, <1>1
    <3> QED
      BY <3>2 DEF PoolOnce
  <2>2. InQueue(c)
    BY <1>1 DEF InQueue
  <2>3. ~InResults(c)
    BY <1>1 DEF PoolOnce, InResults
  <2> QED
    BY <2>1, <2>2, <2>3, <1>1, NoneAssumption DEF PoolOnce
<1>5. \A d \in Jobs : Outstanding(d)' <=> Outstanding(d)
  BY <1>1, <1>3, NoneAssumption DEF Outstanding, InResults, RunBy
<1>6. PoolOnce'
  <2>1. \A i, j \in 1..Len(queue') : queue'[i] = queue'[j] => i = j
    BY <1>1 DEF PoolOnce
  <2>2. \A i \in 1..Len(queue'), j \in 1..Len(results') : queue'[i] # results'[j]
    BY <1>1 DEF PoolOnce
  <2>3. ASSUME NEW v \in Workers, running'[v] # None
        PROVE  ~InQueue(running[v])' /\ ~InResults(running[v])'
    <3>1. CASE v = w
      BY <3>1, <1>1, <1>4 DEF InResults
    <3>2. CASE v # w
      BY <3>2, <2>3, <1>1, <1>3 DEF PoolOnce, InResults
    <3> QED
      BY <3>1, <3>2
  <2>4. \A u, v \in Workers : running'[u] = running'[v] /\ running'[u] # None => u = v
    BY <1>1, <1>4 DEF PoolOnce
  <2> QED
    BY <2>1, <2>2, <2>3, <2>4 DEF PoolOnce
<1> QED
  BY <1>2, <1>5, <1>6

(* A worker puts its job into the results.                                 *)
LEMMA PoolFinish ==
  ASSUME PoolTypeOK, PoolOnce, NEW w \in Workers, Finish(w)
  PROVE  /\ PoolTypeOK' /\ PoolOnce'
         /\ \A d \in Jobs : Outstanding(d)' <=> Outstanding(d)
<1> USE DEF Finish, PoolTypeOK
<1> DEFINE c == running[w]
<1>1. /\ Len(results') = Len(results) + 1 /\ Len(results) \in Nat
      /\ \A i \in 1..Len(results) : results'[i] = results[i]
      /\ results'[Len(results) + 1] = c
      /\ c \in Jobs /\ running' = [running EXCEPT ![w] = None]
  OBVIOUS
<1>2. PoolTypeOK'
  BY <1>1
<1>3. \A d : InResults(d)' <=> InResults(d) \/ d = c
  BY <1>1 DEF InResults
<1>4. ~InQueue(c) /\ ~InResults(c) /\ \A v \in Workers \ {w} : running[v] # c
  BY <1>1 DEF PoolOnce
<1>5. \A d \in Jobs : Outstanding(d)' <=> Outstanding(d)
  BY <1>1, <1>3, NoneAssumption DEF Outstanding, InQueue, RunBy
<1>6. PoolOnce'
  <2>1. \A i, j \in 1..Len(results') : results'[i] = results'[j] => i = j
    BY <1>1, <1>4 DEF PoolOnce, InResults
  <2>2. \A i \in 1..Len(queue'), j \in 1..Len(results') : queue'[i] # results'[j]
    BY <1>1, <1>4 DEF PoolOnce, InQueue
  <2>3. \A v \in Workers : running'[v] # None => ~InQueue(running[v])' /\ ~InResults(running[v])'
    BY <1>1, <1>3, <1>4 DEF PoolOnce, InQueue
  <2>4. \A u, v \in Workers : running'[u] = running'[v] /\ running'[u] # None => u = v
    BY <1>1 DEF PoolOnce
  <2> QED
    BY <2>1, <2>2, <2>3, <2>4 DEF PoolOnce
<1> QED
  BY <1>2, <1>5, <1>6

(* The oldest result leaves the pool.                                      *)
LEMMA PoolCollect ==
  ASSUME PoolTypeOK, PoolOnce, Collect, NEW c, c = Head(results)
  PROVE  /\ PoolTypeOK' /\ PoolOnce'
         /\ c \in Jobs /\ Outstanding(c) /\ ~Outstanding(c)'
         /\ \A d \in Jobs \ {c} : Outstanding(d)' <=> Outstanding(d)
<1> USE DEF Collect, PoolTypeOK
<1>1. /\ Len(results) \in Nat \ {0} /\ Len(results') = Len(results) - 1
      /\ \A i \in 1..Len(results') : results'[i] = results[i + 1]
      /\ c \in Jobs /\ c = results[1]
  OBVIOUS
<1>2. PoolTypeOK'
  OBVIOUS
<1>3. \A d : InResults(d) <=> InResults(d)' \/ d = c
  <2>1. ASSUME NEW d, InResults(d) PROVE InResults(d)' \/ d = c
    <3>1. PICK i \in 1..Len(results) : results[i] = d
      BY <2>1 DEF InResults
    <3>2. CASE i = 1
      BY <3>1, <3>2
    <3>3. CASE i # 1
      <4>1. i - 1 \in 1..Len(results') /\ results'[i - 1] = d
        BY <3>1, <3>3, <1>1
      <4> QED
        BY <4>1 DEF InResults
    <3> QED
      BY <3>2, <3>3
  <2>2. ASSUME NEW d, InResults(d)' \/ d = c PROVE InResults(d)
    BY <2>2, <1>1 DEF InResults
  <2> QED
    BY <2>1, <2>2
<1>4. ~InResults(c)' /\ ~InQueue(c) /\ \A v \in Workers : running[v] # c
  <2>1. ASSUME InResults(c)' PROVE FALSE
    <3>1. PICK i \in 1..Len(results') : results'[i] = c
      BY <2>1 DEF InResults
    <3>2. i + 1 \in 1..Len(results) /\ 1 \in 1..Len(results)
          /\ results[i + 1] = results[1] /\ i + 1 # 1
      BY <3>1, <1>1
    <3> QED
      BY <3>2 DEF PoolOnce
  <2>2. InResults(c)
    BY <1>3
  <2>3. ~InQueue(c)
    BY <1>1 DEF PoolOnce, InQueue
  <2> QED
    BY <2>1, <2>2, <2>3, <1>1, NoneAssumption DEF PoolOnce
<1>5. \A d \in Jobs : Outstanding(d) <=> Outstanding(d)' \/ d = c
  <2>1. \A d \in Jobs :
          (InQueue(d)' <=> InQueue(d)) /\ \A w \in Workers : RunBy(w, d)' <=> RunBy(w, d)
    BY DEF InQueue, RunBy
  <2> QED
    BY <2>1, <1>3 DEF Outstanding
<1>6. ~Outstanding(c)'
  BY <1>4 DEF Outstanding, InQueue, RunBy
<1>7. PoolOnce'
  <2>1. \A i, j \in 1..Len(results') : results'[i] = results'[j] => i = j
    BY <1>1 DEF PoolOnce
  <2>2. \A i \in 1..Len(queue'), j \in 1..Len(results') : queue'[i] # results'[j]
    BY <1>1 DEF PoolOnce
  <2>3. \A v \in Workers : running'[v] # None => ~InQueue(running[v])' /\ ~InResults(running[v])'
    BY <1>3 DEF PoolOnce, InQueue
  <2> QED
    BY <2>1, <2>2, <2>3 DEF PoolOnce
<1> HIDE DEF Collect, PoolTypeOK
<1> QED
  BY <1>1, <1>2, <1>5, <1>6, <1>7

(* A job is in one place of the pool at a time, whatever the workers do    *)
(* (sel_thread.h, on which event_loop relies).                             *)
THEOREM OncePlace == PoolSpec => [](PoolTypeOK /\ PoolOnce)
<1>1. PoolInit => PoolTypeOK /\ PoolOnce
  BY DEF PoolInit, PoolTypeOK, PoolOnce
<1>2. PoolTypeOK /\ PoolOnce /\ [PoolNext]_poolVars => (PoolTypeOK /\ PoolOnce)'
  <2> SUFFICES ASSUME PoolTypeOK, PoolOnce, [PoolNext]_poolVars PROVE (PoolTypeOK /\ PoolOnce)'
    OBVIOUS
  <2>1. CASE \E j \in Jobs : ~Outstanding(j) /\ Submit(j)
    BY <2>1, PoolSubmit
  <2>2. CASE \E w \in Workers : Start(w) \/ Finish(w)
    BY <2>2, PoolStart, PoolFinish
  <2>3. CASE Collect
    <3>1. PICK c : c = Head(results)
      OBVIOUS
    <3> QED
      BY <2>3, <3>1, PoolCollect
  <2>4. CASE UNCHANGED poolVars
    BY <2>4 DEF poolVars, PoolTypeOK, PoolOnce, InQueue, InResults
  <2> QED
    BY <2>1, <2>2, <2>3, <2>4 DEF PoolNext
<1> QED
  BY <1>1, <1>2, PTL DEF PoolSpec

-----------------------------------------------------------------------------
(* Induction over sequences: a set of numbers has a least element.         *)
Below == {ss \in Nat \X Nat : ss[1] < ss[2]}

(* The numbers below one another are well-founded.                         *)
LEMMA BelowWellFounded == IsWellFoundedOn(Below, Nat)
  BY NatLessThanWellFounded DEF OpToRel, Below

(* So the least number for which something fails can be picked.            *)
LEMMA NatMin ==
  ASSUME NEW T, T \subseteq Nat, T # {}
  PROVE  \E x \in T : \A y \in T : x <= y
<1>1. PICK x \in T : \A y \in T : ~ (<<y, x>> \in Below)
  BY BelowWellFounded, WFMin
<1>2. ASSUME NEW y \in T PROVE x <= y
  <2>1. x \in Nat /\ y \in Nat /\ <<y, x>> \notin Below
    BY <1>1
  <2>2. <<y, x>> \in Nat \X Nat /\ <<y, x>>[1] = y /\ <<y, x>>[2] = x
    BY <2>1
  <2>3. ~(y < x)
    BY <2>1, <2>2 DEF Below
  <2> QED
    BY <2>1, <2>3
<1> QED
  BY <1>2

(* What the sweep keeps of the first i channels, for every i: f is what    *)
(* the recursion in Without defines.                                       *)
Steps(s, K, f) ==
    [i \in 0..Len(s) |-> IF i = 0 THEN <<>>
                         ELSE IF s[i] \in K THEN f[i - 1] ELSE Append(f[i - 1], s[i])]

Prefixes(s, K, f, n) ==
    /\ f \in [0..n -> Seq(Elems(s) \ K)]
    /\ f[0] = <<>>
    /\ \A i \in 1..n : f[i] = IF s[i] \in K THEN f[i - 1] ELSE Append(f[i - 1], s[i])

(* There is such a function.                                               *)
LEMMA PrefixesExist ==
  ASSUME NEW S, NEW s \in Seq(S), NEW K, NEW n \in 0..Len(s)
  PROVE  \E f : Prefixes(s, K, f, n)
<1> DEFINE T == {m \in 0..Len(s) : ~ \E f : Prefixes(s, K, f, m)}
<1> SUFFICES ASSUME T # {} PROVE FALSE
  OBVIOUS
<1>1. PICK m \in T : \A y \in T : m <= y
  <2> HIDE DEF T
  <2>1. T \subseteq Nat
    BY DEF T
  <2> QED
    BY <2>1, NatMin
<1>2. m # 0
  <2> DEFINE g == [i \in 0..0 |-> <<>>]
  <2>1. Prefixes(s, K, g, 0)
    BY DEF Prefixes
  <2> QED
    BY <2>1
<1>3. m - 1 \in 0..Len(s) /\ m - 1 \notin T
  BY <1>1, <1>2
<1>4. PICK f : Prefixes(s, K, f, m - 1)
  BY <1>3
<1> DEFINE g == [i \in 0..m |-> IF i < m THEN f[i]
                               ELSE IF s[m] \in K THEN f[m - 1] ELSE Append(f[m - 1], s[m])]
<1>5. Prefixes(s, K, g, m)
  <2>1. f[m - 1] \in Seq(Elems(s) \ K)
    BY <1>3, <1>4 DEF Prefixes
  <2>2. s[m] \notin K => s[m] \in Elems(s) \ K
    BY <1>2, <1>1 DEF Elems
  <2>3. g \in [0..m -> Seq(Elems(s) \ K)]
    <3>1. ASSUME NEW i \in 0..m PROVE g[i] \in Seq(Elems(s) \ K)
      <4>1. CASE i < m
        <5>1. i \in 0..m - 1
          BY <4>1, <1>1
        <5> QED
          BY <4>1, <1>4, <5>1 DEF Prefixes
      <4>2. CASE i = m
        BY <4>2, <2>1, <2>2
      <4> QED
        BY <4>1, <4>2, <1>1
    <3> QED
      BY <3>1
  <2>4. g[0] = <<>>
    BY <1>2, <1>1, <1>4 DEF Prefixes
  <2>5. ASSUME NEW i \in 1..m PROVE g[i] = IF s[i] \in K THEN g[i - 1] ELSE Append(g[i - 1], s[i])
    <3>1. CASE i < m
      <4>1. i \in 1..m - 1 /\ i \in 0..m /\ i - 1 \in 0..m /\ i - 1 < m
        BY <3>1, <1>1
      <4> QED
        BY <3>1, <4>1, <1>4 DEF Prefixes
    <3>2. CASE i = m
      <4>1. i - 1 \in 0..m /\ i - 1 < m /\ i \in 0..m /\ ~(i < m)
        BY <3>2, <1>1
      <4> QED
        BY <3>2, <4>1
    <3> QED
      BY <3>1, <3>2, <1>1
  <2> HIDE DEF g
  <2> QED
    BY <2>3, <2>4, <2>5 DEF Prefixes
<1> QED
  BY <1>5, <1>1

(* It is the one that Without takes its last value of.                     *)
LEMMA WithoutDef ==
  ASSUME NEW S, NEW s \in Seq(S), NEW K
  PROVE  \E f : Prefixes(s, K, f, Len(s)) /\ Without(s, K) = f[Len(s)]
<1>1. PICK g : Prefixes(s, K, g, Len(s))
  <2>1. Len(s) \in 0..Len(s)
    OBVIOUS
  <2> QED
    BY <2>1, PrefixesExist
<1>2. g = Steps(s, K, g)
  <2>1. ASSUME NEW i \in 0..Len(s) PROVE g[i] = Steps(s, K, g)[i]
    <3>1. CASE i = 0
      BY <3>1, <1>1 DEF Prefixes, Steps
    <3>2. CASE i # 0
      <4>1. i \in 1..Len(s)
        BY <3>2
      <4> QED
        BY <4>1, <3>2, <1>1 DEF Prefixes, Steps
    <3> QED
      BY <3>1, <3>2
  <2> QED
    BY <2>1, <1>1 DEF Prefixes, Steps
<1> DEFINE f == CHOOSE f : f = Steps(s, K, f)
<1>3. f = Steps(s, K, f)
  BY <1>2
<1>4. Without(s, K) = f[Len(s)]
  BY DEF Without, Steps
<1> HIDE DEF f
<1>5. Prefixes(s, K, f, Len(s))
  <2>1. /\ f[0] = <<>>
        /\ \A i \in 1..Len(s) : f[i] = IF s[i] \in K THEN f[i - 1] ELSE Append(f[i - 1], s[i])
    <3>1. \A i \in 0..Len(s) : f[i] = Steps(s, K, f)[i]
      BY <1>3
    <3>2. Steps(s, K, f)[0] = <<>>
      BY DEF Steps
    <3>3. ASSUME NEW i \in 1..Len(s)
          PROVE  f[i] = IF s[i] \in K THEN f[i - 1] ELSE Append(f[i - 1], s[i])
      <4>1. i \in 0..Len(s) /\ i # 0
        OBVIOUS
      <4> QED
        BY <4>1, <3>1 DEF Steps
    <3> QED
      BY <3>1, <3>2, <3>3
  <2>2. \A i \in 0..Len(s) : f[i] = g[i]
    <3> DEFINE T == {m \in 0..Len(s) : f[m] # g[m]}
    <3> SUFFICES ASSUME T # {} PROVE FALSE
      OBVIOUS
    <3>1. PICK m \in T : \A y \in T : m <= y
      <4> HIDE DEF T
      <4>1. T \subseteq Nat
        BY DEF T
      <4> QED
        BY <4>1, NatMin
    <3>2. m # 0
      BY <2>1, <1>1 DEF Prefixes
    <3>3. m - 1 \in 0..Len(s) /\ m - 1 \notin T /\ m \in 1..Len(s)
      BY <3>1, <3>2
    <3>4. f[m - 1] = g[m - 1]
      BY <3>3
    <3>5. f[m] = g[m]
      BY <3>4, <3>3, <2>1, <1>1 DEF Prefixes
    <3> QED
      BY <3>5
  <2>3. f = g
    <3>1. DOMAIN f = 0..Len(s) /\ f = [i \in 0..Len(s) |-> f[i]]
      BY <1>3 DEF Steps
    <3> QED
      BY <3>1, <2>2, <1>1 DEF Prefixes
  <2> QED
    BY <2>3, <1>1
<1> QED
  BY <1>4, <1>5

(* Nothing that is to be kept is lost.                                     *)
LEMMA PrefixesComplete ==
  ASSUME NEW S, NEW s \in Seq(S), NEW K, NEW f, Prefixes(s, K, f, Len(s)),
         NEW k \in 1..Len(s), s[k] \notin K
  PROVE  s[k] \in Elems(f[Len(s)])
<1> DEFINE T == {m \in k..Len(s) : s[k] \notin Elems(f[m])}
<1> SUFFICES ASSUME T # {} PROVE FALSE
  OBVIOUS
<1>1. PICK m \in T : \A y \in T : m <= y
  <2> HIDE DEF T
  <2>1. T \subseteq Nat
    BY DEF T
  <2> QED
    BY <2>1, NatMin
<1>2. m \in 1..Len(s) /\ f[m - 1] \in Seq(Elems(s) \ K) /\ (s[m] \notin K => s[m] \in Elems(s) \ K)
  <2>1. m \in 1..Len(s) /\ m - 1 \in 0..Len(s)
    BY <1>1
  <2>2. f[m - 1] \in Seq(Elems(s) \ K)
    BY <2>1 DEF Prefixes
  <2> QED
    BY <2>1, <2>2 DEF Elems
<1>3. CASE m = k
  <2>1. f[m] = Append(f[m - 1], s[m])
    BY <1>2, <1>3 DEF Prefixes
  <2>2. Len(f[m]) \in 1..Len(f[m]) /\ f[m][Len(f[m])] = s[k]
    BY <2>1, <1>2, <1>3
  <2> QED
    BY <2>2, <1>1 DEF Elems
<1>4. CASE m # k
  <2>1. m - 1 \in k..Len(s) /\ m - 1 \notin T
    BY <1>1, <1>4
  <2>2. PICK i \in 1..Len(f[m - 1]) : f[m - 1][i] = s[k]
    BY <2>1 DEF Elems
  <2>3. f[m] = f[m - 1] \/ (f[m] = Append(f[m - 1], s[m]) /\ s[m] \in Elems(s) \ K)
    BY <1>2 DEF Prefixes
  <2>4. i \in 1..Len(f[m]) /\ f[m][i] = s[k]
    BY <2>2, <2>3, <1>2
  <2> QED
    BY <2>4, <1>1 DEF Elems
<1> QED
  BY <1>3, <1>4

(* The sweep takes out of the list what it frees, and no other channel.    *)
LEMMA WithoutElems ==
  ASSUME NEW S, NEW s \in Seq(S), NEW K
  PROVE  /\ Without(s, K) \in Seq(S)
         /\ Elems(Without(s, K)) = Elems(s) \ K
<1>1. PICK f : Prefixes(s, K, f, Len(s)) /\ Without(s, K) = f[Len(s)]
  BY WithoutDef
<1>2. f[Len(s)] \in Seq(Elems(s) \ K)
  BY <1>1 DEF Prefixes
<1>3. Elems(f[Len(s)]) \subseteq Elems(s) \ K
  BY <1>2 DEF Elems
<1>4. Elems(s) \ K \subseteq Elems(f[Len(s)])
  BY <1>1, PrefixesComplete DEF Elems
<1>5. Elems(s) \ K \subseteq S
  BY DEF Elems
<1> QED
  BY <1>1, <1>2, <1>3, <1>4, <1>5
-----------------------------------------------------------------------------
(* thread_users says whether the pool holds the channel.                   *)
UsersExact == \A c \in Channels : users[c] = IF Outstanding(c) THEN 1 ELSE 0

(* Channels that are in use are in the list.                               *)
InUseListed ==
    /\ \A c \in Channels : Outstanding(c) => c \in Listed
    /\ inline # None => inline \in Listed
    /\ Elems(cur) \subseteq Listed
    /\ polled \subseteq Listed

(* The main thread has no walk left when it frees channels; only a handler *)
(* that runs is inside a callback.                                         *)
LoopOrder ==
    /\ main = "inline" <=> inline # None
    /\ main = "sweep" => cur = <<>>
    /\ \A c \in inside : Executing(c)

(* The inductive invariant.  A channel is freed by its counter and its     *)
(* flag only, so that this is safe rests on the counter being exact; that  *)
(* the counter stays exact rests on the pool having a channel once, and    *)
(* this on channels being submitted only when the counter is 0.            *)
IInv == TypeOK /\ PoolOnce /\ UsersExact /\ InUseListed /\ LoopOrder

(* It says that nothing is used after it was freed.                        *)
LEMMA SafeIInv == IInv => NoUseAfterFree
<1> SUFFICES ASSUME IInv, NEW c \in Channels \ Listed
             PROVE  ~Outstanding(c) /\ inline # c /\ c \notin Elems(cur) \cup polled \cup inside
  BY DEF NoUseAfterFree
<1>1. ~Outstanding(c) /\ inline # c /\ c \notin Elems(cur) \cup polled
  BY NoneAssumption DEF IInv, InUseListed, Channels
<1>2. c \notin inside
  BY <1>1 DEF IInv, LoopOrder, Executing, Outstanding
<1> QED
  BY <1>1, <1>2

(* At the start nothing is in use.                                         *)
LEMMA InitInv == Init => IInv
<1> SUFFICES ASSUME Init PROVE IInv
  OBVIOUS
<1>1. TypeOK
  <2>1. PoolTypeOK
    BY DEF Init, PoolInit, PoolTypeOK
  <2>2. list \in Seq(Channels) /\ open \subseteq Channels
    BY ChannelsAssumption DEF Init, Elems
  <2>3. users \in [Channels -> Nat] /\ evt \in [Channels -> SUBSET Events]
    <3>1. users = [c \in Channels |-> 0] /\ evt = [c \in Channels |-> {}]
      BY DEF Init
    <3> QED
      BY <3>1
  <2>4. cur \in Seq(Channels) /\ main \in MainPC /\ inline \in Channels \cup {None}
    BY DEF Init, MainPC
  <2>5. fired \in BOOLEAN
    BY Zenon DEF Init
  <2> QED
    BY <2>1, <2>2, <2>3, <2>4, <2>5 DEF Init, TypeOK
<1>2. PoolOnce
  BY DEF Init, PoolInit, PoolOnce
<1>3. \A c \in Channels : ~Outstanding(c)
  BY NoneAssumption DEF Init, PoolInit, Outstanding, InQueue, InResults, RunBy, Channels
<1> QED
  BY <1>1, <1>2, <1>3 DEF IInv, UsersExact, InUseListed, LoopOrder, Init, Elems

(* What the pool holds is told by its variables.                           *)
LEMMA PoolSame ==
  ASSUME UNCHANGED poolVars
  PROVE  /\ PoolTypeOK' <=> PoolTypeOK
         /\ PoolOnce' <=> PoolOnce
         /\ \A c : Outstanding(c)' <=> Outstanding(c)
         /\ \A w, c : RunBy(w, c)' <=> RunBy(w, c)
  BY DEF poolVars, PoolTypeOK, PoolOnce, Outstanding, InQueue, InResults, RunBy

(* A step that changes neither the pool nor what runs, and frees nothing.  *)
LEMMA FrameInv ==
  ASSUME IInv, TypeOK', UNCHANGED <<poolVars, users, inline>>,
         Listed \subseteq Listed', Elems(cur)' \subseteq Listed', polled' \subseteq Listed',
         main' = "inline" <=> main = "inline",
         main' = "sweep" => cur' = <<>>,
         \A c \in inside' : c \in inside \/ Executing(c)
  PROVE  IInv'
<1>1. PoolOnce' /\ UsersExact' /\ InUseListed'
  BY PoolSame DEF IInv, UsersExact, InUseListed
<1>2. LoopOrder'
  BY PoolSame DEF IInv, LoopOrder, Executing
<1> QED
  BY <1>1, <1>2 DEF IInv

(* The world outside, and the calls that set a flag or a time.             *)
LEMMA OutsideInv ==
  ASSUME IInv, NEW c \in Channels,
         SocketReady(c) \/ BecomesDue(c) \/ DestroyChannel(c) \/ SetTimeout(c)
  PROVE  IInv'
<1>1. /\ UNCHANGED <<poolVars, list, open, users, evt, inside, loopVars>>
      /\ destroyed' \subseteq destroyed \cup {c} /\ due' \subseteq due \cup {c}
      /\ ready' \subseteq ready \cup {c}
  BY DEF SocketReady, BecomesDue, DestroyChannel, SetTimeout
<1>2. TypeOK'
  BY <1>1, PoolSame DEF IInv, TypeOK, loopVars
<1>3. Listed' = Listed /\ Elems(cur)' = Elems(cur)
  BY <1>1 DEF Listed, Elems, loopVars
<1> QED
  BY <1>1, <1>2, <1>3, FrameInv DEF IInv, InUseListed, LoopOrder, loopVars

(* Of the walk that is left, and of what it comes to next.                 *)
LEMMA TailElems ==
  ASSUME NEW S, NEW s \in Seq(S), s # <<>>
  PROVE  Tail(s) \in Seq(S) /\ Head(s) \in Elems(s) /\ Elems(Tail(s)) \subseteq Elems(s)
  BY DEF Elems

(* The main thread polls and walks.                                        *)
LEMMA LoopInv ==
  ASSUME IInv,
         BuildPollSet \/ (\E pipe \in BOOLEAN : PollReports(pipe)) \/ Drained \/ SkipChannel
           \/ PassChannel \/ WalkEnds
  PROVE  IInv'
<1>1. CASE BuildPollSet
  <2>1. Listed' = Listed /\ Elems(cur)' = Listed /\ polled' \subseteq Listed
    BY <1>1 DEF BuildPollSet, chanVars, Listed, Elems
  <2>2. TypeOK'
    BY <1>1, PoolSame DEF BuildPollSet, chanVars, IInv, TypeOK, MainPC
  <2> QED
    BY <1>1, <2>1, <2>2, FrameInv DEF BuildPollSet, chanVars, IInv, LoopOrder
<1>2. CASE \E pipe \in BOOLEAN : PollReports(pipe)
  <2>1. Listed' = Listed /\ Elems(cur)' = Elems(cur)
    BY <1>2 DEF PollReports, chanVars, Listed, Elems
  <2>2. TypeOK'
    BY <1>2, PoolSame DEF PollReports, chanVars, IInv, TypeOK, MainPC
  <2> QED
    BY <1>2, <2>1, <2>2, FrameInv DEF PollReports, chanVars, IInv, LoopOrder, InUseListed
<1>3. CASE Drained
  <2>1. Listed' = Listed /\ Elems(cur)' = Elems(cur)
    BY <1>3 DEF Drained, chanVars, Listed, Elems
  <2>2. TypeOK'
    BY <1>3, PoolSame DEF Drained, chanVars, IInv, TypeOK, MainPC
  <2> QED
    BY <1>3, <2>1, <2>2, FrameInv DEF Drained, chanVars, IInv, LoopOrder, InUseListed
<1>4. CASE SkipChannel
  <2>1. Listed' = Listed /\ Elems(cur)' \subseteq Elems(cur) /\ cur' \in Seq(Channels)
    BY <1>4, TailElems DEF SkipChannel, chanVars, Listed, Elems, IInv, TypeOK
  <2>2. TypeOK'
    BY <1>4, <2>1, PoolSame DEF SkipChannel, chanVars, IInv, TypeOK, MainPC
  <2> QED
    BY <1>4, <2>1, <2>2, FrameInv DEF SkipChannel, chanVars, IInv, LoopOrder, InUseListed
<1>5. CASE PassChannel
  <2> DEFINE c == Head(cur)
  <2>1. /\ Listed' = Listed /\ Elems(cur)' \subseteq Elems(cur)
        /\ cur' \in Seq(Channels) /\ c \in Channels
    <3>1. cur \in Seq(Channels) /\ cur # <<>> /\ cur' = Tail(cur) /\ list' = list
      BY <1>5 DEF PassChannel, IInv, TypeOK
    <3> QED
      BY <3>1, TailElems DEF Listed, Elems
  <2>2. TypeOK'
    <3>1. evt' \in [Channels -> SUBSET Events]
      BY <1>5, <2>1 DEF PassChannel, IInv, TypeOK, EventsOf, Events
    <3>2. due' \subseteq Channels
      BY <1>5 DEF PassChannel, IInv, TypeOK, Touch
    <3> QED
      BY <1>5, <2>1, <3>1, <3>2, PoolSame DEF PassChannel, IInv, TypeOK
  <2> QED
    BY <1>5, <2>1, <2>2, FrameInv DEF PassChannel, IInv, LoopOrder, InUseListed
<1>6. CASE WalkEnds
  <2>1. Listed' = Listed /\ Elems(cur)' = Elems(cur)
    BY <1>6 DEF WalkEnds, chanVars, Listed, Elems
  <2>2. TypeOK'
    BY <1>6, PoolSame DEF WalkEnds, chanVars, IInv, TypeOK, MainPC
  <2> QED
    BY <1>6, <2>1, <2>2, FrameInv DEF WalkEnds, chanVars, IInv, LoopOrder, InUseListed
<1> QED
  BY <1>1, <1>2, <1>3, <1>4, <1>5, <1>6

(* A handler runs callbacks, adds channels and gives them sockets.         *)
LEMMA HandlerInv ==
  ASSUME IInv, NEW c \in Channels,
         \/ Callback(c) \/ \E hasFd \in BOOLEAN : AddChannel(c, hasFd)
         \/ \E fd \in NewFds : SetFd(c, fd)
  PROVE  IInv'
<1>1. CASE EnterCallback(c)
  <2>1. Listed' = Listed /\ Elems(cur)' = Elems(cur)
    BY <1>1 DEF EnterCallback, loopVars, Listed, Elems
  <2>2. TypeOK'
    BY <1>1, PoolSame DEF EnterCallback, loopVars, IInv, TypeOK
  <2> QED
    BY <1>1, <2>1, <2>2, FrameInv DEF EnterCallback, loopVars, IInv, LoopOrder, InUseListed
<1>2. CASE LeaveCallback(c)
  <2>1. Listed' = Listed /\ Elems(cur)' = Elems(cur)
    BY <1>2 DEF LeaveCallback, loopVars, Listed, Elems
  <2>2. TypeOK'
    <3>1. evt' \in [Channels -> SUBSET Events] /\ ready' \subseteq Channels
      BY <1>2 DEF LeaveCallback, IInv, TypeOK
    <3> QED
      BY <1>2, <3>1, PoolSame DEF LeaveCallback, loopVars, IInv, TypeOK
  <2> QED
    BY <1>2, <2>1, <2>2, FrameInv DEF LeaveCallback, loopVars, IInv, LoopOrder, InUseListed
<1>3. CASE \E hasFd \in BOOLEAN : AddChannel(c, hasFd)
  <2>1. list' = <<c>> \o list /\ list \in Seq(Channels)
    BY <1>3 DEF AddChannel, IInv, TypeOK
  <2>2. Listed \subseteq Listed' /\ Elems(cur)' = Elems(cur)
    <3>1. \A i \in 1..Len(list) : i + 1 \in 1..Len(list') /\ list'[i + 1] = list[i]
      BY <2>1
    <3> QED
      BY <1>3, <3>1 DEF AddChannel, loopVars, Listed, Elems
  <2>3. TypeOK'
    BY <1>3, <2>1, PoolSame DEF AddChannel, loopVars, IInv, TypeOK
  <2> QED
    BY <1>3, <2>2, <2>3, FrameInv DEF AddChannel, loopVars, IInv, LoopOrder, InUseListed
<1>4. CASE \E fd \in NewFds : SetFd(c, fd)
  <2>1. Listed' = Listed /\ Elems(cur)' = Elems(cur)
    BY <1>4 DEF SetFd, Listed, Elems
  <2>2. TypeOK'
    BY <1>4, PoolSame DEF SetFd, IInv, TypeOK
  <2> QED
    BY <1>4, <2>1, <2>2, FrameInv DEF SetFd, IInv, LoopOrder, InUseListed
<1> QED
  BY <1>1, <1>2, <1>3, <1>4 DEF Callback

(* A result is collected: the pool has the channel no more.                *)
LEMMA CollectInv == ASSUME IInv, CollectResult PROVE IInv'
<1>1. PoolTypeOK /\ PoolOnce /\ Collect
  BY DEF IInv, TypeOK, CollectResult
<1>2. PICK c : c = Head(results)
  OBVIOUS
<1>3. /\ PoolTypeOK' /\ PoolOnce'
      /\ c \in Channels /\ Outstanding(c) /\ ~Outstanding(c)'
      /\ \A d \in Channels \ {c} : Outstanding(d)' <=> Outstanding(d)
  BY <1>1, <1>2, PoolCollect DEF Channels
<1>4. users' = [users EXCEPT ![c] = 0]
  <2>1. users[c] = 1 /\ users' = [users EXCEPT ![c] = users[c] - 1]
    BY <1>2, <1>3 DEF CollectResult, IInv, UsersExact
  <2> QED
    BY <2>1
<1>5. TypeOK'
  <2>1. users' \in [Channels -> Nat]
    BY <1>3, <1>4 DEF IInv, TypeOK
  <2> QED
    BY <1>3, <2>1 DEF CollectResult, loopVars, IInv, TypeOK
<1>6. UsersExact'
  BY <1>3, <1>4 DEF IInv, UsersExact, TypeOK
<1>7. InUseListed'
  BY <1>3 DEF CollectResult, loopVars, IInv, InUseListed, Listed, Elems
<1>8. LoopOrder'
  BY <1>1 DEF CollectResult, Collect, loopVars, IInv, LoopOrder, Executing, RunBy
<1> QED
  BY <1>3, <1>5, <1>6, <1>7, <1>8 DEF IInv

(* A channel is fired: nobody has it, and its handler gets it.             *)
LEMMA FireInv == ASSUME IInv, FireChannel PROVE IInv'
<1>1. PICK c \in Channels : c = Head(cur) /\ c \in Elems(cur)
  BY TailElems DEF FireChannel, IInv, TypeOK
<1>2. cur' \in Seq(Channels) /\ Elems(cur)' \subseteq Elems(cur) /\ Listed' = Listed
  <2>1. cur \in Seq(Channels) /\ cur # <<>> /\ cur' = Tail(cur) /\ list' = list
    BY DEF FireChannel, IInv, TypeOK
  <2> QED
    BY <2>1, TailElems DEF Listed, Elems
<1>3. ~Outstanding(c) /\ c \in Listed /\ users[c] = 0
  BY <1>1 DEF FireChannel, Skipped, IInv, UsersExact, TypeOK, InUseListed
<1>4. evt' \in [Channels -> SUBSET Events] /\ due' \subseteq Channels /\ fired' \in BOOLEAN
  BY <1>1 DEF FireChannel, IInv, TypeOK, EventsOf, Events, Touch, RationedEvent
<1>5. RunFun(c)
  BY <1>1 DEF FireChannel
<1>6. CASE Workers # {}
  <2>1. /\ users' = [users EXCEPT ![c] = 1] /\ Submit(c)
        /\ UNCHANGED <<main, inline>>
    BY <1>3, <1>5, <1>6 DEF RunFun
  <2>2. /\ PoolTypeOK' /\ PoolOnce' /\ Outstanding(c)'
        /\ \A d \in Channels \ {c} : Outstanding(d)' <=> Outstanding(d)
    BY <1>3, <2>1, PoolSubmit DEF IInv, TypeOK, Channels
  <2>3. TypeOK'
    BY <1>2, <1>4, <2>1, <2>2 DEF FireChannel, IInv, TypeOK
  <2>4. UsersExact'
    BY <2>1, <2>2 DEF IInv, UsersExact, TypeOK
  <2>5. InUseListed'
    BY <1>2, <1>3, <2>1, <2>2 DEF FireChannel, IInv, InUseListed
  <2>6. LoopOrder'
    BY <2>1 DEF FireChannel, IInv, LoopOrder, Executing, Submit, RunBy
  <2> QED
    BY <2>2, <2>3, <2>4, <2>5, <2>6 DEF IInv
<1>7. CASE Workers = {}
  <2>1. inline' = c /\ main' = "inline" /\ UNCHANGED <<poolVars, users>>
    BY <1>5, <1>7 DEF RunFun
  <2>2. TypeOK'
    BY <1>2, <1>4, <2>1, PoolSame DEF FireChannel, IInv, TypeOK, MainPC
  <2>3. PoolOnce' /\ UsersExact'
    BY <2>1, PoolSame DEF IInv, UsersExact
  <2>4. InUseListed'
    BY <1>2, <1>3, <2>1, PoolSame DEF FireChannel, IInv, InUseListed
  <2>5. LoopOrder'
    <3>1. inline = None /\ c # None
      BY NoneAssumption DEF FireChannel, IInv, LoopOrder, Channels
    <3> QED
      BY <1>7, <2>1, <3>1, NoneAssumption
      DEF FireChannel, IInv, LoopOrder, Executing, TypeOK, Channels
  <2> QED
    BY <2>2, <2>3, <2>4, <2>5 DEF IInv
<1> QED
  BY <1>6, <1>7

(* Channels are freed.                                                     *)
LEMMA SweepInv == ASSUME IInv, Sweep PROVE IInv'
<1> DEFINE gone == {c \in destroyed : users[c] = 0}
           left == Without(list, gone)
<1>1. left \in Seq(Channels) /\ Elems(left) = Listed \ gone
  BY WithoutElems DEF IInv, TypeOK, Listed
<1>2. /\ list' = left /\ polled' = {} /\ hit' = {}
      /\ destroyed' \subseteq destroyed /\ open' \subseteq open
      /\ due' \subseteq due /\ ready' \subseteq ready
      /\ main' \in {"done", "top"}
      /\ UNCHANGED <<poolVars, users, evt, inside, inline, cur, fired>>
  BY DEF Sweep
<1>3. Listed' = Listed \ gone
  BY <1>1, <1>2 DEF Listed, Elems
<1> HIDE DEF left
<1>4. TypeOK'
  BY <1>1, <1>2, PoolSame DEF IInv, TypeOK, MainPC
<1>5. PoolOnce' /\ UsersExact'
  BY <1>2, PoolSame DEF IInv, UsersExact
<1>6. inline = None /\ cur = <<>>
  BY DEF Sweep, IInv, LoopOrder
<1>7. InUseListed'
  <2>1. \A c \in Channels : Outstanding(c)' => c \in Listed'
    BY <1>2, <1>3, PoolSame DEF IInv, InUseListed, UsersExact
  <2> QED
    BY <1>2, <1>6, <2>1 DEF InUseListed, Elems
<1>8. LoopOrder'
  BY <1>2, <1>6, PoolSame DEF IInv, LoopOrder, Executing
<1> QED
  BY <1>4, <1>5, <1>7, <1>8 DEF IInv

(* A worker starts and ends a handler.                                     *)
LEMMA WorkInv ==
  ASSUME IInv, NEW w \in Workers, StartWork(w) \/ FinishWork(w)
  PROVE  IInv'
<1>1. /\ PoolTypeOK' /\ PoolOnce'
      /\ \A d \in Channels : Outstanding(d)' <=> Outstanding(d)
  BY PoolStart, PoolFinish DEF IInv, TypeOK, StartWork, FinishWork, Channels
<1>2. UNCHANGED <<chanVars, loopVars>>
  BY DEF StartWork, FinishWork
<1>3. TypeOK' /\ UsersExact' /\ InUseListed'
  <2>1. TypeOK'
    BY <1>1, <1>2 DEF IInv, TypeOK, chanVars, loopVars
  <2>2. UsersExact'
    BY <1>1, <1>2 DEF IInv, UsersExact, chanVars, loopVars
  <2>3. InUseListed'
    BY <1>1, <1>2 DEF IInv, InUseListed, Listed, Elems, chanVars, loopVars
  <2> QED
    BY <2>1, <2>2, <2>3
<1>4. LoopOrder'
  <2>1. ASSUME NEW c \in inside PROVE Executing(c)'
    <3>1. Executing(c) /\ c \in Channels /\ c # None
      BY NoneAssumption DEF IInv, TypeOK, LoopOrder, Channels
    <3>2. CASE StartWork(w)
      BY <3>1, <3>2, <1>2 DEF StartWork, Start, Executing, RunBy, loopVars, IInv, TypeOK, PoolTypeOK
    <3>3. CASE FinishWork(w)
      <4>1. running[w] # c /\ \A v \in Workers \ {w} : running'[v] = running[v]
        BY <3>3 DEF FinishWork, HandlerReturned, Finish, IInv, TypeOK, PoolTypeOK
      <4> QED
        BY <3>1, <4>1, <1>2 DEF Executing, RunBy, loopVars
    <3> QED
      BY <3>2, <3>3
  <2> QED
    BY <2>1, <1>2 DEF IInv, LoopOrder, chanVars, loopVars
<1> QED
  BY <1>1, <1>3, <1>4 DEF IInv

(* The main thread ends a handler.                                         *)
LEMMA FinishInlineInv == ASSUME IInv, FinishInline PROVE IInv'
<1>1. /\ UNCHANGED <<poolVars, chanVars, polled, hit, cur, fired>>
      /\ inline \notin inside /\ inline' = None /\ main' = "walk"
  BY DEF FinishInline, HandlerReturned
<1>2. TypeOK'
  BY <1>1, PoolSame DEF IInv, TypeOK, MainPC, chanVars
<1>3. PoolOnce' /\ UsersExact'
  BY <1>1, PoolSame DEF IInv, UsersExact, chanVars
<1>4. InUseListed'
  BY <1>1, PoolSame DEF IInv, InUseListed, Listed, Elems, chanVars
<1>5. LoopOrder'
  BY <1>1, PoolSame DEF IInv, LoopOrder, Executing, chanVars
<1> QED
  BY <1>2, <1>3, <1>4, <1>5 DEF IInv

(* Every step keeps the invariant.                                         *)
LEMMA StepInv == IInv /\ [Next]_vars => IInv'
<1> SUFFICES ASSUME IInv, [Next]_vars PROVE IInv'
  OBVIOUS
<1>1. CASE Round
  BY <1>1, LoopInv, CollectInv, FireInv, SweepInv, FinishInlineInv
  DEF Round, PollSocket, PollDue
<1>2. CASE PollPipe \/ PollExpires
  BY <1>2, LoopInv DEF PollPipe, PollExpires
<1>3. CASE UNCHANGED vars
  <2>1. TypeOK' /\ Listed' = Listed /\ Elems(cur)' = Elems(cur)
    BY <1>3, PoolSame DEF vars, chanVars, loopVars, IInv, TypeOK, Listed, Elems
  <2> QED
    BY <1>3, <2>1, FrameInv DEF vars, chanVars, loopVars, IInv, InUseListed, LoopOrder
<1>4. CASE \E w \in Workers : StartWork(w) \/ FinishWork(w)
  BY <1>4, WorkInv
<1>5. ASSUME NEW c \in Channels,
             \/ SocketReady(c) \/ BecomesDue(c) \/ Callback(c)
             \/ DestroyChannel(c) \/ SetTimeout(c)
             \/ \E hasFd \in BOOLEAN : AddChannel(c, hasFd)
             \/ \E fd \in NewFds : SetFd(c, fd)
      PROVE  IInv'
  BY <1>5, OutsideInv, HandlerInv
<1> QED
  BY <1>1, <1>2, <1>3, <1>4, <1>5 DEF Next, Terminated

(* The inductive invariant holds for any channels and workers.             *)
THEOREM Safety == Spec => []IInv
  BY InitInv, StepInv, PTL DEF Spec

(* iochan_destroy_real frees no channel that the pool, the walk, the poll  *)
(* set or a handler still has (event_loop, work_handler).                  *)
THEOREM NoUseAfterFreeAlways == Spec => []NoUseAfterFree
  BY Safety, SafeIInv, PTL

(* A step of the loop is one that the contract of the pool allows.         *)
LEMMA PoolStep == IInv /\ [Next]_vars => [PoolNext]_poolVars
<1> SUFFICES ASSUME IInv, [Next]_vars PROVE [PoolNext]_poolVars
  OBVIOUS
<1>1. CASE FireChannel
  <2>1. PICK c \in Channels : c = Head(cur) /\ c \in Elems(cur)
    BY <1>1, TailElems DEF FireChannel, IInv, TypeOK
  <2>2. ~Outstanding(c)
    BY <1>1, <2>1 DEF FireChannel, Skipped, IInv, UsersExact, TypeOK
  <2>3. CASE Workers # {}
    BY <1>1, <2>1, <2>2, <2>3 DEF FireChannel, RunFun, PoolNext, Channels
  <2>4. CASE Workers = {}
    BY <1>1, <2>4 DEF FireChannel, RunFun
  <2> QED
    BY <2>3, <2>4
<1>2. CASE CollectResult
  BY <1>2 DEF CollectResult, PoolNext
<1>3. CASE \E w \in Workers : StartWork(w) \/ FinishWork(w)
  BY <1>3 DEF StartWork, FinishWork, PoolNext
<1>4. CASE Round /\ ~FireChannel /\ ~CollectResult
  BY <1>4 DEF Round, BuildPollSet, PollSocket, PollDue, PollReports, Drained, SkipChannel,
     PassChannel, WalkEnds, Sweep, FinishInline
<1>5. CASE PollPipe \/ PollExpires \/ Terminated \/ UNCHANGED vars
  BY <1>5 DEF PollPipe, PollExpires, PollReports, Terminated, vars
<1>6. ASSUME NEW c \in Channels,
             \/ SocketReady(c) \/ BecomesDue(c) \/ Callback(c)
             \/ DestroyChannel(c) \/ SetTimeout(c)
             \/ \E hasFd \in BOOLEAN : AddChannel(c, hasFd)
             \/ \E fd \in NewFds : SetFd(c, fd)
      PROVE  UNCHANGED poolVars
  BY <1>6 DEF SocketReady, BecomesDue, Callback, EnterCallback, LeaveCallback, DestroyChannel,
     SetTimeout, AddChannel, SetFd
<1> QED
  BY <1>1, <1>2, <1>3, <1>4, <1>5, <1>6 DEF Next

(* run_fun gives the pool no channel that it still holds: so a channel's   *)
(* handler runs in one thread at a time, and what SelThread is proved to   *)
(* do applies to the event loop.                                           *)
THEOREM PoolContractAlways == Spec => PoolContractKept
<1>1. Init => PoolInit
  BY DEF Init
<1> QED
  BY <1>1, Safety, PoolStep, PTL DEF Spec, PoolContractKept, PoolSpec
=============================================================================
