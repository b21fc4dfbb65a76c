-------------------------- MODULE SelThread_proofs --------------------------
(***************************************************************************)
(* The safety of the worker pool, for every number of workers and jobs.    *)
(***************************************************************************)
EXTENDS SelThreadProps, TLAPS, FiniteSetTheorems, SequenceTheorems

(* The workers at a given place, for an arbitrary assignment of places.    *)
WorkersAt(f, pc) == {w \in Workers : f[w] = pc}

(* A place of sel_thread_handler holds finitely many workers.              *)
LEMMA AtFinite ==
    ASSUME NEW f, NEW pc
    PROVE  /\ IsFiniteSet(WorkersAt(f, pc))
           /\ Cardinality(WorkersAt(f, pc)) \in Nat
  BY WorkersAssumption, FS_Subset, FS_CardinalityType DEF WorkersAt

(* A worker with an item is in its handler or about to post it, not both.  *)
LEMMA BusyCount ==
    ASSUME NEW f \in [Workers -> WorkerPC]
    PROVE  Cardinality(WorkersAt(f, "work") \cup WorkersAt(f, "post"))
             = Cardinality(WorkersAt(f, "work")) + Cardinality(WorkersAt(f, "post"))
  <1>1. WorkersAt(f, "work") \cap WorkersAt(f, "post") = {}
    BY DEF WorkersAt
  <1>2. IsFiniteSet(WorkersAt(f, "work")) /\ IsFiniteSet(WorkersAt(f, "post"))
    BY AtFinite
  <1>3. Cardinality(WorkersAt(f, "work") \cup WorkersAt(f, "post"))
          = Cardinality(WorkersAt(f, "work")) + Cardinality(WorkersAt(f, "post"))
              - Cardinality(WorkersAt(f, "work") \cap WorkersAt(f, "post"))
    BY <1>2, FS_Union
  <1>4. Cardinality(WorkersAt(f, "work") \cap WorkersAt(f, "post")) = 0
    BY <1>1, FS_EmptySet
  <1>5. Cardinality(WorkersAt(f, "work")) \in Nat /\ Cardinality(WorkersAt(f, "post")) \in Nat
    BY AtFinite
  <1> QED  BY <1>3, <1>4, <1>5

-----------------------------------------------------------------------------
(* The type invariant and the bookkeeping of the workers.                  *)

(* sel_thread_create leaves a pool that satisfies the invariant.           *)
LEMMA InitInv == Init => IInv
  <1> SUFFICES ASSUME Init PROVE IInv
    OBVIOUS
  <1>1. TypeOK
    BY EmptySeq DEF Init, TypeOK, WorkerPC, MainPC
  <1>2. Bookkeeping
    BY DEF Init, Bookkeeping, Busy, At
  <1>3. Exclusive
    BY DEF Init, Exclusive
  <1>4. At("signal") = {} /\ At("wait") = {} /\ Busy = {}
    BY DEF Init, At, Busy
  <1>5. ByteAccounting /\ WorkConserving /\ ItemsConserved
    BY <1>4, FS_EmptySet DEF Init, ByteAccounting, WorkConserving, ItemsConserved
  <1> QED  BY <1>1, <1>2, <1>3, <1>5 DEF IInv

(* Every step of a worker or of the main thread keeps the types.           *)
LEMMA TypeStep == TypeOK /\ Bookkeeping /\ [Next]_vars => TypeOK'
  <1> SUFFICES ASSUME TypeOK, Bookkeeping, [Next]_vars PROVE TypeOK'
    OBVIOUS
  <1> USE DEF TypeOK, WorkerPC, MainPC
  <1>1. ASSUME NEW w \in Workers, Worker(w) PROVE TypeOK'
    <2>1. CASE Take(w)
      BY <2>1, HeadTailProperties DEF Take
    <2>2. CASE Post(w)
      <3>1. job[w] \in Jobs
        BY <2>2 DEF Post, Bookkeeping, Busy, At
      <3> QED  BY <2>2, <3>1, AppendProperties DEF Post
    <2>3. CASE LeaveOnStop(w) \/ Wait(w) \/ HandlerReturns(w) \/ WriteByte(w)
      BY <2>3 DEF LeaveOnStop, Wait, HandlerReturns, WriteByte
    <2> QED  BY <1>1, <2>1, <2>2, <2>3 DEF Worker
  <1>2. ASSUME NEW w \in Workers, SpuriousWake(w) PROVE TypeOK'
    BY <1>2 DEF SpuriousWake
  <1>3. ASSUME NEW j \in Jobs, Add(j) PROVE TypeOK'
    <2>1. wpc' \in [Workers -> WorkerPC]
      BY <1>3 DEF Add, At
    <2>2. free' \in Nat /\ alloc' \in Nat
      BY <1>3 DEF Add
    <2> QED  BY <1>3, <2>1, <2>2, AppendProperties DEF Add
  <1>4. CASE Drain
    <2>1. CASE ResultTake
      BY <2>1, HeadTailProperties DEF ResultTake
    <2>2. CASE PollPipe \/ ResultRead \/ ResultNone
      BY <2>2 DEF PollPipe, ResultRead, ResultNone
    <2> QED  BY <1>4, <2>1, <2>2 DEF Drain
  <1>5. CASE Destroy
    BY <1>5 DEF Destroy
  <1>6. CASE Joined \/ Done \/ UNCHANGED vars
    BY <1>6 DEF Joined, Done, vars
  <1> QED  BY <1>1, <1>2, <1>3, <1>4, <1>5, <1>6 DEF Next

(* ... and who owns a job, and who waits, as it should be.                 *)
LEMMA BookkeepingStep == TypeOK /\ Bookkeeping /\ [Next]_vars => Bookkeeping'
  <1> SUFFICES ASSUME TypeOK, Bookkeeping, [Next]_vars PROVE Bookkeeping'
    OBVIOUS
  <1> USE JobsAssumption DEF TypeOK, WorkerPC, MainPC, Bookkeeping, Busy, At
  <1>1. ASSUME NEW w \in Workers, Worker(w) PROVE Bookkeeping'
    <2>1. CASE Take(w)
      BY <2>1, HeadTailProperties DEF Take
    <2>2. CASE Post(w)
      BY <2>2 DEF Post
    <2>3. CASE LeaveOnStop(w) \/ Wait(w)
      BY <2>3 DEF LeaveOnStop, Wait
    <2>4. CASE HandlerReturns(w) \/ WriteByte(w)
      BY <2>4 DEF HandlerReturns, WriteByte
    <2> QED  BY <1>1, <2>1, <2>2, <2>3, <2>4 DEF Worker
  <1>2. ASSUME NEW w \in Workers, SpuriousWake(w) PROVE Bookkeeping'
    BY <1>2 DEF SpuriousWake
  <1>3. ASSUME NEW j \in Jobs, Add(j) PROVE Bookkeeping'
    BY <1>3 DEF Add
  <1>4. CASE Drain
    BY <1>4, HeadTailProperties DEF Drain, PollPipe, ResultTake, ResultRead, ResultNone
  <1>5. CASE Destroy
    BY <1>5 DEF Destroy
  <1>6. CASE Joined \/ Done \/ UNCHANGED vars
    BY <1>6 DEF Joined, Done, vars
  <1> QED  BY <1>1, <1>2, <1>3, <1>4, <1>5, <1>6 DEF Next

-----------------------------------------------------------------------------
(* The counting invariants.  Each step moves at most one worker, so the    *)
(* number of workers at a place changes by one; Destroy moves all waiting  *)
(* workers at once, but then nobody waits any more.                        *)

(* How many workers are at each place.                                     *)
Count == [pc \in WorkerPC |-> Cardinality(WorkersAt(wpc, pc))]

(* ByteAccounting, WorkConserving and ItemsConserved, stated with Count.   *)
Counts ==
    /\ bytes + Count["signal"] = Len(output) + (IF mpc = "read" THEN 1 ELSE 0)
    /\ Count["wait"] # 0 => Len(input) <= Count["check"]
    /\ alloc = Len(input) + Len(output) + Count["work"] + Count["post"] + free

(* The counting properties said with the number of workers at each place,  *)
(* which is what the steps change.                                         *)
LEMMA CountsDef ==
    TypeOK => (Counts <=> ByteAccounting /\ WorkConserving /\ ItemsConserved)
  <1> SUFFICES ASSUME TypeOK
               PROVE  Counts <=> ByteAccounting /\ WorkConserving /\ ItemsConserved
    OBVIOUS
  <1>1. \A pc \in WorkerPC : Count[pc] = Cardinality(At(pc))
    BY DEF Count, At, WorkersAt
  <1>2. Count["wait"] = 0 <=> At("wait") = {}
    BY <1>1, AtFinite, FS_EmptySet DEF WorkerPC, At, WorkersAt
  <1>3. Cardinality(Busy) = Count["work"] + Count["post"]
    BY <1>1, BusyCount DEF Busy, At, WorkersAt, WorkerPC, TypeOK
  <1>4. Count["work"] \in Nat /\ Count["post"] \in Nat
    BY AtFinite DEF Count, WorkerPC
  <1> QED  BY <1>1, <1>2, <1>3, <1>4, LenProperties
              DEF Counts, ByteAccounting, WorkConserving, ItemsConserved, WorkerPC, TypeOK

(* Every step keeps the bytes, the waiting workers and the work items in   *)
(* balance with the queues.                                                *)
LEMMA CountsStep == TypeOK /\ Bookkeeping /\ Counts /\ [Next]_vars => Counts'
  <1> SUFFICES ASSUME TypeOK, Bookkeeping, Counts, [Next]_vars PROVE Counts'
    OBVIOUS
  <1>1. wpc \in [Workers -> WorkerPC] /\ wpc' \in [Workers -> WorkerPC] /\ TypeOK'
    BY TypeStep DEF TypeOK
  <1>2. Count \in [WorkerPC -> Nat] /\ Count' \in [WorkerPC -> Nat]
    BY AtFinite DEF Count
  <1>3. /\ Len(input) \in Nat /\ Len(output) \in Nat
        /\ bytes \in Nat /\ alloc \in Nat /\ free \in Nat
        /\ Count["check"] \in Nat /\ Count["wait"] \in Nat /\ Count["work"] \in Nat
        /\ Count["post"] \in Nat /\ Count["signal"] \in Nat
        /\ Count'["check"] \in Nat /\ Count'["wait"] \in Nat /\ Count'["work"] \in Nat
        /\ Count'["post"] \in Nat /\ Count'["signal"] \in Nat
    BY <1>2, LenProperties DEF TypeOK, WorkerPC
  <1>4. ASSUME NEW w \in Workers, NEW q \in WorkerPC, wpc[w] # q,
               wpc' = [wpc EXCEPT ![w] = q]
        PROVE  Count' = [Count EXCEPT ![q] = @ + 1, ![wpc[w]] = @ - 1]
    <2>1. w \notin WorkersAt(wpc, q) /\ WorkersAt(wpc', q) = WorkersAt(wpc, q) \cup {w}
      BY <1>1, <1>4 DEF WorkersAt
    <2>2. Count'[q] = Count[q] + 1
      BY <2>1, AtFinite, FS_AddElement DEF Count
    <2>3. /\ wpc[w] \in WorkerPC /\ w \in WorkersAt(wpc, wpc[w])
          /\ WorkersAt(wpc', wpc[w]) = WorkersAt(wpc, wpc[w]) \ {w}
      BY <1>1, <1>4 DEF WorkersAt
    <2>4. Count'[wpc[w]] = Count[wpc[w]] - 1
      BY <2>3, AtFinite, FS_RemoveElement DEF Count
    <2>5. \A r \in WorkerPC \ {q, wpc[w]} : Count'[r] = Count[r]
      <3>1. \A r \in WorkerPC \ {q, wpc[w]} : WorkersAt(wpc', r) = WorkersAt(wpc, r)
        BY <1>1, <1>4 DEF WorkersAt
      <3> QED  BY <3>1 DEF Count
    <2> QED  BY <1>2, <1>4, <2>2, <2>3, <2>4, <2>5
  <1> USE DEF Counts
  <1>5. ASSUME NEW w \in Workers, Worker(w)
        PROVE  Counts'
    <2> USE DEF WorkerPC
    <2>1. CASE LeaveOnStop(w)
      <3>1. Count' = [Count EXCEPT !["exit"] = @ + 1, !["check"] = @ - 1]
        BY <2>1, <1>4 DEF LeaveOnStop
      <3>2. /\ Count'["check"] = Count["check"] - 1
            /\ Count'["wait"] = Count["wait"]
            /\ Count'["work"] = Count["work"]
            /\ Count'["post"] = Count["post"]
            /\ Count'["signal"] = Count["signal"]
        BY <3>1, <1>2
      <3>3. Count["wait"] = 0
        BY <2>1, FS_EmptySet DEF LeaveOnStop, Bookkeeping, Count, At, WorkersAt
      <3> QED  BY <2>1, <3>2, <3>3, <1>3 DEF LeaveOnStop
    <2>2. CASE Wait(w)
      <3>1. Count' = [Count EXCEPT !["wait"] = @ + 1, !["check"] = @ - 1]
        BY <2>2, <1>4 DEF Wait
      <3>2. /\ Count'["check"] = Count["check"] - 1
            /\ Count'["wait"] = Count["wait"] + 1
            /\ Count'["work"] = Count["work"]
            /\ Count'["post"] = Count["post"]
            /\ Count'["signal"] = Count["signal"]
        BY <3>1, <1>2
      <3>3. Len(input) = 0
        BY <2>2, EmptySeq DEF Wait
      <3> QED  BY <2>2, <3>2, <3>3, <1>3 DEF Wait
    <2>3. CASE Take(w)
      <3>1. Count' = [Count EXCEPT !["work"] = @ + 1, !["check"] = @ - 1]
        BY <2>3, <1>4 DEF Take
      <3>2. /\ Count'["check"] = Count["check"] - 1
            /\ Count'["wait"] = Count["wait"]
            /\ Count'["work"] = Count["work"] + 1
            /\ Count'["post"] = Count["post"]
            /\ Count'["signal"] = Count["signal"]
        BY <3>1, <1>2
      <3>3. Len(input') = Len(input) - 1
        BY <2>3, HeadTailProperties DEF Take, TypeOK
      <3>4. bytes' + Count'["signal"] = Len(output') + (IF mpc' = "read" THEN 1 ELSE 0)
        BY <2>3, <3>2, <3>3, <1>3 DEF Take
      <3>5. Count'["wait"] # 0 => Len(input') <= Count'["check"]
        BY <2>3, <3>2, <3>3, <1>3 DEF Take
      <3>6. alloc' = Len(input') + Len(output') + Count'["work"] + Count'["post"] + free'
        BY <2>3, <3>2, <3>3, <1>3 DEF Take
      <3> QED  BY <3>4, <3>5, <3>6
    <2>4. CASE HandlerReturns(w)
      <3>1. Count' = [Count EXCEPT !["post"] = @ + 1, !["work"] = @ - 1]
        BY <2>4, <1>4 DEF HandlerReturns
      <3>2. /\ Count'["check"] = Count["check"]
            /\ Count'["wait"] = Count["wait"]
            /\ Count'["work"] = Count["work"] - 1
            /\ Count'["post"] = Count["post"] + 1
            /\ Count'["signal"] = Count["signal"]
        BY <3>1, <1>2
      <3>4. bytes' + Count'["signal"] = Len(output') + (IF mpc' = "read" THEN 1 ELSE 0)
        BY <2>4, <3>2, <1>3 DEF HandlerReturns
      <3>5. Count'["wait"] # 0 => Len(input') <= Count'["check"]
        BY <2>4, <3>2, <1>3 DEF HandlerReturns
      <3>6. alloc' = Len(input') + Len(output') + Count'["work"] + Count'["post"] + free'
        <4>1. Count'["work"] + Count'["post"] = Count["work"] + Count["post"]
          <5>1. Count["work"] \in Nat /\ Count["post"] \in Nat
            BY <1>3
          <5>2. Count'["work"] = Count["work"] - 1 /\ Count'["post"] = Count["post"] + 1
            BY <3>2
          <5> QED  BY <5>1, <5>2
        <4>2. /\ alloc = Len(input) + Len(output) + (Count["work"] + Count["post"]) + free
              /\ alloc' = alloc /\ input' = input /\ output' = output /\ free' = free
          BY <2>4, <1>3 DEF HandlerReturns
        <4> QED  BY <4>1, <4>2, <1>3
      <3> QED  BY <3>4, <3>5, <3>6
    <2>5. CASE Post(w)
      <3>1. Count' = [Count EXCEPT !["signal"] = @ + 1, !["post"] = @ - 1]
        BY <2>5, <1>4 DEF Post
      <3>2. /\ Count'["check"] = Count["check"]
            /\ Count'["wait"] = Count["wait"]
            /\ Count'["work"] = Count["work"]
            /\ Count'["post"] = Count["post"] - 1
            /\ Count'["signal"] = Count["signal"] + 1
        BY <3>1, <1>2
      <3>3. Len(output') = Len(output) + 1
        BY <2>5, AppendProperties DEF Post, TypeOK, Bookkeeping, Busy, At
      <3>4. bytes' + Count'["signal"] = Len(output') + (IF mpc' = "read" THEN 1 ELSE 0)
        <4>1. bytes + Count["signal"] = Len(output) + (IF mpc = "read" THEN 1 ELSE 0)
          OBVIOUS
        <4>2. bytes' = bytes /\ mpc' = mpc
          BY <2>5 DEF Post
        <4>3. Count["signal"] \in Nat /\ bytes \in Nat /\ Len(output) \in Nat
          BY <1>3
        <4>4. Count'["signal"] = Count["signal"] + 1
          BY <3>2
        <4> QED  BY <3>3, <4>1, <4>2, <4>3, <4>4
      <3>5. Count'["wait"] # 0 => Len(input') <= Count'["check"]
        BY <2>5, <3>2, <3>3, <1>3 DEF Post
      <3>6. alloc' = Len(input') + Len(output') + Count'["work"] + Count'["post"] + free'
        BY <2>5, <3>2, <3>3, <1>3 DEF Post
      <3> QED  BY <3>4, <3>5, <3>6
    <2>6. CASE WriteByte(w)
      <3>1. Count' = [Count EXCEPT !["check"] = @ + 1, !["signal"] = @ - 1]
        BY <2>6, <1>4 DEF WriteByte
      <3>2. /\ Count'["check"] = Count["check"] + 1
            /\ Count'["wait"] = Count["wait"]
            /\ Count'["work"] = Count["work"]
            /\ Count'["post"] = Count["post"]
            /\ Count'["signal"] = Count["signal"] - 1
        BY <3>1, <1>2
      <3>3. bytes' + Count'["signal"] = Len(output') + (IF mpc' = "read" THEN 1 ELSE 0)
        <4>1. bytes + Count["signal"] = Len(output) + (IF mpc = "read" THEN 1 ELSE 0)
          OBVIOUS
        <4>2. bytes' = bytes + 1 /\ output' = output /\ mpc' = mpc
          BY <2>6 DEF WriteByte
        <4>3. Count'["signal"] = Count["signal"] - 1
          BY <3>2
        <4>4. bytes \in Nat /\ Count["signal"] \in Nat
          BY <1>3
        <4>5. bytes' + Count'["signal"] = bytes + Count["signal"]
          BY <4>2, <4>3, <4>4
        <4> QED  BY <4>1, <4>2, <4>5
      <3>4. Count'["wait"] # 0 => Len(input') <= Count'["check"]
        BY <2>6, <3>2, <1>3 DEF WriteByte
      <3>5. alloc' = Len(input') + Len(output') + Count'["work"] + Count'["post"] + free'
        BY <2>6, <3>2, <1>3 DEF WriteByte
      <3> QED  BY <3>3, <3>4, <3>5
    <2> QED  BY <1>5, <2>1, <2>2, <2>3, <2>4, <2>5, <2>6 DEF Worker
  <1>6. ASSUME NEW w \in Workers, SpuriousWake(w)
        PROVE  Counts'
    <2> USE DEF WorkerPC
    <2>1. Count' = [Count EXCEPT !["check"] = @ + 1, !["wait"] = @ - 1]
      BY <1>6, <1>4 DEF SpuriousWake
    <2>2. /\ Count'["check"] = Count["check"] + 1
          /\ Count'["wait"] = Count["wait"] - 1
          /\ Count'["work"] = Count["work"]
          /\ Count'["post"] = Count["post"]
          /\ Count'["signal"] = Count["signal"]
      BY <2>1, <1>2
    <2>3. Count["wait"] # 0
      <3>1. w \in WorkersAt(wpc, "wait")
        BY <1>6 DEF SpuriousWake, WorkersAt
      <3> QED  BY <3>1, AtFinite, FS_EmptySet DEF Count
    <2> QED  BY <1>6, <2>2, <2>3, <1>3 DEF SpuriousWake
  <1>7. ASSUME NEW j \in Jobs, Add(j)
        PROVE  Counts'
    <2> USE DEF WorkerPC
    <2>1. Len(input') = Len(input) + 1
      BY <1>7, AppendProperties DEF Add, TypeOK
    <2>2. (alloc' = alloc + 1 /\ free' = free) \/ (alloc' = alloc /\ free' = free - 1)
      BY <1>7 DEF Add
    <2>3. /\ output' = output /\ bytes' = bytes /\ mpc' = mpc
      BY <1>7 DEF Add
    <2>4. CASE At("wait") = {}
      <3>1. wpc' = wpc
        BY <1>7, <2>4 DEF Add
      <3>2. Count["wait"] = 0 /\ Count' = Count
        BY <3>1, <2>4, FS_EmptySet DEF Count, At, WorkersAt
      <3>3. bytes' + Count'["signal"] = Len(output') + (IF mpc' = "read" THEN 1 ELSE 0)
        BY <2>3, <3>2
      <3>4. Count'["wait"] = 0
        BY <3>2
      <3>5. alloc' = Len(input') + Len(output') + Count'["work"] + Count'["post"] + free'
        <4>1. /\ alloc = Len(input) + Len(output') + Count'["work"] + Count'["post"] + free
              /\ Len(input) \in Nat /\ Len(output') \in Nat /\ free \in Nat /\ alloc \in Nat
              /\ Count'["work"] \in Nat /\ Count'["post"] \in Nat
          BY <2>3, <3>2, <1>3
        <4> QED  BY <2>1, <2>2, <4>1
      <3> QED  BY <3>3, <3>4, <3>5
    <2>5. CASE At("wait") # {}
      <3>1. PICK w \in At("wait") : wpc' = [wpc EXCEPT ![w] = "check"]
        BY <1>7, <2>5 DEF Add
      <3>2. w \in Workers /\ wpc[w] = "wait"
        BY DEF At
      <3>3. Count["wait"] # 0
        <4>1. w \in WorkersAt(wpc, "wait")
          BY <3>2 DEF WorkersAt
        <4> QED  BY <4>1, AtFinite, FS_EmptySet DEF Count
      <3>4. Count' = [Count EXCEPT !["check"] = @ + 1, !["wait"] = @ - 1]
        BY <3>1, <3>2, <1>4
      <3>5. /\ Count'["check"] = Count["check"] + 1
            /\ Count'["wait"] = Count["wait"] - 1
            /\ Count'["work"] = Count["work"]
            /\ Count'["post"] = Count["post"]
            /\ Count'["signal"] = Count["signal"]
        BY <3>4, <1>2
      <3>6. bytes' + Count'["signal"] = Len(output') + (IF mpc' = "read" THEN 1 ELSE 0)
        BY <2>3, <3>5
      <3>7. Len(input') <= Count'["check"]
        BY <2>1, <3>3, <3>5, <1>3
      <3>8. alloc' = Len(input') + Len(output') + Count'["work"] + Count'["post"] + free'
        <4>1. /\ alloc = Len(input) + Len(output') + Count'["work"] + Count'["post"] + free
              /\ Len(input) \in Nat /\ Len(output') \in Nat /\ free \in Nat /\ alloc \in Nat
              /\ Count'["work"] \in Nat /\ Count'["post"] \in Nat
          BY <2>3, <3>5, <1>3
        <4> QED  BY <2>1, <2>2, <4>1
      <3> QED  BY <3>6, <3>7, <3>8
    <2> QED  BY <2>4, <2>5
  <1>8. ASSUME UNCHANGED wpc
         PROVE  Count' = Count
    BY <1>8 DEF Count, WorkersAt
  <1>9. ASSUME Drain
         PROVE  Counts'
    <2>1. Count' = Count
      BY <1>9, <1>8 DEF Drain, PollPipe, ResultTake, ResultRead, ResultNone
    <2>2. CASE ResultTake
      <3>1. Len(output') = Len(output) - 1
        BY <2>2, HeadTailProperties DEF ResultTake, TypeOK
      <3>2. /\ mpc = "drain" /\ mpc' = "read" /\ free' = free + 1
            /\ bytes' = bytes /\ alloc' = alloc /\ input' = input
        BY <2>2 DEF ResultTake
      <3>3. bytes' + Count'["signal"] = Len(output') + 1
        BY <2>1, <3>1, <3>2, <1>3
      <3>4. alloc' = Len(input') + Len(output') + Count'["work"] + Count'["post"] + free'
        <4>1. /\ alloc' = Len(input') + Len(output) + Count'["work"] + Count'["post"] + free
              /\ Len(input') \in Nat /\ Len(output) \in Nat /\ free \in Nat
              /\ Count'["work"] \in Nat /\ Count'["post"] \in Nat
          BY <2>1, <3>2, <1>3
        <4>2. Len(output') = Len(output) - 1 /\ free' = free + 1
          BY <3>1, <3>2
        <4> QED  BY ONLY <4>1, <4>2, SMTT(30)
      <3> QED  BY <2>1, <3>2, <3>3, <3>4
    <2>3. CASE ResultRead
      <3>1. /\ mpc = "read" /\ mpc' = "drain" /\ bytes' = bytes - 1 /\ alloc' = alloc
            /\ input' = input /\ output' = output /\ free' = free
        BY <2>3 DEF ResultRead
      <3>2. bytes' + Count'["signal"] = Len(output')
        BY <2>1, <3>1, <1>3
      <3> QED  BY <2>1, <3>1, <3>2
    <2>4. CASE PollPipe \/ ResultNone
      BY <2>1, <2>4 DEF PollPipe, ResultNone
    <2> QED  BY <1>9, <2>2, <2>3, <2>4 DEF Drain
  <1>10. ASSUME Destroy
         PROVE  Counts'
    <2>1. Count'["wait"] = 0
      BY <1>10, FS_EmptySet DEF Destroy, Count, WorkersAt, WorkerPC
    <2>2. Count'["signal"] = Count["signal"] /\ Count'["work"] = Count["work"] /\ Count'["post"] = Count["post"]
      <3>1. \A pc \in {"signal", "work", "post"} : WorkersAt(wpc', pc) = WorkersAt(wpc, pc)
        BY <1>10 DEF Destroy, WorkersAt
      <3> QED  BY <3>1 DEF Count, WorkerPC
    <2> QED  BY <1>10, <2>1, <2>2, <1>3 DEF Destroy
  <1>11. ASSUME Joined \/ Done \/ UNCHANGED vars
         PROVE  Counts'
    BY <1>11, <1>3, <1>8 DEF Joined, Done, vars
  <1> QED  BY <1>5, <1>6, <1>7, <1>9, <1>10, <1>11 DEF Next

-----------------------------------------------------------------------------
(* A channel is in one place only.                                         *)

(* Every step leaves every job in at most one place: it moves from queue   *)
(* to worker to queue, and only sel_thread_add brings one in.              *)
LEMMA ExclusiveStep == TypeOK /\ Bookkeeping /\ Exclusive /\ [Next]_vars => Exclusive'
  <1> SUFFICES ASSUME TypeOK, Bookkeeping, Exclusive, [Next]_vars PROVE Exclusive'
    OBVIOUS
  <1> USE JobsAssumption
  <1>1. ASSUME UNCHANGED <<job, input, output>> PROVE Exclusive'
    BY <1>1 DEF Exclusive
  <1>2. ASSUME NEW w \in Workers, Take(w) PROVE Exclusive'
    <2>1. /\ Len(input') = Len(input) - 1 /\ Len(input) \in Nat \ {0}
          /\ \A i \in 1..Len(input') : input'[i] = input[i + 1]
          /\ output' = output
          /\ job' = [job EXCEPT ![w] = input[1]]
          /\ job[w] = None
      BY <1>2, HeadTailProperties, EmptySeq DEF Take, TypeOK, Bookkeeping, Busy, At
    <2>2. job \in [Workers -> Jobs \cup {None}]
      BY DEF TypeOK
    <2> QED  BY <2>1, <2>2 DEF Exclusive
  <1>3. ASSUME NEW w \in Workers, Post(w) PROVE Exclusive'
    <2>1. /\ job[w] \in Jobs
          /\ job' = [job EXCEPT ![w] = None]
          /\ input' = input /\ input \in Seq(Jobs)
      BY <1>3 DEF Post, TypeOK, Bookkeeping, Busy, At
    <2>2. /\ Len(output') = Len(output) + 1 /\ Len(output) \in Nat
          /\ \A i \in 1..Len(output) : output'[i] = output[i] /\ output[i] \in Jobs
          /\ output'[Len(output) + 1] = job[w]
      BY <1>3, <2>1, AppendProperties, ElementOfSeq, LenProperties DEF Post, TypeOK
    <2>3. \A i \in 1..Len(input) : input[i] \in Jobs
      BY <2>1, ElementOfSeq
    <2>4. job \in [Workers -> Jobs \cup {None}]
      BY DEF TypeOK
    <2> QED  BY <2>1, <2>2, <2>3, <2>4 DEF Exclusive
  <1>4. ASSUME NEW j \in Jobs, Add(j) PROVE Exclusive'
    <2>1. /\ job' = job /\ output' = output
          /\ \A i \in 1..Len(input) : input[i] # j
          /\ \A i \in 1..Len(output) : output[i] # j
          /\ \A w \in Workers : job[w] # j
      BY <1>4 DEF Add, Outstanding, Queued
    <2>2. /\ Len(input') = Len(input) + 1 /\ Len(input) \in Nat
          /\ \A i \in 1..Len(input) : input'[i] = input[i]
          /\ input'[Len(input) + 1] = j
      BY <1>4, AppendProperties, LenProperties DEF Add, TypeOK
    <2> QED  BY <2>1, <2>2 DEF Exclusive
  <1>5. ASSUME ResultTake PROVE Exclusive'
    <2>1. /\ job' = job /\ input' = input
          /\ Len(output') = Len(output) - 1 /\ Len(output) \in Nat
          /\ \A i \in 1..Len(output') : output'[i] = output[i + 1]
      BY <1>5, HeadTailProperties, LenProperties DEF ResultTake, TypeOK
    <2>2. \A i \in 1..Len(output') : i + 1 \in 1..Len(output)
      BY ONLY <2>1
    <2>3. \A w \in Workers, i \in 1..Len(output') : job[w] # output'[i]
      BY <2>1, <2>2 DEF Exclusive
    <2>4. \A i \in 1..Len(input), k \in 1..Len(output') : input[i] # output'[k]
      BY <2>1, <2>2 DEF Exclusive
    <2>5. \A i, k \in 1..Len(output') : i # k => output'[i] # output'[k]
      <3> SUFFICES ASSUME NEW i \in 1..Len(output'), NEW k \in 1..Len(output'), i # k
                   PROVE  output'[i] # output'[k]
        OBVIOUS
      <3>1. i + 1 # k + 1
        BY ONLY <2>1, i # k, i \in 1..Len(output'), k \in 1..Len(output')
      <3> QED  BY <2>1, <2>2, <3>1 DEF Exclusive
    <2> QED  BY <2>1, <2>3, <2>4, <2>5 DEF Exclusive
  <1>6. CASE \E w \in Workers : Worker(w) \/ SpuriousWake(w)
    BY <1>1, <1>2, <1>3, <1>6
       DEF Worker, LeaveOnStop, Wait, HandlerReturns, WriteByte, SpuriousWake
  <1>7. CASE Drain
    BY <1>1, <1>5, <1>7 DEF Drain, PollPipe, ResultRead, ResultNone
  <1>8. CASE Destroy \/ Joined \/ Done \/ UNCHANGED vars
    BY <1>1, <1>8 DEF Destroy, Joined, Done, vars
  <1> QED  BY <1>4, <1>6, <1>7, <1>8 DEF Next

-----------------------------------------------------------------------------
(* The pool of sel_thread.c keeps its type invariant, its pipe tells the   *)
(* truth, no job sleeps next to an idle worker, work items never leak, and *)
(* no channel is ever in two hands.                                        *)
THEOREM Safety == Spec => []IInv
  <1> DEFINE Core == TypeOK /\ Bookkeeping /\ Counts /\ Exclusive
  <1>1. Init => Core
    BY InitInv, CountsDef DEF IInv
  <1>2. Core /\ [Next]_vars => Core'
    BY TypeStep, BookkeepingStep, CountsStep, ExclusiveStep
  <1>3. Core => IInv
    BY CountsDef DEF IInv
  <1> QED  BY <1>1, <1>2, <1>3, PTL DEF Spec

(* The handler of a channel is never run by two workers at once, and a     *)
(* channel never waits for a worker while another one runs it.             *)
THEOREM ExclusiveAlways == Spec => []Exclusive
  BY Safety, PTL DEF IInv

(* The poll is woken for every finished handler, neither less nor more.    *)
THEOREM ByteAccountingAlways == Spec => []ByteAccounting
  BY Safety, PTL DEF IInv

(* The pool is work-conserving with one signal per job.                    *)
THEOREM WorkConservingAlways == Spec => []WorkConserving
  BY Safety, PTL DEF IInv

-----------------------------------------------------------------------------
(* The threads implement the abstract pool: taking a job starts it,        *)
(* putting it in the output queue finishes it, taking it from there        *)
(* collects it; everything else is invisible.                              *)
THEOREM Refinement == Spec => ImplementsJobPool
  <1>1. Init => Pool!PoolInit
    BY DEF Init, Pool!PoolInit
  <1>2. IInv /\ [Next]_vars => [Pool!PoolNext]_(Pool!poolVars)
    <2> SUFFICES ASSUME IInv, [Next]_vars
                 PROVE  Pool!PoolNext \/ UNCHANGED <<input, job, output>>
      BY DEF Pool!poolVars
    <2>1. ASSUME NEW w \in Workers, Take(w) PROVE Pool!Start(w)
      BY <2>1, JobsAssumption DEF Take, Pool!Start, IInv, TypeOK, Bookkeeping, Busy, At
    <2>2. ASSUME NEW w \in Workers, Post(w) PROVE Pool!Finish(w)
      BY <2>2 DEF Post, Pool!Finish, IInv, Bookkeeping, Busy, At
    <2>3. ASSUME NEW j \in Jobs, Add(j) PROVE ~Pool!Outstanding(j) /\ Pool!Submit(j)
      BY <2>3 DEF Add, Outstanding, Queued, Pool!Submit, Pool!Outstanding,
                  Pool!InQueue, Pool!InResults, Pool!RunBy
    <2>4. ASSUME ResultTake PROVE Pool!Collect
      BY <2>4 DEF ResultTake, Pool!Collect
    <2>5. CASE \E w \in Workers : Worker(w) \/ SpuriousWake(w)
      BY <2>1, <2>2, <2>5 DEF Worker, LeaveOnStop, Wait, HandlerReturns, WriteByte,
                              SpuriousWake, Pool!PoolNext
    <2>6. CASE Drain
      BY <2>4, <2>6 DEF Drain, PollPipe, ResultRead, ResultNone, Pool!PoolNext
    <2>7. CASE Destroy \/ Joined \/ Done \/ UNCHANGED vars
      BY <2>7 DEF Destroy, Joined, Done, vars
    <2> QED  BY <2>3, <2>5, <2>6, <2>7 DEF Next, Pool!PoolNext
  <1> QED  BY <1>1, <1>2, Safety, PTL DEF Spec, ImplementsJobPool, Pool!PoolSpec
=============================================================================
