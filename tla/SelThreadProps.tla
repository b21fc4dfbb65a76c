--------------------------- MODULE SelThreadProps ---------------------------
(***************************************************************************)
(* What sel_thread.c must guarantee to the event loop.                     *)
(***************************************************************************)
EXTENDS SelThread

(* The pipe tells the truth: a byte is in the pipe, or about to be written, *)
(* for every item in the output queue, and for the item whose read is      *)
(* pending.  A byte too few and event_loop would sleep on a finished       *)
(* channel, or block in sel_thread_result holding the mutex for ever; a    *)
(* byte too many and the poll would spin.                                  *)
ByteAccounting ==
    bytes + Cardinality(At("signal"))
        = Len(output) + (IF mpc = "read" THEN 1 ELSE 0)

(* No job sleeps next to an idle worker: as long as one worker waits on    *)
(* the condition variable, every queued job has a worker of its own that   *)
(* is on its way to the queue, although sel_thread_add signals only one    *)
(* thread and a busy worker may overtake the one that was signalled.       *)
WorkConserving ==
    At("wait") # {} => Len(input) <= Cardinality(At("check"))

(* A channel is never handed to two workers, and never waits in a queue    *)
(* while a worker runs it: its handler is not reentrant.                   *)
Exclusive ==
    /\ \A w, v \in Workers : w # v /\ job[w] # None => job[w] # job[v]
    /\ \A w \in Workers, i \in 1..Len(input) : job[w] # input[i]
    /\ \A w \in Workers, i \in 1..Len(output) : job[w] # output[i]
    /\ \A i \in 1..Len(input), k \in 1..Len(output) : input[i] # output[k]
    /\ \A i, k \in 1..Len(input) : i # k => input[i] # input[k]
    /\ \A i, k \in 1..Len(output) : i # k => output[i] # output[k]

(* Work items are recycled and never leak: each one ever allocated is in a *)
(* queue, with a worker, or in free_queue.                                  *)
ItemsConserved ==
    alloc = Len(input) + Len(output) + Cardinality(Busy) + free

(* The bookkeeping that makes the above inductive: a worker owns a job     *)
(* exactly while it works on it, a result is pending exactly while its     *)
(* byte is read, nobody waits once the pool stops.                         *)
Bookkeeping ==
    /\ \A w \in Workers : job[w] # None <=> w \in Busy
    /\ got # None <=> mpc = "read"
    /\ stop <=> mpc \in {"join", "done"}
    /\ stop => At("wait") = {}

(* The inductive invariant of SelThread_proofs.                            *)
IInv ==
    /\ TypeOK
    /\ Bookkeeping
    /\ ByteAccounting
    /\ WorkConserving
    /\ ItemsConserved
    /\ Exclusive

-----------------------------------------------------------------------------
(* A job that was added is handed back to the event loop, unless the pool  *)
(* is being destroyed.                                                     *)
JobsComeBack == \A j \in Jobs : Outstanding(j) ~> (~Outstanding(j) \/ stop)

(* sel_thread_destroy returns: no worker misses the broadcast.             *)
DestroyReturns == stop ~> mpc = "done"

-----------------------------------------------------------------------------
(* The pool is a JobPool.  A job runs until the worker has put it in the   *)
(* output queue; the wake-up byte is invisible.                            *)
Pool == INSTANCE JobPool WITH
    queue <- input,
    running <- job,
    results <- output

(* Every behaviour of the threads is one of the abstract pool.             *)
ImplementsJobPool == Pool!PoolSpec
=============================================================================
