----------------------------- MODULE SelThread -----------------------------
(***************************************************************************)
(* The pool of worker threads of sel_thread.c: an input and an output      *)
(* queue of work items behind one mutex, a condition variable on which     *)
(* idle workers wait, and a pipe into which a worker writes one byte for   *)
(* every item it put in the output queue, to wake the poll of the event    *)
(* loop.                                                                   *)
(*                                                                         *)
(* A region that the code runs under p->mutex is one step, except          *)
(* sel_thread_result, which reads the pipe (and may block) while it holds  *)
(* the mutex.  The main thread is the one of event_loop: it submits jobs   *)
(* when it is not draining results, and drains when the poll saw the pipe  *)
(* readable.  A job is the `data` of a work item, an I/O channel.          *)
(***************************************************************************)
EXTENDS Naturals, Sequences, FiniteSets

CONSTANTS
    Workers,    \* the threads, no_of_threads of them
    Jobs,       \* what may be passed to sel_thread_add
    None        \* no job

ASSUME WorkersAssumption == IsFiniteSet(Workers) /\ Workers # {}
ASSUME JobsAssumption == IsFiniteSet(Jobs) /\ None \notin Jobs

VARIABLES
    input,      \* input_queue, oldest item first
    output,     \* output_queue, oldest item first
    free,       \* number of work items in free_queue
    alloc,      \* number of work items ever allocated from nmem
    bytes,      \* bytes in the pipe, not yet read
    stop,       \* stop_flag
    wpc,        \* where each worker is in sel_thread_handler
    job,        \* the data of work_this of each worker
    mpc,        \* where the main thread is
    got         \* the data sel_thread_result is about to return

vars == <<input, output, free, alloc, bytes, stop, wpc, job, mpc, got>>

WorkerPC == {"check",   \* about to enter the mutex and look at the queue
             "wait",    \* in yaz_cond_wait
             "work",    \* in work_handler, mutex not held
             "post",    \* handler returned, item not yet in output_queue
             "signal",  \* item in output_queue, byte not yet written
             "exit"}    \* returned from the thread
MainPC == {"idle",      \* elsewhere in event_loop
           "drain",     \* in the loop that calls sel_thread_result
           "read",      \* in sel_thread_result: item taken, byte not read
           "join",      \* in sel_thread_destroy, joining the workers
           "done"}      \* sel_thread_destroy returned

TypeOK ==
    /\ input \in Seq(Jobs)
    /\ output \in Seq(Jobs)
    /\ free \in Nat
    /\ alloc \in Nat
    /\ bytes \in Nat
    /\ stop \in BOOLEAN
    /\ wpc \in [Workers -> WorkerPC]
    /\ job \in [Workers -> Jobs \cup {None}]
    /\ mpc \in MainPC
    /\ got \in Jobs \cup {None}

At(pc) == {w \in Workers : wpc[w] = pc}
Busy == At("work") \cup At("post")

(* p->mutex can be entered: only sel_thread_result keeps it across a step. *)
MutexFree == mpc # "read"

Init ==
    /\ input = <<>> /\ output = <<>>
    /\ free = 0 /\ alloc = 0 /\ bytes = 0
    /\ stop = FALSE
    /\ wpc = [w \in Workers |-> "check"]
    /\ job = [w \in Workers |-> None]
    /\ mpc = "idle" /\ got = None

Queued(q, j) == \E i \in 1..Len(q) : q[i] = j
Outstanding(j) ==
    \/ Queued(input, j) \/ Queued(output, j) \/ got = j
    \/ \E w \in Workers : job[w] = j

-----------------------------------------------------------------------------
(* Workers: sel_thread_handler                                             *)

(* The mutex is entered (or re-entered by a wait that was woken) and the   *)
(* loop condition is looked at.                                            *)
LeaveOnStop(w) ==
    /\ wpc[w] = "check" /\ MutexFree /\ stop
    /\ wpc' = [wpc EXCEPT ![w] = "exit"]
    /\ UNCHANGED <<input, output, free, alloc, bytes, stop, job, mpc, got>>

Wait(w) ==
    /\ wpc[w] = "check" /\ MutexFree /\ ~stop /\ input = <<>>
    /\ wpc' = [wpc EXCEPT ![w] = "wait"]
    /\ UNCHANGED <<input, output, free, alloc, bytes, stop, job, mpc, got>>

(* Faulty: takes the newest item, as if the queue were pushed and popped   *)
(* at the same end.                                                        *)
TakeNewest(w) ==
    /\ wpc[w] = "check" /\ MutexFree /\ ~stop /\ input # <<>>
    /\ job' = [job EXCEPT ![w] = input[Len(input)]]
    /\ input' = SubSeq(input, 1, Len(input) - 1)
    /\ wpc' = [wpc EXCEPT ![w] = "work"]
    /\ UNCHANGED <<output, free, alloc, bytes, stop, mpc, got>>

Take(w) ==
    /\ wpc[w] = "check" /\ MutexFree /\ ~stop /\ input # <<>>
    /\ job' = [job EXCEPT ![w] = Head(input)]
    /\ input' = Tail(input)
    /\ wpc' = [wpc EXCEPT ![w] = "work"]
    /\ UNCHANGED <<output, free, alloc, bytes, stop, mpc, got>>

(* A condition variable may wake a thread that nobody signalled.           *)
SpuriousWake(w) ==
    /\ wpc[w] = "wait"
    /\ wpc' = [wpc EXCEPT ![w] = "check"]
    /\ UNCHANGED <<input, output, free, alloc, bytes, stop, job, mpc, got>>

HandlerReturns(w) ==
    /\ wpc[w] = "work"
    /\ wpc' = [wpc EXCEPT ![w] = "post"]
    /\ UNCHANGED <<input, output, free, alloc, bytes, stop, job, mpc, got>>

(* Faulty: goes back to the queue with its item still in hand.             *)
PostKeeps(w) ==
    /\ wpc[w] = "post" /\ MutexFree
    /\ output' = Append(output, job[w])
    /\ wpc' = [wpc EXCEPT ![w] = "signal"]
    /\ UNCHANGED <<input, free, alloc, bytes, stop, job, mpc, got>>

Post(w) ==
    /\ wpc[w] = "post" /\ MutexFree
    /\ output' = Append(output, job[w])
    /\ job' = [job EXCEPT ![w] = None]
    /\ wpc' = [wpc EXCEPT ![w] = "signal"]
    /\ UNCHANGED <<input, free, alloc, bytes, stop, mpc, got>>

(* Faulty: one byte while the pipe holds one already.                      *)
WriteByteOnce(w) ==
    /\ wpc[w] = "signal"
    /\ bytes' = 1
    /\ wpc' = [wpc EXCEPT ![w] = "check"]
    /\ UNCHANGED <<input, output, free, alloc, stop, job, mpc, got>>

WriteByte(w) ==
    /\ wpc[w] = "signal"
    /\ bytes' = bytes + 1
    /\ wpc' = [wpc EXCEPT ![w] = "check"]
    /\ UNCHANGED <<input, output, free, alloc, stop, job, mpc, got>>

Worker(w) ==
    \/ LeaveOnStop(w) \/ Wait(w) \/ Take(w) \/ HandlerReturns(w)
    \/ Post(w) \/ WriteByte(w)

-----------------------------------------------------------------------------
(* The main thread                                                         *)

(* Faulty: the signal only when the queue was empty.                       *)
AddSignalsFirst(j) ==
    /\ mpc = "idle" /\ ~Outstanding(j)
    /\ input' = Append(input, j)
    /\ IF free > 0 THEN free' = free - 1 /\ UNCHANGED alloc
                   ELSE alloc' = alloc + 1 /\ UNCHANGED free
    /\ IF At("wait") = {} \/ input # <<>>
       THEN UNCHANGED wpc
       ELSE \E w \in At("wait") : wpc' = [wpc EXCEPT ![w] = "check"]
    /\ UNCHANGED <<output, bytes, stop, job, mpc, got>>

(* Faulty: no signal.                                                      *)
AddUnsignalled(j) ==
    /\ mpc = "idle" /\ ~Outstanding(j)
    /\ input' = Append(input, j)
    /\ IF free > 0 THEN free' = free - 1 /\ UNCHANGED alloc
                   ELSE alloc' = alloc + 1 /\ UNCHANGED free
    /\ UNCHANGED <<output, bytes, stop, wpc, job, mpc, got>>

(* sel_thread_add.  An item comes from free_queue if there is one.  The    *)
(* signal wakes one waiting worker, any of them.  run_fun only adds a      *)
(* channel that no thread uses.                                            *)
Add(j) ==
    /\ mpc = "idle" /\ ~Outstanding(j)
    /\ input' = Append(input, j)
    /\ IF free > 0 THEN free' = free - 1 /\ UNCHANGED alloc
                   ELSE alloc' = alloc + 1 /\ UNCHANGED free
    /\ IF At("wait") = {}
       THEN UNCHANGED wpc
       ELSE \E w \in At("wait") : wpc' = [wpc EXCEPT ![w] = "check"]
    /\ UNCHANGED <<output, bytes, stop, job, mpc, got>>

(* The poll of event_loop reported the read end of the pipe.               *)
PollPipe ==
    /\ mpc = "idle" /\ bytes > 0
    /\ mpc' = "drain"
    /\ UNCHANGED <<input, output, free, alloc, bytes, stop, wpc, job, got>>

(* sel_thread_result with an item in the output queue, up to its read.     *)
ResultTake ==
    /\ mpc = "drain" /\ output # <<>>
    /\ got' = Head(output)
    /\ output' = Tail(output)
    /\ free' = free + 1
    /\ mpc' = "read"
    /\ UNCHANGED <<input, alloc, bytes, stop, wpc, job>>

(* The read returns and so does sel_thread_result.                         *)
ResultRead ==
    /\ mpc = "read" /\ bytes > 0
    /\ bytes' = bytes - 1
    /\ got' = None
    /\ mpc' = "drain"
    /\ UNCHANGED <<input, output, free, alloc, stop, wpc, job>>

(* sel_thread_result with nothing in the output queue returns 0.           *)
ResultNone ==
    /\ mpc = "drain" /\ output = <<>>
    /\ mpc' = "idle"
    /\ UNCHANGED <<input, output, free, alloc, bytes, stop, wpc, job, got>>

(* Faulty: one worker is signalled instead of all.                         *)
DestroySignals ==
    /\ mpc = "idle"
    /\ stop' = TRUE
    /\ IF At("wait") = {}
       THEN UNCHANGED wpc
       ELSE \E w \in At("wait") : wpc' = [wpc EXCEPT ![w] = "check"]
    /\ mpc' = "join"
    /\ UNCHANGED <<input, output, free, alloc, bytes, job, got>>

(* sel_thread_destroy: set the flag and wake everybody, ...                *)
Destroy ==
    /\ mpc = "idle"
    /\ stop' = TRUE
    /\ wpc' = [w \in Workers |-> IF wpc[w] = "wait" THEN "check" ELSE wpc[w]]
    /\ mpc' = "join"
    /\ UNCHANGED <<input, output, free, alloc, bytes, job, got>>

(* ... join all, and drop what is left in the queues (event_loop passes no *)
(* work_destroy).                                                          *)
Joined ==
    /\ mpc = "join" /\ At("exit") = Workers
    /\ mpc' = "done"
    /\ UNCHANGED <<input, output, free, alloc, bytes, stop, wpc, job, got>>

Done ==
    /\ mpc = "done"
    /\ UNCHANGED vars

Drain == PollPipe \/ ResultTake \/ ResultRead \/ ResultNone

Next ==
    \/ \E w \in Workers : Worker(w) \/ SpuriousWake(w)
    \/ \E j \in Jobs : Add(j)
    \/ Drain \/ Destroy \/ Joined \/ Done

Spec == Init /\ [][Next]_vars

(* Every thread is scheduled and gets a mutex that is free again and again *)
(* (strong fairness: the main thread may take it in between), every        *)
(* handler returns (they do not block) and the event loop keeps polling.   *)
(* Nothing obliges it to add a job or to stop the pool.                    *)
Fairness ==
    /\ \A w \in Workers : SF_vars(Worker(w))
    /\ WF_vars(Drain) /\ WF_vars(Joined)

FairSpec == Spec /\ Fairness
=============================================================================
