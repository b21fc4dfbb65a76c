------------------------------ MODULE JobPool ------------------------------
(***************************************************************************)
(* What the event loop relies on when it hands the handler of an I/O       *)
(* channel to the pool of worker threads (sel_thread.h).  A job that was   *)
(* submitted is started by exactly one worker, in the order of submission, *)
(* and its result is collected exactly once, in the order of completion.   *)
(* SelThread shows that the threads, condition variable and pipe of        *)
(* sel_thread.c implement this; EventLoop is built on it.                  *)
(***************************************************************************)
EXTENDS Naturals, Sequences

CONSTANTS
    Workers,    \* the threads of the pool
    Jobs,       \* the data pointers a caller can submit
    None        \* "this worker runs nothing"

ASSUME NoneAssumption == None \notin Jobs

VARIABLES
    queue,      \* jobs submitted and not started, oldest first
    running,    \* the job each worker runs
    results     \* jobs finished and not collected, oldest first

poolVars == <<queue, running, results>>

PoolTypeOK ==
    /\ queue \in Seq(Jobs)
    /\ running \in [Workers -> Jobs \cup {None}]
    /\ results \in Seq(Jobs)

InQueue(j) == \E i \in 1..Len(queue) : queue[i] = j
InResults(j) == \E i \in 1..Len(results) : results[i] = j
RunBy(w, j) == running[w] = j

(* The pool holds the job: between its submission and its collection.      *)
Outstanding(j) == InQueue(j) \/ InResults(j) \/ \E w \in Workers : RunBy(w, j)

PoolInit ==
    /\ queue = <<>>
    /\ running = [w \in Workers |-> None]
    /\ results = <<>>

Submit(j) ==
    /\ queue' = Append(queue, j)
    /\ UNCHANGED <<running, results>>

Start(w) ==
    /\ running[w] = None
    /\ queue # <<>>
    /\ running' = [running EXCEPT ![w] = Head(queue)]
    /\ queue' = Tail(queue)
    /\ UNCHANGED results

Finish(w) ==
    /\ running[w] # None
    /\ results' = Append(results, running[w])
    /\ running' = [running EXCEPT ![w] = None]
    /\ UNCHANGED queue

Collect ==
    /\ results # <<>>
    /\ results' = Tail(results)
    /\ UNCHANGED <<queue, running>>

(* The caller may not submit a job that the pool already holds.            *)
PoolNext ==
    \/ \E j \in Jobs : ~Outstanding(j) /\ Submit(j)
    \/ \E w \in Workers : Start(w) \/ Finish(w)
    \/ Collect

PoolSpec == PoolInit /\ [][PoolNext]_poolVars
=============================================================================
