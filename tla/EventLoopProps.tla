--------------------------- MODULE EventLoopProps ---------------------------
(***************************************************************************)
(* What eventl.c owes to the handlers of its channels.                     *)
(***************************************************************************)
EXTENDS EventLoop

(* Nobody holds a pointer to a channel that iochan_destroy_real freed: not *)
(* the pool, not the walk, not the poll set, not a running handler.        *)
NoUseAfterFree ==
    \A c \in Channels \ Listed :
        /\ ~Outstanding(c) /\ inline # c
        /\ c \notin Elems(cur) \cup polled \cup inside

(* The pool is used as its contract demands: no channel is given to it     *)
(* while it still holds that channel.                                      *)
PoolContractKept == PoolSpec

-----------------------------------------------------------------------------
(* A destroyed channel is freed, whoever destroyed it and whatever thread  *)
(* was using it then; no wake-up of the main thread is lost.               *)
DestroyedFreed == \A c \in Channels : c \in destroyed ~> c \notin destroyed

(* An idle channel gets its timeout event, also when it was due while a    *)
(* worker used it, was added while the main thread slept, or was passed    *)
(* over by the connection rationing.                                       *)
TimeoutServed == \A c \in Timed : c \in due ~> c \notin due

(* The ration of one connection event per round starves nobody: a channel  *)
(* that is not a connection is served whatever the connections do, its     *)
(* socket does not stay ready and unhandled; and a connection behind       *)
(* another one in the list gets its timeout event all the same.            *)
OthersServed ==
    /\ \A c \in Channels \ Connections :
          c \in ready ~> (c \notin ready \/ c \in destroyed)
    /\ TimeoutServed
=============================================================================
