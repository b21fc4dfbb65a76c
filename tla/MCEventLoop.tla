---------------------------- MODULE MCEventLoop ----------------------------
(* h: an HTTP channel; c1, c2: Z39.50/SRU connections.  They are scaled    *)
(* down from 200 sockets and a slack of 20 to LimitFd and a slack of 1.    *)
EXTENDS EventLoopProps, TLC

CONSTANT First      \* the channel that is there from the start

MCSlack == [c \in Jobs |-> IF c \in Connections THEN 1 ELSE 0]
MCInitialList == <<First>>
=============================================================================
