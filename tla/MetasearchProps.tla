-------------------------- MODULE MetasearchProps --------------------------
(***************************************************************************)
(* What a session promises.                                                *)
(***************************************************************************)
EXTENDS Metasearch

(* Nothing is running: every handler that started has returned.            *)
Quiet == \A t \in Threads : ~Running(t)

(* Reference counts are exact between handlers: a client is kept by the    *)
(* list of cached clients and by its connection, and by nothing else, so   *)
(* it is freed when and only when neither has it (client.c client_incref,  *)
(* client_destroy, client_stop).                                           *)
RefExact ==
    Quiet => \A c \in Clients :
        ref[c] = (IF c \in cached THEN 1 ELSE 0) + (IF conn[c] # None THEN 1 ELSE 0)

(* A client and its connection know each other, and a connection that was  *)
(* released is known by no client: no two clients share one.               *)
Ownership ==
    Quiet => /\ \A c \in Clients : conn[c] # None => conn[c] \in alive /\ owner[conn[c]] = c
             /\ \A k \in alive : owner[k] # None => conn[owner[k]] = k

(* The clients a step of an agenda will touch.                             *)
TouchOps == {"client_lock", "client_unlock", "records_ready", "client_start_search", "search",
             "client_disconnect", "unset_connection"}
TouchSetOps == {"detach", "drop", "search_clients", "sort_clients", "client_stop"}
Touches(item) ==
    IF item[1] \in TouchOps THEN {item[2]}
    ELSE IF item[1] \in TouchSetOps THEN item[2]
    ELSE IF item[1] = "session_fetch_more" THEN item[2][2] ELSE {}

(* No handler still has to do something with a client that was freed, and  *)
(* no list has one.                                                        *)
NoStaleClient ==
    /\ \A t \in Threads : \A i \in DOMAIN agenda[t] :
          \A c \in Touches(agenda[t][i]) : ref[c] > 0
    /\ \A c \in active \cup cached : ref[c] > 0

(* A client has a session exactly when it is in the list of active         *)
(* clients, which the cached clients include: the clients of an earlier    *)
(* search neither bring records nor release watches.                       *)
Sessionship ==
    Quiet => /\ active \subseteq cached
             /\ \A c \in Clients : sess[c] <=> c \in active

(* An active client has a connection with work to do: something will be    *)
(* heard of it, so a command that waits for it to be done does not wait    *)
(* for nothing.                                                            *)
ActiveWillEnd == Quiet => \A c \in Clients : IsActive(c) => busy[conn[c]] # "idle"

(* Every search, sort and stop, on whatever path it ends, lets the next    *)
(* one start.                                                              *)
StartingReset == Quiet => ~starting

(* Nobody keeps the session mutex (show_range_start, show_range_stop).     *)
SessionMutexFree == Quiet => smutex = <<>>

(* A request that got no response is waiting in exactly one watch, and a   *)
(* watch holds a request that waits.                                       *)
RequestsTracked ==
    Quiet => /\ \A h \in Chans : Cardinality({w \in Watches : watch[w] = h})
                                 = (IF h \in due THEN 1 ELSE 0)

(* A response goes to a request that has none yet: a blocked command is    *)
(* answered once (session_alert_watch, http_send_response).                *)
AnsweredOnce ==
    \A t \in Threads : Does(t, "reply") => Arg(t) \in due

(* Commands that block until the targets are done do not block when no     *)
(* target is active ("and all clients are now idle we fire a watch",       *)
(* client.c client_set_state).                                             *)
NoWaitForNothing ==
    Quiet /\ NoActive => \A w \in {"show", "pref", "termlist"} : watch[w] = None

-----------------------------------------------------------------------------
(* A show or termlist that blocks is answered.                             *)
BlockedAnswered ==
    \A w \in {"show", "pref", "termlist"} : \A h \in Chans : watch[w] = h ~> watch[w] # h

(* A connection that its client was taken from by a stop, or whose client  *)
(* the session dropped for changed settings, is destroyed.                 *)
OrphansGo == \A k \in Conns : Abandoned(k) ~> k \notin alive
=============================================================================
