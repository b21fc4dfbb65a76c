------------------------------- MODULE Client -------------------------------
(***************************************************************************)
(* client.c and connection.c.  The YAZ ZOOM library is external: a link    *)
(* that has something to do reports that it sent a request, that it        *)
(* received the response, and that it is done, or that it failed.  It does *)
(* its tasks one after the other and is done after the last; the second    *)
(* stands for those behind it too.                                         *)
(***************************************************************************)
EXTENDS SearchState

-----------------------------------------------------------------------------
(* The client mutex                                                        *)

Lock(c) == <<"client_lock", c>>
Unlock(c) == <<"client_unlock", c>>

ClientLock(t) ==
    /\ Does(t, "client_lock") /\ LocksClient(t, Arg(t))
    /\ cmutex' = [cmutex EXCEPT ![Arg(t)] = <<t>> \o @]
    /\ Done(t)
    /\ UNCHANGED <<sessionVars, state, conn, sess, fetched, ref, connVars, due>>

ClientUnlock(t) ==
    /\ Does(t, "client_unlock")
    /\ cmutex' = [cmutex EXCEPT ![Arg(t)] = Tail(@)]
    /\ Done(t)
    /\ UNCHANGED <<sessionVars, state, conn, sess, fetched, ref, connVars, due>>

LockedEvents(c, k) == << Lock(c), <<"non_block_events", k>>, Unlock(c) >>

(* connection_continue: the socket is polled from now on; or there is      *)
(* nothing to wait for, and the events are there already.                  *)
ConnectionContinue(t, c, k, after) ==
    \/ Then(t, after) /\ polled' = polled \cup {k}
    \/ Then(t, LockedEvents(c, k) \o after) /\ UNCHANGED polled

-----------------------------------------------------------------------------
(* client_start_search                                                     *)

(* Faulty: the search is never sent; the link only connects.               *)
QueueLost(k) == busy' = [busy EXCEPT ![k] = IF @ = "connecting" THEN "idle" ELSE @]

(* What a link does when a task is added, a request goes out, a response   *)
(* comes in, and when it is done or fails, which leaves no task behind.    *)
Added == [idle |-> "queued", connecting |-> "queued",
          queued |-> "queued2", sent |-> "sent2", received |-> "received2"]
Sent == [queued |-> "sent", queued2 |-> "sent2", sent2 |-> "sent", received2 |-> "sent"]
Received == [sent |-> "received", sent2 |-> "received2"]
Finished == [queued |-> "idle", sent |-> "idle", received |-> "idle"]
Failed == [queued2 |-> "idle", sent2 |-> "idle", received2 |-> "idle"]

(* A new task for the link.                                                *)
Queue(k) == busy' = [busy EXCEPT ![k] = IF @ \in DOMAIN Added THEN Added[@] ELSE @]

(* client_prep_connection found a connection.  The same search on it needs *)
(* no new one: its records are ingested again.                             *)
ReuseConnection(t) ==
    /\ Does(t, "client_start_search") /\ conn[Arg(t)] # None
    /\ \/ Then(t, << <<"search", Arg(t)>> >>) /\ UNCHANGED records
       \/ \E some \in BOOLEAN :
            /\ EntersSession(t)
            /\ records' = (records \/ (some /\ sess[Arg(t)] /\ Arg(t) \in fetched))
            /\ Done(t)
    /\ UNCHANGED <<active, cached, starting, modified, watch, smutex, clientVars, connVars, due>>

(* connection_create and connection_connect, successful.                   *)
CreateConnection(t) ==
    /\ Does(t, "client_start_search") /\ conn[Arg(t)] = None
    /\ \E k \in Conns \ alive :
          LET c == Arg(t)
          IN  /\ ~Running(k)
              /\ alive' = alive \cup {k}
              /\ owner' = [owner EXCEPT ![k] = c]
              /\ busy' = [busy EXCEPT ![k] = "connecting"]
              /\ conn' = [conn EXCEPT ![c] = k]
              /\ ref' = [ref EXCEPT ![c] = @ + 1]
              /\ state' = [state EXCEPT ![c] = "Connecting"]
              /\ Then(t, << <<"search", c>> >>)
    /\ UNCHANGED <<sessionVars, sess, fetched, cmutex, polled, due>>

(* They fail, and connection_destroy undoes what was done.  If there are   *)
(* too many channels nothing tells; the other failures go through Error,   *)
(* which client_disconnect overwrites.                                     *)
ConnectFails(t) ==
    /\ Does(t, "client_start_search") /\ conn[Arg(t)] = None
    /\ LocksClient(t, Arg(t))
    /\ \E st \in {"Disconnected"} \cup (IF state[Arg(t)] = "Idle" THEN {"Idle"} ELSE {}) :
          state' = [state EXCEPT ![Arg(t)] = st]
    /\ Done(t)
    /\ UNCHANGED <<sessionVars, conn, sess, fetched, ref, cmutex, connVars, due>>

(* The rest of client_start_search, from assert(link) on.                  *)
StartSearch(t) ==
    /\ Does(t, "search")
    /\ LET c == Arg(t) k == conn[c]
       IN  /\ k # None
           /\ state' = [state EXCEPT ![c] = "Working"]
           /\ fetched' = fetched \ {c}
           /\ Queue(k)
           /\ ConnectionContinue(t, c, k, <<>>)
    /\ UNCHANGED <<sessionVars, conn, sess, ref, cmutex, alive, owner, due>>

-----------------------------------------------------------------------------
(* non_block_events: one event per step, under the client mutex            *)

Again(k) == << <<"non_block_events", k>> >>

NoMoreEvents(t) ==
    /\ Does(t, "non_block_events")
    /\ Done(t)
    /\ UNCHANGED <<sessionVars, clientVars, connVars, due>>

(* Events of a connection that was released only use it up.                *)
IgnoredEvent(t) ==
    /\ Does(t, "non_block_events")
    /\ owner[Arg(t)] = None /\ busy[Arg(t)] # "idle"
    /\ busy' = [busy EXCEPT ![Arg(t)] = "idle"]
    /\ Then(t, Again(Arg(t)))
    /\ UNCHANGED <<sessionVars, clientVars, alive, owner, polled, due>>

Event(t, moves) ==
    /\ Does(t, "non_block_events")
    /\ owner[Arg(t)] # None /\ busy[Arg(t)] \in DOMAIN moves
    /\ busy' = [busy EXCEPT ![Arg(t)] = moves[@]]

SendApdu(t) ==
    /\ Event(t, Sent)
    /\ SetState(t, owner[Arg(t)], "Working", Again(Arg(t)))
    /\ UNCHANGED <<sessionVars, conn, sess, fetched, ref, cmutex, alive, owner, polled, due>>

(* client_search_response or client_record_response, in error.             *)
RecvError(t) ==
    /\ Event(t, Received)
    /\ SetState(t, owner[Arg(t)], "Error", Again(Arg(t)))
    /\ UNCHANGED <<sessionVars, conn, sess, fetched, ref, cmutex, alive, owner, polled, due>>

(* client_record_ingest; a record may be filtered or fail.  That records   *)
(* were got is seen to once, after the last event.                         *)
GotAlready(t) ==
    Len(agenda[t]) > 1 /\ agenda[t][2] = <<"client_got_records", Arg(t)>>

RecvRecord(t) ==
    /\ Event(t, Received)
    /\ fetched' = fetched \cup {owner[Arg(t)]}
    /\ \E good \in BOOLEAN :
          /\ sess[owner[Arg(t)]] => EntersSession(t)
          /\ records' = (records \/ (good /\ sess[owner[Arg(t)]]))
    /\ Then(t, Again(Arg(t)) \o (IF GotAlready(t) THEN <<>>
                                  ELSE << <<"client_got_records", Arg(t)>> >>))
    /\ UNCHANGED <<active, cached, starting, modified, watch, smutex,
                   state, conn, sess, ref, cmutex, alive, owner, polled, due>>

(* ZOOM_EVENT_END: the link has nothing more to do.                        *)
End(t) ==
    /\ \E st \in {"Idle", "Error"} :
          /\ Event(t, Finished) \/ (st = "Error" /\ Event(t, Failed))
          /\ SetState(t, owner[Arg(t)], st, Again(Arg(t)))
    /\ UNCHANGED <<sessionVars, conn, sess, fetched, ref, cmutex, alive, owner, polled, due>>

(* client_got_records lets go of the client mutex to alert.                *)
GotRecords(t) ==
    /\ Does(t, "client_got_records")
    /\ LET c == owner[Arg(t)]
       IN  IF c # None /\ sess[c]
           THEN Then(t, << Unlock(c), <<"preferred_ready", None>>, Lock(c),
                           <<"records_ready", c>> >>)
           ELSE Done(t)
    /\ UNCHANGED <<sessionVars, clientVars, connVars, due>>

PreferredCheck(t) ==
    /\ Does(t, "preferred_ready")
    /\ Then(t, IF PreferredReady THEN <<Alert("pref")>> ELSE <<>>)
    /\ UNCHANGED <<sessionVars, clientVars, connVars, due>>

RecordsCheck(t) ==
    /\ Does(t, "records_ready")
    /\ LET c == Arg(t)
       IN  Then(t, IF records
                   THEN << Unlock(c), Alert("show"), Alert("termlist"),
                           Alert("record"), Lock(c) >>
                   ELSE <<>>)
    /\ UNCHANGED <<sessionVars, clientVars, connVars, due>>

-----------------------------------------------------------------------------
(* connection_handler                                                      *)

(* The socket reports something: the target answers or hangs up.           *)
SocketEvent(k) ==
    /\ k \in alive \cap polled /\ MayStart(k)
    /\ Starts(k, IF owner[k] = None \/ busy[k] = "idle"
                 THEN << <<"connection_destroy", k>> >>
                 ELSE LockedEvents(owner[k], k))
    /\ UNCHANGED <<sessionVars, clientVars, connVars, due>>

(* operation_timeout while it works, session_timeout while it is idle.     *)
Timeout(k) ==
    /\ k \in alive /\ MayStart(k)
    /\ LET c == owner[k]
       IN  Starts(k, (IF c = None THEN <<>>
                      ELSE << Lock(c), <<"expired", k>>, Unlock(c) >>)
                     \o << <<"connection_destroy", k>> >>)
    /\ UNCHANGED <<sessionVars, clientVars, connVars, due>>

(* non_block_events after ZOOM_connection_fire_event_timeout: what the     *)
(* link was doing may end with an error.                                   *)
Expired(t) ==
    /\ Does(t, "expired")
    /\ LET c == owner[Arg(t)]
       IN  \/ Done(t) /\ UNCHANGED <<state, busy>>
           \/ /\ c # None /\ busy[Arg(t)] # "idle"
              /\ busy' = [busy EXCEPT ![Arg(t)] = "idle"]
              /\ SetState(t, c, "Error", <<>>)
    /\ UNCHANGED <<sessionVars, conn, sess, fetched, ref, cmutex, alive, owner, polled, due>>

(* Faulty: does not free a connection that has no client.                  *)
ConnectionDestroyOwned(t) ==
    /\ Does(t, "connection_destroy")
    /\ LET k == Arg(t) c == owner[k]
       IN  Then(t, IF c = None THEN <<>>
                   ELSE << <<"client_disconnect", c>>, <<"unset_connection", c>>,
                           <<"free", k>> >>)
    /\ UNCHANGED <<sessionVars, clientVars, connVars, due>>

(* connection_destroy: looks at co->client, disconnects it, frees co.      *)
ConnectionDestroy(t) ==
    /\ Does(t, "connection_destroy")
    /\ LET k == Arg(t) c == owner[k]
       IN  Then(t, (IF c = None THEN <<>>
                    ELSE << <<"client_disconnect", c>>, <<"unset_connection", c>> >>)
                   \o << <<"free", k>> >>)
    /\ UNCHANGED <<sessionVars, clientVars, connVars, due>>

ClientDisconnect(t) ==
    /\ Does(t, "client_disconnect")
    /\ IF state[Arg(t)] = "Idle"
       THEN Done(t) /\ UNCHANGED state
       ELSE SetState(t, Arg(t), "Disconnected", <<>>)
    /\ UNCHANGED <<sessionVars, conn, sess, fetched, ref, cmutex, connVars, due>>

(* Faulty: the connection gone still counts as a user of the client.       *)
UnsetConnectionKeepsRef(t) ==
    /\ Does(t, "unset_connection")
    /\ conn' = [conn EXCEPT ![Arg(t)] = None]
    /\ Done(t)
    /\ UNCHANGED <<sessionVars, state, sess, fetched, ref, cmutex, connVars, due>>

(* Faulty: the client keeps the connection that goes.                      *)
UnsetConnectionDangling(t) ==
    /\ Does(t, "unset_connection")
    /\ ref' = [ref EXCEPT ![Arg(t)] = @ - 1]
    /\ Done(t)
    /\ UNCHANGED <<sessionVars, state, conn, sess, fetched, cmutex, connVars, due>>

(* client_set_connection(cl, 0), which ends with client_destroy.           *)
UnsetConnection(t) ==
    /\ Does(t, "unset_connection") /\ LocksClient(t, Arg(t))
    /\ ref[Arg(t)] > 0
    /\ conn' = [conn EXCEPT ![Arg(t)] = None]
    /\ ref' = [ref EXCEPT ![Arg(t)] = @ - 1]
    /\ Done(t)
    /\ UNCHANGED <<sessionVars, state, sess, fetched, cmutex, connVars, due>>

FreeConnection(t) ==
    /\ Does(t, "free")
    /\ alive' = alive \ {Arg(t)}
    /\ owner' = [owner EXCEPT ![Arg(t)] = None]
    /\ busy' = [busy EXCEPT ![Arg(t)] = "idle"]
    /\ polled' = polled \ {Arg(t)}
    /\ Done(t)
    /\ UNCHANGED <<sessionVars, clientVars, due>>

ClientStep(t) ==
    \/ ClientLock(t) \/ ClientUnlock(t)
    \/ ReuseConnection(t) \/ CreateConnection(t) \/ ConnectFails(t) \/ StartSearch(t)
    \/ NoMoreEvents(t) \/ IgnoredEvent(t) \/ SendApdu(t) \/ RecvError(t)
    \/ RecvRecord(t) \/ End(t)
    \/ GotRecords(t) \/ PreferredCheck(t) \/ RecordsCheck(t)
    \/ Expired(t) \/ ConnectionDestroy(t) \/ ClientDisconnect(t)
    \/ UnsetConnection(t) \/ FreeConnection(t)
=============================================================================
