------------------------------ MODULE Session ------------------------------
(***************************************************************************)
(* session.c: searching, stopping, sorting, and the watches on which HTTP  *)
(* commands wait.                                                          *)
(***************************************************************************)
EXTENDS Client

-----------------------------------------------------------------------------
(* session_search                                                          *)

(* Faulty: lets a command start clients while another does.                *)
SessionSearchUnguarded(t) ==
    /\ Does(t, "session_search") /\ EntersSession(t)
    /\ starting' = TRUE
    /\ Then(t, << <<"reset_active", None>>, <<"select_targets", None>> >>)
    /\ UNCHANGED <<active, cached, modified, records, watch, smutex,
                   clientVars, connVars, due>>

(* Only one command at a time starts clients.  With modified settings the  *)
(* cached clients are dropped.                                             *)
SessionSearch(t) ==
    /\ Does(t, "session_search") /\ EntersSession(t)
    /\ IF starting
       THEN Done(t) /\ UNCHANGED starting
       ELSE /\ starting' = TRUE
            /\ Then(t, << <<"reset_active", None>> >>
                       \o (IF modified THEN << <<"drop_cached", None>> >> ELSE <<>>)
                       \o << <<"select_targets", None>> >>)
    /\ UNCHANGED <<active, cached, modified, records, watch, smutex,
                   clientVars, connVars, due>>

(* session_reset_active_clients(se, 0): the list under the session mutex,  *)
(* then each client under its own.                                         *)
ResetActive(t) ==
    /\ Does(t, "reset_active") /\ EntersSession(t)
    /\ active' = {}
    /\ Then(t, << <<"detach", active>> >>)
    /\ UNCHANGED <<cached, starting, modified, records, watch, smutex,
                   clientVars, connVars, due>>

(* Faulty: the clients keep their session.                                 *)
DetachNot(t) ==
    /\ Does(t, "detach")
    /\ Done(t)
    /\ UNCHANGED <<sessionVars, clientVars, connVars, due>>

Detach(t) ==
    /\ Does(t, "detach")
    /\ \/ Arg(t) = {} /\ Done(t) /\ UNCHANGED sess
       \/ \E c \in Arg(t) :
            /\ LocksClient(t, c)
            /\ sess' = [sess EXCEPT ![c] = FALSE]
            /\ Then(t, << <<"detach", Arg(t) \ {c}>> >>)
    /\ UNCHANGED <<sessionVars, state, conn, fetched, ref, cmutex, connVars, due>>

(* Faulty: the list keeps the clients it drops.                            *)
DropCachedKept(t) ==
    /\ Does(t, "drop_cached") /\ EntersSession(t)
    /\ Then(t, << <<"drop", cached>> >>)
    /\ UNCHANGED <<sessionVars, clientVars, connVars, due>>

(* session_remove_cached_clients: likewise.  client_mark_dead only brings  *)
(* the timeout of the connection nearer.                                   *)
DropCached(t) ==
    /\ Does(t, "drop_cached") /\ EntersSession(t)
    /\ cached' = {}
    /\ Then(t, << <<"drop", cached>> >>)
    /\ UNCHANGED <<active, starting, modified, records, watch, smutex,
                   clientVars, connVars, due>>

Drop(t) ==
    /\ Does(t, "drop")
    /\ \/ Arg(t) = {} /\ Done(t) /\ UNCHANGED <<sess, ref>>
       \/ \E c \in Arg(t) :
            /\ LocksClient(t, c)
            /\ sess' = [sess EXCEPT ![c] = FALSE]
            /\ ref' = [ref EXCEPT ![c] = @ - 1]
            /\ Then(t, << <<"drop", Arg(t) \ {c}>> >>)
    /\ UNCHANGED <<sessionVars, state, conn, fetched, cmutex, connVars, due>>

(* Memory for a new client.                                                *)
Fresh(c) == ref[c] = 0 /\ \A k \in Conns : owner[k] # c

(* select_targets: the cached client of a target, or a new one.            *)
Selectable(S) ==
    /\ \A c \in S : c \in cached \/ (Fresh(c) /\ \A d \in cached : Target[d] # Target[c])
    /\ \A c, d \in S : Target[c] = Target[d] => c = d

Selects(S) ==
    /\ modified' = FALSE /\ records' = FALSE
    /\ active' = S /\ cached' = cached \cup S
    /\ sess' = [c \in Clients |-> sess[c] \/ c \in S]
    /\ ref' = [c \in Clients |-> IF c \in S \ cached THEN 1 ELSE ref[c]]
    /\ state' = [c \in Clients |-> IF c \in S \ cached THEN "Disconnected" ELSE state[c]]
    /\ fetched' = fetched \ (S \ cached)

(* The region under "session_search"; the two errors leave without         *)
(* alerting the watches.                                                   *)
SelectTargets(t) ==
    /\ Does(t, "select_targets") /\ EntersSession(t)
    /\ \/ /\ "targets" \in BadSearches
          /\ Selects({})
          /\ starting' = FALSE
          /\ Done(t)
       \/ \E S \in SUBSET Clients \ {{}} :
            /\ Selectable(S) /\ Selects(S)
            /\ \/ /\ "limit" \in BadSearches
                  /\ starting' = FALSE
                  /\ Then(t, << <<"reset_active", None>> >>)
               \/ /\ UNCHANGED starting
                  /\ Then(t, AlertAll \o << <<"search_clients", S>>, <<"started", None>> >>)
    /\ UNCHANGED <<watch, smutex, conn, cmutex, connVars, due>>

(* The loop over clients_active of session_search: parse and start.  An    *)
(* error in the query sets the state, one in the cclmap sets it without an *)
(* alert, and others only skip the client.                                 *)
SearchClients(t) ==
    /\ Does(t, "search_clients")
    /\ \/ Arg(t) = {} /\ Done(t) /\ UNCHANGED state
       \/ \E c \in Arg(t) : LET rest == <<"search_clients", Arg(t) \ {c}>> IN
            \/ /\ "query" \in BadSearches
               /\ SetState(t, c, "Error", <<rest>>)
            \/ /\ "query" \in BadSearches
               /\ state' \in {state, [state EXCEPT ![c] = "Error"]}
               /\ Then(t, <<rest>>)
            \/ Then(t, << <<"client_start_search", c>>, rest >>) /\ UNCHANGED state
    /\ UNCHANGED <<sessionVars, conn, sess, fetched, ref, cmutex, connVars, due>>

(* Faulty: never lets another start.                                       *)
StartedNot(t) ==
    /\ Does(t, "started")
    /\ Done(t)
    /\ UNCHANGED <<sessionVars, clientVars, connVars, due>>

Started(t) ==
    /\ Does(t, "started") /\ EntersSession(t)
    /\ starting' = FALSE
    /\ Done(t)
    /\ UNCHANGED <<active, cached, modified, records, watch, smutex, clientVars, connVars, due>>

-----------------------------------------------------------------------------
(* session_sort: another order may need another search                     *)

SessionSort(t) ==
    /\ Does(t, "session_sort") /\ EntersSession(t)
    /\ \/ Done(t) /\ UNCHANGED <<starting, records>>
       \/ /\ ~starting /\ starting' = TRUE /\ records' = FALSE
          /\ Then(t, << <<"sort_clients", active>>, <<"started", None>> >>)
    /\ UNCHANGED <<active, cached, modified, watch, smutex, clientVars, connVars, due>>

SortClients(t) ==
    /\ Does(t, "sort_clients")
    /\ \/ Arg(t) = {} /\ Done(t)
       \/ \E c \in Arg(t) : LET rest == <<"sort_clients", Arg(t) \ {c}>> IN
            IF state[c] \in {"Connecting", "Idle", "Working"}
            THEN Then(t, << <<"client_start_search", c>>, rest >>)
            ELSE Then(t, <<rest>>)
    /\ UNCHANGED <<sessionVars, clientVars, connVars, due>>

-----------------------------------------------------------------------------
(* session_stop: alerts first, then stops the active clients               *)

SessionStop(t) ==
    /\ Does(t, "session_stop") /\ EntersSession(t)
    /\ IF starting
       THEN Done(t) /\ UNCHANGED starting
       ELSE /\ starting' = TRUE
            /\ Then(t, AlertAll \o << <<"stop_clients", None>>, <<"started", None>> >>)
    /\ UNCHANGED <<active, cached, modified, records, watch, smutex,
                   clientVars, connVars, due>>

StopClients(t) ==
    /\ Does(t, "stop_clients")
    /\ Then(t, << <<"client_stop", active>> >>)
    /\ UNCHANGED <<sessionVars, clientVars, connVars, due>>

(* connection_release2.                                                    *)
Release2(k) == owner' = [owner EXCEPT ![k] = None]

(* client_stop: the connection is left to itself.                          *)
ClientStop(t) ==
    /\ Does(t, "client_stop")
    /\ \/ Arg(t) = {} /\ Done(t) /\ UNCHANGED <<state, conn, ref, owner>>
       \/ \E c \in Arg(t) :
            /\ LocksClient(t, c)
            /\ IF state[c] \in {"Working", "Connecting"}
               THEN /\ state' = [state EXCEPT ![c] = "Disconnected"]
                    /\ IF conn[c] # None
                       THEN /\ ref[c] > 1       \* assert
                            /\ ref' = [ref EXCEPT ![c] = @ - 1]
                            /\ Release2(conn[c])
                            /\ conn' = [conn EXCEPT ![c] = None]
                       ELSE UNCHANGED <<conn, ref, owner>>
               ELSE UNCHANGED <<state, conn, ref, owner>>
            /\ Then(t, << <<"client_stop", Arg(t) \ {c}>> >>)
    /\ UNCHANGED <<sessionVars, sess, fetched, cmutex, alive, busy, polled, due>>

-----------------------------------------------------------------------------
(* Watches                                                                 *)

(* Faulty: the watch stays set.                                            *)
UnwatchNot(w) == UNCHANGED watch

Unwatch(w) == watch' = [watch EXCEPT ![w] = None]

(* session_alert_watch: the watch is reset before the waiting command is   *)
(* carried on.                                                             *)
SessionAlertWatch(t) ==
    /\ Does(t, "session_alert_watch") /\ EntersSession(t)
    /\ LET w == Arg(t) h == watch[w]
       IN  /\ Unwatch(w)
           /\ Then(t, CASE h = None -> <<>>
                        [] h # None /\ w \in {"show", "pref"} -> << <<"show_records", h>> >>
                        [] h # None /\ w = "termlist" -> << <<"reply", h>> >>
                        [] h # None /\ w = "record" -> << <<"show_record", h>> >>)
    /\ UNCHANGED <<active, cached, starting, modified, records, smutex,
                   clientVars, connVars, due>>

(* session_set_watch of channel h, and what the caller does then.          *)
SessionSetWatch(t, w, h, refused) ==
    /\ EntersSession(t)
    /\ IF watch[w] = None
       THEN watch' = [watch EXCEPT ![w] = h] /\ Done(t)
       ELSE UNCHANGED watch /\ Then(t, refused)
    /\ UNCHANGED <<active, cached, starting, modified, records, smutex,
                   clientVars, connVars, due>>

-----------------------------------------------------------------------------
(* Showing                                                                 *)

Reply(h) == << <<"reply", h>> >>

(* show_range_start keeps the session mutex while more records are         *)
(* fetched, show_range_stop leaves it.                                     *)
ShowRecords(t) ==
    /\ Does(t, "show_records") /\ EntersSession(t)
    /\ IF ExtendRecs
       THEN /\ smutex' = <<t>> \o smutex
            /\ Then(t, << <<"session_fetch_more", <<Arg(t), active, FALSE>> >> >>)
       ELSE Then(t, Reply(Arg(t))) /\ UNCHANGED smutex
    /\ UNCHANGED <<active, cached, starting, modified, records, watch,
                   clientVars, connVars, due>>

(* client_fetch_more for the next client, if it is idle and has more.      *)
FetchMore(t) ==
    /\ Does(t, "session_fetch_more")
    /\ \E c \in Arg(t)[2] :
         LET rest(got) == << <<"session_fetch_more", <<Arg(t)[1], Arg(t)[2] \ {c}, got>> >> >>
         IN  \/ /\ Then(t, rest(Arg(t)[3]))
                /\ UNCHANGED <<state, busy, polled>>
             \/ /\ state[c] = "Idle" /\ conn[c] # None
                /\ state' = [state EXCEPT ![c] = "Working"]
                /\ Queue(conn[c])
                /\ ConnectionContinue(t, c, conn[c], rest(TRUE))
    /\ UNCHANGED <<sessionVars, conn, sess, fetched, ref, cmutex, alive, owner, due>>

(* Faulty: keeps the session mutex when it has to wait.                    *)
FetchedMoreLocked(t) ==
    /\ Does(t, "session_fetch_more") /\ Arg(t)[2] = {}
    /\ smutex' = IF Arg(t)[3] THEN smutex ELSE Tail(smutex)
    /\ Then(t, IF Arg(t)[3] THEN << <<"show_again", Arg(t)[1]>> >> ELSE Reply(Arg(t)[1]))
    /\ UNCHANGED <<active, cached, starting, modified, records, watch,
                   clientVars, connVars, due>>

(* Nothing more: respond.  Otherwise wait until it is there.               *)
FetchedMore(t) ==
    /\ Does(t, "session_fetch_more") /\ Arg(t)[2] = {}
    /\ smutex' = Tail(smutex)
    /\ Then(t, IF Arg(t)[3] THEN << <<"show_again", Arg(t)[1]>> >> ELSE Reply(Arg(t)[1]))
    /\ UNCHANGED <<active, cached, starting, modified, records, watch,
                   clientVars, connVars, due>>

ShowAgain(t) ==
    /\ Does(t, "show_again")
    /\ SessionSetWatch(t, "show", Arg(t), Reply(Arg(t)))

(* show_single_start finds the record, or the command waits for it.        *)
ShowRecord(t) ==
    /\ Does(t, "show_record") /\ EntersSession(t)
    /\ \E found \in BOOLEAN :
         /\ found => records
         /\ Then(t, IF found \/ NoActive THEN Reply(Arg(t))
                    ELSE << <<"record_watch", Arg(t)>> >>)
    /\ UNCHANGED <<sessionVars, clientVars, connVars, due>>

RecordWatch(t) ==
    /\ Does(t, "record_watch")
    /\ SessionSetWatch(t, "record", Arg(t), Reply(Arg(t)))

SessionStep(t) ==
    \/ SessionSearch(t) \/ ResetActive(t) \/ Detach(t) \/ DropCached(t) \/ Drop(t)
    \/ SelectTargets(t) \/ SearchClients(t) \/ Started(t)
    \/ SessionSort(t) \/ SortClients(t)
    \/ SessionStop(t) \/ StopClients(t) \/ ClientStop(t)
    \/ SessionAlertWatch(t)
    \/ ShowRecords(t) \/ FetchMore(t) \/ FetchedMore(t) \/ ShowAgain(t)
    \/ ShowRecord(t) \/ RecordWatch(t)
=============================================================================
