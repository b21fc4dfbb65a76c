----------------------------- MODULE Metasearch -----------------------------
(***************************************************************************)
(* A session at work: the commands of http_command.c on top of session.c,  *)
(* client.c and connection.c.                                              *)
(***************************************************************************)
EXTENDS Session

(* http_command on channel h.  A channel with a request is Http_Busy and   *)
(* takes no other until it responded.                                      *)
Request(h, cmd, ops) ==
    /\ cmd \in Commands /\ h \notin due /\ MayStart(h)
    /\ due' = due \cup {h}
    /\ Starts(h, ops)
    /\ UNCHANGED <<sessionVars, clientVars, connVars>>

CmdSearch(h) == Request(h, "search", << <<"session_search", None>> >> \o Reply(h))
CmdStop(h) == Request(h, "stop", << <<"session_stop", None>> >> \o Reply(h))
CmdSettings(h) ==
    /\ \E c \in Clients : Fresh(c)    \* bound: room for the next client
    /\ Request(h, "settings", << <<"session_apply_setting", None>> >> \o Reply(h))
CmdRecord(h) == Request(h, "record", << <<"show_record", h>> >>)
CmdTermlist(h) == Request(h, "termlist", << <<"cmd_termlist", None>> >>)
CmdShow(h) ==
    \/ Request(h, "show", << <<"session_sort", None>>, <<"cmd_show", "show">> >>)
    \/ Request(h, "showpref", << <<"session_sort", None>>, <<"cmd_show", "pref">> >>)

ApplySetting(t) ==
    /\ Does(t, "session_apply_setting") /\ EntersSession(t)
    /\ modified' = TRUE
    /\ Done(t)
    /\ UNCHANGED <<active, cached, starting, records, watch, smutex, clientVars, connVars, due>>

(* cmd_show with block=1 or block=preferred decides whether to wait, ...   *)
ShowDecides(h) ==
    /\ Does(h, "cmd_show")
    /\ Then(h, CASE ~records /\ Arg(h) = "pref" /\ ~PreferredReady
                      -> << <<"show_watch", "pref">> >>
                 [] ~records /\ ~(Arg(h) = "pref" /\ ~PreferredReady) /\ ~NoActive
                      -> << <<"show_watch", "show">> >>
                 [] OTHER -> << <<"show_records", h>> >>)
    /\ UNCHANGED <<sessionVars, clientVars, connVars, due>>

(* ... and if another command waits already it fails, or shows what there  *)
(* is (report=1 or not).                                                   *)
ShowWaits(h) ==
    /\ Does(h, "show_watch")
    /\ \E refused \in { Reply(h), << <<"show_records", h>> >> } :
          SessionSetWatch(h, Arg(h), h, refused)

(* cmd_termlist and cmd_bytarget with block=1.                             *)
TermlistDecides(h) ==
    /\ Does(h, "cmd_termlist")
    /\ Then(h, IF NoActive THEN Reply(h) ELSE << <<"termlist_watch", None>> >>)
    /\ UNCHANGED <<sessionVars, clientVars, connVars, due>>

TermlistWaits(h) ==
    /\ Does(h, "termlist_watch")
    /\ SessionSetWatch(h, "termlist", h, Reply(h))

(* http_send_response.                                                     *)
Respond(t) ==
    /\ Does(t, "reply")
    /\ due' = due \ {Arg(t)}
    /\ Done(t)
    /\ UNCHANGED <<sessionVars, clientVars, connVars>>

(* Faulty: the watch keeps a channel that is gone.                         *)
ChannelDestroyWatched(h) ==
    /\ h \in due /\ MayStart(h)
    /\ due' = due \ {h}
    /\ UNCHANGED <<sessionVars, clientVars, connVars, agenda>>

(* The user closes the channel, or it idled for 60 seconds:                *)
(* http_channel_destroy cancels the watch.                                 *)
ChannelDestroy(h) ==
    /\ h \in due /\ MayStart(h)
    /\ due' = due \ {h}
    /\ watch' = [w \in Watches |-> IF watch[w] = h THEN None ELSE watch[w]]
    /\ UNCHANGED <<active, cached, starting, modified, records, smutex,
                   clientVars, connVars, agenda>>

CommandStep(t) ==
    \/ ApplySetting(t) \/ ShowDecides(t) \/ ShowWaits(t)
    \/ TermlistDecides(t) \/ TermlistWaits(t) \/ Respond(t)

Step(t) == ClientStep(t) \/ SessionStep(t) \/ CommandStep(t)

Command(h) ==
    \/ CmdSearch(h) \/ CmdStop(h) \/ CmdSettings(h)
    \/ CmdRecord(h) \/ CmdTermlist(h) \/ CmdShow(h)

Next ==
    \/ \E t \in Threads : Step(t)
    \/ \E h \in Chans : Command(h) \/ ChannelDestroy(h)
    \/ \E k \in Conns : SocketEvent(k) \/ Timeout(k)

Spec == Init /\ [][Next]_vars

(* A client that the session gave up has nobody to use its connection.     *)
Abandoned(k) == k \in alive /\ owner[k] \notin cached

(* The handler that started goes on: without threads there is one, and     *)
(* nothing else happens until it is done.  A connection with work to do,   *)
(* or that nobody uses, times out unless it is done before: no target      *)
(* keeps a connection busy for ever.  No command, no answer of a target    *)
(* and no closing of a channel is taken for granted.                       *)
Fairness ==
    /\ WF_vars(\E t \in Threads : Step(t))
    /\ \A k \in Conns : SF_vars(Timeout(k) /\ (busy[k] # "idle" \/ Abandoned(k)))

FairSpec == Spec /\ Fairness
=============================================================================
