---------------------------- MODULE HttpSession ----------------------------
(***************************************************************************)
(* The life of HTTP sessions (http_command.c): commands locate a session,  *)
(* use it and release it, some after they blocked on a watch of it, and a  *)
(* timer destroys a session that nobody used for a while.                  *)
(*                                                                         *)
(* The handlers of the channels and of the timers may run in different     *)
(* threads, so a command and a timeout interleave at the mutex of the list *)
(* of sessions.  Session ids are unique here and stand for the sessions.   *)
(* Time is left out: the timer of a session may fire whenever.             *)
(***************************************************************************)
EXTENDS Naturals, FiniteSets

CONSTANTS
    Sessions,
    Chans,          \* the HTTP channels
    Watches,        \* SESSION_WATCH_SHOW and so on
    None,
    MaxRequests     \* bound on activity_counter

ASSUME HttpSessionAssumption ==
    /\ IsFiniteSet(Chans)
    /\ MaxRequests \in Nat
    /\ None \notin Sessions \cup Chans

VARIABLES
    listed,         \* session_list
    dying,          \* unlinked, about to be freed
    freed,
    activity,       \* activity_counter
    destroyed,      \* destroy_counter
    using,          \* the session that the command of a channel has located
    owed,           \* how many commands wait in a watch and have the session still
    phase,          \* how far the request of a channel is
    watch           \* psession->watchlist, also of sessions that are gone

vars == <<listed, dying, freed, activity, destroyed, using, owed, phase, watch>>

Phases == {"idle",      \* no request
           "command",   \* http_command runs
           "blocked",   \* it returned without a response
           "ready"}     \* its watch was alerted, it goes on

Init ==
    /\ listed = {} /\ dying = {} /\ freed = {}
    /\ activity = [s \in Sessions |-> 0] /\ destroyed = [s \in Sessions |-> 0]
    /\ using = [h \in Chans |-> None]
    /\ owed = [s \in Sessions |-> 0]
    /\ phase = [h \in Chans |-> "idle"]
    /\ watch = [s \in Sessions |-> [w \in Watches |-> None]]

Users(s) == {h \in Chans : using[h] = s}

-----------------------------------------------------------------------------
(* cmd_init: it does not locate the session it creates.                    *)
HttpSessionCreate(s) ==
    /\ s \notin listed \cup dying \cup freed
    /\ listed' = listed \cup {s}
    /\ UNCHANGED <<dying, freed, activity, destroyed, using, owed, phase, watch>>

(* Another command starts.                                                 *)
Request(h) ==
    /\ phase[h] = "idle"
    /\ phase' = [phase EXCEPT ![h] = "command"]
    /\ UNCHANGED <<listed, dying, freed, activity, destroyed, using, owed, watch>>

MayLocate(h) == phase[h] \in {"command", "ready"} /\ using[h] = None

LocateSession(h, s) ==
    /\ MayLocate(h) /\ s \in listed
    /\ activity[s] < MaxRequests
    /\ activity' = [activity EXCEPT ![s] = @ + 1]
    /\ using' = [using EXCEPT ![h] = s]
    /\ UNCHANGED <<listed, dying, freed, destroyed, owed, phase, watch>>

(* No such session (any more): an error is the response.                   *)
NoSession(h) ==
    /\ MayLocate(h)
    /\ phase' = [phase EXCEPT ![h] = "idle"]
    /\ UNCHANGED <<listed, dying, freed, activity, destroyed, using, owed, watch>>

(* Faulty: the release is not counted.                                     *)
ReleaseUncounted(h) ==
    /\ using' = [using EXCEPT ![h] = None]
    /\ UNCHANGED <<listed, dying, freed, activity, destroyed, owed>>

ReleaseSession(h) ==
    /\ destroyed' = [destroyed EXCEPT ![using[h]] = @ + 1]
    /\ using' = [using EXCEPT ![h] = None]
    /\ UNCHANGED <<listed, dying, freed, activity, owed>>

(* The command has its response, ...                                       *)
Respond(h) ==
    /\ using[h] # None
    /\ phase' = [phase EXCEPT ![h] = "idle"]
    /\ ReleaseSession(h)
    /\ UNCHANGED watch

(* ... or waits in a watch of the session (session_set_watch).  The watch  *)
(* may be alerted, and the rest of the command run, in another thread      *)
(* before this one comes to release_session.                               *)
Block(h, w) ==
    /\ using[h] # None /\ watch[using[h]][w] = None
    /\ phase' = [phase EXCEPT ![h] = "blocked"]
    /\ watch' = [watch EXCEPT ![using[h]][w] = h]
    /\ owed' = [owed EXCEPT ![using[h]] = @ + 1]
    /\ using' = [using EXCEPT ![h] = None]
    /\ UNCHANGED <<listed, dying, freed, activity, destroyed>>

ReleaseOwed(s) ==
    /\ owed[s] > 0
    /\ owed' = [owed EXCEPT ![s] = @ - 1]
    /\ destroyed' = [destroyed EXCEPT ![s] = @ + 1]
    /\ UNCHANGED <<listed, dying, freed, activity, using, phase, watch>>

(* session_alert_watch, from a command or a target: the callbacks locate   *)
(* the session again.                                                      *)
Alert(s, w) ==
    /\ s \in listed \cup dying /\ watch[s][w] # None
    /\ watch' = [watch EXCEPT ![s][w] = None]
    /\ phase' = [phase EXCEPT ![watch[s][w]] = "ready"]
    /\ UNCHANGED <<listed, dying, freed, activity, destroyed, using, owed>>

(* Faulty: the watch of a channel that is gone stays.                      *)
ChannelForgotten(h) ==
    /\ phase[h] = "blocked"
    /\ phase' = [phase EXCEPT ![h] = "idle"]
    /\ UNCHANGED <<listed, dying, freed, activity, destroyed, using, owed, watch>>

(* http_channel_destroy of a channel that waits: session_watch_cancel.     *)
ChannelDestroy(h) ==
    /\ phase[h] = "blocked"
    /\ phase' = [phase EXCEPT ![h] = "idle"]
    /\ watch' = [s \in Sessions |->
                   [w \in Watches |-> IF watch[s][w] = h THEN None ELSE watch[s][w]]]
    /\ UNCHANGED <<listed, dying, freed, activity, destroyed, using, owed>>

-----------------------------------------------------------------------------
(* Faulty: the timer does not look at the counters.                        *)
InUseNever(s) == FALSE

(* session_timeout, which is http_session_destroy: not while a command has *)
(* the session; the timer will fire again.                                 *)
InUse(s) == destroyed[s] # activity[s]

HttpSessionDestroy(s) ==
    /\ s \in listed /\ ~InUse(s)
    /\ listed' = listed \ {s}
    /\ dying' = dying \cup {s}
    /\ UNCHANGED <<freed, activity, destroyed, using, owed, phase, watch>>

(* The same, after it left the mutex.                                      *)
DestroyForReal(s) ==
    /\ s \in dying
    /\ dying' = dying \ {s}
    /\ freed' = freed \cup {s}
    /\ UNCHANGED <<listed, activity, destroyed, using, owed, phase, watch>>

-----------------------------------------------------------------------------
ChannelStep(h) ==
    \/ Request(h) \/ NoSession(h) \/ Respond(h) \/ ChannelDestroy(h)
    \/ \E s \in Sessions : LocateSession(h, s)
    \/ \E w \in Watches : Block(h, w)

SessionStep(s) ==
    \/ HttpSessionCreate(s) \/ HttpSessionDestroy(s) \/ DestroyForReal(s) \/ ReleaseOwed(s)
    \/ \E w \in Watches : Alert(s, w)

Next == (\E h \in Chans : ChannelStep(h)) \/ (\E s \in Sessions : SessionStep(s))

Spec == Init /\ [][Next]_vars

(* A timer that is not set back fires, and its handler ends; a command     *)
(* that has a session comes to its end.                                    *)
Fairness ==
    /\ \A s \in Sessions :
          WF_vars(HttpSessionDestroy(s)) /\ WF_vars(DestroyForReal(s)) /\ WF_vars(ReleaseOwed(s))
    /\ \A h \in Chans : WF_vars(Respond(h) \/ \E w \in Watches : Block(h, w))

FairSpec == Spec /\ Fairness
=============================================================================
