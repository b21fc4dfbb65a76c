---------------------------- MODULE HttpChannel ----------------------------
(***************************************************************************)
(* The HTTP server (http.c): channels read requests, run commands on       *)
(* sessions (HttpSession) or pass requests on to a web server (the proxy), *)
(* and write the responses.                                                *)
(*                                                                         *)
(* A request is the number it has on its channel, a response is one piece  *)
(* or, from the web server, two.  A handler of a channel runs at a time;   *)
(* responses to commands that waited come from handlers of targets.        *)
(***************************************************************************)
EXTENDS HttpSession, Sequences

CONSTANT
    Scripts     \* Scripts[h]: what the client of a channel may ask for, a set of sequences
                \* of [kind, close, alone]: "command", "proxy" or "bad"; with
                \* "Connection: close"; sent when all before it have been answered

(* What matters of a request (struct http_request).                        *)
Requests == [kind : {"command", "proxy", "bad"}, close : BOOLEAN, alone : BOOLEAN]

ASSUME ScriptsAssumption == Scripts \in [Chans -> SUBSET Seq(Requests)]

VARIABLE chan

channelVars == <<vars, chan>>

Closed == [stage |-> "new", script |-> <<>>, sent |-> 0, taken |-> 0, answered |-> 0,
           wire |-> <<>>, iqueue |-> <<>>, oqueue |-> <<>>, input |-> FALSE, output |-> FALSE,
           keep_alive |-> FALSE, proxy |-> "none", pqueue |-> <<>>, backend |-> <<>>]

ChannelInit == Init /\ chan = [h \in Chans |-> Closed]

Open(h) == chan[h].stage = "open"
At(h, n) == chan[h].script[n]

(* The event loop calls http_io, or proxy_io, when it is not in http_io.   *)
Ready(h) == Open(h) /\ ~chan[h].input

-----------------------------------------------------------------------------
(* The client                                                              *)

(* http_accept.                                                            *)
Accept(h) ==
    /\ chan[h].stage = "new"
    /\ \E script \in Scripts[h] :
          chan' = [chan EXCEPT ![h].stage = "open", ![h].script = script]
    /\ UNCHANGED vars

ClientSend(h) ==
    LET n == chan[h].sent + 1
    IN  /\ Open(h) /\ n <= Len(chan[h].script)
        /\ At(h, n).alone => chan[h].answered = chan[h].sent
        /\ chan' = [chan EXCEPT ![h].sent = n, ![h].wire = Append(@, n)]
        /\ UNCHANGED vars

(* http_channel_destroy: the observers cancel the watch of a command that  *)
(* waits.  One that was alerted is taken to respond first.                 *)
Destroy(h, stage, answered) ==
    /\ phase[h] \in {"idle", "blocked"}
    /\ IF phase[h] = "blocked" THEN ChannelDestroy(h) ELSE UNCHANGED vars
    /\ chan' = [chan EXCEPT ![h] = [Closed EXCEPT !.stage = stage, !.script = chan[h].script,
                                       !.taken = chan[h].taken, !.answered = answered]]

(* recv finds the end, send fails, or nothing happened for 60 seconds.     *)
Drop(h) == Ready(h) /\ Destroy(h, "lost", chan[h].answered)

-----------------------------------------------------------------------------
(* http_io                                                                 *)

Received(c) == [c EXCEPT !.iqueue = @ \o c.wire, !.wire = <<>>, !.input = TRUE]

Input(h) ==
    /\ Ready(h) /\ chan[h].wire # <<>>
    /\ chan' = [chan EXCEPT ![h] = Received(@)]
    /\ UNCHANGED vars

(* Faulty: it does not look whether a request is being served.             *)
ServesNoneUnseen(h) == TRUE

ServesNone(h) == phase[h] = "idle"

(* The loop of EVENT_INPUT comes to the next request, ...                  *)
NextRequest(h, kind) ==
    /\ chan[h].input /\ ServesNone(h)
    /\ chan[h].iqueue # <<>> /\ At(h, Head(chan[h].iqueue)).kind = kind

Taken(c) ==
    [c EXCEPT !.iqueue = Tail(@), !.taken = @ + 1,
              !.keep_alive = ~c.script[Head(c.iqueue)].close]

(* ... or to its end: there is none, or the channel is busy.               *)
InputEnds(h) ==
    /\ chan[h].input
    /\ phase[h] \in {"blocked", "ready"} \/ (phase[h] = "idle" /\ chan[h].iqueue = <<>>)
    /\ chan' = [chan EXCEPT ![h].input = FALSE]
    /\ UNCHANGED vars

(* Faulty: nothing tells the event loop that there is something to write.  *)
RespondedUnflagged(c) == [c EXCEPT !.oqueue = Append(@, [of |-> c.taken, last |-> TRUE])]

(* http_send_response.                                                     *)
Responded(c) ==
    [c EXCEPT !.oqueue = Append(@, [of |-> c.taken, last |-> TRUE]), !.output = TRUE]

(* http_error.                                                             *)
BadRequest(h) ==
    /\ NextRequest(h, "bad")
    /\ chan' = [chan EXCEPT ![h] = [Responded(Taken(@)) EXCEPT !.keep_alive = FALSE,
                                                               !.input = FALSE]]
    /\ UNCHANGED vars

CommandStarts(h) ==
    /\ NextRequest(h, "command")
    /\ Request(h)
    /\ chan' = [chan EXCEPT ![h] = Taken(@)]

(* http_proxy: that it fails is ignored.                                   *)
ProxyRequest(h) ==
    /\ NextRequest(h, "proxy") /\ chan[h].proxy # "closed"
    /\ LET c == Taken(chan[h])
       IN  \/ chan' = [chan EXCEPT ![h] = c]
           \/ chan' = [chan EXCEPT ![h] = [c EXCEPT !.proxy = "open",
                                                    !.pqueue = Append(@, c.taken)]]
    /\ UNCHANGED vars

(* Faulty: the last piece of a response decides, not the queue.            *)
FlushedPiece(c) == Head(c.oqueue).last

Flushed(c) == Len(c.oqueue) = 1

Written(c) ==
    [c EXCEPT !.oqueue = Tail(@), !.output = ~Flushed(c),
              !.answered = IF Head(c.oqueue).last THEN @ + 1 ELSE @]

(* EVENT_OUTPUT: when all is written the channel may go; or it has to read *)
(* on, but recv comes before the request that is there.                    *)
Output(h) ==
    /\ Ready(h) /\ chan[h].output /\ chan[h].oqueue # <<>>
    /\ LET c == chan[h]
           w == Written(c)
       IN  IF Flushed(c) /\ (~c.keep_alive \/ c.proxy = "closed")
           THEN Destroy(h, IF c.keep_alive THEN "lost" ELSE "done", w.answered)
           ELSE /\ chan' = [chan EXCEPT ![h] =
                               IF Flushed(c) /\ c.iqueue # <<>> /\ c.wire # <<>>
                               THEN Received(w) ELSE w]
                /\ UNCHANGED vars

-----------------------------------------------------------------------------
(* proxy_io and the web server                                             *)

ProxyOutput(h) ==
    /\ Ready(h) /\ chan[h].proxy = "open" /\ chan[h].pqueue # <<>>
    /\ chan' = [chan EXCEPT ![h].pqueue = Tail(@),
                            ![h].backend = Append(@, [of |-> Head(chan[h].pqueue), half |-> FALSE])]
    /\ UNCHANGED vars

(* A response comes in one piece or in two.                                *)
ProxyInput(h, last) ==
    /\ Ready(h) /\ chan[h].proxy = "open" /\ chan[h].backend # <<>>
    /\ LET b == Head(chan[h].backend)
       IN  /\ ~last => ~b.half
           /\ chan' = [chan EXCEPT
                 ![h].oqueue = Append(@, [of |-> b.of, last |-> last]), ![h].output = TRUE,
                 ![h].backend = IF last THEN Tail(@) ELSE <<[b EXCEPT !.half = TRUE]>> \o Tail(@)]
    /\ UNCHANGED vars

(* What the channel has yet to write keeps it.                             *)
StaysOpen(h) == chan[h].oqueue # <<>>

(* The web server has closed the connection.                               *)
ProxyClosed(h) ==
    /\ Ready(h) /\ chan[h].proxy = "open"
    /\ IF StaysOpen(h)
       THEN /\ chan' = [chan EXCEPT ![h].proxy = "closed", ![h].backend = <<>>]
            /\ UNCHANGED vars
       ELSE Destroy(h, "lost", chan[h].answered)

-----------------------------------------------------------------------------
(* Commands and sessions                                                   *)

(* The steps of a command that end with its response ...                   *)
CommandResponds(h) ==
    /\ Respond(h) \/ NoSession(h)
    /\ chan' = [chan EXCEPT ![h] = Responded(@)]

(* ... or without.                                                         *)
CommandStep(h) ==
    /\ \/ \E s \in Sessions : LocateSession(h, s)
       \/ \E w \in Watches : Block(h, w)
    /\ UNCHANGED chan

Command(h) == CommandResponds(h) \/ CommandStep(h)

(* cmd_init creates a session; its response is one of NoSession's.         *)
SessionSteps(s) ==
    /\ \/ HttpSessionCreate(s) /\ \E h \in Chans : phase[h] = "command" /\ using[h] = None
       \/ HttpSessionDestroy(s) \/ DestroyForReal(s) \/ ReleaseOwed(s)
       \/ \E w \in Watches : Alert(s, w)
    /\ UNCHANGED chan

-----------------------------------------------------------------------------
HttpIo(h) ==
    \/ Input(h) \/ InputEnds(h) \/ BadRequest(h) \/ CommandStarts(h) \/ ProxyRequest(h)
    \/ Output(h) \/ Drop(h)

ProxyIo(h) == ProxyOutput(h) \/ ProxyClosed(h) \/ \E last \in BOOLEAN : ProxyInput(h, last)

ChannelNext ==
    \/ \E h \in Chans : Accept(h) \/ ClientSend(h) \/ HttpIo(h) \/ ProxyIo(h) \/ Command(h)
    \/ \E s \in Sessions : SessionSteps(s)

ChannelSpec == ChannelInit /\ [][ChannelNext]_channelVars

(* The event loop serves a channel that can be read or written; commands   *)
(* come to an end; the timers of sessions fire.                            *)
ChannelFairness ==
    /\ \A h \in Chans :
          /\ WF_channelVars(Input(h)) /\ WF_channelVars(Output(h))
          /\ WF_channelVars(InputEnds(h) \/ BadRequest(h) \/ CommandStarts(h) \/ ProxyRequest(h))
          /\ WF_channelVars(Command(h))
    /\ \A s \in Sessions :
          /\ WF_channelVars(HttpSessionDestroy(s) /\ UNCHANGED chan)
          /\ WF_channelVars(DestroyForReal(s) /\ UNCHANGED chan)
          /\ WF_channelVars(ReleaseOwed(s) /\ UNCHANGED chan)

ChannelFairSpec == ChannelSpec /\ ChannelFairness
=============================================================================
