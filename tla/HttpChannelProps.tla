-------------------------- MODULE HttpChannelProps --------------------------
(***************************************************************************)
(* What HTTP clients may rely on.                                          *)
(***************************************************************************)
EXTENDS HttpChannel, HttpSessionProps

(* Requests that come together are commands that do not ask to close.  Not *)
(* every client does this: the rest is in the README.                      *)
Orderly(h) ==
    LET script == chan[h].script
    IN  \A n \in 1 .. Len(script) :
           /\ script[n].close => script[n].kind # "proxy" /\ script[n].alone
           /\ ~script[n].alone => script[n - 1].kind = "command" /\ script[n].kind # "proxy"

(* Responses are written in the order of the requests, one for each: a     *)
(* request is not served while the one before it waits, be it that a       *)
(* target, a command or the web server answers (http_io, proxy_io).        *)
ResponsesInOrder ==
    \A h \in Chans : Orderly(h) /\ Open(h) =>
        LET q == chan[h].oqueue
        IN  /\ q # <<>> => q[1].of = chan[h].answered + 1
            /\ \A i \in 1 .. Len(q) - 1 : q[i + 1].of = (IF q[i].last THEN q[i].of + 1 ELSE q[i].of)

(* A channel closes of itself only after it answered all it took: also     *)
(* with a command that waits while an earlier response is written          *)
(* (http_io, keep_alive).                                                  *)
ClosedAnswered ==
    \A h \in Chans : Orderly(h) /\ chan[h].stage = "done" => chan[h].answered = chan[h].taken

-----------------------------------------------------------------------------
(* A command that was sent when the ones before it had been answered is    *)
(* answered, unless the client goes or the command waits for targets.      *)
RequestsAnswered ==
    \A h \in Chans :
        (/\ Open(h) /\ chan[h].sent > chan[h].answered
         /\ \A n \in 1 .. Len(chan[h].script) : At(h, n).alone /\ At(h, n).kind # "proxy")
            ~> (~Open(h) \/ chan[h].sent = chan[h].answered \/ phase[h] = "blocked")
=============================================================================
