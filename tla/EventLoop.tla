----------------------------- MODULE EventLoop -----------------------------
(***************************************************************************)
(* The event loop of eventl.c.  The main thread polls the sockets of all   *)
(* I/O channels no worker is using, collects the channels the workers are  *)
(* done with, walks its snapshot of the channel list to fire the handler   *)
(* of every channel with an event, and frees the channels that were        *)
(* destroyed.  A handler runs in the pool of workers (JobPool, which       *)
(* SelThread implements), or in the main thread when there are no workers. *)
(*                                                                         *)
(* What a handler does to channels is abstracted to the calls of eventl.h  *)
(* it can make, in any number and order: iochan_destroy, iochan_add,       *)
(* iochan_setfd, iochan_settimeout, on its own channel or another.         *)
(***************************************************************************)
EXTENDS JobPool, Integers, FiniteSets

CONSTANTS
    Connections,    \* the channels named "connection_socket"
    Timed,          \* the channels with max_idle # 0
    Slack,          \* the slack each channel is added with
    LimitFd,        \* limit_fd
    InitialList     \* channel_list when iochan_man_events is called

Channels == Jobs

ASSUME ChannelsAssumption ==
    /\ Connections \subseteq Channels /\ Timed \subseteq Channels
    /\ Slack \in [Channels -> Int] /\ LimitFd \in Int
    /\ InitialList \in Seq(Channels)

VARIABLES
    list,       \* channel_list
    destroyed,  \* the channels with the destroyed flag
    open,       \* the channels with fd >= 0 (and some of their flags set)
    due,        \* the channels idle for longer than max_idle
    ready,      \* the channels whose socket has something to report
    users,      \* thread_users
    evt,        \* this_event
    inside,     \* the channels whose callback is being executed
    main,       \* where the main thread is in event_loop
    inline,     \* the channel whose handler the main thread runs itself
    polled,     \* the channels with fds[poll_offset].fd >= 0, and that number or no socket
    hit,        \* those the poll reported
    cur,        \* what is left of the walk that started at `start`
    fired       \* connection_fired > 0

chanVars == <<list, destroyed, open, due, ready, users, evt, inside>>
loopVars == <<main, inline, polled, hit, cur, fired>>
vars == <<poolVars, chanVars, loopVars>>

MainPC == {"top", "poll", "drain", "walk", "inline", "sweep", "done"}
Events == {"timeout", "io"}
NewFds == {"none", "polled", "other"}   \* -1, the number in the poll set, another one

TypeOK ==
    /\ PoolTypeOK
    /\ list \in Seq(Channels) /\ cur \in Seq(Channels)
    /\ \A S \in {destroyed, open, due, ready, inside, polled, hit} : S \subseteq Channels
    /\ users \in [Channels -> Nat]
    /\ evt \in [Channels -> SUBSET Events]
    /\ main \in MainPC
    /\ inline \in Channels \cup {None}
    /\ fired \in BOOLEAN

Elems(s) == {s[i] : i \in 1..Len(s)}
Listed == Elems(list)
Executing(c) == inline = c \/ \E w \in Workers : RunBy(w, c)

Init ==
    /\ PoolInit
    /\ list = InitialList
    /\ destroyed = {} /\ due = {} /\ ready = {} /\ inside = {}
    /\ open = Elems(InitialList)
    /\ users = [c \in Channels |-> 0]
    /\ evt = [c \in Channels |-> {}]
    /\ main = "top" /\ inline = None
    /\ polled = {} /\ hit = {} /\ cur = <<>> /\ fired = FALSE

-----------------------------------------------------------------------------
(* The world outside: a peer sends or accepts data, time passes.           *)

SocketReady(c) ==
    /\ c \in (Listed \cap open) \ (destroyed \cup ready)
    /\ ready' = ready \cup {c}
    /\ UNCHANGED <<poolVars, list, destroyed, open, due, users, evt, inside, loopVars>>

BecomesDue(c) ==
    /\ c \in (Listed \cap Timed) \ (destroyed \cup due)
    /\ due' = due \cup {c}
    /\ UNCHANGED <<poolVars, list, destroyed, open, ready, users, evt, inside, loopVars>>

-----------------------------------------------------------------------------
(* The main thread: event_loop                                             *)

(* The poll set is built from the channels no worker uses.  poll_offset    *)
(* and fds are private to the main thread.                                 *)
BuildPollSet ==
    /\ main = "top"
    /\ cur' = list
    /\ polled' = {c \in Listed \cap open : users[c] = 0}
    /\ hit' = {} /\ fired' = FALSE
    /\ main' = "poll"
    /\ UNCHANGED <<poolVars, chanVars, inline>>

(* yaz_poll returns with what is ready among what it looked at.  The byte  *)
(* of a result may or may not be in the pipe yet.                          *)
PollReports(pipe) ==
    /\ main = "poll"
    /\ hit' = polled \cap ready
    /\ main' = IF pipe THEN "drain" ELSE "walk"
    /\ UNCHANGED <<poolVars, chanVars, inline, polled, cur, fired>>

PollPipe == results # <<>> /\ PollReports(TRUE)
PollSocket == polled \cap ready # {} /\ PollReports(FALSE)

(* Faulty: only the channels with a socket count.                          *)
PollDueSockets == (\E c \in polled \cap due : users[c] = 0) /\ PollReports(FALSE)

(* tv_sec is the least max_idle of the channels in the list that no worker *)
(* used when the set was built, so the poll ends when one of them is due.  *)
PollDue == (\E c \in Elems(cur) \cap due : users[c] = 0) /\ PollReports(FALSE)

(* The longest poll takes 300 seconds.                                     *)
PollExpires == PollReports(FALSE)

(* Faulty: of a result, only that it came is noted.                        *)
CollectResultLost ==
    /\ main = "drain"
    /\ Collect
    /\ UNCHANGED <<chanVars, loopVars>>

(* thread_users goes down when the result of a channel is collected, ...   *)
CollectResult ==
    /\ main = "drain"
    /\ Collect
    /\ users' = [users EXCEPT ![Head(results)] = @ - 1]
    /\ UNCHANGED <<list, destroyed, open, due, ready, evt, inside, loopVars>>

(* ... until sel_thread_result finds none.                                 *)
Drained ==
    /\ main = "drain" /\ results = <<>>
    /\ main' = "walk"
    /\ UNCHANGED <<poolVars, chanVars, inline, polled, hit, cur, fired>>

(* The events of the channel the walk is at.  The poll's answer counts     *)
(* only if the channel has a socket with the number that was polled.       *)
EventsOf(c) ==
    (IF c \in due THEN {"timeout"} ELSE {}) \cup (IF c \in hit \cap open THEN {"io"} ELSE {})

(* last_event is set to now.                                               *)
Touch(c) == due' = IF EventsOf(c) = {} THEN due ELSE due \ {c}

(* Faulty: the limit is on every channel.                                  *)
RationedAny(c) == EventsOf(c) = {"io"}

(* "Only fire one Z39.50/SRU socket event, except for timeout."            *)
RationedEvent(c) == c \in Connections /\ EventsOf(c) = {"io"}

(* Faulty: a channel a worker uses is fired again.                         *)
SkippedDestroyed(c) == c \in destroyed

Skipped(c) == c \in destroyed \/ users[c] > 0

SkipChannel ==
    /\ main = "walk" /\ cur # <<>> /\ Skipped(Head(cur))
    /\ cur' = Tail(cur)
    /\ UNCHANGED <<poolVars, chanVars, main, inline, polled, hit, fired>>

(* No event, or a second connection in this round: left for a later round, *)
(* although it counts as active.                                           *)
PassChannel ==
    /\ main = "walk" /\ cur # <<>>
    /\ LET c == Head(cur)
       IN  /\ ~Skipped(c)
           /\ EventsOf(c) = {} \/ (RationedEvent(c) /\ fired)
           /\ evt' = [evt EXCEPT ![c] = EventsOf(c)]
           /\ Touch(c)
    /\ cur' = Tail(cur)
    /\ UNCHANGED <<poolVars, list, destroyed, open, ready, users, inside,
                   main, inline, polled, hit, fired>>

(* run_fun, with and without a pool.                                       *)
RunFun(c) ==
    IF Workers # {}
    THEN /\ users' = [users EXCEPT ![c] = @ + 1]
         /\ Submit(c)
         /\ UNCHANGED <<main, inline>>
    ELSE /\ inline' = c /\ main' = "inline"
         /\ UNCHANGED <<poolVars, users>>

FireChannel ==
    /\ main = "walk" /\ cur # <<>>
    /\ LET c == Head(cur)
       IN  /\ ~Skipped(c)
           /\ EventsOf(c) # {} /\ ~(RationedEvent(c) /\ fired)
           /\ evt' = [evt EXCEPT ![c] = EventsOf(c)]
           /\ Touch(c)
           /\ fired' = (fired \/ RationedEvent(c))
           /\ RunFun(c)
    /\ cur' = Tail(cur)
    /\ UNCHANGED <<list, destroyed, open, ready, inside, polled, hit>>

WalkEnds ==
    /\ main = "walk" /\ cur = <<>>
    /\ main' = "sweep"
    /\ UNCHANGED <<poolVars, chanVars, inline, polled, hit, cur, fired>>

(* The list with the channels of a set taken out, the others in their      *)
(* order.                                                                  *)
Without(s, gone) ==
    LET left[i \in 0..Len(s)] ==
            IF i = 0 THEN <<>>
            ELSE IF s[i] \in gone THEN left[i - 1] ELSE Append(left[i - 1], s[i])
    IN  left[Len(s)]

(* Faulty: a destroyed channel is freed while a worker has it.             *)
SweepAll ==
    /\ main = "sweep"
    /\ LET left == Without(list, destroyed)
       IN  /\ list' = left
           /\ destroyed' = {}
           /\ open' = open \cap Elems(left)
           /\ due' = due \cap Elems(left)
           /\ ready' = ready \cap Elems(left)
           /\ main' = IF left = <<>> THEN "done" ELSE "top"
    /\ polled' = {} /\ hit' = {}
    /\ UNCHANGED <<poolVars, users, evt, inside, inline, cur, fired>>

(* iochan_destroy_real for what is destroyed and unused; the loop ends     *)
(* when no channel is left.                                                *)
Sweep ==
    /\ main = "sweep"
    /\ LET left == Without(list, {c \in destroyed : users[c] = 0})
       IN  /\ list' = left
           /\ destroyed' = destroyed \cap Elems(left)
           /\ open' = open \cap Elems(left)
           /\ due' = due \cap Elems(left)
           /\ ready' = ready \cap Elems(left)
           /\ main' = IF left = <<>> THEN "done" ELSE "top"
    /\ polled' = {} /\ hit' = {}
    /\ UNCHANGED <<poolVars, users, evt, inside, inline, cur, fired>>

-----------------------------------------------------------------------------
(* A handler: work_handler and the callbacks it makes                      *)

StartWork(w) ==
    /\ Start(w)
    /\ UNCHANGED <<chanVars, loopVars>>

(* The next callback, unless the channel was destroyed.                    *)
EnterCallback(c) ==
    /\ Executing(c) /\ c \notin inside
    /\ evt[c] # {} /\ c \notin destroyed
    /\ inside' = inside \cup {c}
    /\ UNCHANGED <<poolVars, list, destroyed, open, due, ready, users, evt, loopVars>>

(* It returns.  Events come in the order timeout, io; an io callback reads *)
(* or writes what it can.                                                  *)
LeaveCallback(c) ==
    /\ c \in inside
    /\ inside' = inside \ {c}
    /\ IF "timeout" \in evt[c]
       THEN evt' = [evt EXCEPT ![c] = @ \ {"timeout"}] /\ UNCHANGED ready
       ELSE evt' = [evt EXCEPT ![c] = {}] /\ ready' = ready \ {c}
    /\ UNCHANGED <<poolVars, list, destroyed, open, due, users, loopVars>>

HandlerReturned(c) == c \notin inside /\ (evt[c] = {} \/ c \in destroyed)

FinishWork(w) ==
    /\ running[w] # None /\ HandlerReturned(running[w])
    /\ Finish(w)
    /\ UNCHANGED <<chanVars, loopVars>>

FinishInline ==
    /\ main = "inline" /\ HandlerReturned(inline)
    /\ inline' = None /\ main' = "walk"
    /\ UNCHANGED <<poolVars, chanVars, polled, hit, cur, fired>>

(* iochan_destroy of a channel of this manager.                            *)
DestroyChannel(d) ==
    /\ inside # {} /\ d \in Listed \ destroyed
    /\ destroyed' = destroyed \cup {d}
    /\ UNCHANGED <<poolVars, list, open, due, ready, users, evt, inside, loopVars>>

(* iochan_create and iochan_add; a channel beyond the limit is refused and *)
(* freed at once by its creator.                                           *)
AtLimit(d) ==
    /\ Slack[d] >= 0 /\ LimitFd > 0
    /\ Cardinality(Listed \cap open) >= LimitFd - Slack[d]

AddChannel(d, hasFd) ==
    /\ inside # {} /\ d \notin Listed /\ ~AtLimit(d)
    /\ list' = <<d>> \o list
    /\ open' = IF hasFd THEN open \cup {d} ELSE open \ {d}
    /\ evt' = [evt EXCEPT ![d] = {}]
    /\ UNCHANGED <<poolVars, destroyed, due, ready, users, inside, loopVars>>

(* iochan_setfd: no socket, or a new one, which may have the number of the *)
(* one that was closed: then the poll's answer is taken for its own.       *)
SetFd(d, fd) ==
    /\ inside # {} /\ d \in Listed \ destroyed
    /\ open' = IF fd = "none" THEN open \ {d} ELSE open \cup {d}
    /\ ready' = ready \ {d}
    /\ IF fd = "other" THEN polled' = polled \ {d} /\ hit' = hit \ {d}
       ELSE UNCHANGED <<polled, hit>>
    /\ UNCHANGED <<poolVars, list, destroyed, due, users, evt, inside,
                   main, inline, cur, fired>>

(* iochan_settimeout and iochan_activity.                                  *)
SetTimeout(d) ==
    /\ inside # {} /\ d \in (Listed \cap due) \ destroyed
    /\ due' = due \ {d}
    /\ UNCHANGED <<poolVars, list, destroyed, open, ready, users, evt, inside, loopVars>>

-----------------------------------------------------------------------------
Terminated == main = "done" /\ UNCHANGED vars

Round ==
    \/ BuildPollSet \/ PollSocket \/ PollDue \/ CollectResult \/ Drained
    \/ SkipChannel \/ PassChannel \/ FireChannel \/ WalkEnds \/ Sweep
    \/ FinishInline

Callback(c) == EnterCallback(c) \/ LeaveCallback(c)

Next ==
    \/ Round \/ PollPipe \/ PollExpires \/ Terminated
    \/ \E w \in Workers : StartWork(w) \/ FinishWork(w)
    \/ \E c \in Channels :
          \/ SocketReady(c) \/ BecomesDue(c) \/ Callback(c)
          \/ DestroyChannel(c) \/ SetTimeout(c)
          \/ \E hasFd \in BOOLEAN : AddChannel(c, hasFd)
          \/ \E fd \in NewFds : SetFd(c, fd)

Spec == Init /\ [][Next]_vars

(* The main thread and the workers are scheduled, callbacks return, and    *)
(* the byte of a result gets into the pipe.  Nothing here makes a poll end *)
(* with no reason: the properties do not depend on its 300 seconds.        *)
Fairness ==
    /\ WF_vars(Round) /\ SF_vars(PollPipe)
    /\ \A w \in Workers : WF_vars(StartWork(w)) /\ WF_vars(FinishWork(w))
    /\ \A c \in Channels : WF_vars(EnterCallback(c)) /\ WF_vars(LeaveCallback(c))

FairSpec == Spec /\ Fairness
=============================================================================
