---------------------------- MODULE SearchState ----------------------------
(***************************************************************************)
(* The state of a pazpar2 session: the targets (clients) it searches,      *)
(* their connections to the outside, and the HTTP channels whose commands  *)
(* search, stop, show and wait.  Client, Session and Metasearch are the    *)
(* steps of client.c and connection.c, session.c, and http_command.c.      *)
(*                                                                         *)
(* The handlers of the event loop that matter are those of the HTTP        *)
(* channels (Chans) and of the target connections (Conns).  A handler in   *)
(* progress is a sequence of things left to do, its agenda; one step does  *)
(* the first of them and may put others in its place, as a C function      *)
(* calls others.  What the code does under one mutex is one step.  With    *)
(* Threaded = FALSE (`threads` 0, the default) a handler runs to its end   *)
(* before another starts; otherwise handlers interleave.                   *)
(*                                                                         *)
(* Records, hits and offsets are reduced to `records`: is there a record   *)
(* in the result list.  The watch on bytarget is that on termlist: the     *)
(* code sets and alerts the two in the same places.                        *)
(***************************************************************************)
EXTENDS Naturals, Sequences, FiniteSets

CONSTANTS
    Clients,    \* the struct client objects that can exist
    Target,     \* the target of each client
    Preferred,  \* the clients with pz:preferred
    Conns,      \* the struct connection objects that can exist
    Chans,      \* the HTTP channels
    None,
    Threaded,   \* `threads` > 0
    ExtendRecs, \* pz:extendrecs is set
    Commands,   \* the commands the user may issue
    BadSearches \* ways a search may go wrong

Threads == Chans \cup Conns

AllCommands == {"search", "stop", "show", "showpref", "termlist", "record", "settings"}
Watches == {"show", "pref", "termlist", "record"}
ClientStates == {"Connecting", "Idle", "Working", "Error", "Disconnected"}
LinkStates == {"idle",        \* ZOOM_connection_is_idle
               "connecting",  \* nothing to do but to connect
               "queued",      \* a task is queued, no APDU sent
               "sent",        \* an APDU was sent
               "received",    \* the response was reported, its END was not
               "queued2", "sent2", "received2"}   \* likewise, and other tasks wait behind it

ASSUME SearchStateAssumption ==
    /\ Commands \subseteq AllCommands
    /\ BadSearches \subseteq {"targets", "limit", "query"}
    /\ Preferred \subseteq Clients
    /\ Threaded \in BOOLEAN /\ ExtendRecs \in BOOLEAN
    /\ None \notin Clients \cup Conns \cup Chans
    /\ Chans \cap Conns = {}

VARIABLES
    active,     \* clients_active
    cached,     \* clients_cached
    starting,   \* clients_starting
    modified,   \* settings_modified
    records,    \* reclist_get_num_records(reclist) > 0
    watch,      \* watchlist: the channel that waits, per watch
    smutex,     \* session_mutex kept across steps: its holder, once per entry
    state,      \* cl->state
    conn,       \* cl->connection
    sess,       \* cl->session # 0
    fetched,    \* the clients with cl->record_offset > cl->startrecs
    ref,        \* cl->ref_count, 0 when freed
    cmutex,     \* cl->mutex: its holder, once per entry
    alive,      \* the connections that exist
    owner,      \* co->client
    busy,       \* co->link
    polled,     \* the connections whose iochan has a socket
    agenda,     \* what each handler has left to do
    due         \* the channels with a request that got no response yet

sessionVars == <<active, cached, starting, modified, records, watch, smutex>>
clientVars == <<state, conn, sess, fetched, ref, cmutex>>
connVars == <<alive, owner, busy, polled>>
vars == <<sessionVars, clientVars, connVars, agenda, due>>

Init ==
    /\ active = {} /\ cached = {} /\ starting = FALSE /\ modified = FALSE
    /\ records = FALSE /\ watch = [w \in Watches |-> None] /\ smutex = <<>>
    /\ state = [c \in Clients |-> "Disconnected"]
    /\ conn = [c \in Clients |-> None]
    /\ sess = [c \in Clients |-> FALSE]
    /\ fetched = {}
    /\ ref = [c \in Clients |-> 0]
    /\ cmutex = [c \in Clients |-> <<>>]
    /\ alive = {} /\ owner = [k \in Conns |-> None] /\ busy = [k \in Conns |-> "idle"]
    /\ polled = {}
    /\ agenda = [t \in Threads |-> <<>>]
    /\ due = {}

-----------------------------------------------------------------------------
(* Handlers and agendas                                                    *)

Running(t) == agenda[t] # <<>>
Does(t, op) == Running(t) /\ Head(agenda[t])[1] = op
Arg(t) == Head(agenda[t])[2]

(* A handler starts when its channel is not being handled, and without     *)
(* threads when nothing is.                                                *)
MayStart(t) == ~Running(t) /\ (Threaded \/ \A u \in Threads : ~Running(u))
Starts(t, ops) == agenda' = [agenda EXCEPT ![t] = ops]

(* The step is done; ops come before what was left.                        *)
Then(t, ops) == agenda' = [agenda EXCEPT ![t] = ops \o Tail(@)]
Done(t) == Then(t, <<>>)

(* yaz mutexes are recursive.                                              *)
MayEnter(t, mutex) == \A i \in DOMAIN mutex : mutex[i] = t
EntersSession(t) == MayEnter(t, smutex)
LocksClient(t, c) == MayEnter(t, cmutex[c])

-----------------------------------------------------------------------------
(* client_is_active and the counts of session.c built on it                *)

Busy == {"Connecting", "Working"}
IsActive(c) == conn[c] # None /\ state[c] \in Busy
NoActive == \A c \in active : ~IsActive(c)
PreferredReady == \A c \in active \cap Preferred : ~IsActive(c)

Alert(w) == <<"session_alert_watch", w>>

(* Faulty: forgets those who wait for the preferred targets.               *)
AlertAllButPref == << Alert("show"), Alert("termlist") >>

AlertAll == << Alert("show"), Alert("termlist"), Alert("pref") >>

(* Faulty: only a client that is done without an error releases.           *)
ReleasesOnIdle(c, st) ==
    /\ IsActive(c) /\ st = "Idle" /\ sess[c]
    /\ \A d \in active \ {c} : ~IsActive(d)

(* client_set_state: a client that goes from active to inactive as the     *)
(* last one of the session releases the watches.                           *)
Releases(c, st) ==
    /\ IsActive(c) /\ st \notin Busy /\ sess[c]
    /\ \A d \in active \ {c} : ~IsActive(d)

SetState(t, c, st, after) ==
    /\ state' = [state EXCEPT ![c] = st]
    /\ Then(t, (IF Releases(c, st) THEN AlertAll ELSE <<>>) \o after)
=============================================================================
