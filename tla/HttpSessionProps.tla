-------------------------- MODULE HttpSessionProps --------------------------
(***************************************************************************)
(* What the life of HTTP sessions promises.                                *)
(***************************************************************************)
EXTENDS HttpSession

(* Every variable keeps its type.                                          *)
TypeOK ==
    /\ listed \subseteq Sessions /\ dying \subseteq Sessions /\ freed \subseteq Sessions
    /\ activity \in [Sessions -> Nat]
    /\ destroyed \in [Sessions -> Nat]
    /\ using \in [Chans -> Sessions \cup {None}]
    /\ owed \in [Sessions -> Nat]
    /\ phase \in [Chans -> Phases]
    /\ watch \in [Sessions -> [Watches -> Chans \cup {None}]]

(* activity_counter - destroy_counter is the number of commands that have  *)
(* the session: every path of every command releases what it located, once.*)
CountersExact ==
    \A s \in Sessions : activity[s] = destroyed[s] + Cardinality(Users(s)) + owed[s]

(* No command has a session that is being destroyed or was: it cannot be   *)
(* located any more, and it was not while somebody had it, be it only to   *)
(* return after it set its watch.                                          *)
UsedIsListed ==
    /\ \A h \in Chans : using[h] # None => using[h] \in listed
    /\ \A s \in Sessions : owed[s] > 0 => s \in listed

(* A session is in the list, on its way out, or gone.                      *)
OneStage == listed \cap (dying \cup freed) = {} /\ dying \cap freed = {}

(* A channel that waits does so in one watch, and only channels that wait  *)
(* are in watches: an alert never finds a channel that was destroyed or    *)
(* was answered otherwise.                                                 *)
WatchesTrue ==
    \A h \in Chans :
        Cardinality({p \in Sessions \X Watches : watch[p[1]][p[2]] = h})
            = (IF phase[h] = "blocked" THEN 1 ELSE 0)

-----------------------------------------------------------------------------
(* A session that nobody uses is destroyed, unless somebody uses it again: *)
(* a destroy that was delayed by a command is done after it.               *)
IdleSessionsGo ==
    \A s \in Sessions : s \in listed ~> (s \in freed \/ \E h \in Chans : using[h] = s)
=============================================================================
