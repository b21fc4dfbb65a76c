--------------------------- MODULE SettingsProps ---------------------------
(***************************************************************************)
(* What should hold of settings: of those that overlap the right one       *)
(* counts, and what a session sets is its own.                             *)
(***************************************************************************)
EXTENDS Settings

(* The places of the <set> elements for d by that name, as they were read. *)
SetsFor(d, name) ==
    {i \in DOMAIN taken : taken[i].name = name /\ d \in taken[i].target.ids}

(* Of higher or equal precedence, and with as little of a wildcard: where  *)
(* both say the same, c1 counts as much as c2, or more.                    *)
AtLeast(c1, c2) == c1.precedence >= c2.precedence /\ c1.target.wild <= c2.target.wild
Outranks(c1, c2) == AtLeast(c1, c2) /\ ~AtLeast(c2, c1)

(* A default limitmap of that name, which has precedence 0 and no target,  *)
(* may be in its way.                                                      *)
KeptOut(c) ==
    /\ \E x \in DefaultSet : x.name = c.name
    /\ ~AtLeast(c, [precedence |-> 0, target |-> NoTarget])

(* What the list of d has of the <set> elements by that name.              *)
Applied(d, name) ==
    SelectSeq(List(nodes, database[d][OffsetOf(name)]),
              LAMBDA n : nodes[n].name = name /\ nodes[n].target # NoTarget)

IsOf(n, c) ==
    /\ nodes[n].target = c.target /\ nodes[n].precedence = c.precedence
    /\ nodes[n].valueBy = Service => nodes[n].value = c.value

(* Whatever the order in which files are read: a setting that applies to a *)
(* database is for it, and none that applies is there beside one of higher *)
(* precedence with no more of a wildcard, or one with less of a wildcard   *)
(* and no lower precedence; when one is at least the equal of all others,  *)
(* those like it apply, all of them, the last that was read first          *)
(* (update_database_fun).                                                  *)
(*                                                                         *)
(* It says nothing of a setting for a target beside a wildcard of higher   *)
(* precedence: the code takes the wildcard (settings.c:444), but           *)
(* doc/pazpar2_conf.xml:1013 the setting for the target, as precedence     *)
(* would only decide between settings for the same target.  Nor does it    *)
(* say that default limitmaps stay, which they do not (settings.c:447).    *)
SettingsResolved ==
    \A d \in Known, name \in Names :
        LET sets == SetsFor(d, name)
            free == {i \in sets : ~KeptOut(taken[i])}
            best == {i \in sets : \A j \in sets : AtLeast(taken[i], taken[j])}
            applied == Applied(d, name)
        IN  /\ \A k \in DOMAIN applied : \E i \in sets :
                 IsOf(applied[k], taken[i]) /\ ~\E j \in free : Outranks(taken[j], taken[i])
            /\ free # {} => applied # <<>>
            /\ best # {} /\ best \subseteq free =>
                 LET last == Reverse(SetToSortSeq(best, <))
                 IN  /\ Len(applied) = Len(last)
                     /\ \A k \in DOMAIN last : IsOf(applied[k], taken[last[k]])

Seen(s, d, name) ==
    LET n == Find(nodes, session[s].table[d], name) IN IF n = 0 THEN NoValue ELSE nodes[n].value

(* A node of the configuration for exactly this target: sessions that set  *)
(* it write into it, so it is left out of what follows.                    *)
Shared(s, d, name) ==
    LET n == Find(nodes, session[s].table[d], name)
    IN  n # 0 /\ Exact(nodes[n], d, name) /\ nodes[n].by = Service

(* "Clients ... can selectively override settings for individual targets   *)
(* within the scope of one session" (doc/pazpar2_conf.xml:896): what a     *)
(* session sets, it sees; and what it sees of a target changes by a        *)
(* settings command of its own for just that (session_apply_setting).      *)
OverrideScoped ==
    [][\A s \in Sessions : session[s].up /\ session'[s].up =>
          /\ \A v \in Overrides : SessionApplySetting(s, v) => Seen(s, v.id, v.name)' = v.value
          /\ \A d \in DOMAIN session[s].table, name \in Names :
                Seen(s, d, name)' # Seen(s, d, name) =>
                    \/ Shared(s, d, name)
                    \/ \E v \in Overrides : v.id = d /\ v.name = name
                                             /\ SessionApplySetting(s, v)]_vars

(* The same without an exception: of what a session sees, each value is    *)
(* from the configuration or its own.  It is not so for a setting that the *)
(* configuration has for exactly the target: a session writes into the     *)
(* node of the service, which the tables of all sessions lead to           *)
(* (session_apply_setting).                                                *)
OverridesWithinSession ==
    \A s \in Sessions : session[s].up =>
        \A d \in DOMAIN session[s].table, name \in Names :
            LET n == Find(nodes, session[s].table[d], name)
            IN  n # 0 => nodes[n].valueBy \in {Service, s}

(* A connection that a session goes on using was made with the settings it *)
(* has now: none outlives a settings command, also of a target that no     *)
(* search took since (session_search, session_remove_cached_clients).      *)
ClientsUpToDate ==
    \A s \in Sessions : session[s].up /\ ~session[s].modified =>
        \A d \in DOMAIN session[s].table :
            session[s].conn[d] # NoConn /\ ~Shared(s, d, PzAuth) =>
                session[s].conn[d].auth = ValueOf(s, d, PzAuth)
=============================================================================
