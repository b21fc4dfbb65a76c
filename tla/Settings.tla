------------------------------ MODULE Settings ------------------------------
(***************************************************************************)
(* Target settings (settings.c, database.c, session.c): what the           *)
(* configuration sets for databases, with precedence and wildcards, what   *)
(* sessions set for themselves, and the targets and connections that a     *)
(* search takes accordingly.                                               *)
(*                                                                         *)
(* Settings are list nodes that databases and sessions share, so there is  *)
(* a heap: a node is named by its place in `nodes`, 0 is the null pointer. *)
(* A node and its value belong to the memory of the service or of a        *)
(* session.  A table of settings maps each offset of the dictionary to the *)
(* first node of a list: all settings pz:x:... have one offset.            *)
(***************************************************************************)
EXTENDS Integers, FiniteSets, SequencesExt

CONSTANTS
    Databases,      \* target ids
    Names,          \* names of settings
    OffsetOf(_),    \* settings_index_lookup
    SettingFiles,   \* files of <set> elements: [name, target, precedence, value], where
                    \* a target is [wild, ids]: the kind of wildcard, what it matches
    DefaultSet,     \* the limitmaps of the metadata of the service: [name, value]
    Sessions,       \* each is created once
    Overrides,      \* what settings commands may say: [id, name, value]
    Filters,        \* of searches: [union, criteria], a criterion is [name, values]
    PzAllow, PzName, PzAuth     \* names

Service == 0

(* What a <set> element may say: a target that is no wildcard is for one   *)
(* database.                                                               *)
IsSetting(c) ==
    /\ c.name \in Names /\ c.precedence \in Int
    /\ c.target = [wild |-> c.target.wild, ids |-> c.target.ids]
    /\ c.target.wild \in 0 .. 2 /\ c.target.ids \subseteq Databases
    /\ c.target.wild = 0 => \E d \in Databases : c.target.ids = {d}

ASSUME SettingsAssumption ==
    /\ IsFiniteSet(Databases) /\ IsFiniteSet(DefaultSet)
    /\ {PzAllow, PzName, PzAuth} \subseteq Names
    /\ Service \notin Sessions
    /\ \A f \in SettingFiles : f \in Seq(Range(f)) /\ \A c \in Range(f) : IsSetting(c)
    /\ \A x \in DefaultSet : x.name \in Names
    /\ \A v \in Overrides : v.id \in Databases /\ v.name \in Names

VARIABLES
    nodes,          \* the heap
    database,       \* the tables of the databases of the service
    unread,         \* the files that pass 2 has still to read
    taken,          \* the <set> elements it came to, in their order
    session         \* the sessions

vars == <<nodes, database, unread, taken, session>>

Offsets == {OffsetOf(n) : n \in Names}
NoTable == [o \in Offsets |-> 0]
NoTarget == [wild |-> 0, ids |-> {}]
NoValue == -1
NoConn == [none |-> TRUE]

(* pass 1: a target that is no wildcard is a database of the service.      *)
SettingSet == UNION {Range(f) : f \in SettingFiles}
Known == UNION {c.target.ids : c \in {x \in SettingSet : x.target.wild = 0}}

NewNode(heap, node) == Append(heap, node)

(* initialize_soft_settings, which each new database starts from: the      *)
(* default limitmaps, for no target at all.                                *)
DefaultNodes ==
    LET ds == SetToSeq(DefaultSet)
    IN  [i \in DOMAIN ds |->
           [name |-> ds[i].name, target |-> NoTarget, precedence |-> 0, value |-> ds[i].value,
            by |-> Service, valueBy |-> Service,
            next |-> Max({0} \cup {j \in 1 .. i - 1 : OffsetOf(ds[j].name) = OffsetOf(ds[i].name)})]]

DefaultTable ==
    [o \in Offsets |-> Max({0} \cup {i \in DOMAIN DefaultNodes : OffsetOf(DefaultNodes[i].name) = o})]

NoSession == [up |-> FALSE, gone |-> FALSE, table |-> [d \in {} |-> NoTable], modified |-> FALSE,
              conn |-> [d \in Databases |-> NoConn], active |-> {}]

Init ==
    /\ nodes = DefaultNodes
    /\ database = [d \in Known |-> DefaultTable]
    /\ unread = SettingFiles
    /\ taken = <<>>
    /\ session = [s \in Sessions |-> NoSession]

-----------------------------------------------------------------------------
(* Lists                                                                   *)

(* The nodes from n on.                                                    *)
List(heap, n) ==
    LET from[m \in 0 .. Len(heap)] == IF m = 0 THEN <<>> ELSE <<m>> \o from[heap[m].next]
    IN  from[n]

(* Faulty: a wildcard counts as much as the target itself.                 *)
RankNoWild(heap, n, c) == heap[n].precedence - c.precedence

(* update_database_fun: below 0 a node that the new setting c replaces,    *)
(* above 0 one that keeps it out.                                          *)
Rank(heap, n, c) ==
    IF heap[n].precedence # c.precedence THEN heap[n].precedence - c.precedence
    ELSE c.target.wild - heap[n].target.wild

(* The search for settings that c overrides: what `sp` points to is the    *)
(* next field of node `sp`, or the table when that is 0.                   *)
ScanNode(st, n, c) ==
    IF st.stop THEN st
    ELSE IF st.heap[n].name # c.name \/ Rank(st.heap, n, c) = 0 THEN [st EXCEPT !.sp = n]
    ELSE IF Rank(st.heap, n, c) > 0 THEN [st EXCEPT !.stop = TRUE]
    ELSE IF st.sp = 0 THEN [st EXCEPT !.first = st.heap[n].next]
    ELSE [st EXCEPT !.heap[st.sp].next = st.heap[n].next]

(* update_database_fun, for a database that c is for: [heap, table].       *)
Update(heap, table, c) ==
    LET o == OffsetOf(c.name)
        scan == FoldLeft(LAMBDA st, n : ScanNode(st, n, c),
                         [heap |-> heap, first |-> table[o], sp |-> 0, stop |-> FALSE],
                         List(heap, table[o]))
        node == [name |-> c.name, target |-> c.target, precedence |-> c.precedence,
                 value |-> c.value, by |-> Service, valueBy |-> Service, next |-> scan.first]
    IN  IF scan.stop
        THEN [heap |-> scan.heap, table |-> [table EXCEPT ![o] = scan.first]]
        ELSE [heap |-> NewNode(scan.heap, node),
              table |-> [table EXCEPT ![o] = Len(scan.heap) + 1]]

(* The first node from n on that is like that, or 0.                       *)
FirstFrom(heap, n, IsLike(_)) ==
    LET from[m \in 0 .. Len(heap)] ==
            IF m = 0 THEN 0 ELSE IF IsLike(m) THEN m ELSE from[heap[m].next]
    IN  from[n]

(* The first setting of that name: session_setting_oneval is the first of  *)
(* the list, the settings pz:x:... are searched by their name.             *)
Find(heap, table, name) ==
    FirstFrom(heap, table[OffsetOf(name)], LAMBDA n : heap[n].name = name)

-----------------------------------------------------------------------------
(* update_databases: one <set> element, for every database it is for, in   *)
(* the order of the list of the service.                                   *)
UpdateDatabases(st, c) ==
    FoldLeft(LAMBDA r, d :
                 LET u == Update(r.heap, r.db[d], c)
                 IN  [heap |-> u.heap, db |-> [r.db EXCEPT ![d] = u.table]],
             st, SetToSeq(Known \cap c.target.ids))

(* pass 2: a file is read to its end.  Those of a directory come in any    *)
(* order.                                                                  *)
ReadSettingsFile(f) ==
    /\ f \in unread
    /\ LET st == FoldLeft(UpdateDatabases, [heap |-> nodes, db |-> database], f)
       IN  nodes' = st.heap /\ database' = st.db
    /\ unread' = unread \ {f}
    /\ taken' = taken \o f
    /\ UNCHANGED session

Served == unread = {}

(* session_init_databases: the tables are copied, the nodes are shared.    *)
SessionCreate(s) ==
    /\ Served /\ ~session[s].up /\ ~session[s].gone
    /\ session' = [session EXCEPT ![s].up = TRUE, ![s].table = database]
    /\ UNCHANGED <<nodes, database, unread, taken>>

(* Faulty: the new setting goes to the end of the list.                    *)
PutLast(heap, first, node) ==
    LET list == List(heap, first)
        new == NewNode(heap, [node EXCEPT !.next = 0])
    IN  IF list = <<>> THEN [heap |-> new, first |-> Len(new)]
        ELSE [heap |-> [new EXCEPT ![Last(list)].next = Len(new)], first |-> first]

PutFirst(heap, first, node) ==
    [heap |-> NewNode(heap, [node EXCEPT !.next = first]), first |-> Len(heap) + 1]

(* A setting of that name for exactly that target.                         *)
Exact(node, id, name) == node.name = name /\ node.target = [wild |-> 0, ids |-> {id}]

(* session_apply_setting: a setting of this name for exactly this target   *)
(* gets the value; there may be one from the configuration.                *)
SessionApplySetting(s, v) ==
    /\ session[s].up
    /\ LET table == IF v.id \in DOMAIN session[s].table THEN session[s].table[v.id]
                    ELSE DefaultTable
           o == OffsetOf(v.name)
           same == FirstFrom(nodes, table[o], LAMBDA n : Exact(nodes[n], v.id, v.name))
           put == PutFirst(nodes, table[o],
                           [name |-> v.name, target |-> [wild |-> 0, ids |-> {v.id}],
                            precedence |-> 0, value |-> v.value, by |-> s, valueBy |-> s,
                            next |-> 0])
           mine == IF same = 0 THEN [table EXCEPT ![o] = put.first] ELSE table
       IN  /\ nodes' = IF same = 0 THEN put.heap
                       ELSE [nodes EXCEPT ![same].value = v.value, ![same].valueBy = s]
           /\ session' = [session EXCEPT ![s].modified = TRUE,
                             ![s].table = [d \in DOMAIN @ \cup {v.id} |->
                                              IF d = v.id THEN mine ELSE @[d]]]
    /\ UNCHANGED <<database, unread, taken>>

-----------------------------------------------------------------------------
(* Searching                                                               *)

ValueOf(s, d, name) ==
    LET n == session[s].table[d][OffsetOf(name)]
    IN  IF n = 0 THEN NoValue ELSE nodes[n].value

(* match_criterion.                                                        *)
MatchCriterion(s, d, cr) ==
    /\ session[s].table[d][OffsetOf(cr.name)] # 0
    /\ ValueOf(s, d, cr.name) \in cr.values

(* database_match_criteria.                                                *)
MatchCriteria(s, d, filter) ==
    IF filter.union THEN \E cr \in filter.criteria : MatchCriterion(s, d, cr)
    ELSE \A cr \in filter.criteria : MatchCriterion(s, d, cr)

(* session_grep_databases: 0 is the value of pz:allow that forbids.        *)
Grep(s, filter) ==
    {d \in DOMAIN session[s].table :
        /\ ~(session[s].table[d][OffsetOf(PzAllow)] # 0 /\ ValueOf(s, d, PzAllow) = 0)
        /\ session[s].table[d][OffsetOf(PzName)] # 0
        /\ MatchCriteria(s, d, filter)}

(* Faulty: only the clients that are active go.                            *)
CachedClientsActive(s) ==
    IF session[s].modified
    THEN [d \in Databases |-> IF d \in session[s].active THEN NoConn ELSE session[s].conn[d]]
    ELSE session[s].conn

(* session_remove_cached_clients if settings were modified: the clients    *)
(* and their connections go.                                               *)
CachedClients(s) ==
    IF session[s].modified THEN [d \in Databases |-> NoConn] ELSE session[s].conn

(* session_search: clients that are cached keep their connections, which   *)
(* were made with the settings of then.                                    *)
SessionSearch(s, filter) ==
    /\ session[s].up
    /\ LET selected == Grep(s, filter)
           kept == CachedClients(s)
       IN  session' = [session EXCEPT ![s].modified = FALSE, ![s].active = selected,
              ![s].conn = [d \in Databases |->
                 IF d \in selected /\ kept[d] = NoConn
                 THEN [auth |-> ValueOf(s, d, PzAuth)] ELSE kept[d]]]
    /\ UNCHANGED <<nodes, database, unread, taken>>

(* session_destroy, and the memory of the session.                         *)
SessionDestroy(s) ==
    /\ session[s].up
    /\ session' = [session EXCEPT ![s] = [NoSession EXCEPT !.gone = TRUE]]
    /\ UNCHANGED <<nodes, database, unread, taken>>

Next ==
    \/ \E f \in SettingFiles : ReadSettingsFile(f)
    \/ \E s \in Sessions :
        \/ SessionCreate(s) \/ SessionDestroy(s)
        \/ \E v \in Overrides : SessionApplySetting(s, v)
        \/ \E filter \in Filters : SessionSearch(s, filter)

Spec == Init /\ [][Next]_vars
=============================================================================
