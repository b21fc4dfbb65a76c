------------------------------ MODULE Records ------------------------------
(***************************************************************************)
(* The records of a session, from the targets' result sets to the pages a  *)
(* user sees: searches, records coming in, sorting, showing, fetching more.*)
(* It composes Fetch, Ingest and RecordList.  One handler runs at a time,  *)
(* under the mutex of the session; Metasearch has the interleavings inside *)
(* handlers, the watches and the lifetimes of clients and connections.     *)
(***************************************************************************)
EXTENDS Fetch

CONSTANTS
    SortParams,     \* the sort orders of show commands: sequences of parameters
    Searches,       \* searches: [targets, query, sort, limit, range, mergekey]; a
                    \* limit is a sequence of [field, words], a range [start, max] or None
    Sorts,          \* sorts: [sort, mergekey]; a mergekey is <<>> for none, or <<fields>>
    Pages           \* start and num of show commands: [start, num]

(* Each field is listed once: conf_service_metadata_field_id gives the     *)
(* values of a second one of the name to the first (pazpar2_config.c:233). *)
(* Then the merge types there are, and that a year, and no other, is       *)
(* merged into a range: the first is enforced by                           *)
(* conf_service_add_metadata (pazpar2_config.c:192); a range over another  *)
(* type would read the text of a value as a number, and is left out.       *)
ASSUME FieldsAssumption ==
    /\ FieldOrder \in Seq(Fields) /\ Elems(FieldOrder) = Fields
    /\ \A i, j \in DOMAIN FieldOrder : FieldOrder[i] = FieldOrder[j] => i = j
    /\ \A f \in Fields :
          /\ Service[f].rank \in Nat
          /\ Service[f].merge \in {"no", "first", "unique", "longest", "all", "range"}
          /\ Service[f].type = "year" <=> Service[f].merge = "range"

(* A value that a field can have.                                          *)
IsValue(f, v) ==
    IF Service[f].type = "year" THEN v.min \in Int /\ v.max \in Int ELSE v.word \in Int

(* Documents are sequences of records, these of values in each field, and  *)
(* a target reports facets as a sequence of terms of fields.               *)
ASSUME DocumentsAssumption ==
    \A c \in Clients, q \in Queries :
        /\ ResultSet[c][q] \in Seq(Elems(ResultSet[c][q]))
        /\ \A doc \in Elems(ResultSet[c][q]) :
              /\ doc.subs \in Seq(Elems(doc.subs))
              /\ \A sub \in Elems(doc.subs), f \in Fields :
                    sub.md[f] \in Seq({v \in Elems(sub.md[f]) : IsValue(f, v)})
        /\ Reported[c][q] \in Seq(Fields \X Terms)

ASSUME SearchesAssumption ==
    \A r \in Searches : /\ r.targets \subseteq Clients /\ r.query \in Queries
                        /\ r.range # None => r.range.start \in Nat

(* The mergekey that a session can have, the keys that documents can have, *)
(* and the table, which has a place for each of them.                      *)
SessionKeys == {<<>>} \cup {Head(r.mergekey) : r \in {x \in Searches \cup Sorts : x.mergekey # <<>>}}
KeysOf(c, q) ==
    {MergeKey([mergekey |-> mk], sub, c, pos) :
        mk \in SessionKeys, sub \in UNION {Elems(doc.subs) : doc \in Elems(ResultSet[c][q])},
        pos \in 1 .. Len(ResultSet[c][q])}

ASSUME HashAssumption ==
    /\ HashSize \in Nat
    /\ \A c \in Clients, q \in Queries :
          \A k \in KeysOf(c, q) : k \in Seq(Int) /\ Hash(k) \in Buckets

(* A sort order names sort keys, which have the type of their field        *)
(* (reclists.c:131).                                                       *)
ASSUME SortsAssumption ==
    \A sp \in SortParams :
        /\ sp \in Seq(Elems(sp))
        /\ \A s \in Elems(sp) :
              \/ s.type \in {"relevance", "retrieval", "position"}
              \/ /\ s.field \in Fields
                 /\ s.type = IF Service[s.field].type = "year" THEN "date" ELSE "generic"

VARIABLES
    set,            \* what session_clear_set throws away, see Ingest
    session,        \* se->mergekey, se->facet_limits, sorted_results, force_position
    client          \* the clients

vars == <<set, session, client>>

ByPosition == <<[type |-> "position", field |-> Head(FieldOrder), increasing |-> TRUE]>>

Init ==
    /\ set = EmptySet
    /\ session = [mergekey |-> <<>>, limit |-> <<>>, sorted |-> {}, force |-> FALSE,
                  searched |-> FALSE]
    /\ client = [c \in Clients |-> FreshClient]

Active == {c \in Clients : client[c].active}

(* The clients of a list, in some fixed order.                             *)
InOrder(S) == SetToSeq(S)

(* client_start_search for one client after the other.                     *)
StartAll(st, sess, S, connect) ==
    FoldLeft(LAMBDA s, c : StartSearch(s, sess, c, connect[c]), st, InOrder(S))

(* What becomes of the connections that have to be made.                   *)
Outcomes(c) ==
    IF client[c].conn THEN {"made"}
    ELSE {"made", "refused"} \cup (IF client[c].state = "Idle" THEN {"full"} ELSE {})
Connects(S) == {f \in [S -> {"made", "refused", "full"}] : \A c \in S : f[c] \in Outcomes(c)}

(* session_clear_set.                                                      *)
ClearSet == EmptySet

-----------------------------------------------------------------------------
(* Commands                                                                *)

WithMergeKey(sess, mk) == IF mk = <<>> THEN sess ELSE [sess EXCEPT !.mergekey = Head(mk)]

(* A client that is selected for a search.                                 *)
Prepare(c, query, sp, range) ==
    [ParseSort(c, ParseRange(ParseQuery([client[c] EXCEPT !.same = TRUE], query), range), Head(sp))
        EXCEPT !.active = TRUE]

(* same_search is set again before it is next looked at.                   *)
Done(cls) == [c \in Clients |-> [cls[c] EXCEPT !.same = FALSE]]

(* session_search, when all queries parse: so all selected clients count   *)
(* for force_position.                                                     *)
SessionSearch(S, query, sp, limit, range, mk, connect) ==
    LET sess == [WithMergeKey(session, mk) EXCEPT
                   !.limit = limit, !.sorted = {Head(sp)}, !.searched = TRUE,
                   !.force = Cardinality(S) = 1 /\ \A c \in S : Head(sp).field \in SortMap[c]]
        prepared == [c \in Clients |-> IF c \in S THEN Prepare(c, query, sp, range)
                                       ELSE [client[c] EXCEPT !.active = FALSE]]
        st == StartAll([set |-> ClearSet, client |-> prepared], sess, S, connect)
    IN  /\ session' = sess
        /\ set' = st.set
        /\ client' = Done(st.client)

(* session_sort: a sort order that a target has to be asked for, or merge  *)
(* keys that change the clusters, start from an empty list again.          *)
SessionSort(sp, mk, connect) ==
    LET newKey == mk # <<>> /\ Head(mk) # session.mergekey
        sess == WithMergeKey(session, mk)
        parsed == [c \in Clients |->
                     IF client[c].active
                     THEN ParseSort(c, [client[c] EXCEPT !.same = TRUE], Head(sp))
                     ELSE client[c]]
        research == newKey \/ \E c \in Active : ~parsed[c].same
        running == {c \in Active : client[c].state \in {"Working", "Idle"}}
        st == StartAll([set |-> ClearSet, client |-> parsed], sess, running, connect)
    IN  IF ~newKey /\ Head(sp) \in session.sorted
        THEN UNCHANGED vars
        ELSE IF ~research
        THEN /\ session' = [sess EXCEPT !.sorted = @ \cup {Head(sp)}]
             /\ client' = Done(parsed)
             /\ UNCHANGED set
        ELSE /\ session' = [sess EXCEPT !.sorted = {Head(sp)}, !.force = FALSE]
             /\ set' = st.set
             /\ client' = Done(st.client)

Limited(lazy) ==
    Limit(set.list,
          {i \in DOMAIN set.list.clusters : PassesCluster(session.limit, set.list.clusters[i])},
          lazy)

(* show_range_start: limit, rank, sort, count what was shown, and fetch    *)
(* more for the clients that have nothing else to show.  The scores and    *)
(* the counts are made anew each time, and not kept here.                  *)
ShowRange(sp, page) ==
    LET limited == Limited(FALSE)
        ranked == IF \E i \in DOMAIN sp : sp[i].type = "relevance"
                  THEN PrepareRead(limited, set.rel) ELSE limited
        order == Sort(ranked, IF session.force THEN ByPosition ELSE sp).sorted
        upto == Min({Len(order), page.start + page.num})
        shown == FoldLeft(LAMBDA n, i : CountShown(n, limited.clusters[order[i]]),
                          [c \in Clients |-> 0], [i \in 1 .. upto |-> i])
    IN  /\ set' = [set EXCEPT !.list = [limited EXCEPT !.sorted = order]]
        /\ client' = [c \in Clients |-> FetchMore(client[c], shown[c])]
        /\ UNCHANGED session

(* show_single_start.                                                      *)
ShowSingle ==
    /\ set' = [set EXCEPT !.list = Limited(TRUE)]
    /\ UNCHANGED <<session, client>>

Search ==
    \E r \in Searches : \E connect \in Connects(r.targets) :
        SessionSearch(r.targets, r.query, r.sort, r.limit, r.range, r.mergekey, connect)

SortAgain ==
    /\ session.searched
    /\ \E r \in Sorts : \E connect \in Connects(Active) :
          SessionSort(r.sort, r.mergekey, connect)

Show == session.searched /\ \E sp \in SortParams, page \in Pages : ShowRange(sp, page)

Record == session.searched /\ ShowSingle

(* session_stop: client_stop for the clients that work.                    *)
Stop ==
    /\ session.searched
    /\ client' = [c \in Clients |->
                    IF client[c].active /\ client[c].state = "Working"
                    THEN [client[c] EXCEPT !.conn = FALSE, !.pending = 0, !.late = 0,
                                           !.state = "Disconnected"]
                    ELSE client[c]]
    /\ UNCHANGED <<set, session>>

-----------------------------------------------------------------------------
(* Targets                                                                 *)

Took(st) == set' = st.set /\ client' = st.client /\ UNCHANGED session

(* A record of an earlier search.                                          *)
LateRecord(c) ==
    /\ client[c].state = "Working" /\ client[c].conn /\ client[c].late > 0
    /\ Took(RecordIngest([set |-> set, client |-> [client EXCEPT ![c].late = @ - 1]],
                         session, c))

(* A client that a search has left out has no session to add the facets to *)
(* that its target reports: client_report_facets would crash.              *)
MayReport(c) ==
    \/ client[c].active
    \/ LET told == Reported[c][client[c].results.query]
       IN  \A k \in DOMAIN told : told[k][1] \notin FacetMap[c]

(* The result set is there.                                                *)
Answer(c) ==
    /\ client[c].state = "Working" /\ client[c].conn /\ client[c].late = 0
    /\ ~client[c].results.answered
    /\ MayReport(c)
    /\ Took(SearchResponse([set |-> set, client |-> client], c))

(* A record is there.                                                      *)
RecordArrives(c) ==
    /\ client[c].state = "Working" /\ client[c].conn /\ client[c].pending > 0
    /\ Took(RecordIngest([set |-> set, client |-> [client EXCEPT ![c].pending = @ - 1]],
                         session, c))

(* The last one was.                                                       *)
Ready(c) ==
    /\ client[c].state = "Working" /\ client[c].conn
    /\ client[c].results.answered /\ client[c].pending = 0
    /\ client' = [client EXCEPT ![c].state = "Idle"]
    /\ UNCHANGED <<set, session>>

(* The target reports an error; what was asked for does not come.          *)
Fails(c) ==
    /\ client[c].state = "Working" /\ client[c].conn
    /\ client' = [client EXCEPT ![c] =
                    [client[c] EXCEPT !.state = "Error", !.pending = 0, !.late = 0]]
    /\ UNCHANGED <<set, session>>

(* The connection goes: connection_destroy, client_disconnect.             *)
Lost(c) ==
    /\ client[c].conn
    /\ client' = [client EXCEPT ![c] =
                    [client[c] EXCEPT !.conn = FALSE, !.pending = 0, !.late = 0,
                                      !.state = IF @ = "Idle" THEN @ ELSE "Disconnected"]]
    /\ UNCHANGED <<set, session>>

Next ==
    \/ Search \/ SortAgain \/ Show \/ Record \/ Stop
    \/ \E c \in Clients : LateRecord(c) \/ Answer(c) \/ RecordArrives(c) \/ Ready(c) \/ Fails(c) \/ Lost(c)

Spec == Init /\ [][Next]_vars
=============================================================================
