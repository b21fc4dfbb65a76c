------------------------------- MODULE Fetch -------------------------------
(***************************************************************************)
(* Which records of a target's result set a client has fetched, shown and  *)
(* given to the session (client.c), as operators on values.  A step is     *)
(* st = [set, client]: the session's records and all clients.              *)
(*                                                                         *)
(* The result set itself is YAZ ZOOM's and the target's, so external: a    *)
(* query and a native sort order determine it, and the records asked for   *)
(* come in order, `pending` of them still to come.  ZOOM does one thing    *)
(* after the other: `late` records of an earlier search of the client come *)
(* before the answer to the last one.                                      *)
(***************************************************************************)
EXTENDS Ingest

CONSTANTS
    Clients,        \* numbers
    Queries,        \* the query terms
    ResultSet,      \* what a target has for a query: a sequence of documents
    SortMap,        \* the fields a target can sort by itself (pz:sortmap)
    ExtendRecs,     \* pz:extendrecs, 0 when it is not set
    CacheSize       \* XDOC_CACHE_SIZE

ASSUME ClientsAssumption == Clients \subseteq Nat /\ IsFiniteSet(Clients)
ASSUME SizesAssumption == ExtendRecs \in Nat /\ CacheSize \in Nat

None == [none |-> TRUE]

FreshClient ==
    [active |-> FALSE, conn |-> FALSE, state |-> "Disconnected", same |-> FALSE,
     query |-> 0, sort |-> None, startrecs |-> 0, maxrecs |-> 100,
     hits |-> 0, offset |-> 0, filtered |-> 0, failures |-> 0,
     results |-> None, pending |-> 0, late |-> 0, xdocs |-> {}]

(* The documents of the result set of a client.  A native sort turns them  *)
(* around.                                                                 *)
Docs(c, cl) ==
    IF cl.results = None THEN <<>>
    ELSE IF cl.results.sort = None \/ cl.results.sort.increasing
         THEN ResultSet[c][cl.results.query]
         ELSE Reverse(ResultSet[c][cl.results.query])

(* client_get_xdoc, client_store_xdoc: documents are cached by their       *)
(* position, those that could be parsed and whose position is not too      *)
(* large.                                                                  *)
CachedDocs(cl, pos) == {p[2] : p \in {q \in cl.xdocs : q[1] = pos}}
StoreDoc(cl, pos, doc) ==
    IF pos < CacheSize /\ doc.root # "bad"
    THEN [cl EXCEPT !.xdocs = {p \in @ : p[1] # pos} \cup {<<pos, doc>>}] ELSE cl

(* What there is for a position: a document of the cache, a record of the  *)
(* result set, or nothing, which is what records that are late lead to.    *)
DocumentAt(c, cl, pos) ==
    IF CachedDocs(cl, pos) # {} THEN CachedDocs(cl, pos)
    ELSE IF cl.results # None /\ cl.results.answered /\ pos \in DOMAIN Docs(c, cl)
         THEN {Docs(c, cl)[pos]} ELSE {}

(* client_record_ingest: the next record, from the cache if it is there.   *)
(* A client without a session only counts it.                              *)
RecordIngest(st, session, c) ==
    LET cl == st.client[c]
        pos == cl.offset + 1
        docs == DocumentAt(c, cl, pos)
    IN  IF ~cl.active \/ docs = {} THEN [st EXCEPT !.client[c].offset = @ + 1]
        ELSE LET doc == CHOOSE d \in docs : TRUE
                 done == IngestDoc(st.set, session, c, pos, doc, cl.query)
             IN  [set |-> done.set,
                  client |-> [st.client EXCEPT ![c] =
                     [StoreDoc(cl, pos, doc) EXCEPT
                        !.offset = @ + 1,
                        !.failures = IF done.rc = "failed" THEN @ + 1 ELSE @,
                        !.filtered = IF done.rc = "filtered" THEN @ + 1 ELSE @]]]

(* client_reingest: the records fetched so far once more.                  *)
Reingest(st, session, c) ==
    LET cl == st.client[c]
        start == [st EXCEPT !.client[c] = [cl EXCEPT !.failures = 0, !.filtered = 0,
                                                     !.offset = cl.startrecs]]
    IN  FoldLeft(LAMBDA s, i : RecordIngest(s, session, c), start,
                 [i \in 1 .. cl.offset - cl.startrecs |-> i])

-----------------------------------------------------------------------------
(* Preparing a search                                                      *)

(* client_parse_query, client_parse_range, client_parse_sort: whether this *)
(* is the search the client did last.  A range that is not given stays.    *)
ParseQuery(cl, query) == [cl EXCEPT !.same = @ /\ cl.query = query, !.query = query]

ParseRange(cl, range) ==
    IF range = None THEN cl
    ELSE [cl EXCEPT !.same = @ /\ cl.startrecs = range.start /\ cl.maxrecs = range.max,
                    !.startrecs = range.start, !.maxrecs = range.max]

(* A relevance sort is asked for increasing.                               *)
NativeSort(sp) ==
    [field |-> sp.field, increasing |-> sp.increasing \/ sp.type = "relevance"]

ParseSort(c, cl, sp) ==
    IF sp.field \notin SortMap[c] THEN [cl EXCEPT !.sort = None]
    ELSE [cl EXCEPT !.same = @ /\ cl.sort = NativeSort(sp), !.sort = NativeSort(sp)]

(* client_start_search, when there is something to send.                   *)
SendSearch(cl) ==
    [cl EXCEPT !.conn = TRUE, !.state = "Working", !.hits = 0, !.offset = 0,
               !.late = @ + cl.pending, !.pending = 0,
               !.failures = 0, !.filtered = 0, !.xdocs = {},
               !.results = [query |-> cl.query, sort |-> cl.sort, answered |-> FALSE]]

(* client_start_search.  A connection that is there and a search that is   *)
(* the same: the result set is used again.  A connection that has to be    *)
(* made may be refused; or there are too many, and an idle client stays so.*)
StartSearch(st, session, c, connect) ==
    LET cl == st.client[c]
    IN  IF cl.same /\ cl.conn
        THEN Reingest([st EXCEPT !.set = IF cl.results.answered
                                         THEN ReportFacets(@, c, cl.results.query) ELSE @],
                      session, c)
        ELSE IF cl.conn \/ connect = "made"
        THEN [st EXCEPT !.client[c] = SendSearch(cl)]
        ELSE [st EXCEPT !.client[c] =
                [cl EXCEPT !.failures = 0, !.filtered = 0,
                           !.state = IF connect = "full" THEN @ ELSE "Disconnected"]]

-----------------------------------------------------------------------------
(* Events of the connection                                                *)

(* The smaller of what was asked for and what there is.                    *)
Available(cl, hits) ==
    LET left == hits - cl.startrecs
    IN  IF left <= 0 THEN 0 ELSE Min({left, cl.maxrecs})

(* Faulty: the records go on where the ones before them ended.             *)
SearchResponseOffset(st, c) ==
    LET cl == st.client[c]
        hits == Len(Docs(c, cl))
    IN  [set |-> ReportFacets(st.set, c, cl.results.query),
         client |-> [st.client EXCEPT ![c] =
            [cl EXCEPT !.offset = Max({@, cl.startrecs}), !.hits = hits,
                       !.results.answered = TRUE, !.pending = Available(cl, hits)]]]

(* client_search_response.                                                 *)
SearchResponse(st, c) ==
    LET cl == st.client[c]
        hits == Len(Docs(c, cl))
    IN  [set |-> ReportFacets(st.set, c, cl.results.query),
         client |-> [st.client EXCEPT ![c] =
            [cl EXCEPT !.offset = cl.startrecs, !.hits = hits, !.results.answered = TRUE,
                       !.pending = Available(cl, hits)]]]

-----------------------------------------------------------------------------
(* Showing                                                                 *)

(* client_update_show_stat for a cluster that is shown or skipped.         *)
CountShown(shown, cluster) ==
    FoldLeft(LAMBDA n, r : [n EXCEPT ![r.client] = @ + 1], shown, cluster.records)

(* client_fetch_more: an idle client all whose records have been shown.    *)
WantsMore(cl, shown) ==
    /\ cl.active /\ cl.state = "Idle" /\ cl.conn
    /\ ExtendRecs > 0
    /\ shown + cl.failures >= cl.offset
    /\ cl.hits > cl.offset

FetchMore(cl, shown) ==
    IF WantsMore(cl, shown)
    THEN [cl EXCEPT !.state = "Working", !.pending = Min({cl.hits - cl.offset, ExtendRecs})]
    ELSE cl
=============================================================================
