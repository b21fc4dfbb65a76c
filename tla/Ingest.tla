------------------------------- MODULE Ingest -------------------------------
(***************************************************************************)
(* From a normalised document to the clusters, the merged metadata, the    *)
(* facets and the counters of a session (session.c, termlists.c), as       *)
(* operators on values.                                                    *)
(*                                                                         *)
(* What XSLT made of a record is a document [root, subs]: one record, or a *)
(* "cluster" of several, or something that is neither.  A sub is           *)
(* [key, md]: the mergekey attribute, normalised, <<>> when there is none, *)
(* and the values of each field.  `set` is what session_clear_set throws   *)
(* away: [list, records, merged, facets, rel].                             *)
(***************************************************************************)
EXTENDS RecordList

CONSTANTS
    Service,        \* the metadata section of the service: for each field
                    \* [type, merge, mergekey, termlist, sort, limitcluster, rank]
    FieldOrder,     \* the fields in the order of the configuration
    Terms,          \* what facet terms can be: words and years
    RecordFilter,   \* pz:recordfilter of each client: [field, word], or Absent
    LocalLimit,     \* the fields with a local pz:limitmap, per client
    FacetMap,       \* pz:facetmap: the fields each client's target has facets of
    Reported        \* what it reports for a query: pairs <<field, term>>

EmptySet ==
    [list |-> EmptyList, records |-> 0, merged |-> 0,
     facets |-> [f \in Fields |-> [t \in Terms |-> 0]], rel |-> ClearRelevance]

-----------------------------------------------------------------------------
(* Merge keys                                                              *)

Value(f, v) == IF Service[f].type = "year" THEN <<v.min, v.max>> ELSE <<v.word>>
Place(f) == CHOOSE i \in DOMAIN FieldOrder : FieldOrder[i] = f

(* get_mergekey_from_doc: the name and the words of every value.           *)
FieldKey(sub, f) ==
    FoldLeft(LAMBDA k, v : k \o <<Place(f)>> \o Value(f, v), <<>>, sub.md[f])

FieldsKey(sub, fields) == FoldLeft(LAMBDA k, f : k \o FieldKey(sub, f), <<>>, fields)

(* Without a mergekey attribute: the mergekey metadata, nothing if a       *)
(* required one is missing.                                                *)
ServiceKey(sub) ==
    IF \E f \in Fields : Service[f].mergekey = "required" /\ sub.md[f] = <<>>
    THEN <<>>
    ELSE FieldsKey(sub, SelectSeq(FieldOrder, LAMBDA f : Service[f].mergekey # "no"))

(* get_mergekey.                                                           *)
MergeKey(session, sub, c, pos) ==
    LET words == IF session.mergekey # <<>> THEN FieldsKey(sub, session.mergekey)
                 ELSE IF sub.key # <<>> THEN sub.key ELSE ServiceKey(sub)
    IN  IF words = <<>> THEN <<1, c, pos>> ELSE <<0>> \o words

(* The keys of a document: those of its records, each once.                *)
MergeKeys(session, doc, c, pos) ==
    Union(<<>>, [i \in DOMAIN doc.subs |-> MergeKey(session, doc.subs[i], c, pos)])

-----------------------------------------------------------------------------
(* Filters and limits                                                      *)

(* match_metadata_local: one of the values is one of those wanted.         *)
Matches(f, values, wanted) ==
    \E v \in Elems(values), w \in wanted :
        IF Service[f].type = "year" THEN v.min <= w /\ w <= v.max ELSE v.word = w

(* check_record_filter.                                                    *)
PassesFilter(c, sub) ==
    RecordFilter[c] # Absent =>
        Matches(RecordFilter[c].field, sub.md[RecordFilter[c].field], {RecordFilter[c].word})

(* check_limit_local and client_get_facet_limit_local: the limits of the   *)
(* search that the target leaves to pazpar2.                               *)
PassesLocal(limit, c, sub) ==
    \A l \in Elems(limit) :
        l.field \in LocalLimit[c] => Matches(l.field, sub.md[l.field], l.words)

(* session_check_cluster_limit.                                            *)
PassesCluster(limit, cluster) ==
    \A l \in Elems(limit) :
        Service[l.field].limitcluster => Matches(l.field, cluster.md[l.field], l.words)

-----------------------------------------------------------------------------
(* Metadata of clusters                                                    *)

Widen(v, w) == [min |-> Min({v.min, w.min}), max |-> Max({v.max, w.max})]

(* One more value of field f; `was` are the values before this record.     *)
MergeValue(f, values, v, was) ==
    CASE Service[f].merge = "first" -> IF was = <<>> THEN Append(values, v) ELSE values
      [] Service[f].merge = "unique" -> IF v \in Elems(values) THEN values ELSE Append(values, v)
      [] Service[f].merge = "longest" ->
            IF values = <<>> \/ v.len > Head(values).len THEN <<v>> ELSE values
      [] Service[f].merge = "all" -> Append(values, v)
      [] Service[f].merge = "range" ->
            IF values = <<>> THEN <<v>> ELSE <<Widen(Head(values), v)>>
      [] Service[f].merge = "no" -> values

(* Faulty: the sort key stays the first one there was.                     *)
MergeFieldSortOnce(f, cluster, values) ==
    LET md == FoldLeft(LAMBDA vs, v : MergeValue(f, vs, v, cluster.md[f]), cluster.md[f], values)
        sorts == /\ Service[f].sort /\ Service[f].merge \in {"longest", "range"} /\ md # <<>>
                 /\ cluster.sortkey[f] = Absent
    IN  [cluster EXCEPT !.md[f] = md, !.sortkey[f] = IF sorts THEN Head(md) ELSE @]

(* Only a longest or a range value makes the sort key; that of a range is  *)
(* the value itself, and widened with it.                                  *)
MergeField(f, cluster, values) ==
    LET md == FoldLeft(LAMBDA vs, v : MergeValue(f, vs, v, cluster.md[f]), cluster.md[f], values)
        sorts == Service[f].sort /\ Service[f].merge \in {"longest", "range"} /\ md # <<>>
    IN  [cluster EXCEPT !.md[f] = md, !.sortkey[f] = IF sorts THEN Head(md) ELSE @]

(* relevance_countwords: how often the term occurs in ranked fields.       *)
CountWords(term, md) ==
    FoldLeft(LAMBDA n, f :
                 n + Service[f].rank * Cardinality({i \in DOMAIN md[f] : Value(f, md[f][i]) = <<term>>}),
             0, FieldOrder)

AddToCluster(cluster, sub, term) ==
    [FoldLeft(LAMBDA cl, f : MergeField(f, cl, sub.md[f]), cluster, FieldOrder)
        EXCEPT !.tf = @ + CountWords(term, sub.md)]

-----------------------------------------------------------------------------
(* Facets                                                                  *)

(* add_facet and termlist_insert, with frequency 1: pz:termlist_term_factor *)
(* is left at its default, off.                                            *)
AddFacet(facets, f, term) == [facets EXCEPT ![f][term] = @ + 1]

FacetTerms(f, v) ==
    IF Service[f].type # "year" THEN <<v.word>>
    ELSE IF v.min = v.max THEN <<v.max>> ELSE <<v.max, v.min>>

(* Faulty: of fields the target has reported, too.                         *)
AddFacetsAll(facets, c, sub) ==
    FoldLeft(LAMBDA fs, f :
                 IF ~Service[f].termlist THEN fs
                 ELSE FoldLeft(LAMBDA gs, v :
                                   FoldLeft(LAMBDA hs, t : AddFacet(hs, f, t), gs,
                                            FacetTerms(f, v)),
                               fs, sub.md[f]),
             facets, FieldOrder)

(* The terms of a record, of fields the target has not reported itself.    *)
AddFacets(facets, c, sub) ==
    FoldLeft(LAMBDA fs, f :
                 IF ~Service[f].termlist \/ f \in FacetMap[c] THEN fs
                 ELSE FoldLeft(LAMBDA gs, v :
                                   FoldLeft(LAMBDA hs, t : AddFacet(hs, f, t), gs,
                                            FacetTerms(f, v)),
                               fs, sub.md[f]),
             facets, FieldOrder)

(* client_report_facets.                                                   *)
ReportFacets(set, c, query) ==
    [set EXCEPT !.facets =
        FoldLeft(LAMBDA fs, p : IF p[1] \in FacetMap[c] THEN AddFacet(fs, p[1], p[2]) ELSE fs,
                 @, Reported[c][query])]

-----------------------------------------------------------------------------
(* Ingest                                                                  *)

(* ingest_to_cluster for a record that is not limited away.                *)
IntoCluster(set, c, pos, sub, keys, term) ==
    LET ins == Insert(set.list, set.merged,
                      [client |-> c, pos |-> pos, md |-> sub.md], keys)
    IN  IF ins.duplicate THEN set
        ELSE LET cluster == AddToCluster(ins.list.clusters[ins.cluster], sub, term)
             IN  [list |-> [ins.list EXCEPT !.clusters[ins.cluster] = cluster],
                  records |-> set.records + 1,
                  merged |-> ins.total,
                  facets |-> AddFacets(set.facets, c, sub),
                  rel |-> DoneRecord(set.rel, cluster)]

(* ingest_sub_record.  The answer is "ok" also for a record that           *)
(* pz:recordfilter turns away; "filtered" is a local limit's.              *)
IngestSub(set, session, c, pos, sub, keys, term) ==
    IF ~PassesFilter(c, sub) THEN [set |-> set, rc |-> "ok"]
    ELSE IF ~PassesLocal(session.limit, c, sub) THEN [set |-> set, rc |-> "filtered"]
    ELSE [set |-> IntoCluster(set, c, pos, sub, keys, term), rc |-> "ok"]

(* ingest_xml_record: the records of a cluster up to the first that is     *)
(* limited away.                                                           *)
IngestDoc(set, session, c, pos, doc, term) ==
    IF doc.root \notin {"record", "cluster"} THEN [set |-> set, rc |-> "failed"]
    ELSE LET keys == MergeKeys(session, doc, c, pos)
         IN  FoldLeft(LAMBDA st, sub :
                          IF st.rc # "ok" THEN st
                          ELSE IngestSub(st.set, session, c, pos, sub, keys, term),
                      [set |-> set, rc |-> "ok"], doc.subs)
=============================================================================
