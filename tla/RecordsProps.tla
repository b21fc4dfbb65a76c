---------------------------- MODULE RecordsProps ----------------------------
(***************************************************************************)
(* What should hold of the records of a session, whatever the order in     *)
(* which targets answer, fail and are searched again.                      *)
(***************************************************************************)
EXTENDS Records

Clusters == set.list.clusters
Live == {i \in DOMAIN Clusters : Clusters[i].live}

(* The clients that have what they were asked for, or are getting it.      *)
Current(c) ==
    /\ client[c].active /\ client[c].conn
    /\ client[c].state \in {"Working", "Idle"}
    /\ client[c].results.answered

(* The records of a document that filters and limits let through: a local  *)
(* limit ends the document.                                                *)
Kept(c, doc) ==
    IF doc.root \notin {"record", "cluster"} THEN {}
    ELSE {j \in DOMAIN doc.subs :
            /\ PassesFilter(c, doc.subs[j])
            /\ ~\E k \in 1 .. j : /\ PassesFilter(c, doc.subs[k])
                                  /\ ~PassesLocal(session.limit, c, doc.subs[k])}

(* The documents for the last query, in the order the last sort asks for.  *)
Wanted(c) ==
    IF client[c].sort # None /\ ~client[c].sort.increasing
    THEN Reverse(ResultSet[c][client[c].query]) ELSE ResultSet[c][client[c].query]

Fetched(c) == client[c].startrecs + 1 .. Min({client[c].offset, Len(Wanted(c))})

(* Every record that was fetched is in a cluster that goes by one of its   *)
(* keys; of those that a client brings again, the first.                   *)
NothingLost ==
    \A c \in Clients : Current(c) /\ (client[c].sort # None \/ client[c].results.sort = None) =>
        \A pos \in Fetched(c) : \A j \in Kept(c, Wanted(c)[pos]) :
            LET doc == Wanted(c)[pos]
            IN  \E i \in Live :
                    /\ \E r \in Elems(Clusters[i].records) :
                          r.client = c /\ r.md = doc.subs[j].md /\ r.pos <= pos
                    /\ Elems(Clusters[i].keys) \cap Elems(MergeKeys(session, doc, c, pos)) # {}

(* No cluster has a record of another search, of a position that was not   *)
(* asked for, or one that was filtered away; none has one twice.           *)
NothingForeign ==
    \A i \in Live : \A m \in DOMAIN Clusters[i].records :
        LET r == Clusters[i].records[m]
            c == r.client
        IN  /\ client[c].active
            /\ Current(c) /\ (client[c].sort # None \/ client[c].results.sort = None) =>
                 r.pos \in Fetched(c)
                 /\ \E j \in Kept(c, Wanted(c)[r.pos]) : Wanted(c)[r.pos].subs[j].md = r.md
            /\ \A k \in Live : \A n \in DOMAIN Clusters[k].records :
                  <<k, n>> # <<i, m>> => Clusters[k].records[n] # r

(* After searches that follow one another, sorts that search again, results*)
(* that are used again, merge keys and limits that change, connections     *)
(* that are lost and records that are late, the clusters hold the records  *)
(* fetched for the last search, each once, and nothing else (client_start_ *)
(* search, client_reingest, session_clear_set, reclist_insert).            *)
RecordsExact == NothingLost /\ NothingForeign

(* Every key of a cluster leads, through the hash chains, to that cluster  *)
(* and to no other; "merged" and "records" of cmd_show count what there is *)
(* (reclist_insert, merge_cluster; the assert of cmd_explain's test).      *)
ListSound ==
    /\ \A i \in Live : \A k \in Elems(Clusters[i].keys) :
          /\ i \in Elems(set.list.chains[Hash(k)])
          /\ \A j \in Live \ {i} : k \notin Elems(Clusters[j].keys)
    /\ set.merged = Cardinality(Live)
    /\ set.records = Cardinality(UNION {{i} \X DOMAIN Clusters[i].records : i \in Live})

(* The clusters that a limit lets through.                                 *)
Passing == {i \in DOMAIN Clusters : PassesCluster(session.limit, Clusters[i])}

(* What show_range_start is going to sort and show is every cluster that   *)
(* passes the limits, once.  One that was merged into another is there     *)
(* only by buckets made for keys that it never got, which merge_cluster    *)
(* does not find (reclist_limit walks buckets, several of which may lead   *)
(* to a cluster).                                                          *)
ShowsAll ==
    LET list == Limited(FALSE)
        shown == Elems(list.sorted)
    IN  /\ Live \cap Passing \subseteq shown /\ shown \subseteq Passing
        /\ list.num = Cardinality(shown) /\ Len(list.sorted) = list.num
        /\ \A i \in shown \ Live : \A k \in Elems(Clusters[i].keys) :
              i \notin Elems(set.list.chains[Hash(k)])

(* "Number of merged records" (doc/pazpar2_protocol.xml:575): "merged" of  *)
(* a show counts the clusters that pass the limits, and none that was      *)
(* merged into another.                                                    *)
MergedExact == Limited(FALSE).num = Cardinality(Live \cap Passing)

(* Two clusters never compare alike, and the comparison is antisymmetric   *)
(* and transitive: so the page a user asks for next goes on where the last *)
(* one ended, whatever qsort and the hash table do (reclist_cmp).          *)
SortTotal ==
    \A sp \in SortParams : \A i, j \in Live :
        LET ranked == PrepareRead([set.list EXCEPT !.sorted = SetToSeq(Live)], set.rel).clusters
            Cmp(a, b) == Compare(sp, ranked[a], ranked[b])
        IN  i # j =>
              /\ Cmp(i, j) # 0
              /\ Cmp(i, j) < 0 <=> Cmp(j, i) > 0
              /\ \A k \in Live : Cmp(i, j) < 0 /\ Cmp(j, k) < 0 => Cmp(i, k) < 0

-----------------------------------------------------------------------------
(* Where a term of a field comes in the records of the clusters, of the    *)
(* targets that do not report the field; a record and a value of it.       *)
LocalCount(f, term) ==
    LET counted == {r \in UNION {Elems(Clusters[i].records) : i \in Live} :
                       Service[f].termlist /\ f \notin FacetMap[r.client]}
    IN  Cardinality(UNION {{r} \X {n \in DOMAIN r.md[f] : term \in Elems(FacetTerms(f, r.md[f][n]))} :
                              r \in counted})

(* What the targets of S report of it for the query of their result set.   *)
ReportedBy(S, f, term) ==
    LET facets(c) == Reported[c][client[c].results.query]
    IN  Cardinality(UNION {{c} \X {k \in DOMAIN facets(c) : facets(c)[k] = <<f, term>>} :
                              c \in {x \in S : f \in FacetMap[x]}})

(* The facets count each record of the clusters once, and what a target    *)
(* reports once, even if its result set is used again, and never both for  *)
(* a field (client_report_facets, add_facet).  A client whose connection   *)
(* is gone or failed may have reported for this list or for one before.    *)
FacetsExact ==
    \A f \in Fields, term \in Terms :
        LET mayReport == {c \in Active : client[c].results # None /\ client[c].results.answered}
            local == LocalCount(f, term)
        IN  /\ set.facets[f][term] >= local + ReportedBy({c \in Clients : Current(c)}, f, term)
            /\ set.facets[f][term] <= local + ReportedBy(mayReport, f, term)

(* What the clients were asked for: queries stand for their term.          *)
Asked(cls) == [c \in Clients |-> cls[c].query]

(* A cluster's term frequency is that of its records, also after clusters  *)
(* were merged; no term is counted in more records than there are, so that *)
(* the weight log(...) of relevance_prepare_read, which is to be above 0,  *)
(* is; and one that occurs in a cluster is counted in at least one         *)
(* (relevance_countwords, relevance_merge_cluster, relevance_donerecord).  *)
RelevanceTrue ==
    /\ \A i \in Live :
          Clusters[i].tf = FoldLeft(LAMBDA n, r : n + CountWords(Asked(client)[r.client], r.md),
                                    0, Clusters[i].records)
    /\ set.rel.df <= set.rel.total
    /\ set.rel.total = set.records
    /\ (\E i \in Live : Clusters[i].tf > 0) => set.rel.df > 0

(* A cluster is sorted by the value that is shown, and that is one its     *)
(* records have: the longest of them, or a range with the bounds of some   *)
(* (ingest_to_cluster).  Clusters that were merged keep those of one.      *)
SortKeyShown ==
    \A i \in Live : \A f \in Fields :
        LET cluster == Clusters[i]
            values == UNION {Elems(r.md[f]) : r \in Elems(cluster.records)}
        IN  /\ Service[f].sort /\ cluster.md[f] # <<>> /\ Service[f].merge \in {"longest", "range"}
                 => cluster.sortkey[f] = Head(cluster.md[f])
            /\ Service[f].merge = "range" =>
                 \A v \in Elems(cluster.md[f]) :
                     /\ \E w \in values : w.min = v.min
                     /\ \E w \in values : w.max = v.max
            /\ Service[f].merge # "range" => Elems(cluster.md[f]) \subseteq values
=============================================================================
