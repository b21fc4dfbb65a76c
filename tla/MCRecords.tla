----------------------------- MODULE MCRecords -----------------------------
EXTENDS RecordsProps

MCFields == {"title", "date", "author"}
MCFieldOrder == <<"title", "date", "author">>
MCHash(k) == (Len(k) + k[Len(k)]) % 2

Field(type, merge, mergekey, termlist, sort, limitcluster, rank) ==
    [type |-> type, merge |-> merge, mergekey |-> mergekey, termlist |-> termlist,
     sort |-> sort, limitcluster |-> limitcluster, rank |-> rank]

MCService ==
    [title  |-> Field("generic", "longest", "required", FALSE, TRUE, FALSE, 2),
     date   |-> Field("year", "range", "no", TRUE, TRUE, FALSE, 0),
     author |-> Field("generic", "unique", "no", TRUE, FALSE, TRUE, 1)]

Text(word, len) == [word |-> word, len |-> len]
Year(y) == [min |-> y, max |-> y]
Sub(title, len, year, author) ==
    [key |-> <<>>, md |-> [title |-> IF title = 0 THEN <<>> ELSE <<Text(title, len)>>,
                           date |-> <<Year(year)>>, author |-> <<Text(author, 1)>>]]
One(sub) == [root |-> "record", subs |-> <<sub>>]
Two(sub1, sub2) == [root |-> "cluster", subs |-> <<sub1, sub2>>]
Bad == [root |-> "bad", subs |-> <<>>]

(* Words 1 to 3 of titles and authors, years 7 and 8.  For query 1 the     *)
(* first target brings a title alone, and then the same again in a cluster *)
(* with another one; the second target this other title, a record that has *)
(* no title, and one that cannot be read.  For query 2 the first target    *)
(* brings two titles in clusters and alone, so that clusters merge.        *)
MCResultSet ==
    << << << One(Sub(1, 1, 7, 3)), Two(Sub(1, 1, 7, 3), Sub(2, 1, 8, 3)) >>,
          << One(Sub(1, 1, 7, 3)), Two(Sub(1, 1, 8, 3), Sub(2, 1, 8, 3)),
             One(Sub(2, 1, 7, 3)), Two(Sub(2, 2, 8, 3), Sub(1, 2, 8, 3)) >> >>,
       << << One(Sub(2, 2, 8, 1)), One(Sub(0, 1, 7, 1)), Bad >>, <<>> >> >>

MCRecordFilter == << [field |-> "author", word |-> 3], Absent >>
MCLocalLimit == << {}, {"date"} >>
MCSortMap == << {}, {"date"} >>
MCFacetMap == << {}, {"author"} >>
MCReported == << << <<>>, <<>> >>, << << <<"author", 1>>, <<"date", 8>> >>, <<>> >> >>

Param(type, field, increasing) == [type |-> type, field |-> field, increasing |-> increasing]
ByDate == << Param("date", "date", FALSE) >>
ByRank == << Param("relevance", "relevance", FALSE), Param("generic", "title", TRUE) >>
MCSortParams == {ByDate, ByRank}
MCSorts == { [sort |-> ByRank, mergekey |-> << <<"date">> >>] }
MCPages == { [start |-> 0, num |-> 2] }

Request(targets, query, sort, limit, range, mergekey) ==
    [targets |-> targets, query |-> query, sort |-> sort, limit |-> limit, range |-> range,
     mergekey |-> mergekey]
LimitDate == << [field |-> "date", words |-> {8}] >>
MCSearches ==
    { Request({1, 2}, 1, ByRank, <<>>, [start |-> 0, max |-> 1], << <<>> >>),
      Request({2}, 1, ByDate, LimitDate, [start |-> 1, max |-> 2], <<>>) }

(* The search whose clusters merge.                                         *)
MCEditions == { Request({1}, 2, ByRank, <<>>, None, <<>>) }
=============================================================================
