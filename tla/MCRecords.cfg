SPECIFICATION Spec
CONSTANTS
  Fields <- MCFields
  HashSize = 2
  Hash <- MCHash
  RankCluster = TRUE
  Service <- MCService
  FieldOrder <- MCFieldOrder
  Terms = {1, 2, 3, 7, 8}
  RecordFilter <- MCRecordFilter
  LocalLimit <- MCLocalLimit
  FacetMap <- MCFacetMap
  Reported <- MCReported
  Clients = {1, 2}
  Queries = {1, 2}
  ResultSet <- MCResultSet
  SortMap <- MCSortMap
  ExtendRecs = 1
  CacheSize = 2
  SortParams <- MCSortParams
  Searches <- MCSearches
  Sorts <- MCSorts
  Pages <- MCPages
CHECK_DEADLOCK FALSE
INVARIANTS RecordsExact ListSound ShowsAll SortTotal FacetsExact RelevanceTrue SortKeyShown
