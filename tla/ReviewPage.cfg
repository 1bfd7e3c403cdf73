SPECIFICATION FairSpec
CONSTANTS
  c1 = c1
  c2 = c2
  v1 = v1
  v2 = v2
  all = all
  hit = hit
  Case = {c1}
  NoCase = NoCase
  View = {v1, v2}
  FirstView = v1
  Search = {all, hit}
  RowsIn <- MCRows
  PageSize = 2
  MaxSeq = 4
  MaxPage = 2
INVARIANTS LatestLoadWins LoadingIffPending 
PROPERTIES ImplementsPromise LoadsSettle
CHECK_DEADLOCK FALSE
