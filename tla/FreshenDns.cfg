CONSTANTS
  t1 = t1
  t2 = t2
  x = x
  y = y
  null = null
  bad = bad
  Thread <- BothThreads
  Freshener = t1
  Name <- Names
  Vip <- Vips
  Uptime <- UpTimes
  Answer <- Answers
  UINT = 3
  Times <- SomeTimes
  time_out = 9
SPECIFICATION Spec
INVARIANTS
  TypeOK
  ListIsExact
  RetryStartsEmpty
  RowsAreTheList
