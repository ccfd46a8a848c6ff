CONSTANTS
  a1 = a1
  a2 = a2
  v1 = v1
  v2 = v2
  x = x
  o = o
  d1 = d1
  d2 = d2
  NoAdapter = NoAdapter
  NoDns = NoDns
  Adapter <- OneAdapter
  InitInfos <- SomeInfos
  View <- TwoViews
  Vip <- VipsXDNo
  Dns <- AllDns
  DEFAULT_DNS_1 = d1
  DEFAULT_DNS_2 = d2
  Times <- OneTime
  time_out = 9
  PING_TIMEOUT = 99
  NET_WORK_INTERFACE_REQUEST_MAX_TIME = 3
SPECIFICATION Spec
INVARIANTS
  TypeOK
  BestTwoChosen
  BackupIsAnotherServer
PROPERTY JobReturns
