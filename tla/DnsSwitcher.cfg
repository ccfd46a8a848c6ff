CONSTANTS
  lan = lan
  wan = wan
  tap = tap
  x = x
  NoDns = NoDns
  Adapter <- Adapters
  IPEnabled <- WithIP
  index <- Indexes
  interface_index <- IfIndexes
  Address <- Addresses
  InitServers <- Automatic
  WORD = 4
  COUNTER = 2
  ROWS = 1
SPECIFICATION Spec
INVARIANTS
  TypeOK
  ReferencesInOrder
  ListComplete
  TrafficIsOwn
  BusiestFirst
  SwitchContract
