CONSTANTS
  Worker = {w1, w2}
  Item = {i1, i2}
  NoItem = NoItem
  NoKind = NoKind
  Adapter = {a, b}
  x = x
  p1 = p1
  p2 = p2
  InitInfos <- Infos
  Dns <- Addresses
  DEFAULT_DNS_1 = p1
  DEFAULT_DNS_2 = p2
  NoRequest = NoRequest
  automatic = automatic
SPECIFICATION ProgramSpec
VIEW View
SYMMETRY Symmetry
CHECK_DEADLOCK FALSE
INVARIANTS
  ProgramTypeOK
  ListIsTrue
PROPERTY JobsInTurn
