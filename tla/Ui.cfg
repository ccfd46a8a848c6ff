CONSTANTS
  Worker = {w1, w2, w3}
  Item = {i1}
  NoItem = NoItem
  NoKind = NoKind
SPECIFICATION Spec
CHECK_DEADLOCK FALSE
INVARIANTS
  TypeOK
  OneOperation
  QuietMeansEnabled
  SelectionIsLive
PROPERTY ButtonsComeBack
