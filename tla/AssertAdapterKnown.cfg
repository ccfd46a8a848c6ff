CONSTANTS
  Worker = {w1, w2, w3}
  Item = {i1}
  NoItem = NoItem
  NoKind = NoKind
SPECIFICATION Spec
SYMMETRY Symmetry
CHECK_DEADLOCK FALSE
INVARIANT AssertAdapterKnown
