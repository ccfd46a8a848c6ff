CONSTANTS
  r1 = r1
  r2 = r2
  a = a
  b = b
  Row <- TwoRows
  Label <- OneLabel
  Button = Button
  None = None
  Worker = {w1, w2}
  SwitchThread = TRUE
SPECIFICATION Spec
VIEW ListView
SYMMETRY Symmetry
CHECK_DEADLOCK FALSE
INVARIANTS
  ItemsAliveAfterRemoveAll
  OneCleanupMessage
