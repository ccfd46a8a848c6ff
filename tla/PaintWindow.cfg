CONSTANTS
  r1 = r1
  r2 = r2
  a = a
  b = b
  Row <- TwoRows
  Label <- TwoLabels
  Button = Button
  None = None
  Worker = {w1, w2}
  SwitchThread = FALSE
SPECIFICATION Spec
INVARIANTS
  TypeOK
  PointersAlive
  ItemsAlive
  NoRowLost
  CleanupQueued
  LeaveNeededHovered
PROPERTY RemovedIsDestroyed
