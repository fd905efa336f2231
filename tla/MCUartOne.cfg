SPECIFICATION Spec
CONSTANTS
  Writer = {w}
  MaxChars = 8
  QUEUE_SZ = 4
  NONE = NONE
CHECK_DEADLOCK FALSE
INVARIANTS
  TypeOK
  NoneLost
  OvertakenOnce
PROPERTIES
  StuckOnlyInWindow
