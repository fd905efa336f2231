SPECIFICATION Spec
CONSTANTS
  Writer = {w, x}
  MaxChars = 4
  QUEUE_SZ = 4
  NONE = NONE
CHECK_DEADLOCK FALSE
INVARIANTS
  NoneLost
