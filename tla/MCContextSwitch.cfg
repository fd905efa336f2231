SPECIFICATION Spec
CONSTANTS
  Proc = {idle, p, q, r}
  First = p
  Idle = idle
  Servers = {q}
  JUNK = JUNK
  OWN = 1
  DEPTH = 5
CHECK_DEADLOCK FALSE
INVARIANTS
  TypeOK
PROPERTIES
  LostOnlyInWindows
