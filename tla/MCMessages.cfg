SPECIFICATION Spec
CONSTANTS
  NUL = NUL
  Char = {a, NUL}
  Src = {s1, s2}
  MAXMSG_SZ = 3
  MAXMAIL_NUM = 2
  MaxSize = 4
  BufferSize = 2
SYMMETRY Symmetry
CHECK_DEADLOCK FALSE
INVARIANTS
  TypeOK
PROPERTIES
  WritesWithin
  ImplementsLetters
