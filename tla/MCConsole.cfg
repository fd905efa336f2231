SPECIFICATION Spec
CONSTANTS
  MAX_STR_SZ = 6
  MAX_PID = 15
  INT = 16
  MAX_LINE = 7
  MAX_COL = 6
  MAX_WINDOWS = 8
  Beyond <- Memory
  Scenes <- AllScenes
CHECK_DEADLOCK FALSE
INVARIANTS
  TypeOK
  WindowsApart
PROPERTIES
  LostOnlyWhenMixed
  ImplementsLine
