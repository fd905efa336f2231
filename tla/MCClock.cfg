SPECIFICATION Spec
CONSTANTS
  Years = {1900, 1903, 1904, 1999, 2000, 2100, 2400, 3199, 3200, 9999}
  Start <- Moments
  MaxTicks = 4
CHECK_DEADLOCK FALSE
INVARIANTS
  TypeOK
PROPERTIES
  ImplementsCalendar
