SPECIFICATION Spec
CONSTANTS
  NULL = NULL
  idle = idle
  p = p
  q = q
  r = r
  s = s
  m1 = m1
  m2 = m2
  m3 = m3
  Proc = {idle, p, q, r}
  IdleProc = idle
  Mail = {m1}
  MailRing <- OneMail
  RegQueue <- TwoLevels
  HIGHEST_PRIO = 3
  MSGQARR_SIZE = 2
  INPUT_SERVER_MSGQ = 1
  TIME_SERVER_MSGQ = 2
  TICKS = 2
  Calls = {"NICE", "TERMINATE", "SEND", "RECV", "BIND"}
SYMMETRY Symmetry
INVARIANTS
  PlacedOnce
  RunningIsHighest
  CpuHasWork
  NoLostWakeup
PROPERTIES
  ImplementsScheduler
  OwnChecksHold
