SPECIFICATION FairSpec
CONSTANTS
  NULL = NULL
  idle = idle
  p = p
  q = q
  r = r
  s = s
  m1 = m1
  m2 = m2
  m3 = m3
  Proc = {idle, p, q}
  IdleProc = idle
  Mail = {m1, m2, m3}
  MailRing <- ThreeMails
  RegQueue <- TwoPeers
  HIGHEST_PRIO = 2
  MSGQARR_SIZE = 2
  INPUT_SERVER_MSGQ = 1
  TIME_SERVER_MSGQ = 2
  TICKS = 1
  Calls = {"TERMINATE", "SEND", "RECV", "BIND", "UNBIND"}
INVARIANTS
  TypeOK
  OwnersAgree
  CallInProgress
  MailsLinked
  MailsConserved
PROPERTIES
  CallsReturn
  MailsInOrder
