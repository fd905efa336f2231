SPECIFICATION ServersSpec
CONSTANTS
  NULL = NULL
  idle = idle
  time_server = time_server
  input_server = input_server
  output_server = output_server
  user = user
  m1 = m1
  m2 = m2
  Proc = {idle, time_server, input_server, output_server, user}
  IdleProc = idle
  Mail = {m1, m2}
  MailRing <- TwoMails
  RegQueue <- Registered
  HIGHEST_PRIO = 2
  MSGQARR_SIZE = 5
  IDLE_MSGQ = 1
  USER_MSGQ = 2
  OUTPUT_SERVER_MSGQ = 3
  INPUT_SERVER_MSGQ = 4
  TIME_SERVER_MSGQ = 5
  Wanted = {user}
  TICKS = 1
  Calls = {"TERMINATE", "SEND", "RECV", "BIND"}
CONSTRAINT HeadsApart
SYMMETRY Symmetry
CHECK_DEADLOCK FALSE
PROPERTIES
  SearchStays
