------------------------------ MODULE Servers ------------------------------
(***************************************************************************)
(* The processes of main.c on top of the kernel: time_server,              *)
(* input_server, output_server and idle_proc, and a user process that      *)
(* prints, may ask for the time or wait for input, and ends.  Each step of *)
(* the kernel is a step of module Kernel; here it gets the source and the  *)
(* content of the messages and the place in each program.                  *)
(*                                                                         *)
(* The line that input_server collects and what output_server does to the  *)
(* screen are module Console's, the clock of time_server module Clock's.   *)
(***************************************************************************)
EXTENDS Kernel

CONSTANTS
  time_server, input_server, output_server,   \* the pcbs of the servers
  user,                                       \* and of a user process
  OUTPUT_SERVER_MSGQ, IDLE_MSGQ, USER_MSGQ,   \* 254, 29, and the user's
  Wanted                                      \* BOUND: whose pids are typed

ASSUME ServersOK ==
  /\ {time_server, input_server, output_server, user} \subseteq Proc \ {IdleProc}
  /\ {OUTPUT_SERVER_MSGQ, IDLE_MSGQ, USER_MSGQ} \subseteq Msgq
  /\ NoDuplicates(<<time_server, input_server, output_server, user>>)
  /\ NoDuplicates(<<TIME_SERVER_MSGQ, INPUT_SERVER_MSGQ, OUTPUT_SERVER_MSGQ,
                    USER_MSGQ, IDLE_MSGQ>>)
  /\ Wanted \subseteq Proc

VARIABLES
  at,             \* where each process is in its program
  mail,           \* the src and msg of each mail
  got,            \* the src and msg that recv gave each process last
  request_input,  \* pcb->request_input
  ptr, want       \* decode_cmd: the pcb it looks at, and the one it looks for

data == <<mail, got>>
search == <<request_input, ptr, want>>
allvars == <<vars, at, data, search>>

SYSTICK_HANDLER == 0
UART_INPUT_HANDLER == 0

Message(src, msg) == [src |-> src, msg |-> msg]

\* What a server has before its first message; a local variable that is not
\* needed any more is so again.
NoMessage == Message(-1, "none")

ServersInit ==
  /\ Init
  /\ at = [p \in Proc |-> "bind"]
  /\ mail = [m \in Mail |-> Message(0, "none")]
  /\ got = [p \in Proc |-> NoMessage]
  /\ request_input = [p \in Proc |-> FALSE]
  /\ ptr = NULL /\ want = NULL

\* Process p goes on in its program.
Goes(p, from, to) == at[p] = from /\ at' = [at EXCEPT ![p] = to]

\* What k_send does with the message: into the buffer of the blocked receiver,
\* or into the mail; without a free mail it is lost.
Deliver(dst, m, before) ==
  IF WaitsOn(pcbptr[dst], dst)
  THEN got' = [before EXCEPT ![pcbptr[dst]] = m] /\ UNCHANGED mail
  ELSE /\ got' = before
       /\ mail' = IF maillist = NULL THEN mail ELSE [mail EXCEPT ![maillist] = m]

-----------------------------------------------------------------------------
(* What the programs have in common.                                       *)

Own == [p \in {time_server, input_server, output_server, user, IdleProc} |->
          CASE p = time_server -> TIME_SERVER_MSGQ
            [] p = input_server -> INPUT_SERVER_MSGQ
            [] p = output_server -> OUTPUT_SERVER_MSGQ
            [] p = user -> USER_MSGQ
            [] p = IdleProc -> IDLE_MSGQ]

bind(p) ==
  /\ Goes(p, "bind", IF p \in {IdleProc, user} THEN "print" ELSE "recv")
  /\ Bind(p, Own[p])
  /\ UNCHANGED <<data, search>>

\* The program goes on when recv returns, at once or after having blocked.
recv(p) ==
  /\ Goes(p, "recv", IF p = user THEN "end" ELSE "got")
  /\ Recv(p, Own[p])
  /\ got' = IF mailq[Own[p]] = NULL THEN got
            ELSE [got EXCEPT ![p] = mail[links.prev[mailq[Own[p]]]]]
  /\ UNCHANGED <<mail, search>>

\* What p may send where it is in its program, to whom, and where it goes on.
\* time_server shows the time at a tick, and answers a request.
Outgoing(p) ==
  CASE p = IdleProc /\ at[p] = "print" ->
         {[dst |-> OUTPUT_SERVER_MSGQ, msg |-> "text", then |-> "print"]}
    [] p = user /\ at[p] = "print" ->
         {[dst |-> OUTPUT_SERVER_MSGQ, msg |-> "text", then |-> "choose"]}
    [] p = user /\ at[p] = "ask" ->
         {[dst |-> TIME_SERVER_MSGQ, msg |-> m, then |-> "recv"] : m \in {"TIME", "time?"}}
    [] p = time_server /\ at[p] = "got" /\ got[p].src = SYSTICK_HANDLER ->
         {[dst |-> OUTPUT_SERVER_MSGQ, msg |-> "text", then |-> "recv"]}
    [] p = time_server /\ at[p] = "got" /\ got[p].src # SYSTICK_HANDLER
                       /\ got[p].msg = "TIME" ->
         {[dst |-> got[p].src, msg |-> "text", then |-> "recv"]}
    [] p = input_server /\ at[p] = "tell" ->
         {[dst |-> blocked_mailbox[ptr], msg |-> "line", then |-> "clear"]}
    [] OTHER -> {}

\* send: its checks in the process, where one may fail, and its SVC.
send(p) ==
  \E o \in Outgoing(p) :
    \/ /\ o.dst \in Msgq
       /\ SendCheck(p, o.dst)
       /\ UNCHANGED <<at, data, search>>
    \/ /\ Thread(p) /\ sending[p] = 0
       /\ o.dst \in Msgq => pcbptr[o.dst] = NULL \/ o.msg = "line"
       /\ Goes(p, at[p], o.then)
       /\ got' = [got EXCEPT ![p] = NoMessage]
       /\ UNCHANGED <<vars, mail, search>>
    \/ /\ Send(p)
       /\ Deliver(sending[p], Message(Own[p], o.msg), [got EXCEPT ![p] = NoMessage])
       /\ Goes(p, at[p], o.then)
       /\ UNCHANGED search

-----------------------------------------------------------------------------
(* The rest of each program.                                               *)

\* A request that is none.
time_server_ignores ==
  /\ Thread(time_server)
  /\ got[time_server].src # SYSTICK_HANDLER /\ got[time_server].msg # "TIME"
  /\ Goes(time_server, "got", "recv")
  /\ got' = [got EXCEPT ![time_server] = NoMessage]
  /\ UNCHANGED <<vars, mail, search>>

\* The owner of the source, as output_server finds it.
Asker == IF got[output_server].src \in Msgq THEN pcbptr[got[output_server].src] ELSE NULL

\* Without an owner it works on the vector table: a write to it raises a fault,
\* and the CPU stays in FaultISR, or is ignored.
Faults == Asker = NULL /\ Goes(output_server, at[output_server], "fault")
FaultISR == at[output_server] = "fault"

\* request_input = true, ...
output_server_flags ==
  /\ Thread(output_server)
  /\ at[output_server] = "got"
  /\ Faults \/ Goes(output_server, "got", "show")
  /\ request_input' = [p \in Proc |-> p = Asker \/ request_input[p]]
  /\ UNCHANGED <<vars, data, ptr, want>>

\* ... and then its window.
output_server_shows ==
  /\ Thread(output_server)
  /\ at[output_server] = "show"
  /\ Faults \/ Goes(output_server, "show", "recv")
  /\ got' = [got EXCEPT ![output_server] = NoMessage]
  /\ UNCHANGED <<vars, mail, search>>

\* A character of the line, ENTER without a pid, or ENTER with one: the search
\* begins at the head of blockq, which may be NULL.
decode_cmd ==
  /\ Thread(input_server)
  /\ \/ Goes(input_server, "got", "recv") /\ UNCHANGED <<ptr, want>>
     \/ /\ Goes(input_server, "got", "search")
        /\ want' \in Wanted
        /\ ptr' = IF blockq = <<>> THEN NULL ELSE Head(blockq)
  /\ got' = [got EXCEPT ![input_server] = NoMessage]
  /\ UNCHANGED <<vars, mail, request_input>>

\* The ring a pcb is in.
RingOf(p) == IF p \in Range(blockq) THEN blockq
             ELSE IF p \in Range(pcblist) THEN pcblist
             ELSE pqueue[prio[p]]

\* decode_cmd returns.
SearchOver == ptr' = NULL /\ want' = NULL

\* One round of the search; with ptr = NULL it would leave the pcbs.
Search ==
  /\ Thread(input_server)
  /\ ptr # NULL
  /\ LET next == Following(ptr, RingOf(ptr))
     IN  IF ptr = want /\ request_input[ptr]
         THEN Goes(input_server, "search", "tell") /\ UNCHANGED <<ptr, want>>
         ELSE IF blockq # <<>> /\ next = Head(blockq)
         THEN Goes(input_server, "search", "recv") /\ SearchOver
         ELSE Goes(input_server, "search", "search") /\ ptr' = next /\ UNCHANGED want
  /\ UNCHANGED <<vars, data, request_input>>

\* Mutant of Found: no break.
FoundGoesOn ==
  /\ Thread(input_server)
  /\ Goes(input_server, "clear", "search")
  /\ request_input' = [request_input EXCEPT ![ptr] = FALSE]
  /\ UNCHANGED <<vars, data, ptr, want>>

\* The flag is cleared, sent or not, and the search is over.
Found ==
  /\ Thread(input_server)
  /\ Goes(input_server, "clear", "recv")
  /\ request_input' = [request_input EXCEPT ![ptr] = FALSE]
  /\ SearchOver
  /\ UNCHANGED <<vars, data>>

\* The user's program waits for input, asks for the time, or ends.
UserChooses ==
  /\ Thread(user)
  /\ \E next \in {"ask", "recv", "end"} : Goes(user, "choose", next)
  /\ UNCHANGED <<vars, data, search>>

UserEnds ==
  /\ Terminate(user)
  /\ Goes(user, "end", "ended")
  /\ got' = [got EXCEPT ![user] = NoMessage]
  /\ UNCHANGED <<mail, search>>

-----------------------------------------------------------------------------
(* The kernel calls that go on, and the handlers.                          *)

\* return_mail clears the mail.
KernelGoesOn ==
  /\ KernelStep
  /\ mail' = IF kcall.tmp = NULL THEN mail ELSE [mail EXCEPT ![kcall.tmp] = Message(0, "none")]
  /\ UNCHANGED <<at, got, search>>

Handlers ==
  /\ \/ UartReceive /\ Deliver(INPUT_SERVER_MSGQ, Message(UART_INPUT_HANDLER, "char"), got)
     \/ SysTick /\ TickDue /\ Deliver(TIME_SERVER_MSGQ, Message(SYSTICK_HANDLER, "tick"), got)
     \/ SysTick /\ ~TickDue /\ UNCHANGED data
     \/ PendSV /\ UNCHANGED data
     \/ next_process /\ UNCHANGED data
  /\ UNCHANGED <<at, search>>

Program == \/ \E p \in DOMAIN Own : bind(p) \/ send(p)
           \/ \E p \in DOMAIN Own \ {IdleProc} : recv(p)
           \/ time_server_ignores
           \/ output_server_flags \/ output_server_shows
           \/ decode_cmd \/ Search \/ Found
           \/ UserChooses \/ UserEnds

ServersNext == ~FaultISR /\ (Program \/ KernelGoesOn \/ Handlers)

ServersSpec == ServersInit /\ [][ServersNext]_allvars

-----------------------------------------------------------------------------
(* What should hold.                                                       *)

\* decode_cmd walks through blocked pcbs.
OnBlockq ==
  at[input_server] \in {"search", "tell"} => ptr \in Range(blockq)

\* "check blocked queue" (main.c:90).  The search leaves blockq in two ways: it
\* begins when nobody is blocked, or somebody else's step wakes up the pcb it
\* looks at.
SearchStays ==
  [][OnBlockq => \/ OnBlockq'
                 \/ blockq = <<>>
                 \/ UNCHANGED <<ptr, want>> /\ at'[input_server] = at[input_server]]_allvars
=============================================================================
