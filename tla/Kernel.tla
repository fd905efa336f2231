------------------------------- MODULE Kernel -------------------------------
(***************************************************************************)
(* The kernel of Kernel.c, Proc_switch.c and Systick.c: priority queues of *)
(* ready processes, the block queue, message queues and the mail pool, and *)
(* the handlers that change them.                                          *)
(*                                                                         *)
(* Who runs when.  SVCall, SysTick and UART0 are at exception priority 0   *)
(* (kernel_init and the reset value), so none preempts another: a kernel   *)
(* call and a handler are atomic.  PendSV is at the lowest priority: it    *)
(* begins once no other handler is active, and ends before any process     *)
(* runs.  A process is preempted between any two of its own steps.         *)
(*                                                                         *)
(* The rings of pcbs and of message queues are sequences (module Rings,    *)
(* implemented by Queue.c as module Queue shows); the mails are linked     *)
(* pointer by pointer (module Links), because one head pointer into their  *)
(* rings is not kept up to date by the code.  What a mail says is left     *)
(* out: no guard of the kernel reads it.                                   *)
(***************************************************************************)
EXTENDS Links, Rings, FiniteSets

CONSTANTS
  Proc,           \* the registered processes (pcbs)
  IdleProc,       \* idle_proc of main.c: it sends, and never blocks or ends
  Mail,           \* the mails of the pool
  MailRing,       \* the mail list as reg_mails leaves it, from its head on
  RegQueue,       \* pqueue as the reg_proc calls of main leave it
  HIGHEST_PRIO,   \* priorities are 1..HIGHEST_PRIO
  MSGQARR_SIZE,   \* message queue numbers are 1..MSGQARR_SIZE
  INPUT_SERVER_MSGQ, TIME_SERVER_MSGQ,  \* where the two handlers send
  TICKS,          \* SysTick periods between two messages to the time server
  Calls           \* the kernel calls the processes of this instance make

Prio == 1..HIGHEST_PRIO
Msgq == 1..MSGQARR_SIZE

ASSUME ConstantsOK ==
  /\ IdleProc \in Proc
  /\ NULL \notin Proc /\ NULL \notin Mail
  /\ HIGHEST_PRIO \in Nat \ {0}
  /\ MSGQARR_SIZE \in Nat \ {0}
  /\ INPUT_SERVER_MSGQ \in Msgq /\ TIME_SERVER_MSGQ \in Msgq
  /\ TICKS \in Nat \ {0}
  /\ Calls \subseteq {"NICE", "TERMINATE", "SEND", "RECV", "BIND", "UNBIND"}

\* main registers every process once, the idle process at priority 1.
ASSUME RegQueueOK ==
  /\ RegQueue \in [Prio -> Seq(Proc)]
  /\ \A k \in Prio : NoDuplicates(RegQueue[k])
  /\ \A p \in Proc : \E k \in Prio :
       /\ p \in Range(RegQueue[k])
       /\ \A j \in Prio : p \in Range(RegQueue[j]) => j = k
  /\ IdleProc \in Range(RegQueue[1])

\* reg_mails puts every mail once in the list.
ASSUME MailRingOK ==
  /\ MailRing \in Seq(Mail) /\ MailRing # <<>>
  /\ NoDuplicates(MailRing)
  /\ Range(MailRing) = Mail

VARIABLES
  running,          \* the pcb that owns the CPU
  pqueue,           \* pqueue[k]: the ready processes of priority k
  blockq,           \* the processes waiting in recv
  pcblist,          \* the pcbs given back by terminate
  state,            \* pcb->state (RUNNING is never assigned by the code)
  prio,             \* pcb->prio
  blocked_mailbox,  \* pcb->blocked_mailbox, 0 before the first block
  msgqptr,          \* pcb->msgqptr: the message queues it owns
  pcbptr,           \* msgq_arr[b-1].pcbptr: the owner of message queue b
  mailq,            \* msgq_arr[b-1].mailq
  maillist,         \* the head of the free mails
  links,            \* the next and prev fields of the mails
  sending,          \* the dst a process has checked in send, before its SVC; or 0
  kcall,            \* the loop of k_unbind or k_terminate in progress
  pendsv,           \* PendSV is pending
  switching,        \* PendSV_Handler has begun and not yet called next_process
  tick_cnt          \* the static counter of SysTickHandler

sched == <<running, pqueue, blockq, pcblist, state, prio, blocked_mailbox>>
mails == <<mailq, maillist, links>>
owners == <<msgqptr, pcbptr>>
irq == <<pendsv, switching, tick_cnt>>
vars == <<sched, mails, owners, sending, kcall, irq>>

\* kcall between two kernel calls.
NoCall == [code |-> "NONE", box |-> 0, tmp |-> NULL]

KCall == [code : {"NONE", "UNBIND", "TERMINATE"},
          box : 0..MSGQARR_SIZE,
          tmp : Mail \cup {NULL}]

TypeOK ==
  /\ running \in Proc
  /\ pqueue \in [Prio -> Seq(Proc)]
  /\ blockq \in Seq(Proc)
  /\ pcblist \in Seq(Proc)
  /\ state \in [Proc -> {"WTR", "BLOCKED"}]
  /\ prio \in [Proc -> Prio]
  /\ blocked_mailbox \in [Proc -> 0..MSGQARR_SIZE]
  /\ msgqptr \in [Proc -> Seq(Msgq)]
  /\ pcbptr \in [Msgq -> Proc \cup {NULL}]
  /\ mailq \in [Msgq -> Mail \cup {NULL}]
  /\ maillist \in Mail \cup {NULL}
  /\ links \in [next : [Mail -> Mail], prev : [Mail -> Mail]]
  /\ sending \in [Proc -> 0..MSGQARR_SIZE]
  /\ kcall \in KCall
  /\ pendsv \in BOOLEAN
  /\ switching \in BOOLEAN
  /\ tick_cnt \in 0..TICKS

-----------------------------------------------------------------------------
\* The priorities of set S that have a ready process in queue family q.
Occupied(q, S) == {k \in S : q[k] # <<>>}

\* The process a walk down the priorities of S finds: the head of the first
\* queue that is not empty.
FirstReady(q, S) == q[Max(Occupied(q, S))][1]

\* The last process that reg_proc made running: registered at the highest
\* priority, and last among those.
Init ==
  /\ pqueue = RegQueue
  /\ running = FirstReady(RegQueue, Prio)
  /\ blockq = <<>>
  /\ pcblist = <<>>
  /\ state = [p \in Proc |-> "WTR"]
  /\ prio = [p \in Proc |-> CHOOSE k \in Prio : p \in Range(RegQueue[k])]
  /\ blocked_mailbox = [p \in Proc |-> 0]
  /\ msgqptr = [p \in Proc |-> <<>>]
  /\ pcbptr = [b \in Msgq |-> NULL]
  /\ mailq = [b \in Msgq |-> NULL]
  /\ maillist = MailRing[1]
  /\ links = [next |-> [m \in Mail |-> Following(m, MailRing)],
              prev |-> [m \in Mail |-> CHOOSE l \in Mail :
                                         Following(l, MailRing) = m]]
  /\ sending = [p \in Proc |-> 0]
  /\ kcall = NoCall
  /\ pendsv = FALSE
  /\ switching = FALSE
  /\ tick_cnt = 0

-----------------------------------------------------------------------------
\* No handler is in the middle of its work: an exception can be taken.
HandlerDone == kcall = NoCall

\* Process p executes its own code.
Thread(p) == /\ running = p
             /\ HandlerDone
             /\ ~pendsv /\ ~switching

\* Process p is about to make a kernel call of this kind.
CallsKernel(p, code) == /\ Thread(p)
                        /\ sending[p] = 0
                        /\ code \in Calls

\* change_running(running): the CPU goes to the next process of the same
\* priority, or, when running is alone there, down to the next priority that
\* has one; the process leaves its priority queue.
change_running ==
  LET own == pqueue[prio[running]]
  IN  /\ running' = IF Len(own) = 1
                    THEN FirstReady(pqueue, 1..(prio[running] - 1))
                    ELSE Following(running, own)
      /\ pqueue' = [pqueue EXCEPT ![prio[running]] = Deq(running, @)]

-----------------------------------------------------------------------------
(* k_send, from a process (send) or from a handler.                        *)

\* Mutant of WaitsOn: the number of the message queue taken for its index.
WaitsOnIndex(p, b) == /\ p # NULL
                      /\ state[p] = "BLOCKED"
                      /\ blocked_mailbox[p] = b - 1

\* Process p is blocked on message queue b.  A queue without owner gives the
\* NULL pcb: its state is read from the vector table, where the byte is odd.
WaitsOn(p, b) == /\ p # NULL
                 /\ state[p] = "BLOCKED"
                 /\ blocked_mailbox[p] = b

\* Mutant of Preempts: the comparison the other way round.
PreemptsBelow(p) == prio[p] <= prio[running]

\* Mutant of Preempts: not from an equal one.
PreemptsAbove(p) == prio[p] > prio[running]

\* A process that becomes ready takes the CPU from an equal or lower one.
Preempts(p) == prio[p] >= prio[running]

\* Mutant of Resume: the pcb is not taken out of the block queue.
ResumeLeftBlocked(p) ==
  /\ pqueue' = [pqueue EXCEPT ![prio[p]] = Enq(p, @)]
  /\ state' = [state EXCEPT ![p] = "WTR"]
  /\ running' = IF Preempts(p) THEN p ELSE running
  /\ UNCHANGED <<blockq, pcblist, prio, blocked_mailbox, mails>>

\* Receiver blocked: it gets the message and the CPU, unless a process of
\* higher priority runs.
Resume(p) ==
  /\ blockq' = Deq(p, blockq)
  /\ pqueue' = [pqueue EXCEPT ![prio[p]] = Enq(p, @)]
  /\ state' = [state EXCEPT ![p] = "WTR"]
  /\ running' = IF Preempts(p) THEN p ELSE running
  /\ UNCHANGED <<pcblist, prio, blocked_mailbox, mails>>

\* Receiver not blocked: a free mail, if there is one, is queued for it.
Store(dst) ==
  /\ UNCHANGED sched
  /\ IF maillist = NULL
     THEN UNCHANGED mails
     ELSE /\ maillist' = DeqHead(links, maillist, maillist)
          /\ links' = EnqLinks(DeqLinks(links, maillist, maillist),
                               maillist, mailq[dst])
          /\ mailq' = [mailq EXCEPT ![dst] = maillist]

k_send(dst) ==
  \/ WaitsOn(pcbptr[dst], dst) /\ Resume(pcbptr[dst])
  \/ ~WaitsOn(pcbptr[dst], dst) /\ Store(dst)

\* send, in the process: src must be its own and dst must have an owner.
SendCheck(p, dst) ==
  /\ CallsKernel(p, "SEND")
  /\ msgqptr[p] # <<>>
  /\ pcbptr[dst] # NULL
  /\ sending' = [sending EXCEPT ![p] = dst]
  /\ UNCHANGED <<sched, mails, owners, kcall, irq>>

\* send, the SVC: the kernel does not look at the owner again.
Send(p) ==
  /\ Thread(p)
  /\ sending[p] # 0
  /\ k_send(sending[p])
  /\ sending' = [sending EXCEPT ![p] = 0]
  /\ UNCHANGED <<owners, kcall, irq>>

-----------------------------------------------------------------------------
(* recv, bind, unbind, nice: what their process-side checks read (its own  *)
(* priority, the owner of its own queues) only the process itself changes, *)
(* so a check and its kernel call are one step.                            *)

\* k_recv finds no mail: the process blocks.
Block(p, b) ==
  /\ mailq[b] = NULL
  /\ change_running
  /\ blockq' = Enq(p, blockq)
  /\ blocked_mailbox' = [blocked_mailbox EXCEPT ![p] = b]
  /\ state' = [state EXCEPT ![p] = "BLOCKED"]
  /\ UNCHANGED <<pcblist, prio, mails>>

\* Mutant of Fetch: the mail is not given back.
FetchKept(b) ==
  /\ mailq[b] # NULL
  /\ links' = DeqLinks(links, links.prev[mailq[b]], mailq[b])
  /\ UNCHANGED <<mailq, maillist, sched>>

\* Mutant of Fetch: the newest mail is taken.
FetchNewest(b) ==
  LET newest == mailq[b]
  IN  /\ newest # NULL
      /\ links' = EnqLinks(DeqLinks(links, newest, newest), newest, maillist)
      /\ mailq' = [mailq EXCEPT ![b] = DeqHead(links, newest, newest)]
      /\ maillist' = newest
      /\ UNCHANGED sched

\* k_recv takes the oldest mail and gives it back to the mail list.  It
\* dequeues from mq, a copy of the message queue, so mailq stays as it was.
Fetch(b) ==
  LET oldest == links.prev[mailq[b]]
  IN  /\ mailq[b] # NULL
      /\ links' = EnqLinks(DeqLinks(links, oldest, mailq[b]), oldest, maillist)
      /\ maillist' = oldest
      /\ UNCHANGED <<mailq, sched>>

Recv(p, b) ==
  /\ CallsKernel(p, "RECV")
  /\ p # IdleProc
  /\ pcbptr[b] = p
  /\ Block(p, b) \/ Fetch(b)
  /\ UNCHANGED <<owners, sending, kcall, irq>>

\* Mutant of Free: nobody looks at the owner.
FreeUnchecked == Msgq

\* k_bind: number 0 asks for the first free message queue.
Free == {b \in Msgq : pcbptr[b] = NULL}

Bind(p, num) ==
  /\ CallsKernel(p, "BIND")
  /\ IF num = 0 THEN Free # {} ELSE num \in Free
  /\ LET b == IF num = 0 THEN Min(Free) ELSE num
     IN  /\ pcbptr' = [pcbptr EXCEPT ![b] = p]
         /\ msgqptr' = [msgqptr EXCEPT ![p] = Enq(b, @)]
  /\ UNCHANGED <<sched, mails, sending, kcall, irq>>

\* nice and k_nice.
Nice(p, new) ==
  /\ CallsKernel(p, "NICE")
  /\ p # IdleProc
  /\ new # prio[p]
  /\ LET moved == [pqueue EXCEPT ![prio[p]] = Deq(p, @), ![new] = Enq(p, @)]
     IN  /\ pqueue' = moved
         /\ running' = IF new < prio[p] THEN FirstReady(moved, Prio) ELSE p
  /\ prio' = [prio EXCEPT ![p] = new]
  /\ UNCHANGED <<blockq, pcblist, state, blocked_mailbox>>
  /\ UNCHANGED <<mails, owners, sending, kcall, irq>>

-----------------------------------------------------------------------------
(* k_unbind and k_terminate give the mails of a message queue back, one    *)
(* iteration of return_mail at a time: the loop ends when the queue's head *)
(* becomes NULL, and nothing runs before that.                             *)

\* Mutant of Unbind: the owner stays.
UnbindKeepsOwner(p, b) ==
  /\ CallsKernel(p, "UNBIND")
  /\ p # IdleProc
  /\ pcbptr[b] = p
  /\ kcall' = [code |-> "UNBIND", box |-> b, tmp |-> mailq[b]]
  /\ UNCHANGED <<sched, mails, owners, sending, irq>>

Unbind(p, b) ==
  /\ CallsKernel(p, "UNBIND")
  /\ p # IdleProc
  /\ pcbptr[b] = p
  /\ pcbptr' = [pcbptr EXCEPT ![b] = NULL]
  /\ kcall' = [code |-> "UNBIND", box |-> b, tmp |-> mailq[b]]
  /\ UNCHANGED <<sched, mails, msgqptr, sending, irq>>

Terminate(p) ==
  /\ CallsKernel(p, "TERMINATE")
  /\ p # IdleProc
  /\ kcall' = [code |-> "TERMINATE", box |-> 0, tmp |-> NULL]
  /\ UNCHANGED <<sched, mails, owners, sending, irq>>

\* Mutant of return_mail: the loop tests the mail list.
return_mail_other ==
  LET b    == kcall.box
      mptr == kcall.tmp
  IN  /\ mptr # NULL
      /\ mailq' = [mailq EXCEPT ![b] = DeqHead(links, mptr, @)]
      /\ links' = EnqLinks(DeqLinks(links, mptr, mailq[b]), mptr, maillist)
      /\ maillist' = mptr
      /\ kcall' = [kcall EXCEPT !.tmp = IF maillist' = NULL THEN NULL
                                        ELSE links.next[mptr]]
      /\ UNCHANGED <<sched, owners, sending, irq>>

\* One iteration of return_mail.
return_mail ==
  LET b    == kcall.box
      mptr == kcall.tmp
      head == DeqHead(links, mptr, mailq[b])
  IN  /\ mptr # NULL
      /\ mailq' = [mailq EXCEPT ![b] = head]
      /\ links' = EnqLinks(DeqLinks(links, mptr, mailq[b]), mptr, maillist)
      /\ maillist' = mptr
      /\ kcall' = [kcall EXCEPT !.tmp = IF head = NULL THEN NULL
                                        ELSE links.next[mptr]]
      /\ UNCHANGED <<sched, owners, sending, irq>>

\* k_unbind, after its mails: the queue leaves the process's list.
UnbindDone ==
  /\ kcall.code = "UNBIND"
  /\ kcall.tmp = NULL
  /\ msgqptr' = [msgqptr EXCEPT ![running] = Deq(kcall.box, @)]
  /\ kcall' = NoCall
  /\ UNCHANGED <<sched, mails, pcbptr, sending, irq>>

\* k_terminate takes the next message queue of the process.
TerminateMsgq ==
  /\ kcall.code = "TERMINATE"
  /\ kcall.tmp = NULL
  /\ msgqptr[running] # <<>>
  /\ LET b == Head(msgqptr[running])
     IN  /\ pcbptr' = [pcbptr EXCEPT ![b] = NULL]
         /\ kcall' = [kcall EXCEPT !.box = b, !.tmp = mailq[b]]
  /\ msgqptr' = [msgqptr EXCEPT ![running] = Tail(@)]
  /\ UNCHANGED <<sched, mails, sending, irq>>

\* Mutant of TerminateDone: the pcb list gets the new running process.
TerminateOther ==
  /\ kcall.code = "TERMINATE"
  /\ kcall.tmp = NULL
  /\ msgqptr[running] = <<>>
  /\ change_running
  /\ pcblist' = Enq(running', pcblist)
  /\ kcall' = NoCall
  /\ UNCHANGED <<blockq, state, prio, blocked_mailbox>>
  /\ UNCHANGED <<mails, owners, sending, irq>>

\* k_terminate, after its message queues: the pcb goes back to the pcb list.
TerminateDone ==
  /\ kcall.code = "TERMINATE"
  /\ kcall.tmp = NULL
  /\ msgqptr[running] = <<>>
  /\ change_running
  /\ pcblist' = Enq(running, pcblist)
  /\ kcall' = NoCall
  /\ UNCHANGED <<blockq, state, prio, blocked_mailbox>>
  /\ UNCHANGED <<mails, owners, sending, irq>>

KernelStep == return_mail \/ UnbindDone \/ TerminateMsgq \/ TerminateDone

-----------------------------------------------------------------------------
(* The handlers.                                                           *)

\* UART0_IntHandler got a character that is no part of an escape sequence.
UartReceive ==
  /\ HandlerDone
  /\ k_send(INPUT_SERVER_MSGQ)
  /\ UNCHANGED <<owners, sending, kcall, irq>>

\* Mutant of TickDue: one tick late.
TickLate == tick_cnt = TICKS + 1

\* The counter of SysTickHandler has reached its limit.
TickDue == tick_cnt = TICKS

\* SysTickHandler: PendSV is triggered; every TICKS ticks the time server
\* gets a message.
SysTick ==
  /\ HandlerDone
  /\ pendsv' = TRUE
  /\ IF TickDue
     THEN tick_cnt' = 1 /\ k_send(TIME_SERVER_MSGQ)
     ELSE tick_cnt' = tick_cnt + 1 /\ UNCHANGED <<sched, mails>>
  /\ UNCHANGED <<owners, sending, kcall, switching>>

\* PendSV_Handler begins; the other handlers can still preempt it, and SysTick
\* can make PendSV pending again.
PendSV ==
  /\ HandlerDone
  /\ pendsv /\ ~switching
  /\ pendsv' = FALSE
  /\ switching' = TRUE
  /\ UNCHANGED <<sched, mails, owners, sending, kcall, tick_cnt>>

\* Mutant of next_process: always the head of the queue.
next_process_head ==
  /\ HandlerDone
  /\ switching
  /\ running' = pqueue[prio[running]][1]
  /\ switching' = FALSE
  /\ UNCHANGED <<pqueue, blockq, pcblist, state, prio, blocked_mailbox>>
  /\ UNCHANGED <<mails, owners, sending, kcall, pendsv, tick_cnt>>

\* next_process, with the interrupts disabled.
next_process ==
  /\ HandlerDone
  /\ switching
  /\ running' = Following(running, pqueue[prio[running]])
  /\ switching' = FALSE
  /\ UNCHANGED <<pqueue, blockq, pcblist, state, prio, blocked_mailbox>>
  /\ UNCHANGED <<mails, owners, sending, kcall, pendsv, tick_cnt>>

ProcessStep(p) ==
  \/ \E b \in Msgq : SendCheck(p, b) \/ Recv(p, b) \/ Unbind(p, b)
  \/ \E num \in 0..MSGQARR_SIZE : Bind(p, num)
  \/ \E new \in Prio : Nice(p, new)
  \/ Send(p)
  \/ Terminate(p)

Next == \/ \E p \in Proc : ProcessStep(p)
        \/ KernelStep
        \/ UartReceive
        \/ SysTick
        \/ PendSV
        \/ next_process

Spec == Init /\ [][Next]_vars

\* Time passes and the hardware takes what is pending; a kernel call goes on.
\* SysTick stays pending during a kernel call and is taken after it, however
\* many calls follow.  The processes owe nothing.
Fairness == /\ SF_vars(SysTick)
            /\ WF_vars(PendSV)
            /\ WF_vars(next_process)
            /\ WF_vars(KernelStep)

FairSpec == Spec /\ Fairness

-----------------------------------------------------------------------------
(* What should hold.                                                       *)

Ended(p) == p \in Range(pcblist)

Ready(p) == state[p] = "WTR" /\ ~Ended(p)

\* Every pcb is in the one ring its own fields name: a ready process in the
\* queue of its priority, a blocked one in blockq, a terminated one in pcblist,
\* none in two rings or twice in one.  The pcb has one pair of links, and
\* PendSV_Handler, k_send and change_running each deq from or walk the ring
\* they infer from state and prio (Kernel.c:116, 320; Proc_switch.c:80).
PlacedOnce ==
  /\ \A k \in Prio : NoDuplicates(pqueue[k])
  /\ NoDuplicates(blockq) /\ NoDuplicates(pcblist)
  /\ \A p \in Proc :
       /\ \A k \in Prio : p \in Range(pqueue[k]) <=> Ready(p) /\ prio[p] = k
       /\ p \in Range(blockq) <=> state[p] = "BLOCKED"
       /\ Ended(p) => state[p] = "WTR"

\* "only the process with current highest priority gets to occupy CPU"
\* (README.md:8): the running process is ready, and no ready process has a
\* higher priority, after every call, wake-up and switch.
RunningIsHighest ==
  /\ Ready(running)
  /\ \A p \in Proc : Ready(p) => prio[p] <= prio[running]

\* There is always a process for the CPU: idle_proc is ready at the lowest
\* priority, so the walks down pqueue (Kernel.c:91, 121), which test no lower
\* bound, end inside the array.
CpuHasWork == Ready(IdleProc) /\ prio[IdleProc] = 1

\* No lost wake-up: while a process is blocked on a message queue, it owns the
\* queue (so that k_send finds it) and no mail waits there.
NoLostWakeup ==
  \A p \in Proc : state[p] = "BLOCKED" =>
    /\ blocked_mailbox[p] \in Msgq
    /\ pcbptr[blocked_mailbox[p]] = p
    /\ mailq[blocked_mailbox[p]] = NULL

\* The two records of ownership agree at every step of every call: a message
\* queue is in the list of the process its pcbptr names, and in no other, but
\* for the one k_unbind is emptying; a terminated process owns none.
OwnersAgree ==
  /\ \A p \in Proc :
       /\ NoDuplicates(msgqptr[p])
       /\ Ended(p) => msgqptr[p] = <<>>
  /\ \A p \in Proc, b \in Msgq :
       b \in Range(msgqptr[p]) <=>
         \/ pcbptr[b] = p
         \/ kcall.code = "UNBIND" /\ kcall.box = b /\ running = p

\* While k_unbind or k_terminate empties a message queue nobody owns it, so
\* that no process waits on it, and the mail the loop of return_mail dequeues
\* next is the head of the queue it passes to deq (Kernel.c:145, 147).
CallInProgress ==
  /\ kcall.code = "NONE" => kcall = NoCall
  /\ kcall.code # "NONE" => running # IdleProc
  /\ kcall.code = "UNBIND" => kcall.box # 0 /\ kcall.box \in Range(msgqptr[running])
  /\ kcall.box # 0 => pcbptr[kcall.box] = NULL
  /\ kcall.tmp # NULL => kcall.box # 0 /\ mailq[kcall.box] = kcall.tmp

\* The links of the mails always form rings, whichever head pointer a mail was
\* enqueued or dequeued through.
MailsLinked == MutuallyInverse(links, Mail)

\* The mails a head pointer leads to.
MailsOf(head) ==
  IF head = NULL THEN {} ELSE Range(Walk(links, head, Cardinality(Mail)))

\* No mail is lost: each can be reached from the mail list or from a message
\* queue, at every step of every call.  (It may be reached from several: see
\* NoStaleHead.)
MailsConserved ==
  Mail = MailsOf(maillist) \cup UNION {MailsOf(mailq[b]) : b \in Msgq}

\* k_recv gives the mail it has read "return the mail to mail list"
\* (Kernel.c:439) and takes it from its message queue: no message queue leads
\* into the mail list.
NoStaleHead == \A b \in Msgq : MailsOf(mailq[b]) \cap MailsOf(maillist) = {}

\* The mails a head pointer leads to, the oldest first.
OldestFirst(head) ==
  IF head = NULL THEN <<>>
  ELSE LET at == Walk(links, head, Cardinality(Mail))
           n  == Min({i \in 1..Cardinality(Mail) : at[i] = head})
       IN  [i \in 1..n |-> at[n - i]]

\* No head pointer leads to where another one does.
HeadsApart ==
  /\ NoStaleHead
  /\ \A a, b \in Msgq : a # b => MailsOf(mailq[a]) \cap MailsOf(mailq[b]) = {}

\* Messages are received in the order they were sent, through enq at the head,
\* deq from the tail and the mail list in between (Kernel.c:357-375, 410-440):
\* every step of the kernel is one of the FIFOs of module Mailboxes, until a
\* head pointer goes stale.
Boxes == INSTANCE Mailboxes WITH
           boxes <- [b \in Msgq |-> OldestFirst(mailq[b])],
           free  <- MailsOf(maillist),
           owned <- {b \in Msgq : pcbptr[b] # NULL}
MailsInOrder == [][HeadsApart /\ HeadsApart' => Boxes!Next]_mails

\* The loops of k_unbind and k_terminate end, as long as no message queue
\* leads into the mail list: return_mail (Kernel.c:142-160) stops only when it
\* has emptied the queue, and nothing can run before that.
CallsReturn == []NoStaleHead => (kcall # NoCall ~> kcall = NoCall)

\* "when the timer expires, it will be swapped out, and next process gets to
\* run" (README.md:10): as long as kernel calls return, a process that stays
\* ready at the highest priority gets the CPU again and again.
NextGetsToRun ==
  []<>HandlerDone =>
    \A p \in Proc :
      <>[](Ready(p) /\ prio[p] = prio[running]) => []<>(running = p)

\* A step changes neither the priority of a process that does not have the CPU
\* nor which message queues are its own.
OthersKept ==
  \A p \in Proc : p # running =>
    /\ prio'[p] = prio[p]
    /\ \A b \in Msgq : pcbptr[b] = p <=> pcbptr'[b] = p

\* What a process has checked about itself before its SVC is still so when the
\* kernel executes the call, however long it was preempted in between: nobody
\* else changes its priority (nice) or takes a message queue from it (recv,
\* unbind, the src of send).
OwnChecksHold == [][OthersKept]_vars

\* What each process is to the abstract scheduler.
status == [p \in Proc |-> IF Ended(p) THEN "ended"
                         ELSE IF state[p] = "BLOCKED" THEN "blocked" ELSE "ready"]

\* The rings, the handlers and the preemptions implement the abstract
\* scheduler: module Scheduler.
Sched == INSTANCE Scheduler
ImplementsScheduler == Sched!Spec
=============================================================================
