--------------------------- MODULE ContextSwitch ---------------------------
(***************************************************************************)
(* Stacks and registers across the switches of the kernel: SVCall, the     *)
(* PendSV_Handler of Proc_switch.c and the switch k_send makes when a      *)
(* handler calls it.  Which process gets the CPU is module Kernel's        *)
(* matter; here it is any ready one.                                       *)
(*                                                                         *)
(* A frame of a process stack is eight words of one of two kinds:          *)
(*   "R0_PSR"   what the hardware pushes on an exception out of a process, *)
(*   "R4_R11"   what save_registers and SVCall push,                       *)
(* or of a third, "own": what the code of the process pushed itself;       *)
(* each with the process whose values it holds.  An address in a stack is  *)
(* the process whose stack it is and the number of frames below it.        *)
(*                                                                         *)
(* PendSV is at the lowest priority: SysTick and UART0 can preempt its     *)
(* handler between any two instructions, except between the disable() and  *)
(* the enable() of next_process.  Its save_registers and restore_registers *)
(* are therefore three steps each, with the address they work on in r0.    *)
(* An interrupt keeps r0 on the main stack: PendSV_Handler goes on with    *)
(* the address it had, also after a handler has switched.                  *)
(*                                                                         *)
(* The switch in k_send needs a handler, and k_send, to leave r4-r11 alone *)
(* on the way to save_registers and back from restore_registers.  So it is *)
(* in the build of the repository (tiva_rtos/rtos/Debug: SysTickHandler,   *)
(* UART0_IntHandler and k_send push lr only, enq and deq nothing), and so  *)
(* it is here.  Code compiled to push r4-r11 there would pop the old       *)
(* process's over the new one's.                                           *)
(***************************************************************************)
EXTENDS Integers

CONSTANTS
  Proc,
  First,     \* the process main left in running
  Idle,      \* idle_proc: never blocks, never ends
  Servers,   \* the processes that wait for messages of the handlers
  JUNK,      \* values that are no process's r4-r11
  OWN,       \* BOUND: frames a process has of its own
  DEPTH      \* BOUND: frames modelled on one stack

ASSUME ProcessesOK == /\ First \in Proc /\ Idle \in Proc /\ Servers \subseteq Proc
                      /\ JUNK \notin Proc /\ OWN \in Nat
                      /\ DEPTH \in Nat /\ DEPTH >= OWN + 2

Frame == {"R0_PSR", "R4_R11", "own", "none"} \X (Proc \cup {JUNK})

VARIABLES
  cpu,      \* running, PSP, r4-r11, every pcb->sp and the stacks
  r0,       \* the address save_registers or restore_registers works on
  mode,     \* main, a process, the next step of PendSV_Handler, or lost
  pendsv,   \* PendSV is pending
  blocked,  \* the processes in blockq
  ended,    \* the processes that have terminated
  own       \* the frames each process has of its own, as its code knows

queues == <<blocked, ended>>
vars == <<cpu, r0, mode, pendsv, queues, own>>

\* Where SysTick and UART0 find PendSV_Handler: the instruction it is before.
Saving    == {"save", "store", "saved"}
Restoring == {"load", "loaded", "return"}
InPendSV  == Saving \cup {"switch", "restore"} \cup Restoring

TypeOK ==
  /\ cpu \in [running : Proc,
              psp     : Proc \X (0..DEPTH),
              regs    : Proc \cup {JUNK},
              sp      : [Proc -> Proc \X (0..DEPTH)],
              stack   : [Proc -> [1..DEPTH -> Frame]]]
  /\ r0 \in Proc \X (0..DEPTH)
  /\ mode \in {"main", "thread", "lost"} \cup InPendSV
  /\ pendsv \in BOOLEAN
  /\ blocked \in SUBSET Proc /\ ended \in SUBSET Proc
  /\ own \in [Proc -> 0..OWN]

-----------------------------------------------------------------------------
(* Steps of the CPU c, and what they leave.                                *)

\* The frame above (stmdb), and the one at (ldmia), the address a.
Above(a) == <<a[1], a[2] + 1>>
Below(a) == <<a[1], a[2] - 1>>

\* The eight words at the address a, whatever they are.
FrameAt(c, a) == IF a[2] \in 1..DEPTH THEN c.stack[a[1]][a[2]] ELSE <<"none", JUNK>>

\* stmdb and ldmia, without what they do to the address.
Store(c, a, frame) == [c EXCEPT !.stack[a[1]][a[2] + 1] = frame]
Load(c, a) ==
  [c EXCEPT !.regs = IF FrameAt(c, a)[1] = "R4_R11" THEN FrameAt(c, a)[2] ELSE JUNK]

\* Mutant of Push: PSP is moved by stmdb and once more.
PushTwice(c, frame) == [Store(c, c.psp, frame) EXCEPT !.psp = Above(Above(c.psp))]

Push(c, frame) == [Store(c, c.psp, frame) EXCEPT !.psp = Above(c.psp)]
Pop(c) == [c EXCEPT !.psp = Below(c.psp)]

\* As nothing comes between their instructions: in SVCall and in the handlers.
save_registers(c) == Push(c, <<"R4_R11", c.regs>>)
restore_registers(c) == Pop(Load(c, c.psp))

\* An exception out of a process: the hardware pushes its half of the frame.
Stacked(c) == Push(c, <<"R0_PSR", c.running>>)

\* The return of an exception finds the frame the hardware pushed for running.
CanUnstack(c) == FrameAt(c, c.psp) = <<"R0_PSR", c.running>>

\* running->sp = get_PSP()
SaveSp(c) == [c EXCEPT !.sp[c.running] = c.psp]

\* running = q; set_PSP(running->sp)
SwitchTo(c, q) == [c EXCEPT !.running = q, !.psp = c.sp[q]]

\* Mutant of HandlerSwitch: the registers are not saved.
HandlerSwitchUnsaved(c, q) == restore_registers(SwitchTo(SaveSp(c), q))

\* k_send called by a handler, for a receiver that takes the CPU.
HandlerSwitch(c, q) ==
  restore_registers(SwitchTo(SaveSp(save_registers(c)), q))

-----------------------------------------------------------------------------
\* What r0 holds while nothing depends on it.
NotUsed == <<First, 0>>

\* reg_proc has built a complete frame on the stack of every process.
Init ==
  /\ cpu = [running |-> First,
            psp     |-> <<First, 0>>,
            regs    |-> JUNK,
            sp      |-> [p \in Proc |-> <<p, 2>>],
            stack   |-> [p \in Proc |-> [i \in 1..DEPTH |->
                           CASE i = 1 -> <<"R0_PSR", p>>
                             [] i = 2 -> <<"R4_R11", p>>
                             [] OTHER -> <<"none", JUNK>>]]]
  /\ r0 = NotUsed
  /\ mode = "main" /\ pendsv = FALSE /\ blocked = {} /\ ended = {}
  /\ own = [p \in Proc |-> 0]

\* The first SVC skips the R4_R11 frame: the process has no values in r4-r11.
FirstSVC ==
  /\ mode = "main"
  /\ mode' = "thread"
  /\ cpu' = [cpu EXCEPT !.psp = <<First, 0>>, !.regs = First]
  /\ UNCHANGED <<r0, pendsv, queues, own>>

\* A process calls a function, or returns from one.
Calls ==
  /\ mode = "thread" /\ own[cpu.running] < OWN
  /\ cpu' = Push(cpu, <<"own", cpu.running>>)
  /\ own' = [own EXCEPT ![cpu.running] = @ + 1]
  /\ UNCHANGED <<r0, mode, pendsv, queues>>

Returns ==
  /\ mode = "thread" /\ own[cpu.running] > 0
  /\ cpu' = Pop(cpu)
  /\ own' = [own EXCEPT ![cpu.running] = @ - 1]
  /\ UNCHANGED <<r0, mode, pendsv, queues>>

Ready == Proc \ (blocked \cup ended)

\* The end of an exception on the CPU c: PendSV if it is pending, or the return
\* to the process.  When what is popped is no hardware frame, or that of another
\* process than running, the context is lost, and nothing is said of what follows.
Leave(c, pending) ==
  /\ pendsv' = FALSE /\ r0' = NotUsed
  /\ CASE pending                   -> cpu' = c /\ mode' = "save"
       [] ~pending /\ CanUnstack(c)  -> cpu' = Pop(c) /\ mode' = "thread"
       [] ~pending /\ ~CanUnstack(c) -> cpu' = c /\ mode' = "lost"

\* SVCall of a process has pushed both halves of its frame and calls SVCHandler.
InSVC == save_registers(Stacked(cpu))

\* SVCHandler has left the CPU as c: SVCall returns to the process running now.
SVCall(c) == mode = "thread" /\ Leave(restore_registers(c), FALSE)

\* k_recv blocks the process.
RecvBlocks ==
  /\ cpu.running # Idle
  /\ \E q \in Ready \ {cpu.running} : SVCall(SwitchTo(SaveSp(InSVC), q))
  /\ blocked' = blocked \cup {cpu.running}
  /\ UNCHANGED <<ended, own>>

\* k_send wakes a process up, which takes the CPU or not.
SendWakes ==
  \E q \in blocked :
    /\ SVCall(SwitchTo(SaveSp(InSVC), q)) \/ SVCall(InSVC)
    /\ blocked' = blocked \ {q}
    /\ UNCHANGED <<ended, own>>

\* k_nice lowers the priority: another process, or the same, has the highest.
NiceLowers ==
  /\ \E q \in Ready : SVCall(SwitchTo(SaveSp(InSVC), q))
  /\ UNCHANGED <<queues, own>>

\* k_terminate does not save sp: nothing will return to this process.
Terminates ==
  /\ cpu.running # Idle
  /\ \E q \in Ready \ {cpu.running} : SVCall(SwitchTo(InSVC, q))
  /\ ended' = ended \cup {cpu.running}
  /\ UNCHANGED <<blocked, own>>

-----------------------------------------------------------------------------
\* What UART0_IntHandler or SysTickHandler, on the CPU c, can leave: no message,
\* a message that is stored, or a message for a waiting process that takes the
\* CPU or does not.
Outcomes(c) ==
  {[cpu |-> c, blocked |-> blocked]} \cup
  UNION {{[cpu |-> d, blocked |-> blocked \ {q}] : d \in {c, HandlerSwitch(c, q)}}
          : q \in Servers \cap blocked}

\* A handler interrupts a process.
HandlerInThread(pending) ==
  /\ mode = "thread"
  /\ \E o \in Outcomes(Stacked(cpu)) :
       Leave(o.cpu, pending) /\ blocked' = o.blocked
  /\ UNCHANGED <<ended, own>>

\* A handler interrupts PendSV_Handler: nothing is pushed on a process stack, and
\* r0 is as it was when PendSV_Handler goes on.
HandlerInPendSV(pending) ==
  /\ mode \in InPendSV
  /\ cpu.psp[2] < DEPTH
  /\ \E o \in Outcomes(cpu) : cpu' = o.cpu /\ blocked' = o.blocked
  /\ pendsv' = (pendsv \/ pending)
  /\ UNCHANGED <<r0, mode, ended, own>>

UART0_IntHandler == HandlerInThread(FALSE) \/ HandlerInPendSV(FALSE)
SysTickHandler == HandlerInThread(TRUE) \/ HandlerInPendSV(TRUE)

-----------------------------------------------------------------------------
(* PendSV_Handler.                                                         *)

\* From one instruction to the next.
Step(from, to) == mode = from /\ mode' = to /\ UNCHANGED <<pendsv, queues, own>>

\* mrs r0,psp; stmdb r0!,{r4-r11}; msr psp,r0
PendSVSaves ==
  \/ /\ Step("save", "store")
     /\ r0' = cpu.psp /\ UNCHANGED cpu
  \/ /\ Step("store", "saved")
     /\ cpu' = Store(cpu, r0, <<"R4_R11", cpu.regs>>) /\ r0' = Above(r0)
  \/ /\ Step("saved", "switch")
     /\ cpu' = [cpu EXCEPT !.psp = r0] /\ r0' = NotUsed

\* Between disable() and enable().
next_process ==
  /\ Step("switch", "restore")
  /\ \E q \in Ready : cpu' = SwitchTo(SaveSp(cpu), q)
  /\ UNCHANGED r0

\* mrs r0,psp; ldmia r0!,{r4-r11}; msr psp,r0
PendSVRestores ==
  \/ /\ Step("restore", "load")
     /\ r0' = cpu.psp /\ UNCHANGED cpu
  \/ /\ Step("load", "loaded")
     /\ cpu' = Load(cpu, r0) /\ r0' = Below(r0)
  \/ /\ Step("loaded", "return")
     /\ cpu' = [cpu EXCEPT !.psp = r0] /\ r0' = NotUsed

PendSVReturns ==
  /\ mode = "return"
  /\ Leave(cpu, pendsv)
  /\ UNCHANGED <<queues, own>>

Next == \/ FirstSVC
        \/ Calls \/ Returns
        \/ RecvBlocks \/ SendWakes \/ NiceLowers \/ Terminates
        \/ UART0_IntHandler \/ SysTickHandler
        \/ PendSVSaves \/ next_process \/ PendSVRestores \/ PendSVReturns

Spec == Init /\ [][Next]_vars
-----------------------------------------------------------------------------
(* What should hold.                                                       *)

\* What the code of p has pushed is on its stack, where it was.
OwnFrames(p) == \A i \in 1..own[p] : cpu.stack[p][i] = <<"own", p>>

\* A process always continues with its own context: when it executes, PSP and
\* its stack below it are as it left them and r4-r11 have its own values, however
\* often it was preempted, blocked and woken up.
OwnContext ==
  /\ mode # "lost"
  /\ mode = "thread" => /\ cpu.psp = <<cpu.running, own[cpu.running]>>
                        /\ OwnFrames(cpu.running)
                        /\ cpu.regs = cpu.running

\* The frames of p's own and above them the hardware half of its context.
HardwareHalf(p) ==
  OwnFrames(p) /\ cpu.stack[p][own[p] + 1] = <<"R0_PSR", p>>

\* The software half on top of it.
BothHalves(p) == HardwareHalf(p) /\ cpu.stack[p][own[p] + 2] = <<"R4_R11", p>>

\* "the TOS is the complete stack_frame" (Kernel.c:546): the saved sp of every
\* process that is not at the CPU leads to both halves of its frame, the
\* software half on top, so that whoever switches to it can restore and return.
FramesComplete ==
  \A p \in Proc \ (ended \cup {cpu.running}) :
    cpu.sp[p] = <<p, own[p] + 2>> /\ BothHalves(p)

\* How much of the running process's context is on its stack at each instruction
\* of PendSV_Handler, the rest being in the registers, and where r0 leads.
HandlerContext ==
  LET p == cpu.running
  IN  /\ mode \in Saving \cup {"return"} =>
           cpu.psp = <<p, own[p] + 1>> /\ HardwareHalf(p) /\ cpu.regs = p
      /\ mode \in {"switch", "restore", "load", "loaded"} =>
           cpu.psp = <<p, own[p] + 2>> /\ BothHalves(p)
      /\ mode \in {"store", "load"} => r0 = cpu.psp
      /\ mode = "saved" => r0 = <<p, own[p] + 2>> /\ BothHalves(p)
      /\ mode = "loaded" => r0 = <<p, own[p] + 1>> /\ cpu.regs = p

ContextsKept == OwnContext /\ FramesComplete /\ HandlerContext

\* Between the mrs of save_registers and disable(), and between enable() and the
\* msr of restore_registers.
Windows == {"store", "saved", "switch", "restore", "load", "loaded"}

\* A handler switches to another process in one of them.
HandlerSwitchesInWindow ==
  mode \in Windows /\ mode' = mode /\ cpu'.running # cpu.running

\* Every context is kept by every step but one: all switches of kernel calls,
\* of PendSV_Handler, of a handler that interrupts a process, or interrupts
\* PendSV_Handler before the first mrs or after the last msr, are sound, in any
\* order.  Only a switch by a handler in the two windows can lose a context: in
\* them r4-r11 are on the stack already, or still, or r0 holds an address in the
\* stack of the process that ran, which msr makes the PSP of the new one.
LostOnlyInWindows ==
  [][ContextsKept /\ ~HandlerSwitchesInWindow => ContextsKept']_vars
=============================================================================
