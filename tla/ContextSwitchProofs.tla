------------------------- MODULE ContextSwitchProofs -------------------------
(***************************************************************************)
(* Proofs about ContextSwitch: each way of saving, switching and restoring *)
(* keeps every process's context, for any number of processes, any depth   *)
(* of their stacks, and in any order, except in the two windows of         *)
(* PendSV_Handler.                                                         *)
(***************************************************************************)
EXTENDS ContextSwitch, TLAPS

\* The types of the CPU, with no limit on PSP.
Cpu == [running : Proc,
        psp     : Proc \X Int,
        regs    : Proc \cup {JUNK},
        sp      : [Proc -> Proc \X Int],
        stack   : [Proc -> [1..DEPTH -> Frame]]]

\* What holds also after a context is lost: types, and that the running process
\* is neither blocked nor ended, and no process is both.
Shape ==
  /\ cpu \in Cpu
  /\ r0 \in Proc \X Int
  /\ mode \notin {"store", "saved", "load", "loaded"} => r0 = NotUsed
  /\ mode \in {"main", "thread", "lost"} \cup InPendSV
  /\ pendsv \in BOOLEAN
  /\ blocked \in SUBSET Proc /\ ended \in SUBSET Proc
  /\ blocked \cap ended = {}
  /\ cpu.running \notin blocked \cup ended
  /\ own \in [Proc -> 0..OWN]
  /\ mode = "main" => /\ cpu.running = First /\ cpu.psp[2] = 0 /\ ended = {}
                      /\ own = [p \in Proc |-> 0]

\* On the CPU c, k halves of p's context lie on the stack of p.
Halves(c, p, k, o) ==
  /\ \A i \in 1..o[p] : c.stack[p][i] = <<"own", p>>
  /\ k >= 1 => c.stack[p][o[p] + 1] = <<"R0_PSR", p>>
  /\ k >= 2 => c.stack[p][o[p] + 2] = <<"R4_R11", p>>

\* The saved sp of p leads to its whole context.
Saved(c, p, o) == c.sp[p] = <<p, o[p] + 2>> /\ Halves(c, p, 2, o)

\* The CPU c keeps all contexts but those of gone, k halves of the running
\* process's on its stack and the rest in the registers.
Keeps(c, k, gone, o) ==
  /\ c \in Cpu
  /\ c.psp = <<c.running, o[c.running] + k>>
  /\ Halves(c, c.running, k, o)
  /\ k < 2 => c.regs = c.running
  /\ \A p \in Proc \ (gone \cup {c.running}) : Saved(c, p, o)

\* How many halves are on the stack at each place.
Pushed == [m \in {"thread"} \cup InPendSV |->
             CASE m = "thread"                              -> 0
               [] m \in Saving \cup {"return"}               -> 1
               [] m \in {"switch", "restore", "load", "loaded"} -> 2]

\* Where r0 leads between the instructions of PendSV_Handler.
R0Leads ==
  LET p == cpu.running
  IN  /\ mode \in {"store", "load"} => r0 = cpu.psp
      /\ mode = "saved" => r0 = <<p, own[p] + 2>> /\ Halves(cpu, p, 2, own)
      /\ mode = "loaded" => r0 = <<p, own[p] + 1>> /\ cpu.regs = p

-----------------------------------------------------------------------------
(* The steps of the CPU.                                                   *)

\* stmdb writes the frame above the address, if there is a place for it.
LEMMA StoreIs ==
  ASSUME NEW c \in Cpu, NEW a \in Proc \X Int, NEW f \in Frame
  PROVE  LET d == Store(c, a, f) s == a[1] n == a[2]
         IN  /\ d \in Cpu
             /\ d.running = c.running /\ d.regs = c.regs /\ d.sp = c.sp /\ d.psp = c.psp
             /\ \A p \in Proc, i \in 1..DEPTH :
                  d.stack[p][i] = IF p = s /\ i = n + 1 THEN f ELSE c.stack[p][i]
  <1> DEFINE s == a[1]
             n == a[2]
             col == [c.stack[s] EXCEPT ![n + 1] = f]
             S == [c.stack EXCEPT ![s] = col]
             d == Store(c, a, f)
  <1>1. /\ s \in Proc /\ n \in Int
        /\ c.stack \in [Proc -> [1..DEPTH -> Frame]]
    BY DEF Cpu
  <1>2. col \in [1..DEPTH -> Frame] /\ \A i \in 1..DEPTH :
          col[i] = IF i = n + 1 THEN f ELSE c.stack[s][i]
    BY <1>1
  <1>3. d = [c EXCEPT !.stack = S]
    BY <1>1 DEF Store, Cpu
  <1> HIDE DEF d, S
  <1>4. d = [running |-> c.running, psp |-> c.psp, regs |-> c.regs, sp |-> c.sp, stack |-> S]
    BY <1>3 DEF Cpu
  <1> HIDE DEF s, n, col
  <1>5. S \in [Proc -> [1..DEPTH -> Frame]]
    BY <1>1, <1>2 DEF S
  <1>6. d \in Cpu
    BY <1>4, <1>5 DEF Cpu
  <1>7. \A p \in Proc, i \in 1..DEPTH :
          d.stack[p][i] = IF p = s /\ i = n + 1 THEN f ELSE c.stack[p][i]
    BY <1>1, <1>2, <1>4 DEF S
  <1> QED BY <1>4, <1>6, <1>7 DEF d, s, n

\* ldmia takes r4-r11 from the frame at the address.
LEMMA LoadIs ==
  ASSUME NEW c \in Cpu, NEW a \in Proc \X Int
  PROVE  LET d == Load(c, a)
         IN  /\ d \in Cpu
             /\ d.running = c.running /\ d.sp = c.sp /\ d.stack = c.stack /\ d.psp = c.psp
             /\ FrameAt(c, a)[1] = "R4_R11" => d.regs = FrameAt(c, a)[2]
             /\ FrameAt(c, a) \in Frame
             /\ a[2] \in 1..DEPTH => FrameAt(c, a) = c.stack[a[1]][a[2]]
  <1> DEFINE f == FrameAt(c, a)
             v == IF f[1] = "R4_R11" THEN f[2] ELSE JUNK
             d == Load(c, a)
  <1>1. f \in Frame /\ (a[2] \in 1..DEPTH => f = c.stack[a[1]][a[2]])
    <2>1. CASE a[2] \in 1..DEPTH
      <3>1. a[1] \in Proc /\ c.stack[a[1]][a[2]] \in Frame
        BY <2>1 DEF Cpu
      <3> QED BY <2>1, <3>1 DEF FrameAt
    <2>2. CASE a[2] \notin 1..DEPTH
      BY <2>2 DEF FrameAt, Frame
    <2> QED BY <2>1, <2>2
  <1>2. v \in Proc \cup {JUNK}
    BY <1>1 DEF Frame
  <1>3. d = [c EXCEPT !.regs = v]
    BY DEF Load
  <1> HIDE DEF d, v, f
  <1>4. d \in Cpu /\ d.running = c.running /\ d.sp = c.sp /\ d.stack = c.stack
        /\ d.psp = c.psp /\ d.regs = v
    BY <1>2, <1>3 DEF Cpu
  <1> QED BY <1>1, <1>4 DEF d, v, f

\* PSP gets another address.
LEMMA PspIs ==
  ASSUME NEW c \in Cpu, NEW a \in Proc \X Int
  PROVE  LET d == [c EXCEPT !.psp = a]
         IN  /\ d \in Cpu /\ d.psp = a
             /\ d.running = c.running /\ d.regs = c.regs /\ d.sp = c.sp
             /\ d.stack = c.stack
  BY DEF Cpu

LEMMA Addresses ==
  ASSUME NEW a \in Proc \X Int
  PROVE  Above(a) \in Proc \X Int /\ Below(a) \in Proc \X Int
  BY DEF Above, Below

\* A push writes the frame above PSP, if there is a place for it, and moves PSP.
LEMMA PushIs ==
  ASSUME NEW c \in Cpu, NEW f \in Frame
  PROVE  LET d == Push(c, f) s == c.psp[1] n == c.psp[2]
         IN  /\ d \in Cpu
             /\ d.running = c.running /\ d.regs = c.regs /\ d.sp = c.sp
             /\ d.psp = <<s, n + 1>>
             /\ \A p \in Proc, i \in 1..DEPTH :
                  d.stack[p][i] = IF p = s /\ i = n + 1 THEN f ELSE c.stack[p][i]
  <1> DEFINE e == Store(c, c.psp, f)
  <1>1. c.psp \in Proc \X Int
    BY DEF Cpu
  <1>2. /\ e \in Cpu
        /\ e.running = c.running /\ e.regs = c.regs /\ e.sp = c.sp
        /\ \A p \in Proc, i \in 1..DEPTH :
             e.stack[p][i] = IF p = c.psp[1] /\ i = c.psp[2] + 1 THEN f ELSE c.stack[p][i]
    BY <1>1, StoreIs
  <1>3. Push(c, f) = [e EXCEPT !.psp = Above(c.psp)]
    BY DEF Push
  <1> HIDE DEF e
  <1> QED BY <1>1, <1>2, <1>3, Addresses, PspIs DEF Above

\* A pop moves PSP.
LEMMA PopIs ==
  ASSUME NEW c \in Cpu
  PROVE  /\ Pop(c) \in Cpu
         /\ Pop(c).running = c.running /\ Pop(c).regs = c.regs /\ Pop(c).sp = c.sp
         /\ Pop(c).stack = c.stack
         /\ Pop(c).psp = <<c.psp[1], c.psp[2] - 1>>
  <1>1. c.psp \in Proc \X Int
    BY DEF Cpu
  <1> QED BY <1>1, Addresses, PspIs DEF Pop, Below

\* restore_registers takes r4-r11 from the stack.
LEMMA RestoreIs ==
  ASSUME NEW c \in Cpu
  PROVE  LET d == restore_registers(c)
         IN  /\ d \in Cpu
             /\ d.running = c.running /\ d.sp = c.sp /\ d.stack = c.stack
             /\ d.psp = <<c.psp[1], c.psp[2] - 1>>
             /\ FrameAt(c, c.psp)[1] = "R4_R11" => d.regs = FrameAt(c, c.psp)[2]
  <1>1. c.psp \in Proc \X Int
    BY DEF Cpu
  <1> QED BY <1>1, LoadIs, PopIs DEF restore_registers

\* set_PSP(running->sp) after running->sp = get_PSP().
LEMMA SwitchIs ==
  ASSUME NEW c \in Cpu, NEW q \in Proc
  PROVE  /\ LET d == SwitchTo(c, q)
            IN  /\ d \in Cpu
                /\ d.running = q /\ d.regs = c.regs /\ d.sp = c.sp /\ d.stack = c.stack
                /\ d.psp = c.sp[q]
         /\ LET d == SaveSp(c)
            IN  /\ d \in Cpu
                /\ d.running = c.running /\ d.regs = c.regs /\ d.stack = c.stack
                /\ d.psp = c.psp
                /\ \A p \in Proc : d.sp[p] = IF p = c.running THEN c.psp ELSE c.sp[p]
  <1>1. /\ c.sp \in [Proc -> Proc \X Int] /\ c.running \in Proc
        /\ c.psp \in Proc \X Int
    BY DEF Cpu
  <1>2. LET d == SwitchTo(c, q)
        IN  /\ d \in Cpu
            /\ d.running = q /\ d.regs = c.regs /\ d.sp = c.sp /\ d.stack = c.stack
            /\ d.psp = c.sp[q]
    BY <1>1 DEF SwitchTo, Cpu
  <1>3. LET d == SaveSp(c)
        IN  /\ d \in Cpu
            /\ d.running = c.running /\ d.regs = c.regs /\ d.stack = c.stack
            /\ d.psp = c.psp
            /\ d.sp = [c.sp EXCEPT ![c.running] = c.psp]
    BY <1>1 DEF SaveSp, Cpu
  <1> QED BY <1>1, <1>2, <1>3

-----------------------------------------------------------------------------
(* Saving and restoring: Keeps with one half more, or less, on the stack.  *)

\* A push above what a process has on its stack disturbs nobody's context.
LEMMA PushKeeps ==
  ASSUME NEW o \in [Proc -> 0..OWN], NEW c, NEW gone, NEW k \in {0, 1}, Keeps(c, k, gone, o),
         NEW f, f = IF k = 0 THEN <<"R0_PSR", c.running>> ELSE <<"R4_R11", c.running>>
  PROVE  Keeps(Push(c, f), k + 1, gone, o) /\ Push(c, f).running = c.running
  <1> DEFINE d == Push(c, f)
             r == c.running
  <1>1. c \in Cpu /\ r \in Proc /\ c.psp = <<r, o[r] + k>> /\ f \in Frame
    BY DEF Keeps, Cpu, Frame
  <1>2. \A p \in Proc : o[p] \in Nat /\ o[p] + 2 <= DEPTH
    BY ProcessesOK
  <1>3. /\ d \in Cpu /\ d.running = r /\ d.regs = c.regs /\ d.sp = c.sp
        /\ d.psp = <<r, o[r] + k + 1>>
        /\ \A p \in Proc, i \in 1..DEPTH :
             d.stack[p][i] = IF p = r /\ i = o[r] + k + 1 THEN f ELSE c.stack[p][i]
    BY <1>1, PushIs
  <1> HIDE DEF d, r
  <1>4. Halves(d, r, k + 1, o)
    <2>1. \A i \in 1..o[r] : d.stack[r][i] = <<"own", r>>
      BY <1>1, <1>2, <1>3, ProcessesOK DEF Keeps, Halves, r
    <2>2. d.stack[r][o[r] + 1] = <<"R0_PSR", r>>
      BY <1>1, <1>2, <1>3, ProcessesOK DEF Keeps, Halves, r
    <2>3. k = 1 => d.stack[r][o[r] + 2] = <<"R4_R11", r>>
      BY <1>1, <1>2, <1>3, ProcessesOK DEF r
    <2> QED BY <2>1, <2>2, <2>3 DEF Halves
  <1>5. ASSUME NEW p \in Proc \ (gone \cup {r}) PROVE Saved(d, p, o)
    <2>1. Saved(c, p, o)
      BY <1>5 DEF Keeps, r
    <2>2. \A i \in 1..DEPTH : d.stack[p][i] = c.stack[p][i]
      BY <1>3, <1>5
    <2>3. Halves(d, p, 2, o)
      BY <1>2, <2>1, <2>2, <1>5, ProcessesOK DEF Saved, Halves
    <2> QED BY <1>3, <2>1, <2>3 DEF Saved
  <1>6. k + 1 < 2 => d.regs = r
    BY <1>3 DEF Keeps, r
  <1>7. o[r] + k + 1 = o[r] + (k + 1)
    BY <1>1, <1>2
  <1> QED BY <1>3, <1>4, <1>5, <1>6, <1>7 DEF Keeps, d, r

\* An exception out of a process, and save_registers.
LEMMA SaveKeeps ==
  ASSUME NEW o \in [Proc -> 0..OWN], NEW c, NEW gone
  PROVE  /\ Keeps(c, 0, gone, o) => Keeps(Stacked(c), 1, gone, o) /\ Stacked(c).running = c.running
         /\ Keeps(c, 1, gone, o) => /\ Keeps(save_registers(c), 2, gone, o)
                                /\ save_registers(c).running = c.running
  <1>1. ASSUME Keeps(c, 0, gone, o)
        PROVE  Keeps(Stacked(c), 1, gone, o) /\ Stacked(c).running = c.running
    <2>1. /\ Keeps(Push(c, <<"R0_PSR", c.running>>), 0 + 1, gone, o)
          /\ Push(c, <<"R0_PSR", c.running>>).running = c.running
      BY <1>1, PushKeeps
    <2> QED BY <2>1 DEF Stacked
  <1>2. ASSUME Keeps(c, 1, gone, o)
        PROVE  Keeps(save_registers(c), 2, gone, o) /\ save_registers(c).running = c.running
    <2>1. c.regs = c.running
      BY <1>2 DEF Keeps
    <2>2. Keeps(Push(c, <<"R4_R11", c.regs>>), 1 + 1, gone, o)
          /\ Push(c, <<"R4_R11", c.regs>>).running = c.running
      BY <1>2, <2>1, PushKeeps
    <2> QED BY <2>2 DEF save_registers
  <1> QED BY <1>1, <1>2

\* restore_registers, and the return of the exception, which finds its frame.
LEMMA RestoreKeeps ==
  ASSUME NEW o \in [Proc -> 0..OWN], NEW c, NEW gone
  PROVE  /\ Keeps(c, 2, gone, o) => /\ Keeps(restore_registers(c), 1, gone, o)
                                /\ restore_registers(c).running = c.running
         /\ Keeps(c, 1, gone, o) => /\ CanUnstack(c)
                                /\ Keeps(Pop(c), 0, gone, o) /\ Pop(c).running = c.running
  <1> DEFINE r == c.running
  <1>0. \A p \in Proc : o[p] \in Nat /\ o[p] + 2 <= DEPTH
    BY ProcessesOK
  <1>1. ASSUME Keeps(c, 2, gone, o)
        PROVE  Keeps(restore_registers(c), 1, gone, o) /\ restore_registers(c).running = r
    <2> DEFINE d == restore_registers(c)
    <2>1. c \in Cpu /\ r \in Proc /\ c.psp = <<r, o[r] + 2>> /\ Halves(c, r, 2, o)
      BY <1>1 DEF Keeps, Cpu
    <2>2. FrameAt(c, c.psp) = <<"R4_R11", r>>
      <3>1. c.psp[1] = r /\ c.psp[2] = o[r] + 2 /\ o[r] + 2 \in 1..DEPTH
        BY <1>0, <2>1, ProcessesOK
      <3>2. FrameAt(c, c.psp) = c.stack[r][o[r] + 2]
        BY <3>1 DEF FrameAt
      <3> QED BY <2>1, <3>2 DEF Halves
    <2>3. /\ d \in Cpu /\ d.running = r /\ d.sp = c.sp /\ d.stack = c.stack
          /\ d.psp = <<r, o[r] + 2 - 1>> /\ d.regs = r
      BY <2>1, <2>2, RestoreIs
    <2> HIDE DEF d
    <2>4. Halves(d, r, 1, o)
      BY <2>1, <2>3 DEF Halves
    <2>5. \A p \in Proc \ (gone \cup {r}) : Saved(d, p, o)
      BY <1>1, <2>3 DEF Keeps, Saved, Halves
    <2>6. o[r] + 2 - 1 = o[r] + 1
      BY <1>0, <2>1
    <2> QED BY <2>3, <2>4, <2>5, <2>6 DEF Keeps, d
  <1>2. ASSUME Keeps(c, 1, gone, o)
        PROVE  CanUnstack(c) /\ Keeps(Pop(c), 0, gone, o) /\ Pop(c).running = r
    <2> DEFINE d == Pop(c)
    <2>1. c \in Cpu /\ r \in Proc /\ c.psp = <<r, o[r] + 1>> /\ Halves(c, r, 1, o)
          /\ c.regs = r
      BY <1>2 DEF Keeps, Cpu
    <2>2. FrameAt(c, c.psp) = <<"R0_PSR", r>>
      <3>1. c.psp[1] = r /\ c.psp[2] = o[r] + 1 /\ o[r] + 1 \in 1..DEPTH
        BY <1>0, <2>1, ProcessesOK
      <3>2. FrameAt(c, c.psp) = c.stack[r][o[r] + 1]
        BY <3>1 DEF FrameAt
      <3> QED BY <2>1, <3>2 DEF Halves
    <2>3. /\ d \in Cpu /\ d.running = r /\ d.sp = c.sp /\ d.stack = c.stack
          /\ d.psp = <<r, o[r] + 1 - 1>> /\ d.regs = r
      BY <2>1, PopIs
    <2> HIDE DEF d
    <2>4. Halves(d, r, 0, o)
      BY <2>1, <2>3 DEF Halves
    <2>5. \A p \in Proc \ (gone \cup {r}) : Saved(d, p, o)
      BY <1>2, <2>3 DEF Keeps, Saved, Halves
    <2>6. o[r] + 1 - 1 = o[r] + 0
      BY <1>0, <2>1
    <2>7. Keeps(d, 0, gone, o)
      BY <2>3, <2>4, <2>5, <2>6 DEF Keeps
    <2> QED BY <2>1, <2>2, <2>3, <2>7 DEF d, CanUnstack
  <1> QED BY <1>1, <1>2

\* stmdb alone puts the software half on the stack, above PSP.
LEMMA StoreKeeps ==
  ASSUME NEW o \in [Proc -> 0..OWN], NEW c, NEW gone, Keeps(c, 1, gone, o)
  PROVE  LET d == Store(c, c.psp, <<"R4_R11", c.regs>>)
         IN  /\ Keeps(d, 1, gone, o) /\ d.running = c.running
             /\ Halves(d, c.running, 2, o)
  <1> DEFINE r == c.running
             f == <<"R4_R11", c.regs>>
             d == Store(c, c.psp, f)
  <1>1. /\ c \in Cpu /\ r \in Proc /\ c.psp = <<r, o[r] + 1>> /\ c.psp \in Proc \X Int
        /\ c.regs = r /\ f = <<"R4_R11", r>> /\ f \in Frame /\ Halves(c, r, 1, o)
    BY DEF Keeps, Cpu, Frame
  <1>2. \A p \in Proc : o[p] \in Nat /\ o[p] + 2 <= DEPTH
    BY ProcessesOK
  <1>3. /\ d \in Cpu /\ d.running = r /\ d.regs = r /\ d.sp = c.sp /\ d.psp = c.psp
        /\ \A p \in Proc, i \in 1..DEPTH :
             d.stack[p][i] = IF p = r /\ i = o[r] + 1 + 1 THEN f ELSE c.stack[p][i]
    <2>1. c.psp[1] = r /\ c.psp[2] = o[r] + 1
      BY <1>1
    <2> HIDE DEF r, f, d
    <2>2. /\ d \in Cpu /\ d.running = c.running /\ d.regs = c.regs /\ d.sp = c.sp
          /\ d.psp = c.psp
          /\ \A p \in Proc, i \in 1..DEPTH :
               d.stack[p][i] = IF p = c.psp[1] /\ i = c.psp[2] + 1 THEN f ELSE c.stack[p][i]
      <3>1. c \in Cpu /\ c.psp \in Proc \X Int /\ f \in Frame
        BY <1>1
      <3> QED BY ONLY <3>1, StoreIs DEF d
    <2>3. c.running = r
      BY DEF r
    <2> QED BY <1>1, <2>1, <2>2, <2>3
  <1> HIDE DEF d, r, f
  <1>4. Halves(d, r, 2, o)
    BY <1>1, <1>2, <1>3, ProcessesOK DEF Halves
  <1>5. ASSUME NEW p \in Proc \ (gone \cup {r}) PROVE Saved(d, p, o)
    <2>1. Saved(c, p, o)
      BY <1>5 DEF Keeps, r
    <2>2. \A i \in 1..DEPTH : d.stack[p][i] = c.stack[p][i]
      BY <1>3, <1>5
    <2>3. Halves(d, p, 2, o)
      BY <1>2, <2>1, <2>2, <1>5, ProcessesOK DEF Saved, Halves
    <2> QED BY <1>3, <2>1, <2>3 DEF Saved
  <1>6. Keeps(d, 1, gone, o)
    BY <1>1, <1>3, <1>4, <1>5 DEF Keeps, Halves
  <1> QED BY <1>3, <1>4, <1>6 DEF d, r, f

\* ldmia alone gives the running process its r4-r11 back.
LEMMA LoadKeeps ==
  ASSUME NEW o \in [Proc -> 0..OWN], NEW c, NEW gone, Keeps(c, 2, gone, o)
  PROVE  LET d == Load(c, c.psp)
         IN  Keeps(d, 2, gone, o) /\ d.regs = c.running /\ d.running = c.running
  <1> DEFINE r == c.running
             d == Load(c, c.psp)
  <1>1. /\ c \in Cpu /\ r \in Proc /\ c.psp = <<r, o[r] + 2>> /\ c.psp \in Proc \X Int
        /\ Halves(c, r, 2, o)
    BY DEF Keeps, Cpu
  <1>2. o[r] + 2 \in 1..DEPTH
    BY <1>1, ProcessesOK
  <1>3. FrameAt(c, c.psp) = <<"R4_R11", r>>
    BY <1>1, <1>2 DEF FrameAt, Halves
  <1>4. /\ d \in Cpu /\ d.running = r /\ d.sp = c.sp /\ d.stack = c.stack /\ d.psp = c.psp
        /\ d.regs = r
    BY <1>1, <1>3, LoadIs
  <1> HIDE DEF d
  <1>5. \A p \in Proc \ (gone \cup {r}) : Saved(d, p, o)
    BY <1>4 DEF Keeps, Saved, Halves
  <1>6. Halves(d, r, 2, o)
    BY <1>1, <1>4 DEF Halves
  <1> QED BY <1>1, <1>4, <1>5, <1>6 DEF Keeps, d

\* A switch with the whole context on the stack, to any process that is not gone.
LEMMA SwitchKeeps ==
  ASSUME NEW o \in [Proc -> 0..OWN], NEW c, NEW gone, Keeps(c, 2, gone, o),
         NEW q \in Proc, q \notin gone
  PROVE  Keeps(SwitchTo(SaveSp(c), q), 2, gone, o) /\ SwitchTo(SaveSp(c), q).running = q
  <1> DEFINE s == SaveSp(c)
             d == SwitchTo(s, q)
             r == c.running
  <1>1. c \in Cpu /\ r \in Proc /\ c.psp = <<r, o[r] + 2>> /\ Halves(c, r, 2, o)
        /\ \A p \in Proc \ (gone \cup {r}) : Saved(c, p, o)
    BY DEF Keeps, Cpu
  <1>2. /\ s \in Cpu /\ s.stack = c.stack
        /\ \A p \in Proc : s.sp[p] = IF p = r THEN c.psp ELSE c.sp[p]
    BY <1>1, SwitchIs
  <1> HIDE DEF s
  <1>3. /\ d \in Cpu /\ d.running = q /\ d.sp = s.sp /\ d.stack = s.stack
        /\ d.psp = s.sp[q]
    BY <1>2, SwitchIs
  <1> HIDE DEF d, r
  <1>4. \A p \in Proc \ gone : Saved(d, p, o)
    BY <1>1, <1>2, <1>3, ZenonT(60) DEF Saved, Halves
  <1>5. d.psp = <<q, o[q] + 2>> /\ Halves(d, q, 2, o)
    BY <1>3, <1>4 DEF Saved
  <1> QED BY <1>3, <1>4, <1>5 DEF Keeps, d, s

\* k_terminate switches without saving sp: the process it leaves is gone.
LEMMA LeaveKeeps ==
  ASSUME NEW o \in [Proc -> 0..OWN], NEW c, NEW gone, Keeps(c, 2, gone, o),
         NEW q \in Proc, q \notin gone, q # c.running
  PROVE  /\ Keeps(SwitchTo(c, q), 2, gone \cup {c.running}, o)
         /\ SwitchTo(c, q).running = q
  <1> DEFINE d == SwitchTo(c, q)
             r == c.running
  <1>1. c \in Cpu /\ \A p \in Proc \ (gone \cup {r}) : Saved(c, p, o)
    BY DEF Keeps
  <1>2. /\ d \in Cpu /\ d.running = q /\ d.sp = c.sp /\ d.stack = c.stack
        /\ d.psp = c.sp[q]
    BY <1>1, SwitchIs
  <1> HIDE DEF d, r
  <1>3. \A p \in Proc \ (gone \cup {r}) : Saved(d, p, o)
    BY <1>1, <1>2 DEF Saved, Halves
  <1>4. d.psp = <<q, o[q] + 2>> /\ Halves(d, q, 2, o)
    BY <1>2, <1>3 DEF Saved, r
  <1> QED BY <1>2, <1>3, <1>4 DEF Keeps, d, r

-----------------------------------------------------------------------------
(* Shape: an invariant whatever happens to the contexts.                   *)

\* What the compound steps make of a CPU, and who runs then.
LEMMA StepTypes ==
  ASSUME NEW c \in Cpu
  PROVE  /\ Stacked(c) \in Cpu /\ Stacked(c).running = c.running
         /\ save_registers(c) \in Cpu /\ save_registers(c).running = c.running
         /\ restore_registers(c) \in Cpu /\ restore_registers(c).running = c.running
         /\ Pop(c) \in Cpu /\ Pop(c).running = c.running
         /\ SaveSp(c) \in Cpu /\ SaveSp(c).running = c.running
         /\ \A q \in Proc : SwitchTo(c, q) \in Cpu /\ SwitchTo(c, q).running = q
  <1>1. <<"R0_PSR", c.running>> \in Frame /\ <<"R4_R11", c.regs>> \in Frame
    BY DEF Cpu, Frame
  <1>2. Stacked(c) \in Cpu /\ Stacked(c).running = c.running
    BY <1>1, PushIs DEF Stacked
  <1>3. save_registers(c) \in Cpu /\ save_registers(c).running = c.running
    BY <1>1, PushIs DEF save_registers
  <1>4. Pop(c) \in Cpu /\ Pop(c).running = c.running
    BY PopIs
  <1>5. restore_registers(c) \in Cpu /\ restore_registers(c).running = c.running
    BY RestoreIs
  <1>6. SaveSp(c) \in Cpu /\ SaveSp(c).running = c.running
    <2>1. c.running \in Proc
      BY DEF Cpu
    <2> QED BY <2>1, SwitchIs
  <1>7. \A q \in Proc : SwitchTo(c, q) \in Cpu /\ SwitchTo(c, q).running = q
    BY SwitchIs
  <1> QED BY <1>2, <1>3, <1>4, <1>5, <1>6, <1>7

LEMMA HandlerTypes ==
  ASSUME NEW c \in Cpu, NEW q \in Proc
  PROVE  HandlerSwitch(c, q) \in Cpu /\ HandlerSwitch(c, q).running = q
  <1>1. save_registers(c) \in Cpu
    BY StepTypes
  <1>2. SaveSp(save_registers(c)) \in Cpu
    BY <1>1, StepTypes
  <1>3. /\ SwitchTo(SaveSp(save_registers(c)), q) \in Cpu
        /\ SwitchTo(SaveSp(save_registers(c)), q).running = q
    BY <1>2, StepTypes
  <1> QED BY <1>3, StepTypes DEF HandlerSwitch

LEMMA SVCTypes ==
  ASSUME cpu \in Cpu, NEW q \in Proc
  PROVE  /\ InSVC \in Cpu /\ InSVC.running = cpu.running
         /\ SwitchTo(SaveSp(InSVC), q) \in Cpu /\ SwitchTo(SaveSp(InSVC), q).running = q
         /\ SwitchTo(InSVC, q) \in Cpu /\ SwitchTo(InSVC, q).running = q
  <1>1. Stacked(cpu) \in Cpu /\ Stacked(cpu).running = cpu.running
    BY StepTypes
  <1>2. InSVC \in Cpu /\ InSVC.running = cpu.running
    BY <1>1, StepTypes DEF InSVC
  <1>3. SaveSp(InSVC) \in Cpu
    BY <1>2, StepTypes
  <1> QED BY <1>2, <1>3, StepTypes

\* The end of an exception does not change who runs.
LEMMA LeaveTypes ==
  ASSUME NEW c \in Cpu, NEW pending \in BOOLEAN, Leave(c, pending)
  PROVE  /\ cpu' \in Cpu /\ cpu'.running = c.running
         /\ mode' \in {"thread", "save", "lost"} /\ pendsv' = FALSE
         /\ r0' = NotUsed
  <1>1. Pop(c) \in Cpu /\ Pop(c).running = c.running
    BY StepTypes
  <1> QED BY <1>1 DEF Leave

LEMMA CallTypes ==
  ASSUME NEW c \in Cpu, SVCall(c)
  PROVE  /\ cpu' \in Cpu /\ cpu'.running = c.running
         /\ mode' \in {"thread", "save", "lost"} /\ pendsv' = FALSE
         /\ r0' = NotUsed
  <1>1. restore_registers(c) \in Cpu /\ restore_registers(c).running = c.running
    BY StepTypes
  <1>2. Leave(restore_registers(c), FALSE)
    BY DEF SVCall
  <1> QED BY <1>1, <1>2, LeaveTypes

\* What a handler can leave.
LEMMA OutcomeTypes ==
  ASSUME Shape, NEW c \in Cpu, c.running = cpu.running, NEW r \in Outcomes(c)
  PROVE  /\ r.cpu \in Cpu /\ r.blocked \subseteq blocked
         /\ r.cpu.running \notin r.blocked \cup ended
  <1>1. CASE r = [cpu |-> c, blocked |-> blocked]
    BY <1>1 DEF Shape
  <1>2. ASSUME NEW q \in Servers \cap blocked, NEW d \in {c, HandlerSwitch(c, q)},
               r = [cpu |-> d, blocked |-> blocked \ {q}]
        PROVE  /\ r.cpu \in Cpu /\ r.blocked \subseteq blocked
               /\ r.cpu.running \notin r.blocked \cup ended
    <2>1. q \in Proc /\ q \notin ended
      BY DEF Shape
    <2>2. HandlerSwitch(c, q) \in Cpu /\ HandlerSwitch(c, q).running = q
      BY <2>1, HandlerTypes
    <2> QED BY <1>2, <2>1, <2>2 DEF Shape
  <1> QED BY <1>1, <1>2 DEF Outcomes

LEMMA InitShape == Init => Shape
  <1> SUFFICES ASSUME Init PROVE Shape
    OBVIOUS
  <1> DEFINE frame(i, p) == CASE i = 1 -> <<"R0_PSR", p>>
                              [] i = 2 -> <<"R4_R11", p>>
                              [] OTHER -> <<"none", JUNK>>
  <1>1. \A i \in 1..DEPTH, p \in Proc : frame(i, p) \in Frame
    BY DEF Frame
  <1>2. /\ cpu.running = First /\ cpu.psp = <<First, 0>> /\ cpu.regs = JUNK
        /\ cpu.sp = [p \in Proc |-> <<p, 2>>]
        /\ cpu.stack = [p \in Proc |-> [i \in 1..DEPTH |-> frame(i, p)]]
        /\ cpu = [running |-> cpu.running, psp |-> cpu.psp, regs |-> cpu.regs,
                  sp |-> cpu.sp, stack |-> cpu.stack]
    BY DEF Init
  <1> HIDE DEF frame
  <1>3. cpu \in Cpu
    BY <1>1, <1>2, ProcessesOK DEF Cpu
  <1>6. cpu.psp[2] = 0
    BY <1>2
  <1>4. /\ mode = "main" /\ pendsv = FALSE /\ blocked = {} /\ ended = {}
        /\ own = [p \in Proc |-> 0]
    BY DEF Init
  <1>5. own \in [Proc -> 0..OWN]
    BY <1>4, ProcessesOK
  <1>7. r0 \in Proc \X Int /\ r0 = NotUsed
    BY ProcessesOK DEF Init, NotUsed
  <1> QED BY <1>2, <1>3, <1>4, <1>5, <1>6, <1>7 DEF Shape

LEMMA NextShape == Shape /\ [Next]_vars => Shape'
  <1> SUFFICES ASSUME Shape, [Next]_vars PROVE Shape'
    OBVIOUS
  <1> USE DEF InPendSV, Saving, Restoring
  <1>0. cpu \in Cpu /\ cpu.running \in Proc /\ cpu.psp \in Proc \X Int /\ r0 \in Proc \X Int
    BY DEF Shape, Cpu
  <1>u. NotUsed \in Proc \X Int
    BY ProcessesOK DEF NotUsed
  <1>1. CASE FirstSVC
    <2>1. <<First, 0>> \in Proc \X Int /\ First \in Proc \cup {JUNK}
      BY ProcessesOK
    <2>2. cpu' \in Cpu /\ cpu'.running = cpu.running
      BY <1>0, <1>1, <2>1 DEF FirstSVC, Cpu
    <2> QED BY <1>1, <2>2 DEF FirstSVC, Shape, queues
  <1>2. CASE Calls
    <2>1. <<"own", cpu.running>> \in Frame
      BY <1>0 DEF Frame
    <2>2. cpu' \in Cpu /\ cpu'.running = cpu.running
      BY <1>0, <1>2, <2>1, PushIs DEF Calls
    <2>3. own' \in [Proc -> 0..OWN]
      BY <1>0, <1>2, ProcessesOK DEF Calls, Shape
    <2> QED BY <1>2, <2>2, <2>3 DEF Calls, Shape, queues
  <1>3. CASE Returns
    <2>2. cpu' \in Cpu /\ cpu'.running = cpu.running
      BY <1>0, <1>3, StepTypes DEF Returns
    <2>3. own' \in [Proc -> 0..OWN]
      BY <1>0, <1>3, ProcessesOK DEF Returns, Shape
    <2> QED BY <1>3, <2>2, <2>3 DEF Returns, Shape, queues
  <1>4. CASE RecvBlocks
    <2>1. PICK q \in Ready \ {cpu.running} : SVCall(SwitchTo(SaveSp(InSVC), q))
      BY <1>4 DEF RecvBlocks
    <2>2. q \in Proc /\ q \notin blocked \cup ended
      BY DEF Ready
    <2>3. /\ cpu' \in Cpu /\ cpu'.running = q
          /\ mode' \in {"thread", "save", "lost"} /\ pendsv' = FALSE
          /\ r0' = NotUsed
      BY <1>0, <2>1, <2>2, SVCTypes, CallTypes
    <2> QED BY <1>0, <1>u, <1>4, <2>2, <2>3 DEF RecvBlocks, Shape
  <1>5. CASE SendWakes
    <2>1. PICK q \in blocked :
            /\ SVCall(SwitchTo(SaveSp(InSVC), q)) \/ SVCall(InSVC)
            /\ blocked' = blocked \ {q}
            /\ UNCHANGED <<ended, own>>
      BY <1>5 DEF SendWakes
    <2>2. q \in Proc /\ q \notin ended
      BY DEF Shape
    <2>3. /\ cpu' \in Cpu /\ cpu'.running \in {q, cpu.running}
          /\ mode' \in {"thread", "save", "lost"} /\ pendsv' = FALSE
          /\ r0' = NotUsed
      BY <1>0, <2>1, <2>2, SVCTypes, CallTypes
    <2> QED BY <1>0, <1>u, <2>1, <2>2, <2>3 DEF Shape
  <1>6. CASE NiceLowers
    <2>1. PICK q \in Ready : SVCall(SwitchTo(SaveSp(InSVC), q))
      BY <1>6 DEF NiceLowers
    <2>2. q \in Proc /\ q \notin blocked \cup ended
      BY DEF Ready
    <2>3. /\ cpu' \in Cpu /\ cpu'.running = q
          /\ mode' \in {"thread", "save", "lost"} /\ pendsv' = FALSE
          /\ r0' = NotUsed
      BY <1>0, <2>1, <2>2, SVCTypes, CallTypes
    <2> QED BY <1>0, <1>u, <1>6, <2>2, <2>3 DEF NiceLowers, Shape, queues
  <1>7. CASE Terminates
    <2>1. PICK q \in Ready \ {cpu.running} : SVCall(SwitchTo(InSVC, q))
      BY <1>7 DEF Terminates
    <2>2. q \in Proc /\ q \notin blocked \cup ended
      BY DEF Ready
    <2>3. /\ cpu' \in Cpu /\ cpu'.running = q
          /\ mode' \in {"thread", "save", "lost"} /\ pendsv' = FALSE
          /\ r0' = NotUsed
      BY <1>0, <2>1, <2>2, SVCTypes, CallTypes
    <2> QED BY <1>0, <1>u, <1>7, <2>2, <2>3 DEF Terminates, Shape
  <1>8. ASSUME NEW pending \in BOOLEAN, HandlerInThread(pending)
        PROVE  Shape'
    <2>1. PICK r \in Outcomes(Stacked(cpu)) : Leave(r.cpu, pending) /\ blocked' = r.blocked
      BY <1>8 DEF HandlerInThread
    <2>2. Stacked(cpu) \in Cpu /\ Stacked(cpu).running = cpu.running
      BY <1>0, StepTypes
    <2>3. /\ r.cpu \in Cpu /\ r.blocked \subseteq blocked
          /\ r.cpu.running \notin r.blocked \cup ended
      BY <2>2, OutcomeTypes
    <2>4. /\ cpu' \in Cpu /\ cpu'.running = r.cpu.running
          /\ mode' \in {"thread", "save", "lost"} /\ pendsv' = FALSE
          /\ r0' = NotUsed
      BY <2>1, <2>3, LeaveTypes
    <2> QED BY <1>u, <1>8, <2>1, <2>3, <2>4 DEF HandlerInThread, Shape
  <1>9. ASSUME NEW pending \in BOOLEAN, HandlerInPendSV(pending)
        PROVE  Shape'
    <2>1. PICK r \in Outcomes(cpu) : cpu' = r.cpu /\ blocked' = r.blocked
      BY <1>9 DEF HandlerInPendSV
    <2>3. /\ r.cpu \in Cpu /\ r.blocked \subseteq blocked
          /\ r.cpu.running \notin r.blocked \cup ended
      BY <1>0, OutcomeTypes
    <2> QED BY <1>9, <2>1, <2>3 DEF HandlerInPendSV, Shape
  <1>10. CASE PendSVSaves
    <2>1. CASE Step("save", "store") /\ r0' = cpu.psp /\ UNCHANGED cpu
      BY <1>0, <2>1 DEF Step, Shape, queues
    <2>2. CASE /\ Step("store", "saved")
               /\ cpu' = Store(cpu, r0, <<"R4_R11", cpu.regs>>) /\ r0' = Above(r0)
      <3>1. <<"R4_R11", cpu.regs>> \in Frame
        BY <1>0 DEF Frame, Cpu
      <3>2. cpu' \in Cpu /\ cpu'.running = cpu.running /\ r0' \in Proc \X Int
        BY <1>0, <2>2, <3>1, StoreIs, Addresses
      <3> QED BY <2>2, <3>2 DEF Step, Shape, queues
    <2>3. CASE Step("saved", "switch") /\ cpu' = [cpu EXCEPT !.psp = r0] /\ r0' = NotUsed
      <3>1. cpu' \in Cpu /\ cpu'.running = cpu.running
        BY <1>0, <2>3, PspIs
      <3> QED BY <1>u, <2>3, <3>1 DEF Step, Shape, queues
    <2> QED BY <1>10, <2>1, <2>2, <2>3 DEF PendSVSaves
  <1>11. CASE next_process
    <2>1. PICK q \in Ready : cpu' = SwitchTo(SaveSp(cpu), q)
      BY <1>11 DEF next_process
    <2>2. q \in Proc /\ q \notin blocked \cup ended
      BY DEF Ready
    <2>3. SaveSp(cpu) \in Cpu
      BY <1>0, StepTypes
    <2>4. cpu' \in Cpu /\ cpu'.running = q
      BY <2>1, <2>2, <2>3, StepTypes
    <2> QED BY <1>11, <2>2, <2>4 DEF next_process, Step, Shape, queues
  <1>12. CASE PendSVRestores
    <2>1. CASE Step("restore", "load") /\ r0' = cpu.psp /\ UNCHANGED cpu
      BY <1>0, <2>1 DEF Step, Shape, queues
    <2>2. CASE Step("load", "loaded") /\ cpu' = Load(cpu, r0) /\ r0' = Below(r0)
      <3>1. cpu' \in Cpu /\ cpu'.running = cpu.running /\ r0' \in Proc \X Int
        BY <1>0, <2>2, LoadIs, Addresses
      <3> QED BY <2>2, <3>1 DEF Step, Shape, queues
    <2>3. CASE Step("loaded", "return") /\ cpu' = [cpu EXCEPT !.psp = r0] /\ r0' = NotUsed
      <3>1. cpu' \in Cpu /\ cpu'.running = cpu.running
        BY <1>0, <2>3, PspIs
      <3> QED BY <1>u, <2>3, <3>1 DEF Step, Shape, queues
    <2> QED BY <1>12, <2>1, <2>2, <2>3 DEF PendSVRestores
  <1>13. CASE PendSVReturns
    <2>1. pendsv \in BOOLEAN /\ Leave(cpu, pendsv)
      BY <1>13 DEF PendSVReturns, Shape
    <2>2. /\ cpu' \in Cpu /\ cpu'.running = cpu.running
          /\ mode' \in {"thread", "save", "lost"} /\ pendsv' = FALSE
          /\ r0' = NotUsed
      BY <1>0, <2>1, LeaveTypes
    <2> QED BY <1>u, <1>13, <2>2 DEF PendSVReturns, Shape, queues
  <1>14. CASE UNCHANGED vars
    BY <1>14 DEF vars, queues, Shape
  <1> QED BY <1>1, <1>2, <1>3, <1>4, <1>5, <1>6, <1>7, <1>8, <1>9, <1>10, <1>11, <1>12,
             <1>13, <1>14 DEF Next, UART0_IntHandler, SysTickHandler

LEMMA ShapeAlways == Spec => []Shape
  BY InitShape, NextShape, PTL DEF Spec

-----------------------------------------------------------------------------
(* The contexts: every step but a switch in a window keeps them.           *)

\* ContextsKept says of each place how much is on the stack.
LEMMA KeptNow ==
  ASSUME Shape, ContextsKept, mode # "main"
  PROVE  mode \in DOMAIN Pushed /\ Keeps(cpu, Pushed[mode], ended, own) /\ R0Leads
  <1> USE DEF InPendSV, Saving, Restoring
  <1> DEFINE r == cpu.running
  <1>1. cpu \in Cpu /\ r \in Proc /\ mode \in DOMAIN Pushed
    BY DEF Shape, ContextsKept, OwnContext, Pushed, Cpu
  <1>2. \A p \in Proc \ (ended \cup {r}) : Saved(cpu, p, own)
    BY DEF ContextsKept, FramesComplete, BothHalves, HardwareHalf, OwnFrames, Saved, Halves
  <1>r. R0Leads
    BY DEF R0Leads, ContextsKept, HandlerContext, BothHalves, HardwareHalf, OwnFrames, Halves
  <1>3. CASE mode = "thread"
    <2>1. cpu.psp = <<r, own[r]>> /\ Halves(cpu, r, 0, own) /\ cpu.regs = r
      BY <1>3 DEF ContextsKept, OwnContext, OwnFrames, Halves
    <2>2. own[r] = own[r] + 0
      BY <1>1 DEF Shape
    <2>3. Pushed[mode] = 0
      BY <1>3 DEF Pushed
    <2> QED BY <1>1, <1>2, <1>r, <2>1, <2>2, <2>3 DEF Keeps
  <1>4. CASE mode \in Saving \cup {"return"}
    <2>1. cpu.psp = <<r, own[r] + 1>> /\ Halves(cpu, r, 1, own) /\ cpu.regs = r
      BY <1>4 DEF ContextsKept, HandlerContext, HardwareHalf, OwnFrames, Halves
    <2>3. Pushed[mode] = 1
      BY <1>4 DEF Pushed
    <2> QED BY <1>1, <1>2, <1>r, <2>1, <2>3 DEF Keeps
  <1>5. CASE mode \in {"switch", "restore", "load", "loaded"}
    <2>1. cpu.psp = <<r, own[r] + 2>> /\ Halves(cpu, r, 2, own)
      BY <1>5 DEF ContextsKept, HandlerContext, BothHalves, HardwareHalf, OwnFrames, Halves
    <2>3. Pushed[mode] = 2
      BY <1>5 DEF Pushed
    <2> QED BY <1>1, <1>2, <1>r, <2>1, <2>3 DEF Keeps
  <1> QED BY <1>1, <1>3, <1>4, <1>5 DEF Pushed

LEMMA KeptNext ==
  ASSUME Shape', mode' \in DOMAIN Pushed, Keeps(cpu', Pushed[mode'], ended', own'), R0Leads'
  PROVE  ContextsKept'
  <1> USE DEF InPendSV, Saving, Restoring
  <1> DEFINE r == cpu'.running
  <1>1. r \in Proc /\ own'[r] \in Nat /\ mode' # "lost" /\ mode' # "main"
    BY DEF Shape, Cpu, Pushed
  <1>2. FramesComplete'
    BY DEF FramesComplete, BothHalves, HardwareHalf, OwnFrames, Keeps, Saved, Halves
  <1>3. CASE mode' = "thread"
    <2>1. Pushed[mode'] = 0 /\ own'[r] + 0 = own'[r]
      BY <1>1, <1>3 DEF Pushed
    <2>2. cpu'.psp = <<r, own'[r]>> /\ cpu'.regs = r
          /\ \A i \in 1..own'[r] : cpu'.stack[r][i] = <<"own", r>>
      BY <2>1 DEF Keeps, Halves
    <2> QED BY <1>2, <1>3, <2>2 DEF ContextsKept, OwnContext, OwnFrames, HandlerContext
  <1>4. CASE mode' \in Saving \cup {"return"}
    <2>1. Pushed[mode'] = 1
      BY <1>4 DEF Pushed
    <2>2. cpu'.psp = <<r, own'[r] + 1>> /\ cpu'.regs = r
          /\ (\A i \in 1..own'[r] : cpu'.stack[r][i] = <<"own", r>>)
          /\ cpu'.stack[r][own'[r] + 1] = <<"R0_PSR", r>>
      BY <2>1 DEF Keeps, Halves
    <2> QED BY <1>2, <1>4, <2>2
        DEF ContextsKept, OwnContext, OwnFrames, HandlerContext, HardwareHalf, BothHalves,
            R0Leads, Halves
  <1>5. CASE mode' \in {"switch", "restore", "load", "loaded"}
    <2>1. Pushed[mode'] = 2
      BY <1>5 DEF Pushed
    <2>2. cpu'.psp = <<r, own'[r] + 2>>
          /\ (\A i \in 1..own'[r] : cpu'.stack[r][i] = <<"own", r>>)
          /\ cpu'.stack[r][own'[r] + 1] = <<"R0_PSR", r>>
          /\ cpu'.stack[r][own'[r] + 2] = <<"R4_R11", r>>
      BY <2>1 DEF Keeps, Halves
    <2> QED BY <1>2, <1>5, <2>2
        DEF ContextsKept, OwnContext, OwnFrames, HandlerContext, HardwareHalf, BothHalves,
            R0Leads
  <1> QED BY <1>3, <1>4, <1>5 DEF Pushed

\* The end of an exception, with the hardware half on the stack.
LEMMA LeaveKept ==
  ASSUME own \in [Proc -> 0..OWN], NEW c, NEW gone, Keeps(c, 1, gone, own),
         NEW pending \in BOOLEAN, Leave(c, pending)
  PROVE  mode' \in DOMAIN Pushed /\ Keeps(cpu', Pushed[mode'], gone, own) /\ R0Leads'
  <1> USE DEF InPendSV, Saving, Restoring
  <1>1. CanUnstack(c) /\ Keeps(Pop(c), 0, gone, own)
    BY RestoreKeeps
  <1>2. CASE pending
    BY <1>2 DEF Leave, Pushed, R0Leads
  <1>3. CASE ~pending
    BY <1>1, <1>3 DEF Leave, Pushed, R0Leads
  <1> QED BY <1>2, <1>3

\* The end of a kernel call, with both halves on the stack.
LEMMA CallKept ==
  ASSUME own \in [Proc -> 0..OWN], NEW c, NEW gone, Keeps(c, 2, gone, own), SVCall(c)
  PROVE  mode' \in DOMAIN Pushed /\ Keeps(cpu', Pushed[mode'], gone, own) /\ R0Leads'
  <1>1. Keeps(restore_registers(c), 1, gone, own)
    BY RestoreKeeps
  <1>2. Leave(restore_registers(c), FALSE)
    BY DEF SVCall
  <1> QED BY <1>1, <1>2, LeaveKept

\* A handler that begins with the hardware half on the stack, whatever it does.
LEMMA OutcomeKept ==
  ASSUME Shape, NEW c, Keeps(c, 1, ended, own), NEW x \in Outcomes(c)
  PROVE  Keeps(x.cpu, 1, ended, own)
  <1> own \in [Proc -> 0..OWN]
    BY DEF Shape
  <1>1. ASSUME NEW q \in Servers \cap blocked
        PROVE  Keeps(HandlerSwitch(c, q), 1, ended, own)
    <2>1. q \in Proc /\ q \notin ended
      BY DEF Shape
    <2>2. Keeps(save_registers(c), 2, ended, own)
      BY SaveKeeps
    <2>3. Keeps(SwitchTo(SaveSp(save_registers(c)), q), 2, ended, own)
      BY <2>1, <2>2, SwitchKeeps
    <2> QED BY <2>3, RestoreKeeps DEF HandlerSwitch
  <1> QED BY <1>1 DEF Outcomes

\* The step of the theorem.
LEMMA NextKept ==
  ASSUME Shape, Shape', [Next]_vars, ContextsKept, ~HandlerSwitchesInWindow
  PROVE  ContextsKept'
  <1> USE DEF queues, InPendSV, Saving, Restoring
  <1> own \in [Proc -> 0..OWN]
    BY DEF Shape
  <1>t. ASSUME mode = "thread"
        PROVE  /\ Keeps(cpu, 0, ended, own) /\ Keeps(Stacked(cpu), 1, ended, own)
               /\ Keeps(InSVC, 2, ended, own) /\ InSVC.running = cpu.running
    <2>1. Keeps(cpu, 0, ended, own)
      BY <1>t, KeptNow DEF Pushed
    <2>2. Keeps(Stacked(cpu), 1, ended, own) /\ Stacked(cpu).running = cpu.running
      BY <2>1, SaveKeeps
    <2> QED BY <2>1, <2>2, SaveKeeps DEF InSVC
  <1>1. CASE FirstSVC
    <2>1. /\ cpu.running = First /\ ended = {} /\ own = [p \in Proc |-> 0] /\ cpu \in Cpu
          /\ mode' = "thread" /\ ended' = ended /\ own' = own
          /\ cpu' = [cpu EXCEPT !.psp = <<First, 0>>, !.regs = First]
      BY <1>1 DEF FirstSVC, Shape
    <2>2. /\ cpu' \in Cpu
          /\ cpu'.running = First /\ cpu'.psp = <<First, 0>> /\ cpu'.regs = First
          /\ cpu'.sp = cpu.sp /\ cpu'.stack = cpu.stack
      BY <2>1 DEF Cpu, Shape
    <2>3. \A p \in Proc \ (ended \cup {First}) : Saved(cpu', p, own)
      BY <2>1, <2>2
      DEF ContextsKept, FramesComplete, BothHalves, HardwareHalf, OwnFrames, Saved, Halves
    <2>4. own[First] = 0 /\ own[First] + 0 = 0
      BY <2>1, ProcessesOK
    <2>5. Halves(cpu', First, 0, own)
      BY <2>4 DEF Halves
    <2>6. Keeps(cpu', 0, ended, own)
      BY <2>2, <2>3, <2>4, <2>5 DEF Keeps
    <2> QED BY <2>1, <2>6, KeptNext DEF Pushed, R0Leads
  <1>2. CASE Calls
    <2> DEFINE r == cpu.running
               f == <<"own", r>>
    <2>1. Keeps(cpu, 0, ended, own) /\ cpu \in Cpu /\ r \in Proc /\ f \in Frame
      BY <1>2, <1>t DEF Calls, Keeps, Cpu, Frame
    <2>2. cpu.psp = <<r, own[r]>> /\ own[r] \in Nat /\ own[r] + 1 <= OWN
      BY <1>2, <2>1, ProcessesOK DEF Calls, Keeps
    <2>3. /\ cpu' \in Cpu
          /\ cpu'.running = r /\ cpu'.regs = r /\ cpu'.sp = cpu.sp
          /\ cpu'.psp = <<r, own[r] + 1>>
          /\ \A p \in Proc, i \in 1..DEPTH :
               cpu'.stack[p][i] = IF p = r /\ i = own[r] + 1 THEN f ELSE cpu.stack[p][i]
      BY <1>2, <2>1, <2>2, PushIs DEF Calls, Keeps
    <2>4. /\ own'[r] = own[r] + 1 /\ \A p \in Proc : p # r => own'[p] = own[p]
          /\ mode' = "thread" /\ ended' = ended /\ own'[r] + 0 = own'[r]
      BY <1>2, <2>1, <2>2 DEF Calls
    <2> HIDE DEF f, r
    <2>5. Halves(cpu', r, 0, own')
      <3>1. \A i \in 1..own[r] : cpu.stack[r][i] = <<"own", r>>
        BY <2>1 DEF Keeps, Halves, r
      <3> QED BY <2>1, <2>2, <2>3, <2>4, <3>1, ProcessesOK DEF Halves, f
    <2>6. ASSUME NEW p \in Proc \ (ended' \cup {r}) PROVE Saved(cpu', p, own')
      <3>1. Saved(cpu, p, own)
        BY <2>1, <2>4, <2>6 DEF Keeps, r
      <3>2. \A i \in 1..DEPTH : cpu'.stack[p][i] = cpu.stack[p][i]
        BY <2>3, <2>6
      <3>3. own[p] \in Nat /\ own[p] + 2 <= DEPTH
        BY <2>6, ProcessesOK
      <3>4. Halves(cpu', p, 2, own')
        BY <2>4, <3>1, <3>2, <3>3, <2>6, ProcessesOK DEF Saved, Halves
      <3> QED BY <2>3, <2>4, <2>6, <3>1, <3>4 DEF Saved
    <2>7. Keeps(cpu', 0, ended', own')
      BY <2>3, <2>4, <2>5, <2>6 DEF Keeps
    <2> QED BY <2>4, <2>7, KeptNext DEF Pushed, R0Leads
  <1>3. CASE Returns
    <2> DEFINE r == cpu.running
    <2>1. Keeps(cpu, 0, ended, own) /\ cpu \in Cpu /\ r \in Proc
      BY <1>3, <1>t DEF Returns, Keeps, Cpu
    <2>2. cpu.psp = <<r, own[r]>> /\ own[r] \in Nat
      BY <2>1 DEF Keeps
    <2>3. /\ cpu' \in Cpu
          /\ cpu'.running = r /\ cpu'.regs = r /\ cpu'.sp = cpu.sp
          /\ cpu'.psp = <<r, own[r] - 1>> /\ cpu'.stack = cpu.stack
      BY <1>3, <2>1, <2>2, PopIs DEF Returns, Keeps
    <2>4. /\ own'[r] = own[r] - 1 /\ \A p \in Proc : p # r => own'[p] = own[p]
          /\ mode' = "thread" /\ ended' = ended /\ own'[r] + 0 = own'[r]
      BY <1>3, <2>1, <2>2 DEF Returns
    <2> HIDE DEF r
    <2>5. Halves(cpu', r, 0, own')
      BY <2>1, <2>2, <2>3, <2>4 DEF Halves, Keeps, r
    <2>6. \A p \in Proc \ (ended' \cup {r}) : Saved(cpu', p, own')
      BY <2>1, <2>3, <2>4 DEF Keeps, Saved, Halves, r
    <2>7. Keeps(cpu', 0, ended', own')
      BY <2>3, <2>4, <2>5, <2>6 DEF Keeps
    <2> QED BY <2>4, <2>7, KeptNext DEF Pushed, R0Leads
  <1>4. CASE RecvBlocks
    <2>1. PICK q \in Ready \ {cpu.running} : SVCall(SwitchTo(SaveSp(InSVC), q))
      BY <1>4 DEF RecvBlocks
    <2>2. q \in Proc /\ q \notin ended /\ mode = "thread" /\ ended' = ended /\ own' = own
      BY <1>4, <2>1 DEF Ready, SVCall, RecvBlocks
    <2>3. Keeps(SwitchTo(SaveSp(InSVC), q), 2, ended, own)
      BY <1>t, <2>2, SwitchKeeps
    <2> QED BY <2>1, <2>2, <2>3, CallKept, KeptNext
  <1>5. CASE SendWakes
    <2>1. PICK q \in blocked : /\ SVCall(SwitchTo(SaveSp(InSVC), q)) \/ SVCall(InSVC)
                               /\ ended' = ended /\ own' = own
      BY <1>5 DEF SendWakes
    <2>2. q \in Proc /\ q \notin ended /\ mode = "thread"
      BY <2>1 DEF Shape, SVCall
    <2>3. Keeps(SwitchTo(SaveSp(InSVC), q), 2, ended, own) /\ Keeps(InSVC, 2, ended, own)
      BY <1>t, <2>2, SwitchKeeps
    <2> QED BY <2>1, <2>2, <2>3, CallKept, KeptNext
  <1>6. CASE NiceLowers
    <2>1. PICK q \in Ready : SVCall(SwitchTo(SaveSp(InSVC), q))
      BY <1>6 DEF NiceLowers
    <2>2. q \in Proc /\ q \notin ended /\ mode = "thread" /\ ended' = ended /\ own' = own
      BY <1>6, <2>1 DEF Ready, SVCall, NiceLowers
    <2>3. Keeps(SwitchTo(SaveSp(InSVC), q), 2, ended, own)
      BY <1>t, <2>2, SwitchKeeps
    <2> QED BY <2>1, <2>2, <2>3, CallKept, KeptNext
  <1>7. CASE Terminates
    <2>1. PICK q \in Ready \ {cpu.running} : SVCall(SwitchTo(InSVC, q))
      BY <1>7 DEF Terminates
    <2>2. /\ q \in Proc /\ q \notin ended /\ q # cpu.running /\ mode = "thread"
          /\ ended' = ended \cup {cpu.running} /\ own' = own
      BY <1>7, <2>1 DEF Ready, SVCall, Terminates
    <2>3. Keeps(SwitchTo(InSVC, q), 2, ended \cup {cpu.running}, own)
      BY <1>t, <2>2, LeaveKeeps
    <2> QED BY <2>1, <2>2, <2>3, CallKept, KeptNext
  <1>8. ASSUME NEW pending \in BOOLEAN, HandlerInThread(pending)
        PROVE  ContextsKept'
    <2>1. PICK x \in Outcomes(Stacked(cpu)) : Leave(x.cpu, pending)
      BY <1>8 DEF HandlerInThread
    <2>2. mode = "thread" /\ ended' = ended /\ own' = own
      BY <1>8 DEF HandlerInThread
    <2>3. Keeps(x.cpu, 1, ended, own)
      BY <1>t, <2>2, OutcomeKept
    <2> QED BY <2>1, <2>2, <2>3, LeaveKept, KeptNext
  <1>9. ASSUME NEW pending \in BOOLEAN, HandlerInPendSV(pending)
        PROVE  ContextsKept'
    <2>1. PICK x \in Outcomes(cpu) : cpu' = x.cpu
      BY <1>9 DEF HandlerInPendSV
    <2>2. /\ mode \in InPendSV /\ mode' = mode /\ r0' = r0
          /\ ended' = ended /\ own' = own
      BY <1>9 DEF HandlerInPendSV
    <2>3. CASE mode \in {"save", "return"}
      <3>1. Keeps(cpu, 1, ended, own) /\ Pushed[mode] = 1 /\ mode \in DOMAIN Pushed
        BY <2>3, KeptNow DEF Pushed
      <3>2. Keeps(cpu', 1, ended, own) /\ R0Leads'
        BY <2>1, <2>2, <2>3, <3>1, OutcomeKept DEF R0Leads
      <3> QED BY <2>2, <3>1, <3>2, KeptNext
    <2>4. CASE mode \in Windows
      <3>1. cpu'.running = cpu.running
        BY <2>2, <2>4 DEF HandlerSwitchesInWindow
      <3>2. ASSUME NEW q \in Servers \cap blocked PROVE x.cpu # HandlerSwitch(cpu, q)
        <4>1. q \in Proc /\ q # cpu.running /\ cpu \in Cpu
          BY DEF Shape
        <4> QED BY <2>1, <3>1, <4>1, HandlerTypes
      <3>3. cpu' = cpu
        BY <2>1, <3>2 DEF Outcomes
      <3>4. Keeps(cpu, Pushed[mode], ended, own) /\ mode \in DOMAIN Pushed /\ R0Leads
        BY <2>4, KeptNow DEF Windows
      <3>5. R0Leads'
        BY <2>2, <3>3, <3>4 DEF R0Leads
      <3> QED BY <2>2, <3>3, <3>4, <3>5, KeptNext
    <2> QED BY <2>2, <2>3, <2>4 DEF Windows
  <1>10. CASE PendSVSaves
    <2>1. CASE Step("save", "store") /\ r0' = cpu.psp /\ UNCHANGED cpu
      <3>1. Keeps(cpu', 1, ended', own') /\ R0Leads' /\ mode' = "store"
        BY <2>1, KeptNow DEF Step, Pushed, R0Leads
      <3> QED BY <3>1, KeptNext DEF Pushed
    <2>2. CASE /\ Step("store", "saved")
               /\ cpu' = Store(cpu, r0, <<"R4_R11", cpu.regs>>) /\ r0' = Above(r0)
      <3>1. Keeps(cpu, 1, ended, own) /\ r0 = cpu.psp
        BY <2>2, KeptNow DEF Step, Pushed, R0Leads
      <3>2. Keeps(cpu', 1, ended, own) /\ Halves(cpu', cpu.running, 2, own)
            /\ cpu'.running = cpu.running
        BY <2>2, <3>1, StoreKeeps
      <3>3. r0' = <<cpu.running, own[cpu.running] + 2>>
        <4>1. cpu.psp = <<cpu.running, own[cpu.running] + 1>> /\ own[cpu.running] \in Int
          BY <3>1 DEF Keeps, Cpu
        <4> QED BY <2>2, <3>1, <4>1 DEF Above
      <3>4. mode' = "saved" /\ ended' = ended /\ own' = own
        BY <2>2 DEF Step
      <3>5. R0Leads'
        BY <3>2, <3>3, <3>4 DEF R0Leads
      <3> QED BY <3>2, <3>4, <3>5, KeptNext DEF Pushed
    <2>3. CASE Step("saved", "switch") /\ cpu' = [cpu EXCEPT !.psp = r0] /\ r0' = NotUsed
      <3>1. /\ Keeps(cpu, 1, ended, own) /\ Halves(cpu, cpu.running, 2, own)
            /\ r0 = <<cpu.running, own[cpu.running] + 2>>
        BY <2>3, KeptNow DEF Step, Pushed, R0Leads
      <3>2. Keeps(cpu', 2, ended, own)
        <4>1. r0 \in Proc \X Int /\ cpu \in Cpu
          BY DEF Shape
        <4>2. /\ cpu' \in Cpu /\ cpu'.psp = r0
              /\ cpu'.running = cpu.running /\ cpu'.regs = cpu.regs /\ cpu'.sp = cpu.sp
              /\ cpu'.stack = cpu.stack
          BY <2>3, <4>1, PspIs
        <4>3. Halves(cpu', cpu.running, 2, own)
          BY <3>1, <4>2 DEF Halves
        <4>4. ASSUME NEW p \in Proc \ (ended \cup {cpu.running}) PROVE Saved(cpu', p, own)
          <5>1. Saved(cpu, p, own)
            BY <3>1 DEF Keeps
          <5> QED BY <4>2, <5>1 DEF Saved, Halves
        <4>5. cpu'.psp = <<cpu'.running, own[cpu'.running] + 2>>
          BY <3>1, <4>2
        <4> QED BY <4>2, <4>3, <4>4, <4>5 DEF Keeps
      <3>3. mode' = "switch" /\ ended' = ended /\ own' = own /\ R0Leads'
        BY <2>3 DEF Step, R0Leads
      <3> QED BY <3>2, <3>3, KeptNext DEF Pushed
    <2> QED BY <1>10, <2>1, <2>2, <2>3 DEF PendSVSaves
  <1>11. CASE next_process
    <2>1. PICK q \in Ready : cpu' = SwitchTo(SaveSp(cpu), q)
      BY <1>11 DEF next_process
    <2>2. q \in Proc /\ q \notin ended /\ Keeps(cpu, 2, ended, own)
      BY <1>11, KeptNow DEF Ready, next_process, Step, Pushed
    <2>3. Keeps(cpu', 2, ended', own') /\ mode' = "restore"
      BY <1>11, <2>1, <2>2, SwitchKeeps DEF next_process, Step
    <2> QED BY <2>3, KeptNext DEF Pushed, R0Leads
  <1>12. CASE PendSVRestores
    <2>1. CASE Step("restore", "load") /\ r0' = cpu.psp /\ UNCHANGED cpu
      <3>1. Keeps(cpu', 2, ended', own') /\ R0Leads' /\ mode' = "load"
        BY <2>1, KeptNow DEF Step, Pushed, R0Leads
      <3> QED BY <3>1, KeptNext DEF Pushed
    <2>2. CASE Step("load", "loaded") /\ cpu' = Load(cpu, r0) /\ r0' = Below(r0)
      <3>1. Keeps(cpu, 2, ended, own) /\ r0 = cpu.psp
        BY <2>2, KeptNow DEF Step, Pushed, R0Leads
      <3>2. Keeps(cpu', 2, ended, own) /\ cpu'.regs = cpu.running /\ cpu'.running = cpu.running
        BY <2>2, <3>1, LoadKeeps
      <3>3. r0' = <<cpu.running, own[cpu.running] + 1>>
        <4>1. cpu.psp = <<cpu.running, own[cpu.running] + 2>> /\ own[cpu.running] \in Int
          BY <3>1 DEF Keeps, Cpu
        <4> QED BY <2>2, <3>1, <4>1 DEF Below
      <3>4. mode' = "loaded" /\ ended' = ended /\ own' = own
        BY <2>2 DEF Step
      <3>5. R0Leads'
        BY <3>2, <3>3, <3>4 DEF R0Leads
      <3> QED BY <3>2, <3>4, <3>5, KeptNext DEF Pushed
    <2>3. CASE Step("loaded", "return") /\ cpu' = [cpu EXCEPT !.psp = r0] /\ r0' = NotUsed
      <3>1. /\ Keeps(cpu, 2, ended, own) /\ cpu.regs = cpu.running
            /\ r0 = <<cpu.running, own[cpu.running] + 1>>
        BY <2>3, KeptNow DEF Step, Pushed, R0Leads
      <3>2. Keeps(cpu', 1, ended, own)
        <4>1. r0 \in Proc \X Int /\ cpu \in Cpu
          BY DEF Shape
        <4>2. /\ cpu' \in Cpu /\ cpu'.psp = r0
              /\ cpu'.running = cpu.running /\ cpu'.regs = cpu.regs /\ cpu'.sp = cpu.sp
              /\ cpu'.stack = cpu.stack
          BY <2>3, <4>1, PspIs
        <4>3. Halves(cpu', cpu.running, 1, own)
          <5>1. Halves(cpu, cpu.running, 2, own)
            BY <3>1 DEF Keeps
          <5> QED BY <4>2, <5>1 DEF Halves
        <4>4. ASSUME NEW p \in Proc \ (ended \cup {cpu.running}) PROVE Saved(cpu', p, own)
          <5>1. Saved(cpu, p, own)
            BY <3>1 DEF Keeps
          <5> QED BY <4>2, <5>1 DEF Saved, Halves
        <4>5. cpu'.psp = <<cpu'.running, own[cpu'.running] + 1>>
          BY <3>1, <4>2
        <4> QED BY <3>1, <4>2, <4>3, <4>4, <4>5 DEF Keeps
      <3>3. mode' = "return" /\ ended' = ended /\ own' = own /\ R0Leads'
        BY <2>3 DEF Step, R0Leads
      <3> QED BY <3>2, <3>3, KeptNext DEF Pushed
    <2> QED BY <1>12, <2>1, <2>2, <2>3 DEF PendSVRestores
  <1>13. CASE PendSVReturns
    <2>1. Keeps(cpu, 1, ended, own) /\ pendsv \in BOOLEAN /\ Leave(cpu, pendsv)
          /\ ended' = ended /\ own' = own
      BY <1>13, KeptNow DEF PendSVReturns, Leave, Pushed, Shape
    <2> QED BY <2>1, LeaveKept, KeptNext
  <1>14. CASE UNCHANGED vars
    BY <1>14 DEF vars, queues, ContextsKept, OwnContext, FramesComplete, HandlerContext,
                 HardwareHalf, BothHalves, OwnFrames
  <1> QED BY <1>1, <1>2, <1>3, <1>4, <1>5, <1>6, <1>7, <1>8, <1>9, <1>10, <1>11, <1>12,
             <1>13, <1>14 DEF Next, UART0_IntHandler, SysTickHandler

-----------------------------------------------------------------------------
\* Every switch of a kernel call, of PendSV_Handler and of a handler keeps the
\* context of every process (Proc_switch.c, Kernel.c:546), in any order, but a
\* handler's between the mrs of save_registers and disable(), or between enable()
\* and the msr of restore_registers.
THEOREM ContextsLostOnlyInWindows == Spec => LostOnlyInWindows
  <1>1. Shape /\ Shape' /\ [Next]_vars
          => [ContextsKept /\ ~HandlerSwitchesInWindow => ContextsKept']_vars
    BY NextKept
  <1> QED BY <1>1, ShapeAlways, PTL DEF Spec, LostOnlyInWindows

LEMMA InitKept == Init => ContextsKept
  <1> SUFFICES ASSUME Init PROVE ContextsKept
    OBVIOUS
  <1>1. mode = "main" /\ cpu.running = First /\ ended = {} /\ own = [p \in Proc |-> 0]
    BY DEF Init
  <1>2. /\ \A p \in Proc : cpu.sp[p] = <<p, 2>>
        /\ \A p \in Proc : /\ cpu.stack[p][1] = <<"R0_PSR", p>>
                          /\ cpu.stack[p][2] = <<"R4_R11", p>>
    <2> DEFINE frame(i, p) == CASE i = 1 -> <<"R0_PSR", p>>
                                [] i = 2 -> <<"R4_R11", p>>
                                [] OTHER -> <<"none", JUNK>>
    <2>1. /\ cpu.sp = [p \in Proc |-> <<p, 2>>]
          /\ cpu.stack = [p \in Proc |-> [i \in 1..DEPTH |-> frame(i, p)]]
      BY DEF Init
    <2>2. \A p \in Proc : frame(1, p) = <<"R0_PSR", p>> /\ frame(2, p) = <<"R4_R11", p>>
      OBVIOUS
    <2> HIDE DEF frame
    <2>3. 1 \in 1..DEPTH /\ 2 \in 1..DEPTH
      BY ProcessesOK
    <2> QED BY <2>1, <2>2, <2>3
  <1>3. \A p \in Proc : own[p] = 0
    BY <1>1
  <1>4. ASSUME NEW p \in Proc PROVE BothHalves(p) /\ own[p] + 2 = 2
    <2>1. own[p] + 1 = 1 /\ own[p] + 2 = 2 /\ 1..own[p] = {}
      BY <1>3
    <2> QED BY <1>2, <2>1 DEF BothHalves, HardwareHalf, OwnFrames
  <1> QED BY <1>1, <1>2, <1>3, <1>4
      DEF ContextsKept, OwnContext, FramesComplete, HandlerContext, Saving

\* The saved sps lie in the modelled part of the stacks.
SpInStack(c) == \A p \in Proc : c.sp[p] \in Proc \X (0..DEPTH)

\* What sp a CPU has after each of the steps.
LEMMA SpAfter ==
  ASSUME NEW c \in Cpu, SpInStack(c)
  PROVE  /\ SpInStack(Stacked(c)) /\ SpInStack(save_registers(c))
         /\ SpInStack(restore_registers(c)) /\ SpInStack(Pop(c))
         /\ \A q \in Proc : SpInStack(SwitchTo(c, q))
         /\ c.psp \in Proc \X (0..DEPTH) => SpInStack(SaveSp(c))
  <1>1. <<"R0_PSR", c.running>> \in Frame /\ <<"R4_R11", c.regs>> \in Frame
    BY DEF Cpu, Frame
  <1>2. Stacked(c).sp = c.sp /\ save_registers(c).sp = c.sp
    BY <1>1, PushIs DEF Stacked, save_registers
  <1>3. restore_registers(c).sp = c.sp /\ Pop(c).sp = c.sp
    BY RestoreIs, PopIs
  <1>4. \A q \in Proc : SwitchTo(c, q).sp = c.sp
    BY SwitchIs
  <1>5. c.psp \in Proc \X (0..DEPTH) => SpInStack(SaveSp(c))
    <2>1. c.running \in Proc
      BY DEF Cpu
    <2> QED BY <2>1, SwitchIs DEF SpInStack
  <1> QED BY <1>2, <1>3, <1>4, <1>5 DEF SpInStack

\* Both halves on the stack are in its modelled part.
LEMMA KeptInStack ==
  ASSUME own \in [Proc -> 0..OWN], NEW k \in 0..2, NEW c, NEW gone, Keeps(c, k, gone, own)
  PROVE  c \in Cpu /\ c.psp \in Proc \X (0..DEPTH)
  <1>1. c \in Cpu /\ c.running \in Proc /\ c.psp = <<c.running, own[c.running] + k>>
    BY DEF Keeps, Cpu
  <1>2. own[c.running] + k \in 0..DEPTH
    BY <1>1, ProcessesOK
  <1> QED BY <1>1, <1>2

\* A switch with the whole context on the stack saves an sp in the stack.
LEMMA SwitchInStack ==
  ASSUME own \in [Proc -> 0..OWN], NEW c, NEW gone, Keeps(c, 2, gone, own), SpInStack(c),
         NEW q \in Proc
  PROVE  /\ SwitchTo(SaveSp(c), q) \in Cpu /\ SpInStack(SwitchTo(SaveSp(c), q))
         /\ SwitchTo(c, q) \in Cpu /\ SpInStack(SwitchTo(c, q))
  <1>1. c \in Cpu /\ c.psp \in Proc \X (0..DEPTH)
    BY KeptInStack
  <1>2. SaveSp(c) \in Cpu /\ SpInStack(SaveSp(c))
    BY <1>1, SpAfter, StepTypes
  <1> QED BY <1>1, <1>2, SpAfter, StepTypes

\* The end of an exception, or of a kernel call, changes no saved sp.
LEMMA LeaveInStack ==
  ASSUME NEW c \in Cpu, SpInStack(c)
  PROVE  /\ \A pending \in BOOLEAN : Leave(c, pending) => SpInStack(cpu')
         /\ SVCall(c) => SpInStack(cpu')
  <1>1. ASSUME NEW d \in Cpu, SpInStack(d), NEW pending \in BOOLEAN, Leave(d, pending)
        PROVE  SpInStack(cpu')
    BY <1>1, SpAfter DEF Leave
  <1>2. restore_registers(c) \in Cpu /\ SpInStack(restore_registers(c))
    BY SpAfter, StepTypes
  <1> QED BY <1>1, <1>2 DEF SVCall

\* stmdb and ldmia in PendSV_Handler, and its msr, change no saved sp.
LEMMA InstructionsInStack ==
  ASSUME NEW c \in Cpu, SpInStack(c), NEW a \in Proc \X Int
  PROVE  /\ SpInStack(Store(c, a, <<"R4_R11", c.regs>>)) /\ SpInStack(Load(c, a))
         /\ SpInStack([c EXCEPT !.psp = a])
  <1>1. <<"R4_R11", c.regs>> \in Frame
    BY DEF Cpu, Frame
  <1>2. /\ Store(c, a, <<"R4_R11", c.regs>>).sp = c.sp /\ Load(c, a).sp = c.sp
        /\ [c EXCEPT !.psp = a].sp = c.sp
    BY <1>1, StoreIs, LoadIs, PspIs
  <1> QED BY <1>2 DEF SpInStack

LEMMA NextInStack ==
  ASSUME Shape, Shape', [Next]_vars, ContextsKept, ~HandlerSwitchesInWindow, SpInStack(cpu)
  PROVE  SpInStack(cpu')
  <1> USE DEF InPendSV, Saving, Restoring
  <1> own \in [Proc -> 0..OWN] /\ cpu \in Cpu /\ r0 \in Proc \X Int
    BY DEF Shape
  <1>t. ASSUME mode = "thread"
        PROVE  /\ SpInStack(Stacked(cpu)) /\ Keeps(Stacked(cpu), 1, ended, own)
               /\ Keeps(InSVC, 2, ended, own) /\ SpInStack(InSVC) /\ InSVC \in Cpu
    <2>1. Keeps(cpu, 0, ended, own)
      BY <1>t, KeptNow DEF Pushed
    <2>2. Keeps(Stacked(cpu), 1, ended, own) /\ Stacked(cpu) \in Cpu
      BY <2>1, SaveKeeps, StepTypes
    <2> QED BY <2>2, SaveKeeps, SpAfter, StepTypes DEF InSVC
  <1>h. ASSUME NEW c, Keeps(c, 1, ended, own), SpInStack(c), NEW q \in Servers \cap blocked
        PROVE  HandlerSwitch(c, q) \in Cpu /\ SpInStack(HandlerSwitch(c, q))
    <2>1. q \in Proc /\ c \in Cpu
      BY <1>h DEF Shape, Keeps
    <2>2. Keeps(save_registers(c), 2, ended, own) /\ SpInStack(save_registers(c))
      BY <1>h, <2>1, SaveKeeps, SpAfter
    <2>3. /\ SwitchTo(SaveSp(save_registers(c)), q) \in Cpu
          /\ SpInStack(SwitchTo(SaveSp(save_registers(c)), q))
      BY <2>1, <2>2, SwitchInStack
    <2> QED BY <2>3, SpAfter, StepTypes DEF HandlerSwitch
  <1>o. ASSUME NEW c, Keeps(c, 1, ended, own), SpInStack(c), NEW x \in Outcomes(c)
        PROVE  x.cpu \in Cpu /\ SpInStack(x.cpu)
    BY <1>o, <1>h DEF Outcomes, Keeps
  <1>1. CASE FirstSVC
    <2>1. cpu'.sp = cpu.sp
      BY <1>1 DEF FirstSVC, Cpu
    <2> QED BY <2>1 DEF SpInStack
  <1>2. CASE Calls
    <2>1. <<"own", cpu.running>> \in Frame
      BY DEF Frame, Cpu
    <2>2. cpu'.sp = cpu.sp
      BY <1>2, <2>1, PushIs DEF Calls
    <2> QED BY <2>2 DEF SpInStack
  <1>3. CASE Returns
    BY <1>3, SpAfter DEF Returns
  <1>4. CASE RecvBlocks
    <2>1. PICK q \in Proc : SVCall(SwitchTo(SaveSp(InSVC), q))
      BY <1>4 DEF RecvBlocks, Ready
    <2> QED BY <1>t, <2>1, SwitchInStack, LeaveInStack DEF SVCall
  <1>5. CASE SendWakes
    <2>1. PICK q \in Proc : SVCall(SwitchTo(SaveSp(InSVC), q)) \/ SVCall(InSVC)
      BY <1>5 DEF SendWakes, Shape
    <2> QED BY <1>t, <2>1, SwitchInStack, LeaveInStack DEF SVCall
  <1>6. CASE NiceLowers
    <2>1. PICK q \in Proc : SVCall(SwitchTo(SaveSp(InSVC), q))
      BY <1>6 DEF NiceLowers, Ready
    <2> QED BY <1>t, <2>1, SwitchInStack, LeaveInStack DEF SVCall
  <1>7. CASE Terminates
    <2>1. PICK q \in Proc : SVCall(SwitchTo(InSVC, q))
      BY <1>7 DEF Terminates, Ready
    <2> QED BY <1>t, <2>1, SwitchInStack, LeaveInStack DEF SVCall
  <1>8. ASSUME NEW pending \in BOOLEAN, HandlerInThread(pending)
        PROVE  SpInStack(cpu')
    <2>1. PICK x \in Outcomes(Stacked(cpu)) : Leave(x.cpu, pending)
      BY <1>8 DEF HandlerInThread
    <2> QED BY <1>8, <1>t, <1>o, <2>1, LeaveInStack DEF HandlerInThread
  <1>9. ASSUME NEW pending \in BOOLEAN, HandlerInPendSV(pending)
        PROVE  SpInStack(cpu')
    <2>1. PICK x \in Outcomes(cpu) : cpu' = x.cpu
      BY <1>9 DEF HandlerInPendSV
    <2>2. mode \in InPendSV /\ mode' = mode
      BY <1>9 DEF HandlerInPendSV
    <2>3. CASE mode \in {"save", "return"}
      <3>1. Keeps(cpu, 1, ended, own)
        BY <2>3, KeptNow DEF Pushed
      <3> QED BY <2>1, <3>1, <1>o
    <2>4. CASE mode \in Windows
      <3>1. cpu'.running = cpu.running
        BY <2>2, <2>4 DEF HandlerSwitchesInWindow
      <3>2. ASSUME NEW q \in Servers \cap blocked PROVE x.cpu # HandlerSwitch(cpu, q)
        <4>1. q \in Proc /\ q # cpu.running
          BY DEF Shape
        <4> QED BY <2>1, <3>1, <4>1, HandlerTypes
      <3> QED BY <2>1, <3>2 DEF Outcomes
    <2> QED BY <2>2, <2>3, <2>4 DEF Windows
  <1>10. CASE PendSVSaves
    BY <1>10, InstructionsInStack DEF PendSVSaves
  <1>11. CASE next_process
    <2>1. PICK q \in Proc : cpu' = SwitchTo(SaveSp(cpu), q)
      BY <1>11 DEF next_process, Ready
    <2>2. Keeps(cpu, 2, ended, own)
      BY <1>11, KeptNow DEF next_process, Step, Pushed
    <2> QED BY <2>1, <2>2, SwitchInStack
  <1>12. CASE PendSVRestores
    BY <1>12, InstructionsInStack DEF PendSVRestores
  <1>13. CASE PendSVReturns
    <2>1. pendsv \in BOOLEAN /\ Leave(cpu, pendsv)
      BY <1>13 DEF PendSVReturns, Shape
    <2> QED BY <2>1, LeaveInStack
  <1>14. CASE UNCHANGED vars
    BY <1>14 DEF vars, SpInStack
  <1> QED BY <1>1, <1>2, <1>3, <1>4, <1>5, <1>6, <1>7, <1>8, <1>9, <1>10, <1>11, <1>12,
             <1>13, <1>14 DEF Next, UART0_IntHandler, SysTickHandler

SavedInStack == SpInStack(cpu)

\* Without switches in the two windows no context is ever lost: every process
\* that executes finds its registers, its stack and its PSP, every other its whole
\* frame, and a process needs no more stack than its own and one frame (TypeOK).
THEOREM ContextsKeptOutsideWindows ==
  Spec /\ [][~HandlerSwitchesInWindow]_vars => [](ContextsKept /\ TypeOK)
  <1>1. Init => ContextsKept /\ SavedInStack
    <2> SUFFICES ASSUME Init PROVE SavedInStack
      BY InitKept
    <2>1. cpu.sp = [p \in Proc |-> <<p, 2>>]
      BY DEF Init
    <2>2. \A p \in Proc : <<p, 2>> \in Proc \X (0..DEPTH)
      BY ProcessesOK
    <2>3. \A p \in Proc : cpu.sp[p] \in Proc \X (0..DEPTH)
      BY <2>1, <2>2
    <2> QED BY <2>3 DEF SavedInStack, SpInStack
  <1>2. (/\ Shape /\ Shape' /\ ContextsKept /\ SavedInStack
         /\ [Next]_vars /\ [~HandlerSwitchesInWindow]_vars)
          => ContextsKept' /\ SavedInStack'
    <2> SUFFICES ASSUME Shape, Shape', ContextsKept, SavedInStack, [Next]_vars,
                        [~HandlerSwitchesInWindow]_vars
                 PROVE  ContextsKept' /\ SavedInStack'
      OBVIOUS
    <2>1. CASE ~HandlerSwitchesInWindow
      <3>1. SpInStack(cpu)
        BY DEF SavedInStack
      <3>2. SpInStack(cpu')
        BY <2>1, <3>1, NextInStack
      <3>3. ContextsKept'
        BY <2>1, NextKept
      <3> QED BY <3>2, <3>3 DEF SavedInStack
    <2>2. CASE UNCHANGED vars
      <3>1. ContextsKept'
        BY <2>2 DEF vars, queues, ContextsKept, OwnContext, FramesComplete, HandlerContext,
                    HardwareHalf, BothHalves, OwnFrames
      <3>2. SavedInStack'
        BY <2>2 DEF vars, queues, SavedInStack, SpInStack
      <3> QED BY <3>1, <3>2
    <2> QED BY <2>1, <2>2
  <1>3. Shape /\ ContextsKept /\ SavedInStack => TypeOK
    <2> SUFFICES ASSUME Shape, ContextsKept, SpInStack(cpu) PROVE TypeOK
      BY DEF SavedInStack
    <2>1. cpu.psp \in Proc \X (0..DEPTH)
      <3>1. CASE mode = "main"
        <4>1. cpu.psp \in Proc \X Int
          BY DEF Shape, Cpu
        <4> QED BY <3>1, <4>1, ProcessesOK DEF Shape
      <3>2. CASE mode # "main"
        <4>1. mode \in DOMAIN Pushed /\ Keeps(cpu, Pushed[mode], ended, own)
          BY <3>2, KeptNow
        <4>2. Pushed[mode] \in 0..2
          BY <4>1 DEF Pushed, InPendSV, Saving, Restoring
        <4> QED BY <4>1, <4>2, KeptInStack DEF Shape
      <3> QED BY <3>1, <3>2
    <2>2. cpu.sp \in [Proc -> Proc \X (0..DEPTH)]
      BY DEF Shape, Cpu, SpInStack
    <2>3. r0 \in Proc \X (0..DEPTH)
      <3>1. CASE mode \notin {"store", "saved", "load", "loaded"}
        BY <3>1, ProcessesOK DEF Shape, NotUsed
      <3>2. CASE mode \in {"store", "load"}
        BY <2>1, <3>2, KeptNow DEF R0Leads
      <3>3. CASE mode \in {"saved", "loaded"}
        <4>1. R0Leads /\ cpu.running \in Proc /\ own[cpu.running] \in 0..OWN
          BY <3>3, KeptNow DEF Shape, Cpu
        <4>2. own[cpu.running] + 1 \in 0..DEPTH /\ own[cpu.running] + 2 \in 0..DEPTH
          BY <4>1, ProcessesOK
        <4> QED BY <3>3, <4>1, <4>2 DEF R0Leads
      <3> QED BY <3>1, <3>2, <3>3
    <2> QED BY <2>1, <2>2, <2>3 DEF Shape, Cpu, TypeOK
  <1> QED BY <1>1, <1>2, <1>3, ShapeAlways, PTL DEF Spec
=============================================================================
