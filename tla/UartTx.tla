------------------------------- MODULE UartTx -------------------------------
(***************************************************************************)
(* The way of a character to the terminal: enqueue and dequeue of Buffer.c *)
(* for the queue UART_OUT, data_xmitting and the transmit half of          *)
(* UART0_IntHandler in Uart.c.  Writers are the processes that print:      *)
(* input_server echoes, output_server fills windows, and any process       *)
(* prints from inside k_nice and k_terminate.                              *)
(*                                                                         *)
(* The disable() and enable() calls of data_xmitting are commented out, so *)
(* a process can be interrupted, by the UART and by another writer,        *)
(* between any two of its accesses to UART_busy, UART0_DR_R and the queue. *)
(* The prints of a kernel call run at exception priority 0, as the handler *)
(* does, and are atomic.                                                   *)
(*                                                                         *)
(* A character is <<w, n>>, the n-th that w prints; what it looks like is  *)
(* left out.                                                               *)
(***************************************************************************)
EXTENDS Integers, Sequences, FiniteSets

CONSTANTS
  Writer,      \* the processes that print
  MaxChars,    \* BOUND: how many characters each process prints
  QUEUE_SZ,    \* a power of two
  NONE         \* no character

ASSUME SizesOK == QUEUE_SZ \in Nat \ {0, 1} /\ MaxChars \in Nat

Char == Writer \X (1..MaxChars)

\* What a slot holds that was never written: a static array is zero.
NUL == <<NONE, 0>>

ASSUME CharsOK == NONE \notin Writer /\ NONE \notin Char \cup {NUL}

VARIABLES
  data, head, tail,   \* queue[UART_OUT]
  UART_busy,
  UART0_DR_R,         \* the transmit holding register
  txmis,              \* the transmit bit of UART0_MIS_R
  line,               \* the characters that went out on the wire, in order
  dropped,            \* the characters enqueue left out: the queue was full
  pc,                 \* where each writer is in enqueue
  slot,               \* its local variable head
  printed             \* how many characters each has printed or begun

queue == <<data, head, tail>>
vars == <<queue, UART_busy, UART0_DR_R, txmis, line, dropped, pc, slot, printed>>

Index == 0..(QUEUE_SZ - 1)

TypeOK ==
  /\ data \in [Index -> Char \cup {NUL}] /\ head \in Index /\ tail \in Index
  /\ UART_busy \in BOOLEAN /\ txmis \in BOOLEAN
  /\ UART0_DR_R \in Char \cup {NUL, NONE}
  /\ line \in Seq(Char \cup {NUL}) /\ dropped \in SUBSET Char
  /\ pc \in [Writer -> {"idle", "busy?", "send", "mark", "full?", "store", "advance"}]
  /\ slot \in [Writer -> Index]
  /\ printed \in [Writer -> 0..MaxChars]

\* Nothing printed yet; UART0_setup has switched the FIFOs off and the two
\* interrupts on, and main those of the CPU.
Init ==
  /\ data = [i \in Index |-> NUL] /\ head = 0 /\ tail = 0
  /\ UART_busy = FALSE /\ UART0_DR_R = NONE /\ txmis = FALSE
  /\ line = <<>> /\ dropped = {}
  /\ pc = [w \in Writer |-> "idle"]
  /\ slot = [w \in Writer |-> 0]
  /\ printed = [w \in Writer |-> 0]

-----------------------------------------------------------------------------
\* Mutant of After: no mask.
AfterUnmasked(i) == i + 1

\* (i + 1) & (QUEUE_SZ - 1)
After(i) == (i + 1) % QUEUE_SZ

\* The character a writer prints now.
Current(w) == <<w, printed[w]>>

\* A write to the data register: without FIFOs it has one place, and a write
\* to an occupied place is ignored.
Transmit(c) == UART0_DR_R' = IF UART0_DR_R = NONE THEN c ELSE UART0_DR_R

-----------------------------------------------------------------------------
(* enqueue(UART_OUT, c), a step for every access to what is shared.        *)

\* enqueue computes the slot after the head.
Enter(w) ==
  /\ pc[w] = "idle" /\ printed[w] < MaxChars
  /\ printed' = [printed EXCEPT ![w] = @ + 1]
  /\ slot' = [slot EXCEPT ![w] = After(head)]
  /\ pc' = [pc EXCEPT ![w] = "busy?"]
  /\ UNCHANGED <<queue, UART_busy, UART0_DR_R, txmis, line, dropped>>

\* data_xmitting reads UART_busy.
ReadBusy(w) ==
  /\ pc[w] = "busy?"
  /\ pc' = [pc EXCEPT ![w] = IF UART_busy THEN "full?" ELSE "send"]
  /\ UNCHANGED <<queue, UART_busy, UART0_DR_R, txmis, line, dropped, slot, printed>>

\* data_xmitting wakes up the UART, ...
WriteData(w) ==
  /\ pc[w] = "send"
  /\ Transmit(Current(w))
  /\ pc' = [pc EXCEPT ![w] = "mark"]
  /\ UNCHANGED <<queue, UART_busy, txmis, line, dropped, slot, printed>>

\* ... and then says that it is busy.
MarkBusy(w) ==
  /\ pc[w] = "mark"
  /\ UART_busy' = TRUE
  /\ pc' = [pc EXCEPT ![w] = "idle"]
  /\ UNCHANGED <<queue, UART0_DR_R, txmis, line, dropped, slot, printed>>

\* Mutant of ReadTail: a full queue is not noticed.
ReadTailNot(w) ==
  /\ pc[w] = "full?"
  /\ pc' = [pc EXCEPT ![w] = "store"]
  /\ UNCHANGED <<queue, UART_busy, UART0_DR_R, txmis, line, dropped, slot, printed>>

\* The UART was busy: a full queue drops the character.
ReadTail(w) ==
  /\ pc[w] = "full?"
  /\ IF slot[w] # tail
     THEN pc' = [pc EXCEPT ![w] = "store"] /\ UNCHANGED dropped
     ELSE pc' = [pc EXCEPT ![w] = "idle"] /\ dropped' = dropped \cup {Current(w)}
  /\ UNCHANGED <<queue, UART_busy, UART0_DR_R, txmis, line, slot, printed>>

StoreChar(w) ==
  /\ pc[w] = "store"
  /\ data' = [data EXCEPT ![slot[w]] = Current(w)]
  /\ pc' = [pc EXCEPT ![w] = "advance"]
  /\ UNCHANGED <<head, tail, UART_busy, UART0_DR_R, txmis, line, dropped, slot, printed>>

AdvanceHead(w) ==
  /\ pc[w] = "advance"
  /\ head' = slot[w]
  /\ pc' = [pc EXCEPT ![w] = "idle"]
  /\ UNCHANGED <<data, tail, UART_busy, UART0_DR_R, txmis, line, dropped, slot, printed>>

\* The whole of enqueue, in a kernel call of w (k_nice, k_terminate): no
\* interrupt is taken inside.
KernelPrint(w) ==
  LET c == <<w, printed[w] + 1>>
  IN  /\ pc[w] = "idle" /\ printed[w] < MaxChars
      /\ printed' = [printed EXCEPT ![w] = @ + 1]
      /\ IF ~UART_busy
         THEN Transmit(c) /\ UART_busy' = TRUE /\ UNCHANGED <<data, head, dropped>>
         ELSE /\ UNCHANGED <<UART_busy, UART0_DR_R>>
              /\ IF After(head) # tail
                 THEN /\ data' = [data EXCEPT ![After(head)] = c]
                      /\ head' = After(head)
                      /\ UNCHANGED dropped
                 ELSE dropped' = dropped \cup {c} /\ UNCHANGED <<data, head>>
      /\ UNCHANGED <<tail, txmis, line, pc, slot>>

-----------------------------------------------------------------------------
\* The hardware: the character leaves the data register, and the transmit
\* interrupt is raised.
Shift ==
  /\ UART0_DR_R # NONE
  /\ line' = Append(line, UART0_DR_R)
  /\ UART0_DR_R' = NONE
  /\ txmis' = TRUE
  /\ UNCHANGED <<queue, UART_busy, dropped, pc, slot, printed>>

\* Mutant of TxHandler: idle although another character waits.
TxHandlerIdles ==
  /\ txmis /\ txmis' = FALSE
  /\ IF tail # head
     THEN tail' = After(tail) /\ Transmit(data[After(tail)])
     ELSE UNCHANGED <<tail, UART0_DR_R>>
  /\ UART_busy' = FALSE
  /\ UNCHANGED <<data, head, line, dropped, pc, slot, printed>>

\* Mutant of TxHandler: busy although the queue is empty.
TxHandlerBusy ==
  /\ txmis /\ txmis' = FALSE
  /\ IF tail # head
     THEN tail' = After(tail) /\ Transmit(data[After(tail)])
     ELSE UNCHANGED <<tail, UART0_DR_R>>
  /\ UNCHANGED <<data, head, UART_busy, line, dropped, pc, slot, printed>>

\* The transmit half of UART0_IntHandler: the next character of the queue is
\* sent, or the UART is idle.
TxHandler ==
  /\ txmis /\ txmis' = FALSE
  /\ IF tail # head
     THEN /\ tail' = After(tail)
          /\ Transmit(data[After(tail)])
          /\ UART_busy' = TRUE
     ELSE UART_busy' = FALSE /\ UNCHANGED <<tail, UART0_DR_R>>
  /\ UNCHANGED <<data, head, line, dropped, pc, slot, printed>>

enqueue(w) == \/ Enter(w) \/ ReadBusy(w) \/ WriteData(w) \/ MarkBusy(w)
              \/ ReadTail(w) \/ StoreChar(w) \/ AdvanceHead(w)

Next == \/ \E w \in Writer : enqueue(w) \/ KernelPrint(w)
        \/ Shift
        \/ TxHandler

Spec == Init /\ [][Next]_vars

-----------------------------------------------------------------------------
(* What should hold.                                                       *)

\* The slots of the queue that are in use: those after the tail, up to the head.
Used == {i \in Index : 0 < (i - tail) % QUEUE_SZ
                       /\ (i - tail) % QUEUE_SZ <= (head - tail) % QUEUE_SZ}

\* Where the character c is: how often on the line, in the data register and
\* in the queue.
Times(c) == Cardinality({i \in 1..Len(line) : line[i] = c})
              + (IF UART0_DR_R = c THEN 1 ELSE 0)
              + Cardinality({i \in Used : data[i] = c})

\* The characters that enqueue is done with.
Done == {c \in Char : /\ c[2] <= printed[c[1]]
                      /\ pc[c[1]] # "idle" => c[2] # printed[c[1]]}

\* No character is lost or repeated: one that enqueue is done with was dropped
\* for a full queue, or is at exactly one place on its way.
NoneLost ==
  \A c \in Done : IF c \in dropped THEN Times(c) = 0 ELSE Times(c) = 1

\* While UART_busy is true the UART is sending, or about to ask for more, so
\* that what is queued goes out.
Served == UART_busy => UART0_DR_R # NONE \/ txmis

\* A writer has put its character into the data register (Uart.c:78), and it is
\* gone, its interrupt over, before the writer comes to UART_busy = TRUE.
GoneBeforeMarked == \E w \in Writer : pc[w] = "mark" /\ UART0_DR_R = NONE /\ ~txmis

\* "uart busy queue data" (Uart.c:83) relies on an interrupt to come.  Output
\* stops for good in one way only: an interrupt between Uart.c:78 and :79.
StuckOnlyInWindow == [][Served => Served' \/ GoneBeforeMarked]_vars

\* The order of what is printed, as far as it is kept.  Between the test of
\* UART_busy and queue.head = head (Buffer.c:21-24) the interrupt can find the
\* queue empty and mark the UART idle: the character stays in the queue and is
\* overtaken, but by one other and no more, which wakes the UART up.
OvertakenOnce ==
  \A i, j \in 1..Len(line) :
    i < j /\ line[i][1] = line[j][1] => line[i][2] <= line[j][2] + 1
=============================================================================
