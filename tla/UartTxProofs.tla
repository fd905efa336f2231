---------------------------- MODULE UartTxProofs ----------------------------
(***************************************************************************)
(* What module UartTx shows of the way of a character to the terminal: for *)
(* every size of the queue and every number of characters.  How the output *)
(* stops holds for any number of writers; that no character is lost holds  *)
(* for one writer, as the run uart_two shows.                              *)
(***************************************************************************)
EXTENDS UartTx, FiniteSetTheorems, TLAPS

-----------------------------------------------------------------------------
(* The circular buffer.                                                    *)

\* A remainder is known by its range.
LEMMA Remainder ==
  ASSUME NEW m \in Nat \ {0}, NEW k \in 0..(m - 1)
  PROVE  /\ k % m = k /\ (k + m) % m = k /\ (k - m) % m = k
  OBVIOUS

\* The slot after a slot: the next, and after the last the first.
LEMMA AfterIs ==
  ASSUME NEW i \in Index
  PROVE  /\ After(i) = (IF i = QUEUE_SZ - 1 THEN 0 ELSE i + 1)
         /\ After(i) \in Index
  <1>1. CASE i = QUEUE_SZ - 1
    <2>1. (0 + QUEUE_SZ) % QUEUE_SZ = 0
      BY Remainder, SizesOK
    <2> QED BY <1>1, <2>1, SizesOK DEF After, Index
  <1>2. CASE i # QUEUE_SZ - 1
    <2>1. i + 1 \in 0..(QUEUE_SZ - 1)
      BY <1>2, SizesOK DEF Index
    <2>2. (i + 1) % QUEUE_SZ = i + 1
      BY <2>1, Remainder, SizesOK
    <2> QED BY <1>2, <2>1, <2>2 DEF After, Index
  <1> QED BY <1>1, <1>2

\* How far the slot i is after the slot t.
Distance(i, t) == (i - t) % QUEUE_SZ

LEMMA DistanceIs ==
  ASSUME NEW i \in Index, NEW t \in Index
  PROVE  /\ Distance(i, t) = (IF t <= i THEN i - t ELSE (i - t) + QUEUE_SZ)
         /\ Distance(i, t) \in Index
  <1>1. CASE t <= i
    <2>1. i - t \in 0..(QUEUE_SZ - 1)
      BY <1>1, SizesOK DEF Index
    <2>2. (i - t) % QUEUE_SZ = i - t
      BY <2>1, Remainder, SizesOK
    <2> QED BY <1>1, <2>1, <2>2 DEF Distance, Index
  <1>2. CASE ~(t <= i)
    <2> DEFINE k == (i - t) + QUEUE_SZ
    <2>1. k \in 0..(QUEUE_SZ - 1) /\ k - QUEUE_SZ = i - t
      BY <1>2, SizesOK DEF Index
    <2> HIDE DEF k
    <2>2. (k - QUEUE_SZ) % QUEUE_SZ = k
      BY <2>1, Remainder, SizesOK
    <2>3. (i - t) % QUEUE_SZ = k
      BY <2>1, <2>2
    <2> QED BY <1>2, <2>1, <2>3 DEF Distance, Index, k
  <1> QED BY <1>1, <1>2

\* Different slots are at different distances; the slot after t is the nearest.
LEMMA DistanceOrder ==
  ASSUME NEW i \in Index, NEW j \in Index, NEW t \in Index
  PROVE  /\ Distance(i, t) \in Nat
         /\ Distance(i, t) = Distance(j, t) => i = j
         /\ i # t /\ i # After(t) => Distance(After(t), t) < Distance(i, t)
  <1>1. Distance(i, t) = (IF t <= i THEN i - t ELSE (i - t) + QUEUE_SZ)
    BY DistanceIs
  <1>2. Distance(j, t) = (IF t <= j THEN j - t ELSE (j - t) + QUEUE_SZ)
    BY DistanceIs
  <1>3. Distance(i, t) \in Nat /\ (Distance(i, t) = Distance(j, t) => i = j)
    BY <1>1, <1>2, SizesOK DEF Index
  <1> DEFINE a == After(t)
  <1>4. a \in Index /\ a = (IF t = QUEUE_SZ - 1 THEN 0 ELSE t + 1)
    BY AfterIs
  <1>5. Distance(a, t) = (IF t <= a THEN a - t ELSE (a - t) + QUEUE_SZ)
    BY <1>4, DistanceIs
  <1> HIDE DEF a
  <1>6. i # t /\ i # a => Distance(a, t) < Distance(i, t)
    BY <1>1, <1>4, <1>5, SizesOK DEF Index
  <1> QED BY <1>3, <1>6 DEF a

\* The slots in use of a buffer with head h and tail t.
Slots(h, t) == {i \in Index : 0 < Distance(i, t) /\ Distance(i, t) <= Distance(h, t)}

LEMMA UsedIs == Used = Slots(head, tail)
  BY DEF Used, Slots, Distance

LEMMA NoSlots ==
  ASSUME NEW t \in Index
  PROVE  Slots(t, t) = {}
  BY DistanceIs, SizesOK DEF Slots, Index

\* The tail moves on: the slot after it, the nearest, is no longer in use.
LEMMA TailAdvances ==
  ASSUME NEW h \in Index, NEW t \in Index, h # t
  PROVE  /\ After(t) \in Slots(h, t)
         /\ Slots(h, After(t)) = Slots(h, t) \ {After(t)}
         /\ \A i \in Slots(h, After(t)) : Distance(i, After(t)) = Distance(i, t) - 1
  <1> DEFINE a == After(t)
  <1>1. a \in Index /\ a = (IF t = QUEUE_SZ - 1 THEN 0 ELSE t + 1)
    BY AfterIs
  <1> HIDE DEF a
  <1>2. ASSUME NEW i \in Index
        PROVE  /\ Distance(i, t) \in Nat /\ Distance(i, a) \in Nat
               /\ (i = t) <=> (Distance(i, t) = 0)
               /\ (i = a) <=> (Distance(i, t) = 1)
               /\ i # t => Distance(i, a) = Distance(i, t) - 1
               /\ i = t => Distance(i, a) = QUEUE_SZ - 1
               /\ Distance(i, t) <= QUEUE_SZ - 1
    <2>1. Distance(i, t) = (IF t <= i THEN i - t ELSE (i - t) + QUEUE_SZ)
      BY DistanceIs
    <2>2. Distance(i, a) = (IF a <= i THEN i - a ELSE (i - a) + QUEUE_SZ)
      BY <1>1, DistanceIs
    <2> QED BY <1>1, <2>1, <2>2, SizesOK DEF Index
  <1>3. Distance(h, a) < QUEUE_SZ - 1
    BY <1>2, SizesOK
  <1>4. a \in Slots(h, t)
    BY <1>1, <1>2 DEF Slots
  <1>5. ASSUME NEW i \in Index
        PROVE  i \in Slots(h, a) <=> i \in Slots(h, t) /\ i # a
    <2>1. CASE i = t
      BY <1>2, <1>3, <2>1, SizesOK DEF Slots
    <2>2. CASE i # t
      BY <1>2, <2>2 DEF Slots
    <2> QED BY <2>1, <2>2
  <1>6. Slots(h, a) = Slots(h, t) \ {a}
    BY <1>5 DEF Slots
  <1>7. ASSUME NEW i \in Slots(h, a) PROVE Distance(i, a) = Distance(i, t) - 1
    <2>1. i \in Index /\ Distance(i, a) <= Distance(h, a)
      BY DEF Slots
    <2>2. i # t
      BY <1>2, <1>3, <2>1, SizesOK
    <2> QED BY <1>2, <2>1, <2>2
  <1> QED BY <1>4, <1>6, <1>7 DEF a

\* The head moves on in a buffer that is not full: the slot after it, now the
\* farthest, comes into use.
LEMMA HeadAdvances ==
  ASSUME NEW h \in Index, NEW t \in Index, After(h) # t
  PROVE  /\ After(h) \notin Slots(h, t)
         /\ Slots(After(h), t) = Slots(h, t) \cup {After(h)}
         /\ \A i \in Slots(h, t) : Distance(i, t) < Distance(After(h), t)
  <1> DEFINE a == After(h)
  <1>1. a \in Index /\ a = (IF h = QUEUE_SZ - 1 THEN 0 ELSE h + 1) /\ a # t
    BY AfterIs
  <1> HIDE DEF a
  <1>2. Distance(a, t) = Distance(h, t) + 1 /\ Distance(h, t) \in Nat
    <2>1. Distance(h, t) = (IF t <= h THEN h - t ELSE (h - t) + QUEUE_SZ)
      BY DistanceIs
    <2>2. Distance(a, t) = (IF t <= a THEN a - t ELSE (a - t) + QUEUE_SZ)
      BY <1>1, DistanceIs
    <2> QED BY <1>1, <2>1, <2>2, SizesOK DEF Index
  <1>3. ASSUME NEW i \in Index
        PROVE  /\ Distance(i, t) \in Nat
               /\ (i = a) <=> (Distance(i, t) = Distance(a, t))
    <2>1. Distance(i, t) = (IF t <= i THEN i - t ELSE (i - t) + QUEUE_SZ)
      BY DistanceIs
    <2>2. Distance(a, t) = (IF t <= a THEN a - t ELSE (a - t) + QUEUE_SZ)
      BY <1>1, DistanceIs
    <2> QED BY <1>1, <2>1, <2>2, SizesOK DEF Index
  <1>4. a \notin Slots(h, t)
    BY <1>2 DEF Slots
  <1>5. ASSUME NEW i \in Index
        PROVE  i \in Slots(a, t) <=> i \in Slots(h, t) \/ i = a
    BY <1>2, <1>3 DEF Slots
  <1>6. Slots(a, t) = Slots(h, t) \cup {a}
    BY <1>1, <1>5 DEF Slots
  <1>7. ASSUME NEW i \in Slots(h, t) PROVE Distance(i, t) < Distance(a, t)
    BY <1>2, <1>3, <1>7 DEF Slots
  <1> QED BY <1>4, <1>6, <1>7 DEF a

-----------------------------------------------------------------------------
(* Any number of writers.                                                  *)

\* A writer inside enqueue has a character to print.
Begun == \A w \in Writer : pc[w] # "idle" => 0 < printed[w]

LEMMA CurrentIs ==
  ASSUME TypeOK, Begun, NEW w \in Writer, pc[w] # "idle"
  PROVE  Current(w) \in Char /\ Current(w) # NONE
  BY SizesOK, CharsOK DEF TypeOK, Begun, Current, Char

LEMMA NextTyped ==
  ASSUME TypeOK, Begun, [Next]_vars
  PROVE  TypeOK' /\ Begun'
  <1>a. \A i \in Index : After(i) \in Index
    BY AfterIs
  <1>b. ASSUME NEW w \in Writer, printed[w] < MaxChars
        PROVE  /\ printed[w] + 1 \in 0..MaxChars /\ 0 < printed[w] + 1
               /\ <<w, printed[w] + 1>> \in Char
    BY <1>b, SizesOK DEF TypeOK, Char
  <1> USE DEF TypeOK, Begun, queue
  <1>1. ASSUME NEW w \in Writer, Enter(w) PROVE TypeOK' /\ Begun'
    BY <1>1, <1>a, <1>b DEF Enter
  <1>2. ASSUME NEW w \in Writer, ReadBusy(w) PROVE TypeOK' /\ Begun'
    BY <1>2 DEF ReadBusy
  <1>3. ASSUME NEW w \in Writer, WriteData(w) PROVE TypeOK' /\ Begun'
    BY <1>3, CurrentIs DEF WriteData, Transmit
  <1>4. ASSUME NEW w \in Writer, MarkBusy(w) PROVE TypeOK' /\ Begun'
    BY <1>4 DEF MarkBusy
  <1>5. ASSUME NEW w \in Writer, ReadTail(w) PROVE TypeOK' /\ Begun'
    BY <1>5, CurrentIs DEF ReadTail
  <1>6. ASSUME NEW w \in Writer, StoreChar(w) PROVE TypeOK' /\ Begun'
    BY <1>6, CurrentIs DEF StoreChar
  <1>7. ASSUME NEW w \in Writer, AdvanceHead(w) PROVE TypeOK' /\ Begun'
    BY <1>7 DEF AdvanceHead
  <1>8. ASSUME NEW w \in Writer, KernelPrint(w) PROVE TypeOK' /\ Begun'
    <2> DEFINE c == <<w, printed[w] + 1>>
    <2>1. /\ printed' = [printed EXCEPT ![w] = @ + 1]
          /\ printed[w] + 1 \in 0..MaxChars /\ 0 < printed[w] + 1 /\ c \in Char
          /\ UNCHANGED <<tail, txmis, line, pc, slot>>
      BY <1>8, <1>b DEF KernelPrint
    <2>2. /\ data' \in [Index -> Char \cup {NUL}] /\ head' \in Index
          /\ UART_busy' \in BOOLEAN /\ UART0_DR_R' \in Char \cup {NUL, NONE}
          /\ dropped' \in SUBSET Char
      BY <1>8, <2>1, <1>a DEF KernelPrint, Transmit
    <2> QED BY <2>1, <2>2
  <1>9. CASE Shift
    BY <1>9 DEF Shift
  <1>10. CASE TxHandler
    BY <1>10, <1>a DEF TxHandler, Transmit
  <1>11. CASE UNCHANGED vars
    BY <1>11 DEF vars
  <1> QED BY <1>1, <1>2, <1>3, <1>4, <1>5, <1>6, <1>7, <1>8, <1>9, <1>10, <1>11
          DEF Next, enqueue

\* What is in the buffer, in the register and on the line are characters, and
\* the indices stay in the buffer.
THEOREM TypeCorrect == Spec => [](TypeOK /\ Begun)
  <1>1. Init => TypeOK /\ Begun
    <2>1. 0 \in Index /\ 0 \in 0..MaxChars
      BY SizesOK DEF Index
    <2> QED BY <2>1 DEF Init, TypeOK, Begun
  <1> QED BY <1>1, NextTyped, PTL DEF Spec

\* Output stops for good in one way only, whatever the writers and the handler
\* do: the character that was to wake up the UART has gone, its interrupt over,
\* before its writer comes to say that the UART is busy.
THEOREM StopsOnlyInWindow == Spec => StuckOnlyInWindow
  <1>1. TypeOK /\ Begun /\ [Next]_vars => [Served => Served' \/ GoneBeforeMarked]_vars
    <2> SUFFICES ASSUME TypeOK, Begun, Next, Served, ~GoneBeforeMarked PROVE Served'
      BY DEF vars, queue, Served
    <2>1. ASSUME NEW c \in Char \cup {NUL}, Transmit(c) PROVE UART0_DR_R' # NONE
      BY <2>1, CharsOK DEF Transmit
    <2>2. ASSUME NEW w \in Writer, enqueue(w) PROVE Served'
      <3>1. CASE WriteData(w)
        <4>1. UART0_DR_R' # NONE
          BY <2>1, <3>1, CurrentIs DEF WriteData
        <4> QED BY <4>1 DEF Served
      <3>2. CASE MarkBusy(w)
        BY <3>2 DEF MarkBusy, GoneBeforeMarked, Served
      <3> QED BY <2>2, <3>1, <3>2
              DEF enqueue, Enter, ReadBusy, ReadTail, StoreChar, AdvanceHead, Served
    <2>3. ASSUME NEW w \in Writer, KernelPrint(w) PROVE Served'
      <3>1. <<w, printed[w] + 1>> \in Char
        BY <2>3, SizesOK DEF KernelPrint, TypeOK, Char
      <3>2. CASE ~UART_busy
        <4>1. UART0_DR_R' # NONE
          BY <2>1, <2>3, <3>1, <3>2 DEF KernelPrint
        <4> QED BY <4>1 DEF Served
      <3>3. CASE UART_busy
        BY <2>3, <3>3 DEF KernelPrint, Served
      <3> QED BY <3>2, <3>3
    <2>4. CASE Shift
      BY <2>4 DEF Shift, Served
    <2>5. CASE TxHandler
      <3>1. CASE tail # head
        <4>1. After(tail) \in Index
          BY AfterIs DEF TypeOK
        <4>2. data[After(tail)] \in Char \cup {NUL}
          BY <4>1 DEF TypeOK
        <4>3. UART0_DR_R' # NONE
          BY <2>1, <2>5, <3>1, <4>2 DEF TxHandler
        <4> QED BY <4>3 DEF Served
      <3>2. CASE tail = head
        BY <2>5, <3>2 DEF TxHandler, Served
      <3> QED BY <3>1, <3>2
    <2> QED BY <2>2, <2>3, <2>4, <2>5 DEF Next
  <1> QED BY <1>1, TypeCorrect, PTL DEF Spec, StuckOnlyInWindow

-----------------------------------------------------------------------------
(* One writer.  A character is on the line, in the register or in the      *)
(* queue, in one place only; it moves from the queue to the register and   *)
(* from there to the line, and none of them is passed by two others.       *)

OnLine == {line[i] : i \in 1..Len(line)}
InRegister == {UART0_DR_R} \ {NONE}
Queued == {data[i] : i \in Used}

\* The characters that were put somewhere: all that the writer began, but for
\* the one it still holds.
Placed(w) == {c \in Char : /\ c[2] <= printed[w]
                           /\ pc[w] \notin {"idle", "mark"} => c[2] # printed[w]}

\* The register and the interrupt in turn, and neither when the UART is idle:
\* only the writer itself wakes it up.
Handshake(w) ==
  /\ UART0_DR_R = NONE \/ ~txmis
  /\ ~UART_busy /\ pc[w] # "mark" => UART0_DR_R = NONE /\ ~txmis
  /\ pc[w] = "send" => ~UART_busy

\* The head stays as the writer read it, and a slot that was free stays free.
SlotKept(w) ==
  /\ pc[w] # "idle" => slot[w] = After(head)
  /\ pc[w] \in {"store", "advance"} => slot[w] # tail
  /\ pc[w] = "advance" => data[slot[w]] = Current(w)

\* What an idle UART can leave in the queue: the last character that was put
\* there, and that one only.
LeftOver(w) ==
  /\ ~UART_busy /\ pc[w] \in {"full?", "store", "advance"} => Used = {}
  /\ ~UART_busy \/ pc[w] = "mark"
     => \A c \in Queued : c[2] = IF pc[w] = "idle" THEN printed[w] ELSE printed[w] - 1

\* Every character that was put somewhere and not dropped is in one place.
OnePlace(w) ==
  /\ \A i, j \in 1..Len(line) : line[i] = line[j] => i = j
  /\ OnLine \cap InRegister = {} /\ (OnLine \cup InRegister) \cap Queued = {}
  /\ OnLine \cup InRegister \cup Queued = Placed(w) \ dropped
  /\ dropped \subseteq Placed(w)

\* What is ahead was printed before what is behind, or just after it.
InOrder ==
  /\ \A i, j \in 1..Len(line) : i < j => line[i][2] <= line[j][2] + 1
  /\ \A c \in OnLine, d \in InRegister \cup Queued : c[2] <= d[2] + 1
  /\ \A c \in InRegister, d \in Queued : c[2] <= d[2] + 1

\* The queue itself is in the order of printing.
QueueOrdered ==
  \A i, j \in Used : Distance(i, tail) < Distance(j, tail) => data[i][2] < data[j][2]

OneWriterInv(w) ==
  Handshake(w) /\ SlotKept(w) /\ LeftOver(w) /\ OnePlace(w) /\ InOrder /\ QueueOrdered

\* A character leaves the register for the line.
LEMMA LineGrows ==
  ASSUME TypeOK, NEW c \in Char \cup {NUL}, line' = Append(line, c)
  PROVE  /\ OnLine' = OnLine \cup {c}
         /\ Len(line') = Len(line) + 1 /\ line'[Len(line) + 1] = c
         /\ \A i \in 1..Len(line) : line'[i] = line[i] /\ line[i] \in OnLine
  <1>1. /\ Len(line) \in Nat /\ Len(line') = Len(line) + 1
        /\ \A i \in 1..(Len(line) + 1) :
             line'[i] = IF i <= Len(line) THEN line[i] ELSE c
    BY DEF TypeOK
  <1>2. ASSUME NEW x PROVE x \in OnLine' <=> x \in OnLine \cup {c}
    <2>1. ASSUME x \in OnLine' PROVE x \in OnLine \cup {c}
      BY <1>1, <2>1 DEF OnLine
    <2>2. ASSUME NEW i \in 1..Len(line) PROVE line[i] \in OnLine'
      <3>1. i \in 1..Len(line') /\ line'[i] = line[i]
        BY <1>1
      <3> QED BY <3>1 DEF OnLine
    <2>3. c \in OnLine'
      <3>1. Len(line') \in 1..Len(line') /\ line'[Len(line')] = c
        BY <1>1
      <3> QED BY <3>1 DEF OnLine
    <2> QED BY <2>1, <2>2, <2>3 DEF OnLine
  <1>3. \A i \in 1..Len(line) : line'[i] = line[i] /\ line[i] \in OnLine
    BY <1>1 DEF OnLine
  <1>4. OnLine' = OnLine \cup {c}
    BY <1>2
  <1> QED BY <1>1, <1>3, <1>4

LEMMA QueueSame ==
  ASSUME UNCHANGED queue
  PROVE  Used' = Used /\ Queued' = Queued /\ (QueueOrdered => QueueOrdered')
  <1>1. UNCHANGED <<data, head, tail>>
    BY DEF queue
  <1> QED BY <1>1 DEF Used, Queued, QueueOrdered

\* The slots of the queue hold different characters.
LEMMA QueueDistinct ==
  ASSUME TypeOK, QueueOrdered, Queued \subseteq Char, NEW i \in Used, NEW j \in Used,
         data[i] = data[j]
  PROVE  i = j
  <1>1. i \in Index /\ j \in Index /\ tail \in Index
    BY DEF TypeOK, Used
  <1>2. data[i] \in Char
    BY DEF Queued
  <1>3. data[i][2] \in Nat
    BY <1>2, SizesOK DEF Char
  <1>4. Distance(i, tail) \in Int /\ Distance(j, tail) \in Int
    BY <1>1, DistanceOrder
  <1>5. /\ ~(Distance(i, tail) < Distance(j, tail))
        /\ ~(Distance(j, tail) < Distance(i, tail))
    BY <1>3 DEF QueueOrdered
  <1>6. Distance(i, tail) = Distance(j, tail)
    BY <1>4, <1>5
  <1> QED BY <1>1, <1>6, DistanceOrder

\* The handler takes the first character of the queue.
LEMMA QueueShrinks ==
  ASSUME TypeOK, QueueOrdered, Queued \subseteq Char, tail # head,
         tail' = After(tail), UNCHANGED <<data, head>>,
         NEW c, c = data[After(tail)]
  PROVE  /\ c \in Queued /\ Queued' = Queued \ {c} /\ Used' = Used \ {After(tail)}
         /\ \A d \in Queued' : c[2] < d[2]
         /\ QueueOrdered'
  <1> DEFINE a == After(tail)
  <1>1. tail \in Index /\ head \in Index /\ a \in Index
    BY AfterIs DEF TypeOK
  <1>2. /\ Used = Slots(head, tail) /\ Used' = Slots(head, a)
    <2>1. Used = Slots(head, tail)
      BY UsedIs
    <2>2. Used' = Slots(head, a)
      BY DEF Used, Slots, Distance
    <2> QED BY <2>1, <2>2
  <1>3. /\ a \in Used /\ Used' = Used \ {a}
        /\ \A i \in Used' : Distance(i, tail') = Distance(i, tail) - 1
    BY <1>1, <1>2, TailAdvances
  <1>4. ASSUME NEW i \in Used
        PROVE  /\ Distance(i, tail) \in Nat
               /\ i # a => Distance(a, tail) < Distance(i, tail)
    <2>1. i \in Index /\ 0 < Distance(i, tail)
      BY DEF Used, Distance
    <2>2. Distance(tail, tail) = 0
      BY <1>1, DistanceIs DEF Index
    <2> QED BY <1>1, <2>1, <2>2, DistanceOrder
  <1>5. QueueOrdered'
    BY <1>3, <1>4 DEF QueueOrdered
  <1>6. ASSUME NEW i \in Used'
        PROVE  data[a][2] < data[i][2] /\ data[i] # data[a]
    <2>1. i \in Used /\ i # a
      BY <1>3
    <2>2. data[a][2] < data[i][2]
      BY <1>3, <1>4, <2>1 DEF QueueOrdered
    <2>3. data[i] # data[a]
      BY <1>3, <2>1, QueueDistinct
    <2> QED BY <2>2, <2>3
  <1>7. Queued' = {data[i] : i \in Used \ {a}}
    BY <1>3 DEF Queued
  <1>8. Queued' = Queued \ {c}
    BY <1>3, <1>6, <1>7 DEF Queued
  <1> QED BY <1>3, <1>5, <1>6, <1>7, <1>8 DEF Queued

\* A character is put after the last of the queue.
LEMMA QueueGrows ==
  ASSUME TypeOK, QueueOrdered, After(head) # tail, head' = After(head), tail' = tail,
         NEW c, data' = [data EXCEPT ![After(head)] = c],
         \A d \in Queued : d[2] < c[2]
  PROVE  /\ Queued' = Queued \cup {c}
         /\ QueueOrdered'
  <1> DEFINE a == After(head)
  <1>1. tail \in Index /\ head \in Index /\ a \in Index
    BY AfterIs DEF TypeOK
  <1>2. /\ Used = Slots(head, tail) /\ Used' = Slots(a, tail)
    <2>1. Used = Slots(head, tail)
      BY UsedIs
    <2>2. Used' = Slots(a, tail)
      BY DEF Used, Slots, Distance
    <2> QED BY <2>1, <2>2
  <1>3. /\ a \notin Used /\ Used' = Used \cup {a} /\ Used \subseteq Index
        /\ \A i \in Used : Distance(i, tail) < Distance(a, tail)
    BY <1>1, <1>2, HeadAdvances DEF Used
  <1>4. data'[a] = c /\ \A i \in Used : data'[i] = data[i]
    BY <1>1, <1>3 DEF TypeOK
  <1>5. Queued' = Queued \cup {c}
    BY <1>3, <1>4 DEF Queued
  <1>6. \A i \in Used' : Distance(i, tail) \in Int
    BY <1>1, <1>3, DistanceOrder
  <1>7. QueueOrdered'
    BY <1>3, <1>4, <1>6 DEF QueueOrdered, Queued
  <1> QED BY <1>5, <1>7

\* Where the characters are depends on these variables only.
LEMMA PlacesSame ==
  ASSUME UNCHANGED <<queue, line, UART0_DR_R>>
  PROVE  /\ OnLine' = OnLine /\ InRegister' = InRegister /\ Queued' = Queued /\ Used' = Used
         /\ InOrder => InOrder'
         /\ QueueOrdered => QueueOrdered'
  <1>1. UNCHANGED <<data, head, tail, line, UART0_DR_R>>
    BY DEF queue
  <1> QED BY <1>1 DEF OnLine, InRegister, Queued, Used, InOrder, QueueOrdered

\* What has a place is a character that was printed.
LEMMA PlacesTyped ==
  ASSUME TypeOK, NEW w \in Writer, OnePlace(w)
  PROVE  \A c \in OnLine \cup InRegister \cup Queued :
           /\ c \in Char /\ c \in Placed(w) /\ c \notin dropped
           /\ c[2] \in 1..MaxChars /\ c[2] <= printed[w]
  BY SizesOK DEF OnePlace, Placed, Char

\* A single writer's characters differ in their number.
LEMMA CharIs ==
  ASSUME NEW w, Writer = {w}, NEW c \in Char
  PROVE  c = <<w, c[2]>> /\ c[2] \in 1..MaxChars
  <1>1. PICK v \in Writer, n \in 1..MaxChars : c = <<v, n>>
    BY DEF Char
  <1>2. c = <<w, n>>
    BY <1>1
  <1> QED BY <1>2

\* The writer's own steps up to the write: nothing changes its place.
LEMMA WriterSteps ==
  ASSUME NEW w, Writer = {w}, TypeOK, Begun, OneWriterInv(w),
         Enter(w) \/ ReadBusy(w) \/ MarkBusy(w) \/ ReadTail(w)
  PROVE  OneWriterInv(w)'
  <1> USE DEF OneWriterInv
  <1>1. UNCHANGED <<queue, line, UART0_DR_R>>
    BY DEF Enter, ReadBusy, MarkBusy, ReadTail
  <1>2. /\ OnLine' = OnLine /\ InRegister' = InRegister /\ Queued' = Queued /\ Used' = Used
        /\ InOrder' /\ QueueOrdered'
    BY <1>1, PlacesSame
  <1>t. /\ w \in Writer /\ printed[w] \in 0..MaxChars /\ MaxChars \in Nat
        /\ pc[w] \in {"idle", "busy?", "send", "mark", "full?", "store", "advance"}
    BY SizesOK DEF TypeOK
  <1>e. UNCHANGED <<data, head, tail, line, UART0_DR_R, txmis>>
    BY DEF queue, Enter, ReadBusy, MarkBusy, ReadTail
  <1>3. CASE Enter(w)
    <2>1. /\ pc[w] = "idle" /\ pc'[w] = "busy?" /\ printed'[w] = printed[w] + 1
          /\ slot'[w] = After(head) /\ UNCHANGED <<UART_busy, dropped>>
      BY <1>3, <1>t DEF Enter, TypeOK
    <2>2. Placed(w)' = Placed(w)
      BY <1>t, <2>1 DEF Placed, Char
    <2>3. OnePlace(w)'
      BY <1>1, <1>2, <2>1, <2>2 DEF OnePlace
    <2>4. Handshake(w)'
      BY <1>e, <2>1 DEF Handshake
    <2>5. SlotKept(w)'
      BY <1>e, <2>1 DEF SlotKept
    <2>6. LeftOver(w)'
      BY <1>e, <1>2, <1>t, <2>1 DEF LeftOver
    <2> QED BY <1>2, <2>3, <2>4, <2>5, <2>6
  <1>4. CASE ReadBusy(w)
    <2>1. /\ pc[w] = "busy?" /\ pc'[w] = (IF UART_busy THEN "full?" ELSE "send")
          /\ UNCHANGED <<UART_busy, dropped, printed, slot>>
      BY <1>4, <1>t DEF ReadBusy, TypeOK
    <2>2. Placed(w)' = Placed(w)
      BY <2>1 DEF Placed
    <2>3. OnePlace(w)'
      BY <1>1, <1>2, <2>1, <2>2 DEF OnePlace
    <2>4. Handshake(w)'
      BY <1>e, <2>1 DEF Handshake
    <2>5. SlotKept(w)'
      BY <1>e, <2>1 DEF SlotKept, After, Current
    <2>6. LeftOver(w)'
      BY <1>e, <1>2, <2>1 DEF LeftOver
    <2> QED BY <1>2, <2>3, <2>4, <2>5, <2>6
  <1>5. CASE MarkBusy(w)
    <2>1. /\ pc[w] = "mark" /\ pc'[w] = "idle" /\ UART_busy' = TRUE
          /\ UNCHANGED <<dropped, printed, slot>>
      BY <1>5, <1>t DEF MarkBusy, TypeOK
    <2>2. Placed(w)' = Placed(w)
      BY <2>1 DEF Placed
    <2>3. OnePlace(w)'
      BY <1>1, <1>2, <2>1, <2>2 DEF OnePlace
    <2>4. Handshake(w)' /\ SlotKept(w)' /\ LeftOver(w)'
      BY <1>e, <2>1 DEF Handshake, SlotKept, LeftOver
    <2> QED BY <1>2, <2>3, <2>4
  <1>6. CASE ReadTail(w)
    <2>1. pc[w] = "full?" /\ UNCHANGED <<UART_busy, printed, slot>>
      BY <1>6 DEF ReadTail
    <2>2. CASE slot[w] # tail
      <3>1. pc'[w] = "store" /\ UNCHANGED dropped
        BY <1>6, <1>t, <2>2 DEF ReadTail, TypeOK
      <3>2. Placed(w)' = Placed(w)
        BY <2>1, <3>1 DEF Placed
      <3>3. OnePlace(w)'
        BY <1>1, <1>2, <3>1, <3>2 DEF OnePlace
      <3>4. Handshake(w)'
        BY <1>e, <2>1, <3>1 DEF Handshake
      <3>5. SlotKept(w)'
        BY <1>e, <2>1, <2>2, <3>1 DEF SlotKept, After, Current
      <3>6. LeftOver(w)'
        BY <1>e, <1>2, <2>1, <3>1 DEF LeftOver
      <3> QED BY <1>2, <3>3, <3>4, <3>5, <3>6
    <2>3. CASE slot[w] = tail
      <3>1. pc'[w] = "idle" /\ dropped' = dropped \cup {Current(w)}
        BY <1>6, <1>t, <2>3 DEF ReadTail, TypeOK
      <3>2. Placed(w)' = Placed(w) \cup {Current(w)} /\ Current(w) \notin Placed(w)
        <4>1. Current(w) \in Char
          BY <1>t, <2>1, CurrentIs
        <4>2. ASSUME NEW c \in Char PROVE c[2] = printed[w] <=> c = Current(w)
          <5>1. c = <<w, c[2]>>
            BY CharIs
          <5> QED BY <5>1 DEF Current
        <4> QED BY <1>t, <2>1, <3>1, <4>1, <4>2 DEF Placed
      <3>3. OnePlace(w)'
        BY <1>1, <1>2, <3>1, <3>2 DEF OnePlace
      <3>4. Handshake(w)' /\ SlotKept(w)'
        BY <1>e, <2>1, <3>1 DEF Handshake, SlotKept
      <3>5. LeftOver(w)'
        BY <1>e, <1>2, <2>1, <3>1 DEF LeftOver, Queued
      <3> QED BY <1>2, <3>3, <3>4, <3>5
    <2> QED BY <2>2, <2>3
  <1> QED BY <1>3, <1>4, <1>5, <1>6

\* A character that is written to the idle UART: by the writer, or in its
\* kernel call.  It can pass the one that was left in the queue.
LEMMA WakesUp ==
  ASSUME NEW w, Writer = {w}, TypeOK, Begun, OneWriterInv(w), ~UART_busy,
         WriteData(w) \/ KernelPrint(w)
  PROVE  OneWriterInv(w)'
  <1> USE DEF OneWriterInv
  <1> DEFINE n == IF pc[w] = "send" THEN printed[w] ELSE printed[w] + 1
             c == <<w, n>>
  <1>t. /\ w \in Writer /\ printed[w] \in 0..MaxChars /\ MaxChars \in Nat
        /\ pc[w] \in {"idle", "busy?", "send", "mark", "full?", "store", "advance"}
    BY SizesOK DEF TypeOK
  <1>e. UNCHANGED <<data, head, tail, line, txmis, dropped, slot>>
    BY DEF queue, WriteData, KernelPrint
  <1>1. /\ pc[w] \in {"send", "idle"}
        /\ pc'[w] = (IF pc[w] = "send" THEN "mark" ELSE "idle")
        /\ pc[w] = "idle" => UART_busy' = TRUE
        /\ printed'[w] = n /\ n \in 1..MaxChars /\ Transmit(c)
    <2>1. CASE WriteData(w)
      <3>1. pc[w] = "send" /\ pc'[w] = "mark" /\ UNCHANGED printed /\ Transmit(c)
        BY <1>t, <2>1 DEF WriteData, TypeOK, Current
      <3> QED BY <1>t, <3>1 DEF Begun
    <2>2. CASE KernelPrint(w)
      BY <1>t, <2>2 DEF KernelPrint, TypeOK
    <2> QED BY <2>1, <2>2
  <1>2. c \in Char /\ c # NONE
    BY <1>t, <1>1, CharsOK DEF Char
  <1> HIDE DEF n, c
  <1>3. c[2] = n /\ c \in Char /\ c # NONE
    BY <1>2 DEF c
  <1>4. /\ UART0_DR_R = NONE /\ ~txmis /\ UART0_DR_R' = c
        /\ InRegister = {} /\ InRegister' = {c}
    BY <1>1, <1>3 DEF Handshake, InRegister, Transmit
  <1>5. OnLine' = OnLine /\ Queued' = Queued /\ Used' = Used /\ QueueOrdered'
    BY <1>e DEF OnLine, Queued, Used, QueueOrdered
  <1>6. Placed(w)' = Placed(w) \cup {c} /\ c \notin Placed(w)
    <2>1. ASSUME NEW d \in Char PROVE d[2] = n <=> d = c
      <3>1. d = <<w, d[2]>>
        BY CharIs
      <3> QED BY <1>3, <3>1 DEF c
    <2>2. ASSUME NEW d \in Char PROVE d[2] \in Nat
      BY CharIs, <1>t
    <2> QED BY <1>t, <1>1, <1>3, <2>1, <2>2 DEF Placed, n
  <1>7. \A d \in Queued : d[2] = n - 1
    BY <1>t, <1>1 DEF LeftOver, n
  <1>8. OnePlace(w)'
    BY <1>e, <1>4, <1>5, <1>6 DEF OnePlace
  <1>9. InOrder'
    <2>1. \A d \in OnLine : d[2] \in Nat /\ d[2] <= n
      BY <1>t, <1>1, PlacesTyped DEF n
    <2>2. \A d \in OnLine, x \in InRegister' \cup Queued' : d[2] <= x[2] + 1
      BY <1>1, <1>3, <1>4, <1>5, <1>7, <2>1 DEF InOrder
    <2>3. \A d \in InRegister', x \in Queued' : d[2] <= x[2] + 1
      BY <1>1, <1>3, <1>4, <1>5, <1>7
    <2> QED BY <1>e, <1>5, <2>2, <2>3 DEF InOrder
  <1>10. Handshake(w)'
    BY <1>e, <1>1, <1>4 DEF Handshake
  <1>11. SlotKept(w)'
    BY <1>e, <1>1 DEF SlotKept
  <1>12. LeftOver(w)'
    BY <1>1, <1>5, <1>7 DEF LeftOver, n
  <1> QED BY <1>5, <1>8, <1>9, <1>10, <1>11, <1>12

\* A character that is put into the queue while the UART is busy, or was busy
\* when the writer looked.
LEMMA Queues ==
  ASSUME NEW w, Writer = {w}, TypeOK, Begun, OneWriterInv(w),
         \/ AdvanceHead(w)
         \/ UART_busy /\ KernelPrint(w) /\ After(head) # tail
  PROVE  OneWriterInv(w)'
  <1> USE DEF OneWriterInv
  <1> DEFINE n == IF pc[w] = "advance" THEN printed[w] ELSE printed[w] + 1
             c == <<w, n>>
  <1>t. /\ w \in Writer /\ printed[w] \in 0..MaxChars /\ MaxChars \in Nat
        /\ pc[w] \in {"idle", "busy?", "send", "mark", "full?", "store", "advance"}
    BY SizesOK DEF TypeOK
  <1>e. UNCHANGED <<tail, line, UART0_DR_R, txmis, dropped, slot, UART_busy>>
    BY DEF AdvanceHead, KernelPrint
  <1>1. /\ pc[w] \in {"advance", "idle"} /\ pc'[w] = "idle"
        /\ pc[w] = "idle" => UART_busy
        /\ printed'[w] = n /\ n \in 1..MaxChars
        /\ data' = [data EXCEPT ![After(head)] = c]
        /\ head' = After(head) /\ After(head) # tail
    <2>1. CASE AdvanceHead(w)
      <3>1. /\ pc[w] = "advance" /\ pc'[w] = "idle" /\ UNCHANGED <<data, printed>>
            /\ head' = slot[w]
        BY <1>t, <2>1 DEF AdvanceHead, TypeOK
      <3>2. slot[w] = After(head) /\ slot[w] # tail /\ data[After(head)] = c
        BY <3>1 DEF SlotKept, Current
      <3>3. data' = [data EXCEPT ![After(head)] = c]
        BY <3>1, <3>2 DEF TypeOK
      <3>4. n = printed[w] /\ n \in 1..MaxChars /\ printed'[w] = n
        BY <1>t, <3>1 DEF Begun
      <3>5. head' = After(head) /\ After(head) # tail
        BY <3>1, <3>2
      <3> HIDE DEF n, c
      <3> QED BY <3>1, <3>3, <3>4, <3>5
    <2>2. CASE UART_busy /\ KernelPrint(w) /\ After(head) # tail
      BY <1>t, <2>2 DEF KernelPrint, TypeOK
    <2> QED BY <2>1, <2>2
  <1>2. c \in Char
    BY <1>t, <1>1 DEF Char
  <1> HIDE DEF n, c
  <1>3. c[2] = n
    BY DEF c
  <1>4. ASSUME NEW d \in Char PROVE d[2] \in Nat /\ (d[2] = n <=> d = c)
    <2>1. d = <<w, d[2]>> /\ d[2] \in 1..MaxChars
      BY CharIs
    <2> QED BY <1>t, <1>3, <2>1 DEF c
  <1>5. Placed(w)' = Placed(w) \cup {c} /\ c \notin Placed(w)
    BY <1>t, <1>1, <1>2, <1>3, <1>4 DEF Placed, n
  <1>6. \A d \in Placed(w) : d[2] \in Nat /\ d[2] < n
    BY <1>t, <1>1, <1>4, <1>5 DEF Placed, n
  <1>7. \A d \in OnLine \cup InRegister \cup Queued : d[2] \in Nat /\ d[2] < c[2]
    BY <1>3, <1>6 DEF OnePlace
  <1>8. OnLine' = OnLine /\ InRegister' = InRegister
    BY <1>e DEF OnLine, InRegister
  <1>9. Queued' = Queued \cup {c} /\ QueueOrdered'
    BY <1>e, <1>1, <1>7, QueueGrows
  <1>10. OnePlace(w)'
    BY <1>e, <1>5, <1>8, <1>9 DEF OnePlace
  <1>11. InOrder'
    <2>1. \A d \in OnLine \cup InRegister : d[2] <= c[2] + 1
      BY <1>1, <1>3, <1>7
    <2> QED BY <1>e, <1>8, <1>9, <2>1 DEF InOrder
  <1>12. Handshake(w)'
    BY <1>e, <1>1 DEF Handshake
  <1>13. SlotKept(w)'
    BY <1>1 DEF SlotKept
  <1>14. LeftOver(w)'
    <2>1. CASE UART_busy
      BY <1>e, <1>1, <2>1 DEF LeftOver
    <2>2. CASE ~UART_busy
      <3>1. Queued = {}
        BY <1>1, <2>2 DEF LeftOver, Queued
      <3> QED BY <1>1, <1>3, <1>9, <3>1 DEF LeftOver
    <2> QED BY <2>1, <2>2
  <1> QED BY <1>9, <1>10, <1>11, <1>12, <1>13, <1>14

\* The store before the head moves on: the slot is not in use.
LEMMA Stores ==
  ASSUME NEW w, Writer = {w}, TypeOK, Begun, OneWriterInv(w), StoreChar(w)
  PROVE  OneWriterInv(w)'
  <1> USE DEF OneWriterInv
  <1>t. w \in Writer /\ head \in Index /\ tail \in Index
    BY DEF TypeOK
  <1>1. /\ pc[w] = "store" /\ pc'[w] = "advance" /\ slot[w] = After(head) /\ slot[w] # tail
        /\ slot[w] \in Index /\ data' = [data EXCEPT ![slot[w]] = Current(w)]
        /\ UNCHANGED <<head, tail, UART_busy, UART0_DR_R, txmis, line, dropped, slot, printed>>
    BY <1>t DEF StoreChar, TypeOK, SlotKept
  <1>2. Used' = Used /\ After(head) \notin Used
    <2>1. Used' = Used
      BY <1>1 DEF Used
    <2>2. After(head) \notin Slots(head, tail)
      BY <1>t, <1>1, HeadAdvances
    <2> QED BY <2>1, <2>2, UsedIs
  <1>3. \A i \in Used : data'[i] = data[i]
    BY <1>1, <1>2 DEF TypeOK, Used
  <1>4. OnLine' = OnLine /\ InRegister' = InRegister /\ Queued' = Queued /\ QueueOrdered'
    BY <1>1, <1>2, <1>3 DEF OnLine, InRegister, Queued, QueueOrdered
  <1>5. Placed(w)' = Placed(w)
    BY <1>1 DEF Placed
  <1>6. OnePlace(w)' /\ InOrder'
    BY <1>1, <1>4, <1>5 DEF OnePlace, InOrder
  <1>7. Handshake(w)' /\ LeftOver(w)'
    BY <1>1, <1>2, <1>4 DEF Handshake, LeftOver
  <1>8. SlotKept(w)'
    <2>1. data'[slot[w]] = Current(w)
      BY <1>1 DEF TypeOK
    <2> QED BY <1>1, <2>1 DEF SlotKept, After, Current
  <1> QED BY <1>4, <1>6, <1>7, <1>8

\* A kernel call that finds the queue full.
LEMMA Drops ==
  ASSUME NEW w, Writer = {w}, TypeOK, Begun, OneWriterInv(w),
         KernelPrint(w), UART_busy, After(head) = tail
  PROVE  OneWriterInv(w)'
  <1> USE DEF OneWriterInv
  <1> DEFINE n == printed[w] + 1
             c == <<w, n>>
  <1>t. /\ w \in Writer /\ printed[w] \in 0..MaxChars /\ MaxChars \in Nat
    BY SizesOK DEF TypeOK
  <1>1. /\ pc[w] = "idle" /\ printed'[w] = n /\ n \in 1..MaxChars
        /\ dropped' = dropped \cup {c}
        /\ UNCHANGED <<data, head, tail, UART_busy, UART0_DR_R, txmis, line, pc, slot>>
    BY <1>t DEF KernelPrint, TypeOK
  <1>2. c \in Char
    BY <1>t, <1>1 DEF Char
  <1> HIDE DEF c
  <1>3. c[2] = n
    BY DEF c
  <1>4. ASSUME NEW d \in Char PROVE d[2] \in Nat /\ (d[2] = n <=> d = c)
    <2>1. d = <<w, d[2]>> /\ d[2] \in 1..MaxChars
      BY CharIs
    <2> QED BY <1>t, <1>3, <2>1 DEF c
  <1>5. Placed(w)' = Placed(w) \cup {c} /\ c \notin Placed(w)
    BY <1>t, <1>1, <1>2, <1>3, <1>4 DEF Placed
  <1>6. /\ OnLine' = OnLine /\ InRegister' = InRegister /\ Queued' = Queued /\ Used' = Used
        /\ InOrder' /\ QueueOrdered'
    BY <1>1, PlacesSame DEF queue
  <1>7. OnePlace(w)'
    BY <1>1, <1>5, <1>6 DEF OnePlace
  <1>8. Handshake(w)' /\ SlotKept(w)' /\ LeftOver(w)'
    BY <1>1, <1>6 DEF Handshake, SlotKept, LeftOver
  <1> QED BY <1>6, <1>7, <1>8

\* The character in the register goes out.
LEMMA Shifts ==
  ASSUME NEW w, Writer = {w}, TypeOK, Begun, OneWriterInv(w), Shift
  PROVE  OneWriterInv(w)'
  <1> USE DEF OneWriterInv
  <1> DEFINE c == UART0_DR_R
  <1>t. w \in Writer
    OBVIOUS
  <1>1. /\ c # NONE /\ line' = Append(line, c) /\ UART0_DR_R' = NONE /\ txmis' = TRUE
        /\ UNCHANGED <<data, head, tail, UART_busy, dropped, pc, slot, printed>>
    BY DEF Shift, queue
  <1>2. c \in Char \cup {NUL}
    BY <1>1 DEF TypeOK
  <1>3. /\ OnLine' = OnLine \cup {c}
        /\ Len(line') = Len(line) + 1 /\ line'[Len(line) + 1] = c
        /\ \A i \in 1..Len(line) : line'[i] = line[i] /\ line[i] \in OnLine
    BY <1>1, <1>2, LineGrows
  <1>4. InRegister = {c} /\ InRegister' = {}
    BY <1>1 DEF InRegister
  <1>5. Queued' = Queued /\ Used' = Used /\ QueueOrdered'
    BY <1>1, QueueSame DEF queue
  <1>6. Placed(w)' = Placed(w)
    BY <1>1 DEF Placed
  <1>7. Len(line) \in Nat
    BY DEF TypeOK
  <1>8. OnePlace(w)'
    <2>1. c \notin OnLine
      BY <1>4 DEF OnePlace
    <2>2. ASSUME NEW i \in 1..Len(line'), NEW j \in 1..Len(line'), line'[i] = line'[j]
          PROVE  i = j
      BY <1>3, <1>7, <2>1, <2>2 DEF OnePlace
    <2>3. /\ OnLine' \cap InRegister' = {} /\ (OnLine' \cup InRegister') \cap Queued' = {}
          /\ OnLine' \cup InRegister' \cup Queued' = Placed(w)' \ dropped'
          /\ dropped' \subseteq Placed(w)'
      BY <1>1, <1>3, <1>4, <1>5, <1>6 DEF OnePlace
    <2> QED BY <2>2, <2>3 DEF OnePlace
  <1>9. InOrder'
    <2>1. ASSUME NEW i \in 1..Len(line'), NEW j \in 1..Len(line'), i < j
          PROVE  line'[i][2] <= line'[j][2] + 1
      <3>1. i \in 1..Len(line)
        BY <1>3, <1>7, <2>1
      <3>2. CASE j \in 1..Len(line)
        BY <1>3, <2>1, <3>1, <3>2 DEF InOrder
      <3>3. CASE j = Len(line) + 1
        BY <1>3, <1>4, <3>1, <3>3 DEF InOrder
      <3> QED BY <1>3, <1>7, <3>2, <3>3
    <2> QED BY <1>3, <1>4, <1>5, <2>1 DEF InOrder
  <1>10. Handshake(w)'
    BY <1>1 DEF Handshake
  <1>11. SlotKept(w)'
    BY <1>1 DEF SlotKept, Current, After
  <1>12. LeftOver(w)'
    BY <1>1, <1>5 DEF LeftOver
  <1> QED BY <1>5, <1>8, <1>9, <1>10, <1>11, <1>12

\* The handler sends the next character, or finds that the queue is empty.
LEMMA Handles ==
  ASSUME NEW w, Writer = {w}, TypeOK, Begun, OneWriterInv(w), TxHandler
  PROVE  OneWriterInv(w)'
  <1> USE DEF OneWriterInv
  <1>t. w \in Writer /\ tail \in Index /\ head \in Index
    BY DEF TypeOK
  <1>1. /\ txmis /\ txmis' = FALSE /\ UART0_DR_R = NONE
        /\ UNCHANGED <<data, head, line, dropped, pc, slot, printed>>
    BY DEF TxHandler, Handshake
  <1>2. OnLine' = OnLine /\ Placed(w)' = Placed(w) /\ InRegister = {}
    BY <1>1 DEF OnLine, Placed, InRegister
  <1>3. UART_busy \/ pc[w] = "mark"
    BY <1>1 DEF Handshake
  <1>4. CASE tail = head
    <2>1. UART_busy' = FALSE /\ UNCHANGED <<tail, UART0_DR_R>>
      BY <1>4 DEF TxHandler
    <2>2. Used = {} /\ Queued = {}
      BY <1>t, <1>4, UsedIs, NoSlots DEF Queued
    <2>3. /\ InRegister' = InRegister /\ Queued' = Queued /\ Used' = Used
          /\ InOrder' /\ QueueOrdered'
      BY <1>1, <2>1, PlacesSame DEF queue
    <2>4. OnePlace(w)'
      BY <1>1, <1>2, <2>3 DEF OnePlace
    <2>5. SlotKept(w)'
      BY <1>1, <2>1 DEF SlotKept, Current, After
    <2>6. Handshake(w)'
      BY <1>1, <2>1 DEF Handshake
    <2>7. LeftOver(w)'
      BY <2>2, <2>3 DEF LeftOver
    <2> QED BY <2>3, <2>4, <2>5, <2>6, <2>7
  <1>5. CASE tail # head
    <2> DEFINE c == data[After(tail)]
    <2>1. UART_busy' = TRUE /\ tail' = After(tail) /\ Transmit(c)
      BY <1>5 DEF TxHandler
    <2>2. Queued \subseteq Char
      BY <1>t, PlacesTyped
    <2>3. /\ c \in Queued /\ Queued' = Queued \ {c} /\ Used' = Used \ {After(tail)}
          /\ \A d \in Queued' : c[2] < d[2]
          /\ QueueOrdered'
      BY <1>1, <1>5, <2>1, <2>2, QueueShrinks
    <2>4. UART0_DR_R' = c /\ InRegister' = {c}
      BY <1>1, <2>1, <2>2, <2>3, CharsOK DEF Transmit, InRegister
    <2> HIDE DEF c
    <2>5. OnePlace(w)'
      BY <1>1, <1>2, <2>3, <2>4 DEF OnePlace
    <2>6. InOrder'
      <3>1. ASSUME NEW d \in Queued' PROVE c[2] <= d[2] + 1
        <4>1. c[2] \in Nat /\ d[2] \in Nat
          BY <2>2, <2>3, CharIs, SizesOK
        <4> QED BY <2>3, <4>1
      <3> QED BY <1>1, <1>2, <2>3, <2>4, <3>1 DEF InOrder
    <2>7. SlotKept(w)'
      <3>1. pc[w] \in {"store", "advance"} => slot[w] # tail'
        BY <1>t, <1>5, <2>1, AfterIs, SizesOK DEF SlotKept, Index
      <3> QED BY <1>1, <3>1 DEF SlotKept, Current, After
    <2>8. Handshake(w)'
      BY <1>1, <1>3, <2>1 DEF Handshake
    <2>9. LeftOver(w)'
      BY <1>1, <2>1, <2>3 DEF LeftOver
    <2> QED BY <2>3, <2>5, <2>6, <2>7, <2>8, <2>9
  <1> QED BY <1>4, <1>5

LEMMA NextOneWriter ==
  ASSUME NEW w, Writer = {w}, TypeOK, Begun, OneWriterInv(w), [Next]_vars
  PROVE  OneWriterInv(w)'
  <1>1. CASE enqueue(w)
    <2>1. CASE WriteData(w)
      <3>1. ~UART_busy
        BY <2>1 DEF OneWriterInv, Handshake, WriteData
      <3> QED BY <2>1, <3>1, WakesUp
    <2> QED BY <1>1, <2>1, WriterSteps, Stores, Queues DEF enqueue
  <1>2. CASE KernelPrint(w)
    <2>1. CASE ~UART_busy
      BY <1>2, <2>1, WakesUp
    <2>2. CASE UART_busy /\ After(head) # tail
      BY <1>2, <2>2, Queues
    <2>3. CASE UART_busy /\ After(head) = tail
      BY <1>2, <2>3, Drops
    <2> QED BY <2>1, <2>2, <2>3
  <1>3. CASE UNCHANGED vars
    <2>1. /\ UNCHANGED <<data, head, tail, UART_busy, UART0_DR_R, txmis, line, dropped>>
          /\ UNCHANGED <<queue, pc, slot, printed>>
      BY <1>3 DEF vars, queue
    <2>2. /\ OnLine' = OnLine /\ InRegister' = InRegister /\ Queued' = Queued /\ Used' = Used
          /\ InOrder' /\ QueueOrdered'
      BY <2>1, PlacesSame DEF OneWriterInv
    <2>3. Placed(w)' = Placed(w)
      BY <2>1 DEF Placed
    <2>4. OnePlace(w)'
      BY <2>1, <2>2, <2>3 DEF OnePlace, OneWriterInv
    <2>5. Handshake(w)' /\ SlotKept(w)' /\ LeftOver(w)'
      BY <2>1, <2>2 DEF Handshake, SlotKept, LeftOver, Current, After, OneWriterInv
    <2> QED BY <2>2, <2>4, <2>5 DEF OneWriterInv
  <1> QED BY <1>1, <1>2, <1>3, Shifts, Handles DEF Next

LEMMA InitOneWriter ==
  ASSUME NEW w, Writer = {w}, Init
  PROVE  OneWriterInv(w)
  <1>1. /\ pc[w] = "idle" /\ printed[w] = 0 /\ line = <<>> /\ UART0_DR_R = NONE
        /\ ~txmis /\ dropped = {} /\ head = 0 /\ tail = 0
    BY DEF Init
  <1>2. Used = {}
    <2>1. 0 \in Index
      BY SizesOK DEF Index
    <2> QED BY <1>1, <2>1, UsedIs, NoSlots
  <1>3. OnLine = {} /\ InRegister = {} /\ Queued = {}
    BY <1>1, <1>2 DEF OnLine, InRegister, Queued
  <1>4. Placed(w) = {}
    <2>1. \A c \in Char : c[2] \in 1..MaxChars
      BY CharIs
    <2> QED BY <1>1, <2>1, SizesOK DEF Placed
  <1>5. OnePlace(w)
    BY <1>1, <1>3, <1>4 DEF OnePlace
  <1>6. InOrder /\ QueueOrdered
    BY <1>1, <1>2, <1>3 DEF InOrder, QueueOrdered
  <1>7. Handshake(w) /\ SlotKept(w) /\ LeftOver(w)
    BY <1>1, <1>2, <1>3 DEF Handshake, SlotKept, LeftOver
  <1> QED BY <1>5, <1>6, <1>7 DEF OneWriterInv

LEMMA OneWriterAlways ==
  ASSUME NEW w, Writer = {w}
  PROVE  Spec => [](TypeOK /\ Begun /\ OneWriterInv(w))
  <1>1. Init => OneWriterInv(w)
    BY InitOneWriter
  <1>2. TypeOK /\ Begun /\ OneWriterInv(w) /\ [Next]_vars => OneWriterInv(w)'
    BY NextOneWriter
  <1> QED BY <1>1, <1>2, TypeCorrect, PTL DEF Spec

\* How many places of a kind hold c: one if it is there, as no two hold the same.
LEMMA HowOften ==
  ASSUME NEW S, NEW f, NEW c,
         \A i, j \in S : f[i] = f[j] => i = j
  PROVE  Cardinality({i \in S : f[i] = c}) = IF c \in {f[i] : i \in S} THEN 1 ELSE 0
  <1>1. CASE c \in {f[i] : i \in S}
    <2>1. PICK i \in S : f[i] = c
      BY <1>1
    <2>2. {j \in S : f[j] = c} = {i}
      BY <2>1
    <2> QED BY <1>1, <2>2, FS_Singleton
  <1>2. CASE c \notin {f[i] : i \in S}
    <2>1. {i \in S : f[i] = c} = {}
      BY <1>2
    <2> QED BY <1>2, <2>1, FS_EmptySet
  <1> QED BY <1>1, <1>2

LEMMA TimesIs ==
  ASSUME NEW w, Writer = {w}, TypeOK, OneWriterInv(w), NEW c \in Char
  PROVE  Times(c) = IF c \in Placed(w) \ dropped THEN 1 ELSE 0
  <1> USE DEF OneWriterInv
  <1>1. Cardinality({i \in 1..Len(line) : line[i] = c}) = IF c \in OnLine THEN 1 ELSE 0
    <2> DEFINE S == 1..Len(line)
    <2>1. \A i, j \in S : line[i] = line[j] => i = j
      BY DEF OnePlace
    <2>2. OnLine = {line[i] : i \in S}
      BY DEF OnLine
    <2> HIDE DEF OneWriterInv, S
    <2>3. Cardinality({i \in S : line[i] = c})
            = IF c \in {line[i] : i \in S} THEN 1 ELSE 0
      BY <2>1, HowOften, Zenon
    <2> QED BY <2>2, <2>3 DEF S
  <1>2. Cardinality({i \in Used : data[i] = c}) = IF c \in Queued THEN 1 ELSE 0
    <2>1. Queued \subseteq Char
      BY PlacesTyped
    <2>2. \A i, j \in Used : data[i] = data[j] => i = j
      BY <2>1, QueueDistinct
    <2> HIDE DEF OneWriterInv
    <2> QED BY <2>2, HowOften DEF Queued
  <1>3. (IF UART0_DR_R = c THEN 1 ELSE 0) = IF c \in InRegister THEN 1 ELSE 0
    BY CharsOK DEF InRegister
  <1>4. Times(c) = (IF c \in OnLine THEN 1 ELSE 0) + (IF c \in InRegister THEN 1 ELSE 0)
                     + (IF c \in Queued THEN 1 ELSE 0)
    BY <1>1, <1>2, <1>3 DEF Times
  <1>5. c \in Placed(w) \ dropped <=> c \in OnLine \cup InRegister \cup Queued
    BY DEF OnePlace
  <1>6. /\ ~(c \in OnLine /\ c \in InRegister) /\ ~(c \in OnLine /\ c \in Queued)
        /\ ~(c \in InRegister /\ c \in Queued)
    BY DEF OnePlace
  <1> HIDE DEF OneWriterInv
  <1> QED BY <1>4, <1>5, <1>6

\* With one writer no character is lost or repeated, but for those that a full
\* queue drops: for every size of the queue, wherever the interrupt comes
\* between the writer's accesses, and also when the output has stopped.
THEOREM OneWriterKeepsAll ==
  ASSUME NEW w, Writer = {w}
  PROVE  Spec => []NoneLost
  <1>1. TypeOK /\ Begun /\ OneWriterInv(w) => NoneLost
    <2> SUFFICES ASSUME TypeOK, Begun, OneWriterInv(w), NEW c \in Done
                 PROVE  IF c \in dropped THEN Times(c) = 0 ELSE Times(c) = 1
      BY DEF NoneLost
    <2>1. c \in Placed(w)
      <3>1. c \in Char /\ c = <<w, c[2]>>
        BY CharIs DEF Done
      <3>2. c[1] = w
        BY <3>1
      <3> QED BY <3>1, <3>2 DEF Done, Placed
    <2>2. Times(c) = IF c \in Placed(w) \ dropped THEN 1 ELSE 0
      BY TimesIs DEF Done
    <2> QED BY <2>1, <2>2
  <1> QED BY <1>1, OneWriterAlways, PTL

\* With one writer a character is passed by one other at most, the next: of two
\* characters that are further apart the earlier goes out first.
THEOREM OneWriterKeepsOrder ==
  ASSUME NEW w, Writer = {w}
  PROVE  Spec => []OvertakenOnce
  <1>1. OneWriterInv(w) => OvertakenOnce
    BY DEF OneWriterInv, InOrder, OvertakenOnce
  <1> QED BY <1>1, OneWriterAlways, PTL
=============================================================================
