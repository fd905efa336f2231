--------------------------- MODULE MessagesProofs ---------------------------
(***************************************************************************)
(* Theorems about Messages, for any sizes of mails, messages and buffers.  *)
(* The type invariant is inductive; it says that a mail's msgsize is the   *)
(* length of what was written to it, which the copy out of it relies on.   *)
(***************************************************************************)
EXTENDS Messages, SequenceTheorems, TLAPS

\* A text is a sequence of characters, none of them too long.
LEMMA TextIs ==
  ASSUME SizesOK, NEW t \in Text
  PROVE  /\ t \in Seq(Char) /\ Len(t) \in 0..MaxSize /\ DOMAIN t = 1..Len(t)
  <1>1. PICK n \in 0..MaxSize : t \in [1..n -> Char]
    BY DEF Text
  <1>2. n \in Nat
    BY <1>1 DEF SizesOK
  <1>3. t \in Seq(Char) /\ Len(t) = n
    BY <1>1, <1>2
  <1> QED BY <1>1, <1>3 DEF SizesOK

\* The loops copy what there is and what there is room for.
LEMMA CopiedBounds ==
  ASSUME NEW len \in Nat, NEW size \in Nat
  PROVE  /\ CopiedTo(len, size) \in 0..len
         /\ CopiedTo(len, size) \in 0..size
  BY DEF CopiedTo

\* A copy changes the bytes it goes over and keeps the others.
LEMMA CopyType ==
  ASSUME TypeOK, SizesOK, NEW t \in Text, NEW n \in 0..Len(t)
  PROVE  /\ Copy(t, n) \in [1..(BufferSize + 1) -> Char]
         /\ \A i \in 1..(BufferSize + 1) :
              Copy(t, n)[i] = IF i <= n THEN t[i] ELSE memory[i]
  <1>1. DOMAIN memory = 1..(BufferSize + 1) /\ \A i \in DOMAIN memory : memory[i] \in Char
    BY DEF TypeOK
  <1>2. \A i \in 1..Len(t) : t[i] \in Char
    BY TextIs
  <1>3. Len(t) \in Nat /\ BufferSize \in Nat
    BY TextIs DEF SizesOK
  <1> QED BY <1>1, <1>2, <1>3 DEF Copy

\* What is in the array after a copy is the beginning of the text, whatever
\* follows it.
LEMMA CopyIsPrefix ==
  ASSUME TypeOK, SizesOK, NEW t \in Text, NEW size \in 0..BufferSize,
         NEW new \in [1..(BufferSize + 1) -> Char],
         \A i \in 1..CopiedTo(Len(t), size) : new[i] = t[i]
  PROVE  SubSeq(new, 1, CopiedTo(Len(t), size)) = L!Cut(t, size)
  <1> DEFINE n == CopiedTo(Len(t), size)
  <1>1. t \in Seq(Char) /\ Len(t) \in Nat /\ BufferSize \in Nat /\ size \in Nat
    BY TextIs DEF SizesOK
  <1>2. n \in 0..Len(t) /\ n \in 0..size /\ n <= BufferSize
    <2>1. n \in 0..Len(t) /\ n \in 0..size
      BY <1>1, CopiedBounds
    <2> HIDE DEF n
    <2> QED BY <2>1, <1>1
  <1>3. L!Cut(t, size) = SubSeq(t, 1, n)
    BY DEF L!Cut, CopiedTo
  <1> HIDE DEF n
  <1>4. new \in Seq(Char) /\ Len(new) = BufferSize + 1
    BY <1>1
  <1>5. SubSeq(new, 1, n) = [i \in 1..n |-> new[i]]
    BY <1>1, <1>2, <1>4
  <1>6. SubSeq(t, 1, n) = [i \in 1..n |-> t[i]]
    BY <1>1, <1>2
  <1> QED BY <1>3, <1>5, <1>6 DEF n

-----------------------------------------------------------------------------
LEMMA InitTypeOK ==
  ASSUME SizesOK, Init
  PROVE  TypeOK
  <1>1. mailq \in Seq(Mail) /\ Len(mailq) = 0
    BY DEF Init
  <1>2. args \in [src : Src, size : 0..BufferSize]
    BY DEF Init, SizesOK
  <1>3. memory \in [1..(BufferSize + 1) -> Char]
    BY DEF Init, SizesOK
  <1>4. sent \in [src : Src, text : Text]
    <2>1. <<>> \in [1..0 -> Char] /\ 0 \in 0..MaxSize
      BY DEF SizesOK
    <2> QED BY <2>1 DEF Init, Text
  <1>5. Len(mailq) <= MAXMAIL_NUM /\ copied \in 0..BufferSize
    BY <1>1 DEF Init, SizesOK
  <1> QED BY <1>1, <1>2, <1>3, <1>4, <1>5 DEF Init, TypeOK

LEMMA SendTypeOK ==
  ASSUME TypeOK, SizesOK, NEW src \in Src, NEW text \in Text, k_send(src, text)
  PROVE  TypeOK'
  <1>1. sent' \in [src : Src, text : Text]
    BY DEF k_send
  <1>2. CASE SendDirect(src, text)
    <2> DEFINE n == CopiedTo(Len(text), args.size)
    <2>1. args.size \in Nat /\ args.size <= BufferSize /\ Len(text) \in Nat
      BY TextIs DEF TypeOK, SizesOK
    <2>2. n \in 0..Len(text) /\ n \in 0..args.size
      BY <2>1, CopiedBounds
    <2>3. memory' = [Copy(text, n) EXCEPT ![n + 1] = NUL] /\ copied' = n
      BY <1>2 DEF SendDirect
    <2> HIDE DEF n
    <2>4. n \in 0..BufferSize
      BY <2>1, <2>2 DEF SizesOK
    <2>5. memory' \in [1..(BufferSize + 1) -> Char]
      BY <2>2, <2>3, CopyType DEF SizesOK
    <2>6. received' = 0
      BY <1>2 DEF SendDirect, TypeOK
    <2> QED BY <1>1, <1>2, <2>3, <2>4, <2>5, <2>6 DEF TypeOK, SendDirect
  <1>3. CASE SendMail(src, text)
    <2> DEFINE m == [src |-> src, msgsize |-> Len(text), msg |-> text]
    <2>1. m \in Mail
      BY TextIs DEF Mail
    <2>2. mailq' = Append(mailq, m) /\ Len(mailq) < MAXMAIL_NUM
      BY <1>3 DEF SendMail
    <2> HIDE DEF m
    <2>3. mailq' \in Seq(Mail) /\ Len(mailq') <= MAXMAIL_NUM
      BY <2>1, <2>2 DEF TypeOK, SizesOK
    <2> QED BY <1>1, <1>3, <2>3 DEF TypeOK, SendMail
  <1> QED BY <1>2, <1>3 DEF k_send

\* The mail received.
LEMMA OldestMail ==
  ASSUME TypeOK, SizesOK, mailq # <<>>
  PROVE  /\ mailq[1] \in Mail /\ mailq[1].src \in Src /\ mailq[1].msg \in Text
         /\ mailq[1].msgsize = Len(mailq[1].msg) /\ mailq[1].msgsize \in Nat
         /\ Tail(mailq) \in Seq(Mail) /\ Len(Tail(mailq)) = Len(mailq) - 1
  <1>1. mailq \in Seq(Mail) /\ mailq[1] \in Mail
    BY DEF TypeOK
  <1> QED BY <1>1, TextIs DEF Mail, SizesOK

LEMMA RecvTypeOK ==
  ASSUME TypeOK, SizesOK, NEW size \in 0..BufferSize, recv(size)
  PROVE  TypeOK'
  <1>1. CASE RecvMail(size)
    <2> DEFINE m == mailq[1]
               n == CopiedTo(m.msgsize, size)
    <2>1. /\ mailq # <<>> /\ mailq' = Tail(mailq) /\ memory' = Copy(m.msg, n)
          /\ copied' = n /\ received' = n /\ args' = [src |-> m.src, size |-> size]
          /\ UNCHANGED <<state, spilt, sent>> /\ state = "WTR"
      BY <1>1 DEF RecvMail, recv
    <2>2. size \in Nat /\ m.msgsize \in Nat /\ m.msgsize = Len(m.msg)
      BY <2>1, OldestMail DEF SizesOK
    <2>3. n \in 0..Len(m.msg) /\ n \in 0..size
      BY <2>2, CopiedBounds
    <2>4. m.msg \in Text /\ m.src \in Src /\ Tail(mailq) \in Seq(Mail)
          /\ Len(Tail(mailq)) = Len(mailq) - 1
      BY <2>1, OldestMail
    <2> HIDE DEF m, n
    <2>5. Copy(m.msg, n) \in [1..(BufferSize + 1) -> Char]
      BY <2>3, <2>4, CopyType
    <2>6. n \in 0..BufferSize
      BY <2>3 DEF SizesOK
    <2>7. Len(Tail(mailq)) <= MAXMAIL_NUM
      BY <2>4 DEF TypeOK, SizesOK
    <2> QED BY <2>1, <2>4, <2>5, <2>6, <2>7 DEF TypeOK
  <1>2. CASE RecvBlocks(size)
    BY <1>2 DEF RecvBlocks, recv, TypeOK
  <1> QED BY <1>1, <1>2 DEF recv

\* Type correctness, for messages, mails and buffers of any size.
THEOREM MessagesTypeCorrect == Spec => []TypeOK
  <1>1. Init => TypeOK
    BY SizesOK, InitTypeOK
  <1>2. TypeOK /\ [Next]_vars => TypeOK'
    <2>1. ASSUME TypeOK, NEW src \in Src, NEW text \in Text, k_send(src, text)
          PROVE  TypeOK'
      BY <2>1, SizesOK, SendTypeOK
    <2>2. ASSUME TypeOK, NEW size \in 0..BufferSize, recv(size)
          PROVE  TypeOK'
      BY <2>2, SizesOK, RecvTypeOK
    <2>3. TypeOK /\ UNCHANGED vars => TypeOK'
      BY DEF TypeOK, vars
    <2> QED BY <2>1, <2>2, <2>3 DEF Next
  <1> QED BY <1>1, <1>2, PTL DEF Spec

-----------------------------------------------------------------------------
\* Nothing but the bytes there is room for, and the NUL behind them for a
\* receiver that was blocked, changes in the receiver's memory.
THEOREM OnlyMessageWritten == Spec => WritesWithin
  <1> DEFINE Within ==
        \A i \in DOMAIN memory : memory'[i] # memory[i] =>
          \/ i <= copied' /\ copied' <= args'.size
          \/ i = copied' + 1 /\ memory'[i] = NUL /\ state = "BLOCKED"
  <1>1. ASSUME TypeOK, NEW src \in Src, NEW text \in Text, k_send(src, text)
        PROVE  Within
    <2>1. CASE SendDirect(src, text)
      <3> DEFINE n == CopiedTo(Len(text), args.size)
      <3>1. args.size \in Nat /\ Len(text) \in Nat
        BY <1>1, TextIs, SizesOK DEF TypeOK, SizesOK
      <3>2. n \in 0..Len(text) /\ n \in 0..args.size
        BY <3>1, CopiedBounds
      <3>3. /\ memory' = [Copy(text, n) EXCEPT ![n + 1] = NUL] /\ copied' = n
            /\ args'.size = args.size /\ state = "BLOCKED"
        BY <1>1, <2>1 DEF SendDirect, TypeOK
      <3> HIDE DEF n
      <3>4. DOMAIN memory = 1..(BufferSize + 1)
        BY <1>1 DEF TypeOK
      <3>5. \A i \in 1..(BufferSize + 1) : Copy(text, n)[i] = IF i <= n THEN text[i] ELSE memory[i]
        BY <1>1, <3>2, CopyType, SizesOK
      <3>6. Copy(text, n) \in [1..(BufferSize + 1) -> Char]
        BY <1>1, <3>2, CopyType, SizesOK
      <3> QED BY <3>1, <3>2, <3>3, <3>4, <3>5, <3>6
    <2>2. CASE SendMail(src, text)
      BY <2>2 DEF SendMail
    <2> QED BY <1>1, <2>1, <2>2 DEF k_send
  <1>2. ASSUME TypeOK, NEW size \in 0..BufferSize, recv(size)
        PROVE  Within
    <2>1. CASE RecvMail(size)
      <3> DEFINE m == mailq[1]
                 n == CopiedTo(m.msgsize, size)
      <3>1. mailq # <<>> /\ memory' = Copy(m.msg, n) /\ copied' = n /\ args'.size = size
        BY <2>1 DEF RecvMail
      <3>2. size \in Nat /\ m.msgsize \in Nat /\ m.msgsize = Len(m.msg) /\ m.msg \in Text
        BY <1>2, <3>1, OldestMail, SizesOK DEF SizesOK
      <3>3. n \in 0..Len(m.msg) /\ n \in 0..size
        BY <3>2, CopiedBounds
      <3> HIDE DEF m, n
      <3>4. \A i \in 1..(BufferSize + 1) : Copy(m.msg, n)[i] = IF i <= n THEN m.msg[i] ELSE memory[i]
        BY <1>2, <3>2, <3>3, CopyType, SizesOK
      <3>5. DOMAIN memory = 1..(BufferSize + 1)
        BY <1>2 DEF TypeOK
      <3> QED BY <3>1, <3>2, <3>3, <3>4, <3>5
    <2>2. CASE RecvBlocks(size)
      BY <2>2 DEF RecvBlocks
    <2> QED BY <1>2, <2>1, <2>2 DEF recv
  <1>3. TypeOK /\ [Next]_vars => [Within]_vars
    BY <1>1, <1>2 DEF Next
  <1> QED BY <1>3, MessagesTypeCorrect, PTL DEF Spec, WritesWithin

-----------------------------------------------------------------------------
(* The refinement.                                                         *)

\* The letters the mails stand for.
LEMMA LettersSeq ==
  ASSUME NEW q \in Seq(Mail)
  PROVE  /\ LettersOf(q) \in Seq([src : Src, text : Text])
         /\ Len(LettersOf(q)) = Len(q)
         /\ q = <<>> <=> LettersOf(q) = <<>>
         /\ \A i \in 1..Len(q) : LettersOf(q)[i] = LetterOf(q[i])
  <1>1. \A i \in 1..Len(q) : LetterOf(q[i]) \in [src : Src, text : Text]
    BY DEF Mail, LetterOf
  <1>2. DOMAIN q = 1..Len(q) /\ Len(q) \in Nat
    OBVIOUS
  <1>3. LettersOf(q) = [i \in 1..Len(q) |-> LetterOf(q[i])]
    BY <1>2 DEF LettersOf
  <1> QED BY <1>1, <1>2, <1>3

LEMMA LettersAppend ==
  ASSUME NEW q \in Seq(Mail), NEW m \in Mail
  PROVE  LettersOf(Append(q, m)) = Append(LettersOf(q), LetterOf(m))
  <1> DEFINE r == Append(q, m)
             A == LettersOf(r)
             B == Append(LettersOf(q), LetterOf(m))
  <1>1. r \in Seq(Mail) /\ Len(r) = Len(q) + 1 /\ r[Len(q) + 1] = m
        /\ \A i \in 1..Len(q) : r[i] = q[i]
    OBVIOUS
  <1>2. A \in Seq([src : Src, text : Text]) /\ Len(A) = Len(q) + 1
        /\ \A i \in 1..(Len(q) + 1) : A[i] = LetterOf(r[i])
    BY <1>1, LettersSeq
  <1>3. LetterOf(m) \in [src : Src, text : Text]
    BY DEF Mail, LetterOf
  <1>4. B \in Seq([src : Src, text : Text]) /\ Len(B) = Len(q) + 1
        /\ (\A i \in 1..Len(q) : B[i] = LetterOf(q[i])) /\ B[Len(q) + 1] = LetterOf(m)
    <2> DEFINE M == LettersOf(q)
               l == LetterOf(m)
    <2>1. M \in Seq([src : Src, text : Text]) /\ Len(M) = Len(q)
          /\ \A i \in 1..Len(q) : M[i] = LetterOf(q[i])
      BY LettersSeq
    <2>2. l \in [src : Src, text : Text] /\ B = Append(M, l)
      BY <1>3
    <2> HIDE DEF M, B
    <2>3. B \in Seq([src : Src, text : Text]) /\ Len(B) = Len(M) + 1
          /\ (\A i \in 1..Len(M) : B[i] = M[i]) /\ B[Len(M) + 1] = l
      BY <2>1, <2>2, AppendProperties
    <2> QED BY <2>1, <2>3
  <1> HIDE DEF A, B, r
  <1>5. Len(q) \in Nat
    OBVIOUS
  <1>6. \A i \in 1..Len(A) : A[i] = B[i]
    BY <1>1, <1>2, <1>4, <1>5
  <1> QED BY <1>2, <1>4, <1>6, SeqEqual DEF A, B, r

LEMMA LettersTail ==
  ASSUME NEW q \in Seq(Mail), q # <<>>
  PROVE  /\ LettersOf(Tail(q)) = Tail(LettersOf(q))
         /\ Head(LettersOf(q)) = LetterOf(q[1])
  <1> DEFINE A == LettersOf(Tail(q))
             B == Tail(LettersOf(q))
  <1>1. Tail(q) \in Seq(Mail) /\ Len(Tail(q)) = Len(q) - 1 /\ Len(q) \in Nat \ {0}
        /\ \A i \in 1..(Len(q) - 1) : Tail(q)[i] = q[i + 1]
    OBVIOUS
  <1>2. A \in Seq([src : Src, text : Text]) /\ Len(A) = Len(q) - 1
        /\ \A i \in 1..(Len(q) - 1) : A[i] = LetterOf(q[i + 1])
    BY <1>1, LettersSeq
  <1>3. LettersOf(q) \in Seq([src : Src, text : Text]) /\ LettersOf(q) # <<>>
        /\ Len(LettersOf(q)) = Len(q) /\ \A i \in 1..Len(q) : LettersOf(q)[i] = LetterOf(q[i])
    BY LettersSeq
  <1>4. B \in Seq([src : Src, text : Text]) /\ Len(B) = Len(q) - 1
        /\ \A i \in 1..(Len(q) - 1) : B[i] = LetterOf(q[i + 1])
    BY <1>1, <1>3
  <1>5. Head(LettersOf(q)) = LetterOf(q[1])
    BY <1>1, <1>3
  <1> HIDE DEF A, B
  <1>6. \A i \in 1..Len(A) : A[i] = B[i]
    BY <1>1, <1>2, <1>4
  <1> QED BY <1>2, <1>4, <1>5, <1>6, SeqEqual DEF A, B

-----------------------------------------------------------------------------
\* Nobody is blocked while there is a mail.
NoneWaits == state = "BLOCKED" => mailq = <<>>

LEMMA NoneWaitsHolds == Spec => []NoneWaits
  <1>1. Init => NoneWaits
    BY DEF Init, NoneWaits
  <1>2. NoneWaits /\ [Next]_vars => NoneWaits'
    BY DEF NoneWaits, Next, k_send, SendDirect, SendMail, recv, RecvMail, RecvBlocks, vars
  <1> QED BY <1>1, <1>2, PTL DEF Spec

LEMMA SendRefines ==
  ASSUME TypeOK, NoneWaits, SizesOK, NEW src \in Src, NEW text \in Text, k_send(src, text)
  PROVE  L!Next
  <1> DEFINE l == [src |-> src, text |-> text]
  <1>1. l \in [src : Src, text : Text] /\ sent' = l
    BY DEF k_send
  <1>2. CASE SendDirect(src, text)
    <2> DEFINE n == CopiedTo(Len(text), args.size)
    <2>1. /\ state = "BLOCKED" /\ mailq = <<>> /\ mailq' = <<>> /\ state' = "WTR"
          /\ memory' = [Copy(text, n) EXCEPT ![n + 1] = NUL] /\ copied' = n
          /\ args'.src = src /\ received' = 0
      BY <1>2 DEF SendDirect, NoneWaits, TypeOK
    <2>2. args.size \in 0..BufferSize /\ args.size \in Nat /\ Len(text) \in Nat
      BY TextIs DEF TypeOK, SizesOK
    <2>3. n \in 0..Len(text) /\ n \in 0..args.size
      BY <2>2, CopiedBounds
    <2>4. /\ Copy(text, n) \in [1..(BufferSize + 1) -> Char]
          /\ \A i \in 1..(BufferSize + 1) : Copy(text, n)[i] = IF i <= n THEN text[i] ELSE memory[i]
      BY <2>3, CopyType
    <2>5. memory' \in [1..(BufferSize + 1) -> Char] /\ \A i \in 1..n : memory'[i] = text[i]
      <3> HIDE DEF n
      <3> QED BY <2>1, <2>2, <2>3, <2>4 DEF SizesOK
    <2>6. SubSeq(memory', 1, n) = L!Cut(text, args.size)
      BY <2>2, <2>5, CopyIsPrefix
    <2>7. Last' = [l EXCEPT !.text = L!Cut(@, args.size)]
      <3>1. Last' = [src |-> args'.src, text |-> SubSeq(memory', 1, copied')]
        BY DEF Last
      <3>2. Last' = [src |-> src, text |-> L!Cut(text, args.size)]
        BY <2>1, <2>6, <3>1
      <3>3. l.text = text
        OBVIOUS
      <3> QED BY <3>2
    <2>8. LettersOf(mailq) = <<>> /\ LettersOf(mailq)' = <<>>
      BY <2>1 DEF LettersOf
    <2>9. Waiting = args.size /\ Waiting >= 0 /\ Waiting' = -1
      BY <2>1, <2>2 DEF Waiting
    <2>10. Head(Append(<<>>, l)) = l /\ Tail(Append(<<>>, l)) = <<>>
      OBVIOUS
    <2> HIDE DEF l, n
    <2>11. L!Deliver(Append(LettersOf(mailq), l), Waiting)
      BY <2>7, <2>8, <2>9, <2>10 DEF L!Deliver
    <2> QED BY <1>1, <2>1, <2>9, <2>11 DEF L!Next, L!Send
  <1>3. CASE SendMail(src, text)
    <2> DEFINE m == [src |-> src, msgsize |-> Len(text), msg |-> text]
    <2>1. m \in Mail /\ LetterOf(m) = l
      BY TextIs DEF Mail, LetterOf
    <2>2. /\ mailq' = Append(mailq, m) /\ Len(mailq) < MAXMAIL_NUM
          /\ state = "WTR" /\ UNCHANGED <<state, args, memory, copied, received>>
      BY <1>3 DEF SendMail
    <2>3. mailq \in Seq(Mail)
      BY DEF TypeOK
    <2> HIDE DEF m, l
    <2>4. LettersOf(mailq)' = Append(LettersOf(mailq), l)
      BY <2>1, <2>2, <2>3, LettersAppend
    <2>5. Len(LettersOf(mailq)) = Len(mailq)
      BY <2>3, LettersSeq
    <2>6. Waiting = -1 /\ UNCHANGED <<Waiting, Last, received>>
      BY <2>2 DEF Waiting, Last
    <2> QED BY <1>1, <2>2, <2>4, <2>5, <2>6 DEF L!Next, L!Send
  <1> QED BY <1>2, <1>3 DEF k_send

LEMMA RecvRefines ==
  ASSUME TypeOK, SizesOK, NEW size \in 0..BufferSize, recv(size)
  PROVE  L!Next
  <1>1. state = "WTR" /\ sent' = sent /\ Waiting = -1 /\ mailq \in Seq(Mail)
    BY DEF recv, Waiting, TypeOK
  <1>2. CASE RecvMail(size)
    <2> DEFINE m == mailq[1]
               n == CopiedTo(m.msgsize, size)
    <2>1. /\ mailq # <<>> /\ mailq' = Tail(mailq) /\ memory' = Copy(m.msg, n)
          /\ copied' = n /\ received' = n /\ args'.src = m.src /\ state' = state
      BY <1>2 DEF RecvMail
    <2>2. size \in Nat /\ m.msgsize \in Nat /\ m.msgsize = Len(m.msg) /\ m.msg \in Text
      BY <2>1, OldestMail DEF SizesOK
    <2>3. n = CopiedTo(Len(m.msg), size) /\ n \in 0..Len(m.msg) /\ n \in 0..size
      BY <2>2, CopiedBounds
    <2> DEFINE t == m.msg
    <2>4. t \in Text /\ n \in 0..Len(t) /\ n = CopiedTo(Len(t), size)
      BY <2>2, <2>3
    <2>5. /\ Copy(t, n) \in [1..(BufferSize + 1) -> Char]
          /\ \A i \in 1..(BufferSize + 1) : Copy(t, n)[i] = IF i <= n THEN t[i] ELSE memory[i]
      <3> HIDE DEF t, n
      <3> QED BY <2>4, CopyType
    <2>6. memory' \in [1..(BufferSize + 1) -> Char] /\ \A i \in 1..n : memory'[i] = t[i]
      <3>1. memory' = Copy(t, n) /\ n <= BufferSize /\ n \in Nat
        BY <2>1, <2>3 DEF SizesOK
      <3> HIDE DEF t, n
      <3> QED BY <3>1, <2>5 DEF SizesOK
    <2>7. SubSeq(memory', 1, n) = L!Cut(t, size)
      <3> HIDE DEF t, n
      <3> QED BY <2>4, <2>6, CopyIsPrefix
    <2>8. Last' = [LetterOf(m) EXCEPT !.text = L!Cut(@, size)]
      <3>1. Last' = [src |-> args'.src, text |-> SubSeq(memory', 1, copied')]
        BY DEF Last
      <3>2. Last' = [src |-> m.src, text |-> L!Cut(t, size)]
        <4> HIDE DEF n
        <4> QED BY <2>1, <2>7, <3>1
      <3> QED BY <3>2 DEF LetterOf
    <2>9. LettersOf(mailq)' = Tail(LettersOf(mailq)) /\ Head(LettersOf(mailq)) = LetterOf(m)
          /\ LettersOf(mailq) # <<>>
      BY <1>1, <2>1, LettersTail, LettersSeq
    <2>10. Waiting' = -1
      BY <1>1, <2>1 DEF Waiting
    <2>11. L!Deliver(LettersOf(mailq), size)
      <3> HIDE DEF m
      <3> QED BY <2>8, <2>9, <2>10 DEF L!Deliver
    <2>12. received' = Len(Last'.text)
      <3>1. memory' \in Seq(Char) /\ Len(memory') = BufferSize + 1 /\ n \in Nat /\ n <= BufferSize
        BY <2>3, <2>6 DEF SizesOK
      <3>2. Len(SubSeq(memory', 1, n)) = n
        <4> HIDE DEF n
        <4> QED BY <3>1
      <3> HIDE DEF n
      <3> QED BY <2>1, <3>2 DEF Last
    <2> QED BY <1>1, <2>9, <2>11, <2>12 DEF L!Next, L!Receive
  <1>3. CASE RecvBlocks(size)
    <2>1. /\ mailq = <<>> /\ mailq' = mailq /\ state' = "BLOCKED" /\ args'.size = size
          /\ args'.src = args.src /\ received' = 0 /\ UNCHANGED <<memory, copied>>
      BY <1>3 DEF RecvBlocks, TypeOK
    <2>2. LettersOf(mailq) = <<>> /\ UNCHANGED <<LettersOf(mailq), Last>> /\ Waiting' = size
      BY <2>1 DEF LettersOf, Last, Waiting
    <2> QED BY <1>1, <2>1, <2>2 DEF L!Next, L!Receive
  <1> QED BY <1>2, <1>3 DEF recv

LEMMA InitLetters ==
  ASSUME SizesOK, Init
  PROVE  L!Init
  <1>1. LettersOf(mailq) = <<>> /\ Waiting = -1 /\ received = 0 /\ sent.text = <<>>
    BY DEF Init, LettersOf, Waiting
  <1>2. SubSeq(memory, 1, 0) = <<>>
    BY DEF Init
  <1>3. Last.text = <<>>
    BY <1>2 DEF Init, Last
  <1> QED BY <1>1, <1>3 DEF L!Init

\* Sent to a blocked receiver or through a mail, a message arrives the same, for
\* messages, buffers and mails of any size (the model ends with a message that
\* is longer than its mail).
THEOREM LettersImplemented == Spec => ImplementsLetters
  <1>1. Init => L!Init
    BY SizesOK, InitLetters
  <1>2. TypeOK /\ NoneWaits /\ [Next]_vars => [spilt' \/ L!Next]_(L!vars)
    <2>1. ASSUME TypeOK, NoneWaits, Next
          PROVE  L!Next
      BY <2>1, SizesOK, SendRefines, RecvRefines DEF Next
    <2>2. UNCHANGED vars => UNCHANGED (L!vars)
      BY DEF vars, L!vars, Waiting, Last, LettersOf
    <2> QED BY <2>1, <2>2
  <1> QED BY <1>1, <1>2, MessagesTypeCorrect, NoneWaitsHolds, PTL DEF Spec, ImplementsLetters
=============================================================================
