------------------------------ MODULE Messages ------------------------------
(***************************************************************************)
(* What k_send and k_recv do with the bytes of a message: into the buffer  *)
(* of a receiver that is blocked, or into a mail and from there into the   *)
(* buffer.  One message queue and its owner, any senders; which mail is    *)
(* taken, and that the oldest is received, is module Kernel's matter, and  *)
(* a mail list of its own stands for the one all message queues share.     *)
(***************************************************************************)
EXTENDS Integers, Sequences

CONSTANTS
  Char, NUL,
  Src,            \* the message queues of the senders
  MAXMSG_SZ,      \* the bytes of a mail
  MAXMAIL_NUM,
  MaxSize,        \* BOUND: the longest message; it may be more than MAXMSG_SZ
  BufferSize      \* the bytes of the receiver's array

ASSUME SizesOK ==
  /\ NUL \in Char
  /\ Src # {}
  /\ MAXMSG_SZ \in Nat \ {0} /\ MAXMAIL_NUM \in Nat /\ MaxSize \in Nat
  /\ BufferSize \in Nat \ {0}

VARIABLES
  sent,       \* the src and msg of the last k_send
  mailq,      \* the src, msgsize and msg of the mails, oldest first
  state,      \* of the receiver
  args,       \* the src and size of its struct pmsg
  memory,     \* its array, and the byte behind
  copied,     \* how far the last copy into it went
  received,   \* what recv has returned
  spilt       \* a message was longer than the mail it was written to

vars == <<sent, mailq, state, args, memory, copied, received, spilt>>

\* A message.  A size below 0 gets past the test that is never true (Kernel.c:291, 383)
\* and has the loops copy nothing, as size 0 does: 0 stands for it.
Text == UNION {[1..n -> Char] : n \in 0..MaxSize}

\* struct mail, without its links.
Mail == {m \in [src : Src, msgsize : 0..MaxSize, msg : Text] : m.msgsize = Len(m.msg)}

\* Mutant of CopiedTo: the loop goes one too far.
CopiedToEqual(len, size) == IF len <= size THEN len ELSE size + 1

\* Where the loops end that copy len bytes to a buffer of this size.
CopiedTo(len, size) == IF len < size THEN len ELSE size

\* The first n bytes of the array become those of the text.
Copy(text, n) == [i \in DOMAIN memory |-> IF i <= n THEN text[i] ELSE memory[i]]

Init ==
  /\ sent \in [src : Src, text : {<<>>}]
  /\ mailq = <<>>
  /\ state = "WTR"
  /\ args \in [src : Src, size : {BufferSize}]
  /\ memory = [i \in 1..(BufferSize + 1) |-> NUL]
  /\ copied = 0
  /\ received = 0
  /\ spilt = FALSE

\* Mutant of SendDirect: the source is not passed on.
SendDirectNoSrc(src, text) ==
  LET n == CopiedTo(Len(text), args.size)
  IN  /\ state = "BLOCKED"
      /\ state' = "WTR"
      /\ memory' = [Copy(text, n) EXCEPT ![n + 1] = NUL]
      /\ copied' = n
      /\ UNCHANGED <<mailq, args, received, spilt>>

\* The receiver is blocked: it is woken up with the message, and a NUL behind.
SendDirect(src, text) ==
  LET n == CopiedTo(Len(text), args.size)
  IN  /\ state = "BLOCKED"
      /\ state' = "WTR"
      /\ memory' = [Copy(text, n) EXCEPT ![n + 1] = NUL]
      /\ copied' = n
      /\ args' = [args EXCEPT !.src = src]
      /\ UNCHANGED <<mailq, received, spilt>>

\* A mail is filled.  What a message longer than the mail does to its src, its
\* msgsize and the memory behind it is not followed: the model ends there.
SendMail(src, text) ==
  /\ state = "WTR"
  /\ Len(mailq) < MAXMAIL_NUM
  /\ mailq' = Append(mailq, [src |-> src, msgsize |-> Len(text), msg |-> text])
  /\ spilt' = (Len(text) > MAXMSG_SZ)
  /\ UNCHANGED <<state, args, memory, copied, received>>

\* No mail available: the message is dropped.
k_send(src, text) ==
  /\ ~spilt
  /\ SendDirect(src, text) \/ SendMail(src, text)
  /\ sent' = [src |-> src, text |-> text]

\* Mutant of RecvMail: what was copied is terminated here as well.
RecvMailTerminated(size) ==
  LET m == mailq[1]
      n == CopiedTo(m.msgsize, size)
  IN  /\ mailq # <<>>
      /\ mailq' = Tail(mailq)
      /\ memory' = [Copy(m.msg, n) EXCEPT ![n + 1] = NUL]
      /\ copied' = n /\ received' = n
      /\ args' = [src |-> m.src, size |-> size]
      /\ UNCHANGED <<state, spilt>>

\* There is a mail: as much of it as fits, without a NUL.
RecvMail(size) ==
  LET m == mailq[1]
      n == CopiedTo(m.msgsize, size)
  IN  /\ mailq # <<>>
      /\ mailq' = Tail(mailq)
      /\ memory' = Copy(m.msg, n)
      /\ copied' = n /\ received' = n
      /\ args' = [src |-> m.src, size |-> size]
      /\ UNCHANGED <<state, spilt>>

\* There is none: the receiver blocks, and its recv returns 0 later.
RecvBlocks(size) ==
  /\ mailq = <<>>
  /\ state' = "BLOCKED"
  /\ args' = [args EXCEPT !.size = size]
  /\ received' = 0
  /\ UNCHANGED <<mailq, memory, copied, spilt>>

recv(size) ==
  /\ ~spilt
  /\ state = "WTR"
  /\ RecvMail(size) \/ RecvBlocks(size)
  /\ UNCHANGED sent

Next == \/ \E src \in Src, text \in Text : k_send(src, text)
        \/ \E size \in 0..BufferSize : recv(size)

Spec == Init /\ [][Next]_vars

-----------------------------------------------------------------------------
(* What should hold.                                                       *)

TypeOK ==
  /\ sent \in [src : Src, text : Text]
  /\ mailq \in Seq(Mail) /\ Len(mailq) <= MAXMAIL_NUM
  /\ state \in {"WTR", "BLOCKED"}
  /\ args \in [src : Src, size : 0..BufferSize]
  /\ memory \in [1..(BufferSize + 1) -> Char]
  /\ copied \in 0..BufferSize
  /\ received = 0 \/ (state = "WTR" /\ received = copied)
  /\ spilt \in BOOLEAN

\* Of the receiver's memory a message changes the bytes it has room for, and one
\* more, to NUL, when the receiver was blocked (Kernel.c:333): at the end of a
\* full buffer that is the byte behind it.
WritesWithin ==
  [][\A i \in DOMAIN memory : memory'[i] # memory[i] =>
       \/ i <= copied' /\ copied' <= args'.size
       \/ i = copied' + 1 /\ memory'[i] = NUL /\ state = "BLOCKED"]_vars

\* What a mail, the receiver and its array stand for.
LetterOf(m) == [src |-> m.src, text |-> m.msg]
LettersOf(q) == [i \in DOMAIN q |-> LetterOf(q[i])]
Waiting == IF state = "BLOCKED" THEN args.size ELSE -1
Last == [src |-> args.src, text |-> SubSeq(memory, 1, copied)]

L == INSTANCE Letters WITH
       Letter  <- [src : Src, text : Text],
       Room    <- 0..BufferSize,
       queue   <- LettersOf(mailq),
       waiting <- Waiting,
       letter  <- Last,
       told    <- received
\* A receiver gets the same message whether it waited for it or found it in a
\* mail (Kernel.c:326-334, 357-375, 429-441): its sender and its text, in the
\* order of sending; as long as no message is longer than a mail.
ImplementsLetters == L!Init /\ [][spilt' \/ L!Next]_(L!vars)
=============================================================================
