------------------------------ MODULE Letters ------------------------------
(***************************************************************************)
(* What the owner of a message queue can expect of send and recv: letters  *)
(* in the order they were sent, each with its sender and as much of its    *)
(* text as there is room for, whether they were there first or the owner   *)
(* was.  Only the owner who did not wait is told how much text there is.   *)
(***************************************************************************)
EXTENDS Integers, Sequences

CONSTANTS MAXMAIL_NUM, Letter, Room

VARIABLES
  sent,      \* the last one sent
  queue,     \* the letters that wait
  waiting,   \* the room of the owner who waits, or -1
  letter,    \* the last one received
  told       \* what recv returned

vars == <<sent, queue, waiting, letter, told>>

Cut(text, room) == SubSeq(text, 1, IF Len(text) < room THEN Len(text) ELSE room)

Init == sent.text = <<>> /\ queue = <<>> /\ waiting = -1 /\ told = 0 /\ letter.text = <<>>

\* The oldest letter of q is handed over.
Deliver(q, room) ==
  /\ letter' = [Head(q) EXCEPT !.text = Cut(@, room)]
  /\ queue' = Tail(q)
  /\ waiting' = -1

Send(l) ==
  /\ sent' = l
  /\ \/ waiting >= 0 /\ Deliver(Append(queue, l), waiting) /\ told' = 0
     \/ /\ waiting = -1 /\ Len(queue) < MAXMAIL_NUM
        /\ queue' = Append(queue, l)
        /\ UNCHANGED <<waiting, letter, told>>

Receive(room) ==
  /\ UNCHANGED sent
  /\ waiting = -1
  /\ \/ queue # <<>> /\ Deliver(queue, room) /\ told' = Len(letter'.text)
     \/ queue = <<>> /\ waiting' = room /\ told' = 0
        /\ UNCHANGED <<queue, letter>>

Next == (\E l \in Letter : Send(l)) \/ (\E room \in Room : Receive(room))

Spec == Init /\ [][Next]_vars
=============================================================================
