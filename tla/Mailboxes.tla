----------------------------- MODULE Mailboxes -----------------------------
(***************************************************************************)
(* What send, recv and unbind promise about messages: each message queue   *)
(* is a FIFO of mails, a mail is free or in one queue, and no step moves   *)
(* more than one.                                                          *)
(***************************************************************************)
EXTENDS Sequences, SequencesExt

CONSTANT Msgq

VARIABLES
  boxes,   \* boxes[b]: the mails of message queue b, the oldest first
  free,    \* the mails of the pool
  owned    \* the message queues that have an owner

\* A message is queued behind those that wait, ...
Post(b) == \E m \in free : /\ boxes' = [boxes EXCEPT ![b] = Append(@, m)]
                           /\ free' = free \ {m}

\* ... its owner receives the oldest, ...
Take(b) == /\ b \in owned /\ boxes[b] # <<>>
           /\ boxes' = [boxes EXCEPT ![b] = Tail(@)]
           /\ free' = free \cup {Head(boxes[b])}

\* ... and a queue that has lost its owner is emptied.
GiveBack(b) == /\ b \notin owned /\ boxes[b] # <<>>
               /\ boxes' = [boxes EXCEPT ![b] = Front(@)]
               /\ free' = free \cup {Last(boxes[b])}

Next == \E b \in Msgq : Post(b) \/ Take(b) \/ GiveBack(b)
=============================================================================
