------------------------------ MODULE RingSpec ------------------------------
(***************************************************************************)
(* What the queues of Queue.c promise: a family of queues over a set of    *)
(* items, each item in at most one of them, with put-in-front and          *)
(* take-any.                                                               *)
(***************************************************************************)
EXTENDS Rings

CONSTANTS Item, List

VARIABLE ring   \* ring[h]: the items of queue h, from its head on

Queued(x) == \E h \in List : x \in Range(ring[h])

Init == ring = [h \in List |-> <<>>]

Put(x, h) ==
  /\ ~Queued(x)
  /\ ring' = [ring EXCEPT ![h] = Enq(x, @)]

Take(x, h) ==
  /\ x \in Range(ring[h])
  /\ ring' = [ring EXCEPT ![h] = Deq(x, @)]

Next == \E x \in Item, h \in List : Put(x, h) \/ Take(x, h)

Spec == Init /\ [][Next]_ring
=============================================================================
