------------------------------- MODULE Rings -------------------------------
(***************************************************************************)
(* What the rings of Queue.c are for their users: the sequence of the      *)
(* items met when one follows next from the head.  Module Queue relates it *)
(* to the links.  enq puts the new item in front (the head moves to it),   *)
(* so the last item of the sequence is the oldest, and head->prev is the   *)
(* item to serve first when a queue is used as a FIFO.                     *)
(***************************************************************************)
EXTENDS Integers, Sequences, SequencesExt

\* Where the item stands in the ring.
Position(item, ring) == CHOOSE i \in 1..Len(ring) : ring[i] = item

\* enq: the new item becomes the head.
Enq(new, ring) == Cons(new, ring)

\* deq of an item of the ring.
Deq(ptr, ring) == RemoveAt(ring, Position(ptr, ring))

\* item->next: the item after it, and the head after the last.
Following(item, ring) ==
  IF Position(item, ring) = Len(ring) THEN ring[1]
                                      ELSE ring[Position(item, ring) + 1]

\* No item is twice in the ring.
NoDuplicates(ring) == IsInjective(ring)
=============================================================================
