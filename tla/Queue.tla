------------------------------- MODULE Queue -------------------------------
(***************************************************************************)
(* Queue.c as a state machine: items with next and prev links, and the     *)
(* head pointers of the queues they are put in (pqueue[], blockq, pcblist, *)
(* maillist, a message queue's mailq, ...).  The callers keep two rules:   *)
(* they enq only an item that is in no queue, and deq an item from the     *)
(* queue it is in.  Under these rules the links implement RingSpec.        *)
(***************************************************************************)
EXTENDS Links, Rings, FiniteSets

CONSTANTS Item,   \* the nodes that can be queued (pcbs, mails, ...)
          List    \* the head pointers

ASSUME ItemsOK == NULL \notin Item /\ IsFiniteSet(Item)

VARIABLES links,  \* the next and prev fields of the items
          head    \* head[h]: the item the head pointer h points to, or NULL

vars == <<links, head>>

LinkType == [next : [Item -> Item], prev : [Item -> Item]]

TypeOK == /\ links \in LinkType
          /\ head \in [List -> Item \cup {NULL}]

\* Items start outside every queue, linked to themselves (what deq leaves; enq
\* overwrites both links of a fresh one before anything reads them).
Init == /\ links = [next |-> [i \in Item |-> i], prev |-> [i \in Item |-> i]]
        /\ head = [h \in List |-> NULL]

-----------------------------------------------------------------------------
\* The queue h as its users see it: walk next from the head until the head.
RingOf(h) ==
  IF head[h] = NULL THEN <<>>
  ELSE LET at     == Walk(links, head[h], Cardinality(Item))
           length == CHOOSE n \in 1..Cardinality(Item) :
                        /\ at[n] = head[h]
                        /\ \A m \in 1..(n - 1) : at[m] # head[h]
       IN  [i \in 1..length |-> at[i - 1]]

InQueue(x, h) == x \in Range(RingOf(h))
-----------------------------------------------------------------------------
enq(x, h) ==
  /\ \A g \in List : ~InQueue(x, g)
  /\ links' = EnqLinks(links, x, head[h])
  /\ head' = [head EXCEPT ![h] = x]

deq(x, h) ==
  /\ InQueue(x, h)
  /\ links' = DeqLinks(links, x, head[h])
  /\ head' = [head EXCEPT ![h] = DeqHead(links, x, @)]

Next == \E x \in Item, h \in List : enq(x, h) \/ deq(x, h)

Spec == Init /\ [][Next]_vars
-----------------------------------------------------------------------------
\* The links of Queue.c implement the abstract queues: whatever sequence of
\* enq and deq calls, each queue holds the items put in and not taken out, the
\* latest at its head, and no call disturbs another queue.
Abstract == INSTANCE RingSpec WITH ring <- [h \in List |-> RingOf(h)]
ImplementsRings == Abstract!Spec

\* next and prev stay inverse to each other, so that prev walks every queue
\* backwards: k_recv serves the mail at mailq->prev and relies on it being the
\* oldest (Kernel.c:430).
LinksInverse == MutuallyInverse(links, Item)
=============================================================================
