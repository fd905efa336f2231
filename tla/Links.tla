------------------------------- MODULE Links -------------------------------
(***************************************************************************)
(* The doubly linked circular lists of Queue.c, pointer by pointer.  Every *)
(* queue of the kernel is a head pointer into a ring of items, and the     *)
(* links of all the items of a kind are one record of two functions:       *)
(*                                                                         *)
(*    links.next[i], links.prev[i]   what item i points to                 *)
(*                                                                         *)
(* The operators give the links and the head that a call of enq or deq     *)
(* leaves behind, whatever the links were: also when the head or the item  *)
(* is in another ring than its caller believes.                            *)
(***************************************************************************)
EXTENDS Integers

CONSTANT NULL

\* Mutant of SelfLinked: the item's links are cleared instead.
NullLinked(links, item) ==
  [next |-> [links.next EXCEPT ![item] = NULL],
   prev |-> [links.prev EXCEPT ![item] = NULL]]

\* The links after an item's next and prev were both pointed at itself.
SelfLinked(links, item) ==
  [next |-> [links.next EXCEPT ![item] = item],
   prev |-> [links.prev EXCEPT ![item] = item]]

\* Mutant of EnqLinks: the last item keeps its old next.
EnqLinksLastKept(links, new, head) ==
  IF head = NULL
  THEN SelfLinked(links, new)
  ELSE [next |-> [links.next EXCEPT ![new] = head],
        prev |-> [links.prev EXCEPT ![new] = links.prev[head], ![head] = new]]

\* enq(new, &head): the new item goes between the last item and the head
\* (and becomes the head, whatever the head was).
EnqLinks(links, new, head) ==
  IF head = NULL
  THEN SelfLinked(links, new)
  ELSE LET last == links.prev[head]
       IN  [next |-> [links.next EXCEPT ![new] = head, ![last] = new],
            prev |-> [links.prev EXCEPT ![new] = last, ![head] = new]]

\* The two neighbours of an item, linked past it.
Unlinked(links, item) ==
  [next |-> [links.next EXCEPT ![links.prev[item]] = links.next[item]],
   prev |-> [links.prev EXCEPT ![links.next[item]] = links.prev[item]]]

\* deq(ptr, &head): the links it leaves.  When the head is alone in its ring
\* the code empties the queue without looking at ptr.
DeqLinks(links, ptr, head) ==
  CASE head = NULL             -> links
    [] head # NULL /\ links.next[head] = head -> SelfLinked(links, ptr)
    [] OTHER                   -> SelfLinked(Unlinked(links, ptr), ptr)

\* Mutant of DeqHead: dequeuing the head leaves the head pointer on it.
DeqHeadKept(links, ptr, head) ==
  IF head = NULL \/ links.next[head] = head THEN NULL ELSE head

\* deq(ptr, &head): the head it leaves.
DeqHead(links, ptr, head) ==
  CASE head = NULL             -> NULL
    [] head # NULL /\ links.next[head] = head -> NULL
    [] OTHER                   -> IF ptr = head THEN links.next[ptr] ELSE head

\* The items met along next from the head pointer, n steps far.
Walk(links, head, n) ==
  LET at[i \in 0..n] == IF i = 0 THEN head ELSE links.next[at[i - 1]]
  IN  at

\* Following next and then prev (or prev and then next) leads back: every item
\* is in exactly one ring, and the ring can be walked both ways.
MutuallyInverse(links, items) ==
  \A i \in items : /\ links.prev[links.next[i]] = i
                   /\ links.next[links.prev[i]] = i
=============================================================================
