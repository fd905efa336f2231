---------------------------- MODULE QueueProofs ----------------------------
(***************************************************************************)
(* Queue.c keeps its lists: for any items and any head pointers, the links *)
(* stay inverse to each other and implement the abstract queues of         *)
(* RingSpec.  TLC checks the same on two lists and five items (MCQueue).   *)
(***************************************************************************)
EXTENDS Queue, RingTheorems

\* The queue met from a head pointer, for given links.
RingAt(lk, hd) ==
  IF hd = NULL THEN <<>>
  ELSE LET at     == Walk(lk, hd, Cardinality(Item))
           length == CHOOSE n \in 1..Cardinality(Item) :
                        /\ at[n] = hd
                        /\ \A m \in 1..(n - 1) : at[m] # hd
       IN  [i \in 1..length |-> at[i - 1]]

\* A ring that the links form is what its head pointer leads to.
LEMMA RingAtForms ==
  ASSUME NEW ring \in Seq(Item), NEW lk, NEW hd, Forms(ring, lk, hd)
  PROVE  RingAt(lk, hd) = ring
  <1>1. CASE ring = <<>>
    BY <1>1 DEF Forms, RingAt
  <1>2. CASE ring # <<>>
    <2> DEFINE n == Cardinality(Item)
               at == Walk(lk, hd, n)
               Back(m) == at[m] = hd /\ \A k \in 1..(m - 1) : at[k] # hd
               length == CHOOSE m \in 1..n : Back(m)
    <2>1. hd \in Item /\ hd # NULL
      BY <1>2, ItemsOK DEF Forms
    <2>2. /\ Len(ring) \in 1..n /\ n \in Nat
          /\ \A i \in 0..(Len(ring) - 1) : at[i] = ring[i + 1]
          /\ at[Len(ring)] = hd
          /\ \A i \in 1..(Len(ring) - 1) : at[i] # hd
      BY <1>2, ItemsOK, WalkMeets
    <2>3. RingAt(lk, hd) = [i \in 1..length |-> at[i - 1]]
      BY <2>1 DEF RingAt
    <2> HIDE DEF n, at
    <2>4. length = Len(ring)
      <3>1. Back(Len(ring))
        BY <2>2
      <3>2. ASSUME NEW m \in 1..n, Back(m) PROVE m = Len(ring)
        <4>1. ~(m < Len(ring))
          BY <2>2, <3>2
        <4>2. ~(Len(ring) < m)
          BY <2>2, <3>2
        <4> QED BY <2>2, <4>1, <4>2
      <3> HIDE DEF Back
      <3> QED BY <2>2, <3>1, <3>2
    <2> HIDE DEF length
    <2>5. \A i \in 1..Len(ring) : at[i - 1] = ring[i]
      BY <2>2
    <2>6. ring = [i \in 1..Len(ring) |-> ring[i]]
      OBVIOUS
    <2> QED BY <2>3, <2>4, <2>5, <2>6
  <1> QED BY <1>1, <1>2

-----------------------------------------------------------------------------
\* The inductive invariant.

\* Every list is a whole ring, which its head pointer points to.
ListsWhole == \A h \in List : /\ RingOf(h) \in Seq(Item)
                              /\ Forms(RingOf(h), links, head[h])

\* No item is in two lists.
ListsApart == \A g, h \in List : \A x \in Item : InQueue(x, g) /\ InQueue(x, h) => g = h

\* An item in no list is alone.
OthersAlone ==
  \A x \in Item : (\A h \in List : ~InQueue(x, h)) => links.next[x] = x

Inv == TypeOK /\ LinksInverse /\ ListsWhole /\ ListsApart /\ OthersAlone

\* The lists before and after a step that changes one of them.
LEMMA RingsAre ==
  /\ \A h \in List : RingOf(h) = RingAt(links, head[h])
  /\ \A h \in List : RingOf(h)' = RingAt(links', head'[h])
  BY DEF RingOf, RingAt

\* At the start all lists are empty.
LEMMA InitInv ==
  ASSUME Init PROVE Inv /\ \A h \in List : RingOf(h) = <<>>
  <1>1. \A h \in List : RingOf(h) = <<>>
    BY DEF Init, RingOf
  <1>2. TypeOK /\ LinksInverse
    BY DEF Init, TypeOK, LinkType, LinksInverse, MutuallyInverse
  <1>3. ASSUME NEW h \in List
        PROVE  /\ <<>> \in Seq(Item) /\ Forms(<<>>, links, head[h])
               /\ Range(<<>>) = {}
    <2>1. <<>> \in Seq(Item)
      OBVIOUS
    <2>2. NoDuplicates(<<>>) /\ Range(<<>>) = {}
      BY <2>1, EmptyRing
    <2>3. head[h] = NULL
      BY DEF Init
    <2> QED BY <2>1, <2>2, <2>3 DEF Forms
  <1> QED BY <1>1, <1>2, <1>3 DEF Inv, ListsWhole, ListsApart, OthersAlone, InQueue, Init

\* enq of an item that is in no list.
LEMMA EnqStep ==
  ASSUME Inv, NEW x \in Item, NEW h \in List, enq(x, h)
  PROVE  /\ Inv'
         /\ \A g \in List : RingOf(g)' = IF g = h THEN Enq(x, RingOf(g)) ELSE RingOf(g)
  <1> DEFINE ring == RingOf(h)
             e == Enq(x, ring)
  <1>1. /\ NULL \notin Item /\ links \in LinksOf(Item) /\ MutuallyInverse(links, Item)
        /\ head \in [List -> Item \cup {NULL}]
    BY ItemsOK DEF Inv, TypeOK, LinkType, LinksOf, LinksInverse
  <1>2. \A g \in List : x \notin Range(RingOf(g))
    BY DEF enq, InQueue
  <1>3. \A g \in List : RingOf(g) \in Seq(Item) /\ Forms(RingOf(g), links, head[g])
    BY DEF Inv, ListsWhole
  <1>4. links.next[x] = x
    BY <1>2 DEF Inv, OthersAlone, InQueue
  <1>5. /\ links' = EnqLinks(links, x, head[h])
        /\ \A g \in List : head'[g] = IF g = h THEN x ELSE head[g]
        /\ head' \in [List -> Item \cup {NULL}]
    BY <1>1 DEF enq
  <1>6. links' \in LinksOf(Item) /\ MutuallyInverse(links', Item)
    BY <1>1, <1>4, <1>5, EnqLinksInverse
  <1>7. /\ Forms(e, links', x)
        /\ \A y \in Item \ (Range(ring) \cup {x}) : links'.next[y] = links.next[y]
    BY <1>1, <1>2, <1>3, <1>5, EnqForms
  <1>8. e \in Seq(Item) /\ Range(e) = Range(ring) \cup {x}
    BY <1>2, <1>3, EnqMembers DEF Forms
  <1>9. RingOf(h)' = e
    <2> HIDE DEF e
    <2> QED BY <1>5, <1>7, <1>8, RingAtForms, RingsAre
  <1>10. ASSUME NEW g \in List, g # h
         PROVE  RingOf(g)' = RingOf(g) /\ Forms(RingOf(g), links', head'[g])
    <2>1. \A y \in Range(RingOf(g)) : links'.next[y] = links.next[y]
      <3>1. \A y \in Range(RingOf(g)) : y \in Item /\ y # x /\ y \notin Range(ring)
        BY <1>2, <1>3, <1>10, RingMembers DEF Inv, ListsApart, InQueue
      <3> QED BY <1>7, <3>1
    <2>2. Forms(RingOf(g), links', head'[g])
      BY <1>3, <1>5, <1>10, <2>1, FormsKept
    <2> QED BY <1>3, <2>2, RingAtForms, RingsAre
  <1>11. \A g \in List : RingOf(g)' = IF g = h THEN e ELSE RingOf(g)
    BY <1>9, <1>10
  <1>12. ListsWhole'
    <2> HIDE DEF e
    <2>1. ASSUME NEW g \in List PROVE (RingOf(g) \in Seq(Item) /\ Forms(RingOf(g), links, head[g]))'
      BY <1>3, <1>5, <1>7, <1>8, <1>10, <1>11
    <2> QED BY <2>1 DEF ListsWhole
  <1>13. ListsApart'
    <2> HIDE DEF e
    <2> QED BY <1>2, <1>8, <1>11 DEF Inv, ListsApart, InQueue
  <1>14. OthersAlone'
    <2> HIDE DEF e
    <2> QED BY <1>7, <1>8, <1>11 DEF Inv, OthersAlone, InQueue
  <1> QED BY <1>5, <1>6, <1>11, <1>12, <1>13, <1>14
          DEF Inv, TypeOK, LinkType, LinksOf, LinksInverse

\* deq of an item from the list it is in.
LEMMA DeqStep ==
  ASSUME Inv, NEW x \in Item, NEW h \in List, deq(x, h)
  PROVE  /\ Inv'
         /\ \A g \in List : RingOf(g)' = IF g = h THEN Deq(x, RingOf(g)) ELSE RingOf(g)
  <1> DEFINE ring == RingOf(h)
             d == Deq(x, ring)
  <1>1. /\ NULL \notin Item /\ links \in LinksOf(Item) /\ MutuallyInverse(links, Item)
        /\ head \in [List -> Item \cup {NULL}]
    BY ItemsOK DEF Inv, TypeOK, LinkType, LinksOf, LinksInverse
  <1>2. x \in Range(ring)
    BY DEF deq, InQueue
  <1>3. \A g \in List : RingOf(g) \in Seq(Item) /\ Forms(RingOf(g), links, head[g])
    BY DEF Inv, ListsWhole
  <1>4. head[h] \in Item /\ (links.next[head[h]] = head[h] => x = head[h])
    BY <1>2, <1>3, HeadAlone
  <1>5. /\ links' = DeqLinks(links, x, head[h])
        /\ \A g \in List : head'[g] = IF g = h THEN DeqHead(links, x, head[h]) ELSE head[g]
    BY <1>1 DEF deq
  <1>6. links' \in LinksOf(Item) /\ MutuallyInverse(links', Item)
    BY <1>1, <1>4, <1>5, DeqLinksInverse
  <1>7. /\ Forms(d, links', head'[h]) /\ links'.next[x] = x
        /\ \A y \in Item \ Range(ring) : links'.next[y] = links.next[y]
    <2>1. head'[h] = DeqHead(links, x, head[h])
      BY <1>5
    <2> HIDE DEF ring
    <2> QED BY <1>1, <1>2, <1>3, <1>5, <2>1, DeqForms DEF ring
  <1>8. d \in Seq(Item) /\ Range(d) = Range(ring) \ {x}
    BY <1>2, <1>3, DeqMembers DEF Forms
  <1>9. RingOf(h)' = d
    <2> HIDE DEF d
    <2> QED BY <1>7, <1>8, RingAtForms, RingsAre
  <1>10. ASSUME NEW g \in List, g # h
         PROVE  RingOf(g)' = RingOf(g) /\ Forms(RingOf(g), links', head'[g])
    <2>1. \A y \in Range(RingOf(g)) : links'.next[y] = links.next[y]
      <3>1. \A y \in Range(RingOf(g)) : y \in Item /\ y \notin Range(ring)
        BY <1>3, <1>10, RingMembers DEF Inv, ListsApart, InQueue
      <3> QED BY <1>7, <3>1
    <2>2. Forms(RingOf(g), links', head'[g])
      BY <1>3, <1>5, <1>10, <2>1, FormsKept
    <2> QED BY <1>3, <2>2, RingAtForms, RingsAre
  <1>11. \A g \in List : RingOf(g)' = IF g = h THEN d ELSE RingOf(g)
    BY <1>9, <1>10
  <1>12. ListsWhole'
    <2> HIDE DEF d
    <2>1. ASSUME NEW g \in List PROVE (RingOf(g) \in Seq(Item) /\ Forms(RingOf(g), links, head[g]))'
      BY <1>3, <1>5, <1>7, <1>8, <1>10, <1>11
    <2> QED BY <2>1 DEF ListsWhole
  <1>13. ListsApart'
    <2> HIDE DEF d
    <2> QED BY <1>8, <1>11 DEF Inv, ListsApart, InQueue
  <1>14. OthersAlone'
    <2> HIDE DEF d
    <2> QED BY <1>7, <1>8, <1>11 DEF Inv, OthersAlone, InQueue
  <1>15. head' \in [List -> Item \cup {NULL}]
    <2>1. ASSUME NEW g \in List PROVE head'[g] \in Item \cup {NULL}
      <3>1. /\ RingOf(g)' \in Seq(Item)
            /\ head'[g] = IF RingOf(g)' = <<>> THEN NULL ELSE RingOf(g)'[1]
        BY <1>12 DEF ListsWhole, Forms
      <3> QED BY <3>1
    <2>2. head' = [g \in List |-> head'[g]]
      BY <1>1 DEF deq
    <2> QED BY <2>1, <2>2
  <1> QED BY <1>6, <1>11, <1>12, <1>13, <1>14, <1>15
          DEF Inv, TypeOK, LinkType, LinksOf, LinksInverse

\* No step: nothing changes.
LEMMA NoStep ==
  ASSUME Inv, UNCHANGED vars
  PROVE  Inv' /\ \A g \in List : RingOf(g)' = RingOf(g)
  <1>1. \A g \in List : RingOf(g)' = RingOf(g)
    BY DEF vars, RingOf
  <1> QED BY <1>1 DEF vars, Inv, TypeOK, LinksInverse, MutuallyInverse, ListsWhole,
                      ListsApart, OthersAlone, InQueue
\* Every step preserves the invariant.
LEMMA NextInv ==
  ASSUME Inv, [Next]_vars PROVE Inv'
  <1>1. CASE Next
    <2>1. PICK x \in Item, h \in List : enq(x, h) \/ deq(x, h)
      BY <1>1 DEF Next
    <2> QED BY <2>1, EnqStep, DeqStep
  <1>2. CASE UNCHANGED vars
    BY <1>2, NoStep
  <1> QED BY <1>1, <1>2

LEMMA Invariance == Spec => []Inv
  <1>1. Init => Inv
    BY InitInv
  <1>2. Inv /\ [Next]_vars => Inv'
    BY NextInv
  <1> QED BY <1>1, <1>2, PTL DEF Spec

\* Whatever sequence of enq and deq calls is made, every link of an item
\* points to an item and every head pointer to an item or nowhere.
THEOREM TypeCorrect == Spec => []TypeOK
  <1>1. Inv => TypeOK
    BY DEF Inv
  <1> QED BY <1>1, Invariance, PTL

\* next and prev lead back to each other in every list, so that head->prev is
\* the last item met along next: k_recv takes it for the oldest mail
\* (Kernel.c:430).
THEOREM WalkedBothWays == Spec => []LinksInverse
  <1>1. Inv => LinksInverse
    BY DEF Inv
  <1> QED BY <1>1, Invariance, PTL

-----------------------------------------------------------------------------
\* The operators of RingSpec's own copy of module Rings.
LEMMA SameOperators ==
  /\ \A x, r : Abstract!Enq(x, r) = Enq(x, r)
  /\ \A x, r : Abstract!Deq(x, r) = Deq(x, r)
  /\ \A r : Abstract!Range(r) = Range(r)
  BY DEF Abstract!Enq, Enq, Abstract!Cons, Cons, Abstract!Deq, Deq, Abstract!RemoveAt,
         RemoveAt, Abstract!Position, Position, Abstract!Range, Range

\* Every list is, at all times, the abstract queue of the items put in and not
\* yet taken out, the latest at its head: enq and deq do to the links what Put
\* and Take do to the queues, and leave the other lists alone.
THEOREM QueuesImplemented == Spec => ImplementsRings
  <1> DEFINE rings == [h \in List |-> RingOf(h)]
  <1>1. Init => Abstract!Init
    BY InitInv DEF Abstract!Init
  <1>2. ASSUME Inv, [Next]_vars PROVE [Abstract!Next]_rings
    <2>1. CASE Next
      <3>1. PICK x \in Item, h \in List : enq(x, h) \/ deq(x, h)
        BY <2>1 DEF Next
      <3>2. CASE enq(x, h)
        <4>1. \A g \in List : RingOf(g)' = IF g = h THEN Enq(x, RingOf(g)) ELSE RingOf(g)
          BY <1>2, <3>2, EnqStep
        <4>2. rings' = [rings EXCEPT ![h] = Enq(x, @)]
          BY <4>1
        <4>3. ~\E g \in List : x \in Range(rings[g])
          BY <3>2 DEF enq, InQueue
        <4>4. Abstract!Put(x, h)
          BY <4>2, <4>3, SameOperators DEF Abstract!Put, Abstract!Queued
        <4> QED BY <4>4 DEF Abstract!Next
      <3>3. CASE deq(x, h)
        <4>1. \A g \in List : RingOf(g)' = IF g = h THEN Deq(x, RingOf(g)) ELSE RingOf(g)
          BY <1>2, <3>3, DeqStep
        <4>2. rings' = [rings EXCEPT ![h] = Deq(x, @)]
          BY <4>1
        <4>3. x \in Range(rings[h])
          BY <3>3 DEF deq, InQueue
        <4>4. Abstract!Take(x, h)
          BY <4>2, <4>3, SameOperators DEF Abstract!Take
        <4> QED BY <4>4 DEF Abstract!Next
      <3> QED BY <3>1, <3>2, <3>3
    <2>2. CASE UNCHANGED vars
      <3>1. \A g \in List : RingOf(g)' = RingOf(g)
        BY <1>2, <2>2, NoStep
      <3> QED BY <3>1
    <2> QED BY <1>2, <2>1, <2>2
  <1>3. Inv /\ [Next]_vars => [Abstract!Next]_rings
    BY <1>2
  <1> HIDE DEF rings
  <1> QED BY <1>1, <1>3, Invariance, PTL DEF Spec, ImplementsRings, Abstract!Spec, rings
=============================================================================
