---------------------------- MODULE RingTheorems ----------------------------
(***************************************************************************)
(* What the operators of Rings and Links do, for every ring: the lemmas    *)
(* the proofs about Queue and Kernel rest on.                              *)
(***************************************************************************)
EXTENDS Links, Rings, SequenceTheorems, FiniteSetTheorems, WellFoundedInduction, TLAPS

\* A member of a ring stands somewhere in it.
LEMMA PositionFound ==
  ASSUME NEW S, NEW ring \in Seq(S), NEW x \in Range(ring)
  PROVE  Position(x, ring) \in 1..Len(ring) /\ ring[Position(x, ring)] = x
  BY DEF Position, Range

\* The members of a ring are elements of its set.
LEMMA RingMembers ==
  ASSUME NEW S, NEW ring \in Seq(S)
  PROVE  Range(ring) \subseteq S
  BY DEF Range

\* The empty ring has no members, and only it.
LEMMA EmptyRing ==
  ASSUME NEW S, NEW ring \in Seq(S)
  PROVE  /\ Range(ring) = {} <=> ring = <<>>
         /\ NoDuplicates(<<>>) /\ Range(<<>>) = {} /\ <<>> \in Seq(S)
         /\ ring # <<>> => ring[1] \in Range(ring)
  BY DEF Range, NoDuplicates, IsInjective

\* enq puts the new item in front of the others.
LEMMA EnqElements ==
  ASSUME NEW S, NEW ring \in Seq(S), NEW x \in S
  PROVE  /\ Enq(x, ring) \in Seq(S) /\ Len(Enq(x, ring)) = Len(ring) + 1
         /\ \A i \in 1..Len(Enq(x, ring)) :
              Enq(x, ring)[i] = IF i = 1 THEN x ELSE ring[i - 1]
  BY ConcatProperties DEF Enq, Cons

\* enq of a new item: it becomes a member, and the others stay.
LEMMA EnqMembers ==
  ASSUME NEW S, NEW ring \in Seq(S), NEW x \in S, x \notin Range(ring),
         NoDuplicates(ring)
  PROVE  /\ Enq(x, ring) \in Seq(S)
         /\ NoDuplicates(Enq(x, ring))
         /\ Range(Enq(x, ring)) = Range(ring) \cup {x}
  <1> DEFINE e == Enq(x, ring)
  <1>1. /\ e \in Seq(S) /\ Len(e) = Len(ring) + 1
        /\ \A i \in 1..Len(e) : e[i] = IF i = 1 THEN x ELSE ring[i - 1]
    BY EnqElements
  <1> HIDE DEF e
  <1>2. NoDuplicates(e)
    BY <1>1 DEF NoDuplicates, IsInjective, Range
  <1>3. Range(e) = Range(ring) \cup {x}
    <2>1. \A y \in Range(e) : y = x \/ y \in Range(ring)
      BY <1>1 DEF Range
    <2>2. x \in Range(e)
      BY <1>1 DEF Range
    <2>3. ASSUME NEW j \in 1..Len(ring) PROVE ring[j] \in Range(e)
      <3>1. j + 1 \in 1..Len(e) /\ e[j + 1] = ring[j]
        BY <1>1
      <3> QED BY <3>1, <1>1 DEF Range
    <2>4. \A y \in Range(ring) : y \in Range(e)
      BY <2>3 DEF Range
    <2> QED BY <2>1, <2>2, <2>4
  <1> QED BY <1>1, <1>2, <1>3 DEF e

\* deq of a member leaves a gap, which the items after it close.
LEMMA DeqElements ==
  ASSUME NEW S, NEW ring \in Seq(S), NEW x \in Range(ring)
  PROVE  /\ Deq(x, ring) \in Seq(S)
         /\ Len(Deq(x, ring)) = Len(ring) - 1
         /\ \A i \in 1..Len(Deq(x, ring)) :
              Deq(x, ring)[i] = IF i < Position(x, ring) THEN ring[i] ELSE ring[i + 1]
  <1> DEFINE k == Position(x, ring)
             d == Deq(x, ring)
             front == SubSeq(ring, 1, k - 1)
             back == SubSeq(ring, k + 1, Len(ring))
  <1>1. k \in 1..Len(ring) /\ ring[k] = x
    BY PositionFound
  <1>2. Len(ring) \in Nat /\ \A i \in 1..Len(ring) : ring[i] \in S
    OBVIOUS
  <1>d. d = front \o back
    BY DEF Deq, RemoveAt
  <1> HIDE DEF k, d
  <1>3. /\ front \in Seq(S) /\ Len(front) = k - 1
        /\ \A i \in 1..(k - 1) : front[i] = ring[i]
    <2>1. \A i \in 1..(k - 1) : ring[i] \in S
      BY <1>1, <1>2
    <2>2. k - 1 \in Nat
      BY <1>1, <1>2
    <2> HIDE DEF front
    <2>3. /\ front \in Seq(S) /\ Len(front) = IF 1 <= k - 1 THEN k - 1 - 1 + 1 ELSE 0
          /\ \A i \in 1..(k - 1 - 1 + 1) : front[i] = ring[1 + i - 1]
      BY <2>1, <2>2, SubSeqProperties DEF front
    <2> QED BY <2>2, <2>3
  <1>4. /\ back \in Seq(S) /\ Len(back) = Len(ring) - k
        /\ \A i \in 1..(Len(ring) - k) : back[i] = ring[k + i]
    <2>1. \A i \in (k + 1)..Len(ring) : ring[i] \in S
      BY <1>1, <1>2
    <2>2. k + 1 \in Nat /\ Len(ring) - k \in Nat /\ k \in Nat
      BY <1>1, <1>2
    <2> HIDE DEF back
    <2>3. /\ back \in Seq(S)
          /\ Len(back) = IF k + 1 <= Len(ring) THEN Len(ring) - (k + 1) + 1 ELSE 0
          /\ \A i \in 1..(Len(ring) - (k + 1) + 1) : back[i] = ring[k + 1 + i - 1]
      BY <2>1, <2>2, <1>2, SubSeqProperties DEF back
    <2>4. Len(back) = Len(ring) - k
      BY <2>2, <2>3, <1>2
    <2>5. \A i \in 1..(Len(ring) - k) : back[i] = ring[k + i]
      <3>1. Len(ring) - (k + 1) + 1 = Len(ring) - k
        BY <2>2, <1>2
      <3>2. \A i \in 1..(Len(ring) - k) : k + 1 + i - 1 = k + i
        BY <2>2, <1>2
      <3> QED BY <2>3, <3>1, <3>2
    <2> QED BY <2>3, <2>4, <2>5
  <1> HIDE DEF front, back
  <1>5. /\ d \in Seq(S) /\ Len(d) = Len(ring) - 1
        /\ \A i \in 1..Len(d) : d[i] = IF i < k THEN ring[i] ELSE ring[i + 1]
    <2>1. /\ d \in Seq(S) /\ Len(d) = Len(front) + Len(back)
          /\ \A i \in 1..(Len(front) + Len(back)) :
               d[i] = IF i <= Len(front) THEN front[i] ELSE back[i - Len(front)]
      BY <1>3, <1>4, <1>d, ConcatProperties
    <2>2. /\ k \in Nat /\ Len(ring) \in Nat
          /\ Len(front) = k - 1 /\ Len(back) = Len(ring) - k
      BY <1>1, <1>2, <1>3, <1>4
    <2>3. Len(d) = Len(ring) - 1
      BY <2>1, <2>2
    <2>4. ASSUME NEW i \in 1..Len(d), i < k
          PROVE  d[i] = ring[i]
      BY <1>3, <2>1, <2>2, <2>3, <2>4
    <2>5. ASSUME NEW i \in 1..Len(d), ~(i < k)
          PROVE  d[i] = ring[i + 1]
      <3>1. d[i] = back[i - (k - 1)]
        BY <2>1, <2>2, <2>3, <2>5
      <3>2. i - (k - 1) \in 1..(Len(ring) - k) /\ k + (i - (k - 1)) = i + 1
        BY <2>2, <2>3, <2>5
      <3> QED BY <1>4, <3>1, <3>2
    <2> QED BY <2>1, <2>3, <2>4, <2>5
  <1> QED BY <1>5 DEF d, k

\* deq of a member: it leaves, and the others stay.
LEMMA DeqMembers ==
  ASSUME NEW S, NEW ring \in Seq(S), NEW x \in Range(ring), NoDuplicates(ring)
  PROVE  /\ Deq(x, ring) \in Seq(S)
         /\ Len(Deq(x, ring)) = Len(ring) - 1
         /\ NoDuplicates(Deq(x, ring))
         /\ Range(Deq(x, ring)) = Range(ring) \ {x}
  <1> DEFINE k == Position(x, ring)
             d == Deq(x, ring)
  <1>1. k \in 1..Len(ring) /\ ring[k] = x
    BY PositionFound
  <1>2. Len(ring) \in Nat /\ \A i \in 1..Len(ring) : ring[i] \in S
    OBVIOUS
  <1>5. /\ d \in Seq(S) /\ Len(d) = Len(ring) - 1
        /\ \A i \in 1..Len(d) : d[i] = IF i < k THEN ring[i] ELSE ring[i + 1]
    BY DeqElements
  <1> HIDE DEF k, d
  <1>6. NoDuplicates(d)
    BY <1>1, <1>5 DEF NoDuplicates, IsInjective
  <1>7. Range(d) = Range(ring) \ {x}
    <2>1. ASSUME NEW y \in Range(d) PROVE y \in Range(ring) \ {x}
      <3>1. PICK i \in 1..Len(d) : y = d[i]
        BY <1>5 DEF Range
      <3>2. PICK j \in 1..Len(ring) : j # k /\ y = ring[j]
        BY <1>1, <1>2, <1>5, <3>1
      <3> QED BY <1>1, <3>2 DEF Range, NoDuplicates, IsInjective
    <2>2. ASSUME NEW y \in Range(ring) \ {x} PROVE y \in Range(d)
      <3>1. PICK j \in 1..Len(ring) : ring[j] = y /\ j # k
        BY <1>1, <2>2 DEF Range
      <3>2. CASE j < k
        BY <1>1, <1>5, <3>1, <3>2 DEF Range
      <3>3. CASE j > k
        <4>1. j - 1 \in 1..Len(d) /\ d[j - 1] = y
          BY <1>1, <1>5, <3>1, <3>3
        <4> QED BY <4>1, <1>5 DEF Range
      <3> QED BY <1>1, <3>1, <3>2, <3>3
    <2> QED BY <2>1, <2>2
  <1> QED BY <1>5, <1>6, <1>7 DEF d

\* deq from a ring of one leaves nothing.
LEMMA DeqAlone ==
  ASSUME NEW S, NEW ring \in Seq(S), NEW x \in Range(ring),
         NoDuplicates(ring), Len(ring) = 1
  PROVE  Deq(x, ring) = <<>> /\ Range(ring) = {x}
  <1>1. Range(ring) = {x}
    BY DEF Range
  <1>2. Range(Deq(x, ring)) = {} /\ Deq(x, ring) \in Seq(S)
    BY <1>1, DeqMembers
  <1> QED BY <1>1, <1>2, EmptyRing

\* The item after a member is a member, and another one unless it is alone.
LEMMA FollowingMember ==
  ASSUME NEW S, NEW ring \in Seq(S), NEW x \in Range(ring), NoDuplicates(ring)
  PROVE  /\ Following(x, ring) \in Range(ring)
         /\ Len(ring) # 1 => Following(x, ring) # x
  <1> DEFINE k == Position(x, ring)
             i == IF k = Len(ring) THEN 1 ELSE k + 1
  <1>1. k \in 1..Len(ring) /\ ring[k] = x /\ Len(ring) \in Nat
    BY PositionFound
  <1>2. Following(x, ring) = ring[i]
    BY DEF Following
  <1> HIDE DEF k
  <1>3. i \in 1..Len(ring) /\ (Len(ring) # 1 => i # k)
    BY <1>1
  <1> HIDE DEF i
  <1> QED BY <1>1, <1>2, <1>3 DEF Range, NoDuplicates, IsInjective

\* next is a bijection of the ring.
LEMMA FollowingBijective ==
  ASSUME NEW S, NEW ring \in Seq(S), NoDuplicates(ring)
  PROVE  \A x \in Range(ring) :
           /\ Following(x, ring) \in Range(ring)
           /\ \E y \in Range(ring) : Following(y, ring) = x
           /\ \A y \in Range(ring) : Following(y, ring) = Following(x, ring) => y = x
  <1> DEFINE n == Len(ring)
             pos(x) == Position(x, ring)
             after(i) == IF i = n THEN 1 ELSE i + 1
  <1>1. ASSUME NEW x \in Range(ring)
        PROVE  /\ pos(x) \in 1..n /\ ring[pos(x)] = x
               /\ Following(x, ring) = ring[after(pos(x))]
               /\ after(pos(x)) \in 1..n
    <2>1. pos(x) \in 1..n /\ ring[pos(x)] = x
      BY PositionFound
    <2> HIDE DEF pos
    <2>2. after(pos(x)) \in 1..n
      BY <2>1
    <2> QED BY <2>1, <2>2 DEF Following, pos
  <1>2. \A i \in 1..n, j \in 1..n : ring[i] = ring[j] => i = j
    BY DEF NoDuplicates, IsInjective
  <1>3. \A i \in 1..n : ring[i] \in Range(ring) /\ pos(ring[i]) = i
    <2>1. \A i \in 1..n : ring[i] \in Range(ring)
      BY DEF Range
    <2> HIDE DEF pos
    <2> QED BY <1>1, <1>2, <2>1
  <1> HIDE DEF pos
  <1>4. ASSUME NEW x \in Range(ring) PROVE \E y \in Range(ring) : Following(y, ring) = x
    <2> DEFINE i == IF pos(x) = 1 THEN n ELSE pos(x) - 1
    <2>1. i \in 1..n /\ after(i) = pos(x)
      BY <1>1
    <2> HIDE DEF i, after
    <2>2. ring[i] \in Range(ring) /\ Following(ring[i], ring) = x
      BY <1>1, <1>3, <2>1
    <2> QED BY <2>2
  <1>5. ASSUME NEW x \in Range(ring), NEW y \in Range(ring),
               Following(y, ring) = Following(x, ring)
        PROVE  y = x
    <2>1. after(pos(x)) = after(pos(y))
      <3> HIDE DEF after
      <3> QED BY <1>1, <1>2, <1>5
    <2>2. pos(x) \in 1..n /\ pos(y) \in 1..n
      BY <1>1
    <2>3. pos(x) = pos(y)
      BY <2>1, <2>2
    <2>4. ring[pos(x)] = x /\ ring[pos(y)] = y
      BY <1>1
    <2> QED BY <2>3, <2>4
  <1>6. \A x \in Range(ring) : Following(x, ring) \in Range(ring)
    <2> HIDE DEF after
    <2> QED BY <1>1, <1>3
  <1> QED BY <1>4, <1>5, <1>6

\* A nonempty set of priorities has a highest.
LEMMA HighestExists ==
  ASSUME NEW n \in Nat, NEW T \in SUBSET (1..n), T # {}
  PROVE  Max(T) \in T /\ \A k \in T : k <= Max(T)
  <1> DEFINE U == {m \in Nat : n - m \in T}
             Less == OpToRel(<, Nat)
  <1>1. PICK x \in U : \A y \in U : ~(<<y, x>> \in Less)
    <2>1. U \subseteq Nat
      OBVIOUS
    <2>2. U # {}
      <3>1. PICK k \in T : k \in 1..n
        OBVIOUS
      <3>2. n - k \in Nat /\ n - (n - k) = k
        BY <3>1
      <3> QED BY <3>2
    <2> HIDE DEF U, Less
    <2>3. IsWellFoundedOn(Less, Nat)
      BY NatLessThanWellFounded DEF Less
    <2> QED BY <2>1, <2>2, <2>3, WFMin
  <1>2. ASSUME NEW k \in T PROVE n - x >= k
    <2>1. n - k \in Nat /\ n - (n - k) = k /\ k \in Int
      OBVIOUS
    <2>2. ~(n - k < x)
      BY <1>1, <2>1 DEF OpToRel
    <2> QED BY <2>1, <2>2
  <1>3. \E y \in T : \A k \in T : y >= k
    BY <1>1, <1>2
  <1>4. Max(T) \in T /\ \A k \in T : Max(T) >= k
    BY <1>3 DEF Max
  <1> QED BY <1>4

\* ... and a lowest.
LEMMA LowestExists ==
  ASSUME NEW n \in Nat, NEW T \in SUBSET (1..n), T # {}
  PROVE  Min(T) \in T
  <1> DEFINE Less == OpToRel(<, Nat)
  <1>1. PICK x \in T : \A y \in T : ~(<<y, x>> \in Less)
    <2>1. T \subseteq Nat
      OBVIOUS
    <2> HIDE DEF Less
    <2>2. IsWellFoundedOn(Less, Nat)
      BY NatLessThanWellFounded DEF Less
    <2> QED BY <2>1, <2>2, WFMin
  <1>2. \A y \in T : x <= y
    <2>1. ASSUME NEW y \in T PROVE ~(y < x)
      <3>1. x \in Nat /\ y \in Nat
        OBVIOUS
      <3> QED BY <1>1, <3>1 DEF OpToRel
    <2> QED BY <2>1
  <1> QED BY <1>2 DEF Min

\* A sequence without duplicates is its head and, in another place, its tail.
LEMMA HeadTailMembers ==
  ASSUME NEW S, NEW ring \in Seq(S), ring # <<>>, NoDuplicates(ring)
  PROVE  /\ Head(ring) \in S /\ Tail(ring) \in Seq(S)
         /\ NoDuplicates(Tail(ring))
         /\ Range(ring) = Range(Tail(ring)) \cup {Head(ring)}
         /\ Head(ring) \notin Range(Tail(ring))
  <1>1. /\ Head(ring) = ring[1] /\ Head(ring) \in S
        /\ Tail(ring) \in Seq(S) /\ Len(Tail(ring)) = Len(ring) - 1
        /\ \A i \in 1..Len(Tail(ring)) : Tail(ring)[i] = ring[i + 1]
    BY HeadTailProperties
  <1> DEFINE t == Tail(ring)
  <1> HIDE DEF t
  <1>2. /\ t \in Seq(S) /\ Len(t) = Len(ring) - 1 /\ Len(ring) \in Nat
        /\ \A i \in 1..Len(t) : i + 1 \in 1..Len(ring) /\ t[i] = ring[i + 1]
    BY <1>1 DEF t
  <1>3. NoDuplicates(t)
    <2>1. ASSUME NEW a \in 1..Len(t), NEW b \in 1..Len(t), t[a] = t[b]
          PROVE  a = b
      <3>1. ring[a + 1] = ring[b + 1] /\ a + 1 \in 1..Len(ring) /\ b + 1 \in 1..Len(ring)
        BY <1>2, <2>1
      <3>2. a + 1 = b + 1
        BY <3>1 DEF NoDuplicates, IsInjective
      <3> QED BY <1>2, <3>2
    <2> QED BY <1>2, <2>1 DEF NoDuplicates, IsInjective
  <1>4. ring[1] \notin Range(t)
    BY <1>2, SMTT(30) DEF NoDuplicates, IsInjective, Range
  <1>5. \A x \in Range(t) : x \in Range(ring)
    BY <1>2 DEF Range
  <1>6. \A x \in Range(ring) : x = ring[1] \/ x \in Range(t)
    <2>1. ASSUME NEW j \in 1..Len(ring), j # 1 PROVE ring[j] \in Range(t)
      <3>1. j - 1 \in 1..Len(t) /\ t[j - 1] = ring[j]
        BY <1>2, <2>1
      <3> QED BY <1>2, <3>1 DEF Range
    <2> QED BY <2>1 DEF Range
  <1> QED BY <1>1, <1>3, <1>4, <1>5, <1>6, EmptyRing DEF t

-----------------------------------------------------------------------------
\* The links of a set of items.
LinksOf(items) == [next : [items -> items], prev : [items -> items]]

\* enq of an item that is alone, through any head: rings stay rings.
LEMMA EnqLinksInverse ==
  ASSUME NEW items, NULL \notin items,
         NEW links \in LinksOf(items), MutuallyInverse(links, items),
         NEW x \in items, links.next[x] = x,
         NEW head \in items \cup {NULL}
  PROVE  /\ EnqLinks(links, x, head) \in LinksOf(items)
         /\ MutuallyInverse(EnqLinks(links, x, head), items)
  <1>1. /\ links.next \in [items -> items] /\ links.prev \in [items -> items]
        /\ links.prev[x] = x
    BY DEF LinksOf, MutuallyInverse
  <1>2. CASE head = NULL
    BY <1>1, <1>2 DEF EnqLinks, SelfLinked, LinksOf, MutuallyInverse
  <1>3. CASE head \in items
    <2> DEFINE last == links.prev[head]
               new == EnqLinks(links, x, head)
    <2>1. /\ new.next = [links.next EXCEPT ![x] = head, ![last] = x]
          /\ new.prev = [links.prev EXCEPT ![x] = last, ![head] = x]
          /\ new = [next |-> new.next, prev |-> new.prev]
      BY <1>3 DEF EnqLinks
    <2>2. last \in items /\ links.next[last] = head
      BY <1>1, <1>3 DEF MutuallyInverse
    <2> HIDE DEF new, last
    <2>3. new.next \in [items -> items] /\ new.prev \in [items -> items]
      BY <1>1, <1>3, <2>1, <2>2
    <2>4. new \in LinksOf(items)
      BY <2>1, <2>3 DEF LinksOf
    <2>5. \A i \in items : new.prev[new.next[i]] = i
      BY <1>1, <1>3, <2>1, <2>2 DEF MutuallyInverse
    <2>6. \A i \in items : new.next[new.prev[i]] = i
      BY <1>1, <1>3, <2>1, <2>2 DEF MutuallyInverse
    <2> QED BY <2>4, <2>5, <2>6 DEF new, MutuallyInverse
  <1> QED BY <1>2, <1>3

\* deq of an item through a head of its own ring: rings stay rings, and the
\* item is alone.  (A head alone in its ring must be the item itself.)
LEMMA DeqLinksInverse ==
  ASSUME NEW items, NULL \notin items,
         NEW links \in LinksOf(items), MutuallyInverse(links, items),
         NEW x \in items, NEW head \in items,
         links.next[head] = head => x = head
  PROVE  /\ DeqLinks(links, x, head) \in LinksOf(items)
         /\ MutuallyInverse(DeqLinks(links, x, head), items)
         /\ DeqLinks(links, x, head).next[x] = x
  <1> DEFINE before == links.prev[x]
             after  == links.next[x]
             new == DeqLinks(links, x, head)
  <1>1. /\ links.next \in [items -> items] /\ links.prev \in [items -> items]
        /\ before \in items /\ after \in items
        /\ links.next[before] = x /\ links.prev[after] = x
    BY DEF LinksOf, MutuallyInverse
  <1>2. /\ new.next = [[links.next EXCEPT ![before] = after] EXCEPT ![x] = x]
        /\ new.prev = [[links.prev EXCEPT ![after] = before] EXCEPT ![x] = x]
        /\ new = [next |-> new.next, prev |-> new.prev]
    <2>1. CASE links.next[head] = head
      <3>1. x = head /\ after = x /\ before = x
        BY <1>1, <2>1 DEF MutuallyInverse
      <3> QED BY <1>1, <2>1, <3>1 DEF DeqLinks, SelfLinked
    <2>2. CASE links.next[head] # head
      BY <2>2 DEF DeqLinks, SelfLinked, Unlinked
    <2> QED BY <2>1, <2>2
  <1> HIDE DEF new, before, after
  <1>3. new.next \in [items -> items] /\ new.prev \in [items -> items]
    BY <1>1, <1>2
  <1>4. new \in LinksOf(items) /\ new.next[x] = x
    BY <1>1, <1>2, <1>3 DEF LinksOf
  <1>5. \A i \in items : new.prev[new.next[i]] = i
    BY <1>1, <1>2 DEF MutuallyInverse, before, after
  <1>6. \A i \in items : new.next[new.prev[i]] = i
    BY <1>1, <1>2 DEF MutuallyInverse, before, after
  <1> QED BY <1>4, <1>5, <1>6 DEF new, MutuallyInverse

-----------------------------------------------------------------------------
(* The ring a head pointer leads to, as a sequence.                        *)

\* The items of ring are linked one after the other, the last to the first,
\* and the head pointer points to the first.
Forms(ring, links, head) ==
  /\ NoDuplicates(ring)
  /\ head = IF ring = <<>> THEN NULL ELSE ring[1]
  /\ \A i \in 1..Len(ring) :
       links.next[ring[i]] = IF i = Len(ring) THEN ring[1] ELSE ring[i + 1]

\* A ring none of whose links changes stays.
LEMMA FormsKept ==
  ASSUME NEW S, NEW ring \in Seq(S), NEW links, NEW head, Forms(ring, links, head),
         NEW new, \A y \in Range(ring) : new.next[y] = links.next[y]
  PROVE  Forms(ring, new, head)
  BY DEF Forms, Range

\* The head that points to itself is alone in its ring.
LEMMA HeadAlone ==
  ASSUME NEW S, NEW ring \in Seq(S), NEW links, NEW head, Forms(ring, links, head),
         NEW x \in Range(ring)
  PROVE  head \in S /\ (links.next[head] = head => x = head)
  <1>1. ring # <<>> /\ head = ring[1] /\ head \in S
    BY EmptyRing DEF Forms, Range
  <1>2. ASSUME links.next[head] = head PROVE Len(ring) = 1
    <2>1. 1 \in 1..Len(ring) /\ Len(ring) \in Nat
      BY <1>1
    <2>2. CASE Len(ring) # 1
      <3>a. \A i \in 1..Len(ring) :
               links.next[ring[i]] = IF i = Len(ring) THEN ring[1] ELSE ring[i + 1]
        BY DEF Forms
      <3>b. links.next[ring[1]] = ring[1 + 1]
        BY <2>1, <2>2, <3>a
      <3>c. 2 \in 1..Len(ring)
        <4> DEFINE L == Len(ring)
        <4>1. L \in Nat /\ L # 0 /\ L # 1
          BY <2>1, <2>2
        <4> HIDE DEF L
        <4>2. 2 \in 1..L
          BY <4>1
        <4> QED BY <4>2 DEF L
      <3>1. ring[2] = ring[1] /\ 2 \in 1..Len(ring)
        BY <1>1, <1>2, <3>b, <3>c
      <3> QED BY <2>1, <3>1 DEF Forms, NoDuplicates, IsInjective
    <2> QED BY <2>2
  <1> QED BY <1>1, <1>2 DEF Range

\* The item before the head is the last, before another the one before it.
LEMMA FormsPrev ==
  ASSUME NEW items, NEW links \in LinksOf(items), MutuallyInverse(links, items),
         NEW ring \in Seq(items), NEW head, Forms(ring, links, head),
         NEW i \in 1..Len(ring)
  PROVE  links.prev[ring[i]] = IF i = 1 THEN ring[Len(ring)] ELSE ring[i - 1]
  <1>1. CASE i = 1
    <2>1. Len(ring) \in 1..Len(ring) /\ links.next[ring[Len(ring)]] = ring[1]
      BY DEF Forms
    <2> QED BY <1>1, <2>1 DEF MutuallyInverse
  <1>2. CASE i # 1
    <2>1. i - 1 \in 1..Len(ring) /\ links.next[ring[i - 1]] = ring[i]
      <3>1. i - 1 \in 1..Len(ring) /\ i - 1 # Len(ring) /\ (i - 1) + 1 = i
        BY <1>2
      <3> QED BY <3>1 DEF Forms
    <2> QED BY <1>2, <2>1 DEF MutuallyInverse
  <1> QED BY <1>1, <1>2

\* enq puts the item in front of the ring, and no other ring changes.
LEMMA EnqForms ==
  ASSUME NEW items, NULL \notin items,
         NEW links \in LinksOf(items), MutuallyInverse(links, items),
         NEW ring \in Seq(items), NEW head, Forms(ring, links, head),
         NEW x \in items, x \notin Range(ring)
  PROVE  /\ Forms(Enq(x, ring), EnqLinks(links, x, head), x)
         /\ \A y \in items \ (Range(ring) \cup {x}) :
              EnqLinks(links, x, head).next[y] = links.next[y]
  <1> DEFINE e == Enq(x, ring)
             new == EnqLinks(links, x, head)
  <1>a. /\ e \in Seq(items) /\ Len(e) = Len(ring) + 1
        /\ \A i \in 1..Len(e) : e[i] = IF i = 1 THEN x ELSE ring[i - 1]
    <2> HIDE DEF new
    <2> QED BY EnqElements
  <1>1. /\ e \in Seq(items) /\ Len(e) = Len(ring) + 1 /\ Len(ring) \in Nat
        /\ \A i \in 1..Len(e) : e[i] = IF i = 1 THEN x ELSE ring[i - 1]
    <2> HIDE DEF e, new
    <2> QED BY <1>a
  <1>2. NoDuplicates(e)
    BY EnqMembers DEF Forms
  <1>3. links.next \in [items -> items]
    BY DEF LinksOf
  <1>4. CASE ring = <<>>
    <2>1. head = NULL /\ new.next = [links.next EXCEPT ![x] = x]
      BY <1>4 DEF Forms, EnqLinks, SelfLinked
    <2>2. Len(e) = 1 /\ e[1] = x
      BY <1>1, <1>4
    <2> HIDE DEF e, new
    <2> QED BY <1>2, <1>3, <2>1, <2>2 DEF Forms, e, new
  <1>5. CASE ring # <<>>
    <2> DEFINE last == ring[Len(ring)]
    <2>1. head = ring[1] /\ head \in items /\ links.prev[head] = last /\ last \in items
      <3>1. head = ring[1] /\ 1 \in 1..Len(ring) /\ Len(ring) \in 1..Len(ring)
        BY <1>5 DEF Forms
      <3> QED BY <3>1, FormsPrev
    <2>2. new.next = [links.next EXCEPT ![x] = head, ![last] = x]
      BY <2>1 DEF EnqLinks
    <2>3. x # last /\ last \in Range(ring)
      BY <1>5 DEF Range
    <2> HIDE DEF e, new, last
    <2>4. /\ new.next[x] = head /\ new.next[last] = x
          /\ \A y \in items : y # x /\ y # last => new.next[y] = links.next[y]
      BY <1>3, <2>1, <2>2, <2>3
    <2>5. ASSUME NEW i \in 1..Len(e)
          PROVE  new.next[e[i]] = IF i = Len(e) THEN e[1] ELSE e[i + 1]
      <3>1. CASE i = 1
        BY <1>1, <1>5, <2>1, <2>4, <3>1
      <3>2. CASE i # 1 /\ i # Len(e)
        <4>1. i - 1 \in 1..Len(ring) /\ i - 1 # Len(ring) /\ e[i] = ring[i - 1]
              /\ e[i + 1] = ring[(i - 1) + 1]
          BY <1>1, <3>2
        <4>2. e[i] # last /\ e[i] # x /\ e[i] \in items
          BY <1>1, <4>1 DEF Forms, NoDuplicates, IsInjective, Range, last
        <4>3. links.next[e[i]] = e[i + 1]
          BY <4>1 DEF Forms
        <4> QED BY <2>4, <3>2, <4>2, <4>3
      <3>3. CASE i # 1 /\ i = Len(e)
        <4>1. e[i] = last /\ e[1] = x
          BY <1>1, <3>3 DEF last
        <4> QED BY <2>4, <3>3, <4>1
      <3> QED BY <3>1, <3>2, <3>3
    <2>6. e # <<>> /\ e[1] = x
      BY <1>1
    <2> QED BY <1>2, <2>3, <2>4, <2>5, <2>6 DEF Forms, e, new
  <1> QED BY <1>4, <1>5

\* deq takes the item out of its ring and leaves it alone; the head moves on if
\* it was the item, and no other ring changes.
LEMMA DeqForms ==
  ASSUME NEW items, NULL \notin items,
         NEW links \in LinksOf(items), MutuallyInverse(links, items),
         NEW ring \in Seq(items), NEW head, Forms(ring, links, head),
         NEW x \in Range(ring)
  PROVE  /\ Forms(Deq(x, ring), DeqLinks(links, x, head), DeqHead(links, x, head))
         /\ DeqLinks(links, x, head).next[x] = x
         /\ \A y \in items \ Range(ring) : DeqLinks(links, x, head).next[y] = links.next[y]
  <1> DEFINE d == Deq(x, ring)
             k == Position(x, ring)
             new == DeqLinks(links, x, head)
             hd == DeqHead(links, x, head)
             L == Len(ring)
  <1>1. k \in 1..L /\ ring[k] = x /\ L \in Nat /\ \A i \in 1..L : ring[i] \in items
    BY PositionFound
  <1>2. ring # <<>> /\ head = ring[1] /\ head \in items /\ NULL # head
    BY <1>1 DEF Forms
  <1>3. links.next \in [items -> items] /\ links.prev \in [items -> items]
    BY DEF LinksOf
  <1>4. \A i, j \in 1..L : ring[i] = ring[j] => i = j
    BY DEF Forms, NoDuplicates, IsInjective
  <1>5. \A i \in 1..L : links.next[ring[i]] = IF i = L THEN ring[1] ELSE ring[i + 1]
    BY DEF Forms
  <1>6. d \in Seq(items) /\ Len(d) = L - 1 /\ NoDuplicates(d)
    BY DeqMembers DEF Forms
  <1>7. \A i \in 1..Len(d) : d[i] = IF i < k THEN ring[i] ELSE ring[i + 1]
    BY DeqElements
  <1> HIDE DEF d, k, L
  <1>8. CASE L = 1
    <2>1. links.next[head] = head /\ k = 1 /\ x = head
      BY <1>1, <1>2, <1>5, <1>8
    <2>2. new.next = [links.next EXCEPT ![x] = x] /\ hd = NULL
      BY <1>2, <2>1 DEF DeqLinks, DeqHead, SelfLinked
    <2>3. d = <<>>
      BY <1>6, <1>8
    <2>4. \A y \in items : new.next[y] = IF y = x THEN x ELSE links.next[y]
      BY <1>3, <2>2
    <2> HIDE DEF new, hd
    <2>5. Forms(d, new, hd)
      BY <1>6, <2>2, <2>3 DEF Forms
    <2>6. x \in items /\ x \in Range(ring)
      BY <1>1
    <2> QED BY <2>4, <2>5, <2>6 DEF d, new, hd
  <1>9. CASE L # 1
    <2> DEFINE b == IF k = 1 THEN L ELSE k - 1
               before == ring[b]
               after == IF k = L THEN ring[1] ELSE ring[k + 1]
    <2>1. links.next[head] # head
      <3>1. 1 \in 1..L /\ 2 \in 1..L /\ links.next[head] = ring[2]
        BY <1>1, <1>2, <1>5, <1>9
      <3> QED BY <1>2, <1>4, <3>1
    <2>2. links.prev[x] = before /\ links.next[x] = after
      <3>1. links.prev[ring[k]] = IF k = 1 THEN ring[L] ELSE ring[k - 1]
        BY <1>1, FormsPrev DEF L
      <3> QED BY <1>1, <1>5, <3>1
    <2>3. b \in 1..L /\ b # k
      BY <1>1, <1>9
    <2>4. before \in items /\ after \in items /\ before # x
      <3> HIDE DEF new, hd, b
      <3>1. before \in items /\ before # x
        <4>1. ring[b] \in items /\ ring[b] # ring[k]
          BY <1>1, <1>4, <2>3
        <4> QED BY <1>1, <4>1
      <3>2. 1 \in 1..L /\ (k # L => k + 1 \in 1..L)
        BY <1>1
      <3> QED BY <1>1, <3>1, <3>2
    <2>5. new.next = [[links.next EXCEPT ![before] = after] EXCEPT ![x] = x]
      <3> HIDE DEF before, after, hd
      <3> QED BY <1>2, <2>1, <2>2 DEF DeqLinks, SelfLinked, Unlinked
    <2>6. hd = IF x = head THEN after ELSE head
      BY <1>2, <2>1, <2>2 DEF DeqHead
    <2>7. \A y \in items : new.next[y] = IF y = x THEN x
                                         ELSE IF y = before THEN after ELSE links.next[y]
      <3> HIDE DEF new, before, after
      <3> QED BY <1>1, <1>3, <2>4, <2>5
    <2> HIDE DEF new, hd
    <2>8. ASSUME NEW i \in 1..Len(d)
          PROVE  new.next[d[i]] = IF i = Len(d) THEN d[1] ELSE d[i + 1]
      <3> DEFINE j == IF i < k THEN i ELSE i + 1
                 n == IF i = Len(d) THEN 1 ELSE i + 1
      <3>1. j \in 1..L /\ j # k /\ d[i] = ring[j]
        BY <1>1, <1>6, <1>7
      <3>2. n \in 1..Len(d) /\ d[n] = IF n < k THEN ring[n] ELSE ring[n + 1]
        BY <1>1, <1>6, <1>7
      <3>3. ring[j] # x /\ ring[j] \in items
        BY <1>1, <1>4, <3>1
      <3>4. CASE j = b
        <4>1. new.next[d[i]] = after
          BY <2>7, <3>1, <3>3, <3>4
        <4>2. d[n] = after
          BY <1>1, <1>6, <1>9, <3>2, <3>4
        <4> QED BY <4>1, <4>2
      <3>5. CASE j # b
        <4>1. ring[j] # before
          BY <1>4, <2>3, <3>1, <3>5
        <4>2. new.next[d[i]] = links.next[ring[j]]
          BY <2>7, <3>1, <3>3, <4>1
        <4>3. links.next[ring[j]] = IF j = L THEN ring[1] ELSE ring[j + 1]
          BY <1>5, <3>1
        <4>4. (IF j = L THEN ring[1] ELSE ring[j + 1]) = d[n]
          BY <1>1, <1>6, <3>2, <3>5
        <4> QED BY <4>2, <4>3, <4>4
      <3> QED BY <3>4, <3>5
    <2>9. d # <<>> /\ hd = d[1]
      <3>1. d # <<>> /\ 1 \in 1..Len(d)
        BY <1>1, <1>6, <1>9
      <3>2. d[1] = IF 1 < k THEN ring[1] ELSE ring[2]
        BY <1>7, <3>1
      <3>3. x = head <=> k = 1
        BY <1>1, <1>2, <1>4
      <3> QED BY <1>1, <1>2, <1>9, <2>6, <3>1, <3>2, <3>3
    <2>10. Forms(d, new, hd)
      BY <1>6, <2>8, <2>9 DEF Forms
    <2>11. x \in items /\ before \in Range(ring)
      <3> HIDE DEF b
      <3> QED BY <1>1, <2>3 DEF Range, L
    <2> QED BY <2>7, <2>10, <2>11 DEF d, new, hd
  <1> QED BY <1>8, <1>9

\* A remainder is known by its range and the quotient.
LEMMA RemainderUnique ==
  ASSUME NEW n \in Nat \ {0}, NEW q \in Nat, NEW k \in 0..(n - 1)
  PROVE  (n * q + k) % n = k
  <1> DEFINE r == (n * q + k) % n
             p == (n * q + k) \div n
  <1>1. r \in 0..(n - 1) /\ p \in Int /\ n * q + k = n * p + r
    OBVIOUS
  <1> HIDE DEF r, p
  <1>2. ASSUME NEW d \in Int, d >= 1 PROVE n * d >= n
    BY <1>2
  <1>3. q - p \in Int /\ p - q \in Int /\ n * (q - p) = r - k /\ n * (p - q) = k - r
    BY <1>1
  <1>4. ~(q - p >= 1) /\ ~(p - q >= 1)
    BY <1>1, <1>2, <1>3
  <1>5. q = p
    BY <1>1, <1>4
  <1>6. r = k
    BY <1>1, <1>5
  <1> QED BY <1>6 DEF r

\* The step of a walk around a ring of n items.
LEMMA WalkStep ==
  ASSUME NEW n \in Nat \ {0}, NEW i \in Nat \ {0}
  PROVE  /\ (i - 1) % n \in 0..(n - 1)
         /\ i % n = IF (i - 1) % n = n - 1 THEN 0 ELSE ((i - 1) % n) + 1
  <1> DEFINE r == (i - 1) % n
             q == (i - 1) \div n
  <1>1. i - 1 \in Nat
    OBVIOUS
  <1>2. r \in 0..(n - 1) /\ q \in Nat /\ i - 1 = n * q + r
    BY <1>1
  <1> HIDE DEF r, q
  <1>3. CASE r = n - 1
    <2>1. i = n * (q + 1) + 0 /\ q + 1 \in Nat /\ 0 \in 0..(n - 1)
      BY <1>2, <1>3
    <2> QED BY <1>2, <1>3, <2>1, RemainderUnique DEF r
  <1>4. CASE r # n - 1
    <2>1. i = n * q + (r + 1) /\ r + 1 \in 0..(n - 1)
      BY <1>2, <1>4
    <2> QED BY <1>2, <1>4, <2>1, RemainderUnique DEF r
  <1> QED BY <1>3, <1>4

\* f gives the places on a walk of n steps from the head.
IsWalk(f, links, head, n) ==
  f = [i \in 0..n |-> IF i = 0 THEN head ELSE links.next[f[i - 1]]]

LEMMA WalkIs ==
  ASSUME NEW links, NEW head, NEW n
  PROVE  Walk(links, head, n) = CHOOSE f : IsWalk(f, links, head, n)
  BY DEF Walk, IsWalk

\* The places are determined, step by step.
LEMMA WalkUnique ==
  ASSUME NEW links, NEW head, NEW n \in Nat,
         NEW f, IsWalk(f, links, head, n), NEW g, IsWalk(g, links, head, n)
  PROVE  f = g
  <1> DEFINE Less == OpToRel(<, Nat)
             T == {i \in 0..n : f[i] # g[i]}
  <1>1. /\ f = [i \in 0..n |-> f[i]] /\ g = [i \in 0..n |-> g[i]]
        /\ \A i \in 0..n : /\ f[i] = IF i = 0 THEN head ELSE links.next[f[i - 1]]
                           /\ g[i] = IF i = 0 THEN head ELSE links.next[g[i - 1]]
    BY DEF IsWalk
  <1>2. CASE T = {}
    BY <1>1, <1>2
  <1>3. CASE T # {}
    <2>1. PICK i \in T : \A y \in T : ~(<<y, i>> \in Less)
      <3>1. T \subseteq Nat
        OBVIOUS
      <3> HIDE DEF Less, T
      <3>2. IsWellFoundedOn(Less, Nat)
        BY NatLessThanWellFounded DEF Less
      <3> QED BY <1>3, <3>1, <3>2, WFMin
    <2>2. i \in 0..n /\ f[i] # g[i] /\ i # 0
      BY <1>1
    <2>3. i - 1 \in 0..n /\ i - 1 \in Nat /\ i \in Nat /\ i - 1 < i
      BY <2>2
    <2>4. <<i - 1, i>> \in Less
      BY <2>3 DEF OpToRel
    <2>5. f[i - 1] = g[i - 1]
      BY <2>1, <2>3, <2>4
    <2> QED BY <1>1, <2>2, <2>5
  <1> QED BY <1>2, <1>3

\* The items of n steps round and round the ring.
Rounds(ring, n) == [i \in 0..n |-> ring[(i % Len(ring)) + 1]]

\* A walk from the head goes round and round the ring.
LEMMA WalkForms ==
  ASSUME NEW S, NEW ring \in Seq(S), ring # <<>>, NEW links, NEW head,
         Forms(ring, links, head), NEW n \in Nat
  PROVE  Walk(links, head, n) = Rounds(ring, n)
  <1> DEFINE round == [i \in 0..n |-> ring[(i % Len(ring)) + 1]]
  <1>1. IsWalk(round, links, head, n)
    <2> DEFINE L == Len(ring)
    <2>1. L \in Nat \ {0}
      OBVIOUS
    <2>2. ASSUME NEW i \in 0..n
          PROVE  round[i] = IF i = 0 THEN head ELSE links.next[round[i - 1]]
      <3>1. CASE i = 0
        <4>1. i % L = 0
          BY <2>1, <3>1
        <4> QED BY <2>1, <3>1, <4>1 DEF Forms
      <3>2. CASE i # 0
        <4> DEFINE j == ((i - 1) % L) + 1
        <4>1. j \in 1..L /\ (i % L) + 1 = IF j = L THEN 1 ELSE j + 1
          <5>1. i \in Nat \ {0}
            BY <3>2
          <5> HIDE DEF L
          <5>2. /\ (i - 1) % L \in 0..(L - 1)
                /\ i % L = IF (i - 1) % L = L - 1 THEN 0 ELSE ((i - 1) % L) + 1
            BY <2>1, <5>1, WalkStep
          <5> QED BY <2>1, <5>2
        <4>2. i - 1 \in 0..n /\ round[i - 1] = ring[j]
          BY <3>2
        <4> HIDE DEF j
        <4>3. links.next[ring[j]] = IF j = L THEN ring[1] ELSE ring[j + 1]
          BY <4>1 DEF Forms
        <4> QED BY <3>2, <4>1, <4>2, <4>3
      <3> QED BY <3>1, <3>2
    <2>3. round = [i \in 0..n |-> round[i]]
      OBVIOUS
    <2> HIDE DEF round
    <2> QED BY <2>2, <2>3 DEF IsWalk
  <1> HIDE DEF round
  <1>2. \A f : IsWalk(f, links, head, n) => f = round
    BY <1>1, WalkUnique
  <1>3. Walk(links, head, n) = round
    BY <1>1, <1>2, WalkIs
  <1> QED BY <1>3 DEF round, Rounds

\* A ring has no more places than there are items.
LEMMA RingFits ==
  ASSUME NEW S, IsFiniteSet(S), NEW ring \in Seq(S), NoDuplicates(ring)
  PROVE  Cardinality(S) \in Nat /\ Len(ring) \in Nat /\ Len(ring) <= Cardinality(S)
  <1>1. Cardinality(S) \in Nat
    BY FS_CardinalityType
  <1>a. Len(ring) \in Nat
    OBVIOUS
  <1>2. ring \in Injection(1..Len(ring), S)
    BY DEF NoDuplicates, Injection
  <1>3. Cardinality(1..Len(ring)) <= Cardinality(S)
    BY <1>2, FS_Injection
  <1>4. Cardinality(1..Len(ring)) = Len(ring)
    <2> DEFINE n == Len(ring)
    <2>1. n \in Int /\ n >= 0 /\ 1 \in Int
      BY <1>a
    <2> HIDE DEF n
    <2>2. Cardinality(1..n) = IF 1 > n THEN 0 ELSE n - 1 + 1
      BY <2>1, FS_Interval
    <2>3. Cardinality(1..n) = n
      BY <2>1, <2>2
    <2> QED BY <2>3 DEF n
  <1> QED BY <1>1, <1>a, <1>3, <1>4

\* A walk of as many steps as there are items meets all items of the ring, and
\* is back at the head for the first time after as many steps as the ring is
\* long.
LEMMA WalkMeets ==
  ASSUME NEW S, IsFiniteSet(S), NEW ring \in Seq(S), ring # <<>>, NEW links, NEW head,
         Forms(ring, links, head)
  PROVE  LET at == Walk(links, head, Cardinality(S))
         IN  /\ Len(ring) \in 1..Cardinality(S) /\ Cardinality(S) \in Nat
             /\ \A i \in 0..(Len(ring) - 1) : at[i] = ring[i + 1]
             /\ at[Len(ring)] = head
             /\ \A i \in 1..(Len(ring) - 1) : at[i] # head
             /\ Range(at) = Range(ring)
  <1> DEFINE n == Cardinality(S)
             L == Len(ring)
             at == Walk(links, head, n)
  <1>1. L \in 1..n /\ n \in Nat
    BY RingFits DEF Forms
  <1>2. at = [i \in 0..n |-> ring[(i % L) + 1]]
    <2>1. n \in Nat
      BY <1>1
    <2> HIDE DEF n
    <2>2. Walk(links, head, n) = Rounds(ring, n)
      BY <2>1, WalkForms
    <2> QED BY <2>2 DEF Rounds
  <1> HIDE DEF n, at, L
  <1>3. (\A i \in 0..(L - 1) : i % L = i) /\ L % L = 0
    <2>1. ASSUME NEW i \in 0..(L - 1) PROVE i % L = i
      BY <1>1, <2>1
    <2>2. L % L = 0
      BY <1>1
    <2> QED BY <2>1, <2>2
  <1>4. \A i \in 0..(L - 1) : at[i] = ring[i + 1]
    <2>1. ASSUME NEW i \in 0..(L - 1) PROVE at[i] = ring[i + 1]
      <3>1. i \in 0..n /\ i % L = i
        BY <1>1, <1>3
      <3>2. at[i] = ring[(i % L) + 1]
        BY <1>2, <3>1
      <3> QED BY <3>1, <3>2
    <2> QED BY <2>1
  <1>a. /\ head = ring[1] /\ \A i \in 1..L : ring[i] \in S
        /\ \A i, j \in 1..L : ring[i] = ring[j] => i = j
    <2>1. head = ring[1]
      BY DEF Forms
    <2>2. \A i, j \in 1..L : ring[i] = ring[j] => i = j
      BY DEF Forms, NoDuplicates, IsInjective, L
    <2>3. \A i \in 1..L : ring[i] \in S
      BY DEF L
    <2> QED BY <2>1, <2>2, <2>3
  <1>5. at[L] = head
    BY <1>1, <1>2, <1>3, <1>a
  <1>6. ASSUME NEW i \in 1..(L - 1) PROVE at[i] # head
    <2>1. i \in 0..(L - 1) /\ i + 1 \in 1..L /\ 1 \in 1..L /\ i + 1 # 1
      BY <1>1
    <2>2. at[i] = ring[i + 1]
      BY <1>4, <2>1
    <2> QED BY <1>a, <2>1, <2>2
  <1>7. Range(at) = Range(ring)
    <2>1. \A y \in Range(at) : y \in Range(ring)
      <3>1. \A i \in 0..n : (i % L) + 1 \in 1..L
        BY <1>1
      <3> QED BY <1>2, <3>1 DEF Range, L
    <2>2. ASSUME NEW j \in 1..L PROVE ring[j] \in Range(at)
      <3>1. j - 1 \in 0..n /\ at[j - 1] = ring[j]
        BY <1>1, <1>4
      <3> QED BY <1>2, <3>1 DEF Range
    <2> QED BY <2>1, <2>2 DEF Range, L
  <1> QED BY <1>1, <1>4, <1>5, <1>6, <1>7 DEF at, n, L
-----------------------------------------------------------------------------
(* The items a head pointer leads to, as a set: also where a head pointer  *)
(* is not kept up to date, so that its ring is nobody's sequence.          *)

\* Following next or prev does not lead out of C.
Closed(C, links) == \A y \in C : links.next[y] \in C /\ links.prev[y] \in C

\* Some of these heads points into every ring of the items.
Covered(heads, links, items) ==
  \A C \in SUBSET items : C # {} /\ Closed(C, links) => \E h \in heads : h \in C

\* A set of places has a first one.
LEMMA FirstExists ==
  ASSUME NEW T \in SUBSET Nat, T # {}
  PROVE  \E i \in T : \A y \in T : ~(y < i)
  <1> DEFINE Less == OpToRel(<, Nat)
  <1>1. PICK i \in T : \A y \in T : ~(<<y, i>> \in Less)
    <2> HIDE DEF Less
    <2>1. IsWellFoundedOn(Less, Nat)
      BY NatLessThanWellFounded DEF Less
    <2> QED BY <2>1, WFMin
  <1>2. ASSUME NEW y \in T PROVE ~(y < i)
    <2>1. y \in Nat /\ i \in Nat
      OBVIOUS
    <2> QED BY <1>1, <2>1 DEF OpToRel
  <1> QED BY <1>2

\* A walk is there for every number of steps.
LEMMA WalkExists ==
  ASSUME NEW links, NEW head, NEW n \in Nat
  PROVE  \E f : IsWalk(f, links, head, n)
  <1> DEFINE T == {m \in Nat : ~\E f : IsWalk(f, links, head, m)}
  <1>1. CASE T = {}
    BY <1>1
  <1>2. CASE T # {}
    <2>1. PICK m \in T : \A y \in T : ~(y < m)
      <3>1. T \in SUBSET Nat
        OBVIOUS
      <3> HIDE DEF T
      <3> QED BY <1>2, <3>1, FirstExists
    <2>2. m \in Nat /\ ~\E f : IsWalk(f, links, head, m)
      OBVIOUS
    <2>3. CASE m = 0
      <3> DEFINE g == [i \in 0..m |-> head]
      <3>1. \A i \in 0..m : i = 0
        BY <2>3
      <3>2. g = [i \in 0..m |-> IF i = 0 THEN head ELSE links.next[g[i - 1]]]
        BY <3>1
      <3>3. IsWalk(g, links, head, m)
        BY <3>2 DEF IsWalk
      <3> QED BY <2>2, <3>3
    <2>4. CASE m # 0
      <3>1. m - 1 \in Nat /\ m - 1 < m
        BY <2>2, <2>4
      <3>2. m - 1 \notin T
        BY <2>1, <3>1
      <3>3. PICK f : IsWalk(f, links, head, m - 1)
        BY <3>1, <3>2
      <3> DEFINE g == [i \in 0..m |-> IF i = m THEN links.next[f[m - 1]] ELSE f[i]]
      <3>4. \A i \in 0..(m - 1) : f[i] = IF i = 0 THEN head ELSE links.next[f[i - 1]]
        BY <3>3 DEF IsWalk
      <3>5. ASSUME NEW i \in 0..m
            PROVE  g[i] = IF i = 0 THEN head ELSE links.next[g[i - 1]]
        <4>1. CASE i = m
          BY <2>2, <2>4, <4>1
        <4>2. CASE i # m
          <5>1. i \in 0..(m - 1) /\ g[i] = f[i]
            BY <2>2, <4>2
          <5>2. i # 0 => i - 1 \in 0..m /\ i - 1 # m
            BY <2>2, <4>2
          <5>3. i # 0 => g[i - 1] = f[i - 1]
            BY <5>2
          <5> HIDE DEF g
          <5> QED BY <3>4, <5>1, <5>3
        <4> QED BY <4>1, <4>2
      <3>6. g = [i \in 0..m |-> g[i]]
        OBVIOUS
      <3> HIDE DEF g
      <3>7. g = [i \in 0..m |-> IF i = 0 THEN head ELSE links.next[g[i - 1]]]
        BY <3>5, <3>6
      <3>8. IsWalk(g, links, head, m)
        BY <3>7 DEF IsWalk
      <3> QED BY <2>2, <3>8
    <2> QED BY <2>3, <2>4
  <1> QED BY <1>1, <1>2

\* The places of a walk, step by step.
LEMMA WalkPlaces ==
  ASSUME NEW items, NEW links \in LinksOf(items), NEW head \in items, NEW n \in Nat,
         NEW at, at = Walk(links, head, n)
  PROVE  /\ at \in [0..n -> items] /\ at[0] = head
         /\ \A i \in 1..n : at[i] = links.next[at[i - 1]]
  <1>1. IsWalk(at, links, head, n)
    BY WalkExists, WalkIs
  <1>2. /\ at = [i \in 0..n |-> at[i]]
        /\ \A i \in 0..n : at[i] = IF i = 0 THEN head ELSE links.next[at[i - 1]]
    BY <1>1 DEF IsWalk
  <1>3. at[0] = head /\ \A i \in 1..n : at[i] = links.next[at[i - 1]]
    <2>1. 0 \in 0..n /\ \A i \in 1..n : i \in 0..n /\ i # 0
      OBVIOUS
    <2> QED BY <1>2, <2>1
  <1> DEFINE T == {i \in 0..n : at[i] \notin items}
  <1>4. CASE T = {}
    BY <1>2, <1>3, <1>4
  <1>5. CASE T # {}
    <2>1. PICK i \in T : \A y \in T : ~(y < i)
      <3>1. T \in SUBSET Nat
        OBVIOUS
      <3> HIDE DEF T
      <3> QED BY <1>5, <3>1, FirstExists
    <2>2. i \in 0..n /\ at[i] \notin items /\ i # 0
      BY <1>3
    <2>3. i \in 1..n /\ i - 1 \in 0..n /\ i - 1 < i
      BY <2>2
    <2>4. at[i - 1] \in items
      BY <2>1, <2>3
    <2>5. links.next[at[i - 1]] \in items
      BY <2>4 DEF LinksOf
    <2> QED BY <1>3, <2>2, <2>3, <2>5
  <1> QED BY <1>4, <1>5

\* A walk of as many steps as there are items comes back to its head, and prev
\* leads back on it.
LEMMA WalkReturns ==
  ASSUME NEW items, IsFiniteSet(items), NEW links \in LinksOf(items),
         MutuallyInverse(links, items), NEW head \in items,
         NEW n, n = Cardinality(items), NEW at, at = Walk(links, head, n)
  PROVE  /\ n \in Nat /\ at \in [0..n -> items] /\ at[0] = head
         /\ \A i \in 1..n : at[i] = links.next[at[i - 1]] /\ links.prev[at[i]] = at[i - 1]
         /\ \E k \in 1..n : at[k] = head
  <1>1. n \in Nat
    BY FS_CardinalityType
  <1>2. /\ at \in [0..n -> items] /\ at[0] = head
        /\ \A i \in 1..n : at[i] = links.next[at[i - 1]]
    BY <1>1, WalkPlaces
  <1>3. \E i, j \in 0..n : i # j /\ at[i] = at[j]
    <2>1. IsFiniteSet(0..n) /\ Cardinality(0..n) = n + 1
      <3>1. 0 \in Int /\ n \in Int /\ ~(0 > n)
        BY <1>1
      <3>2. IsFiniteSet(0..n) /\ Cardinality(0..n) = IF 0 > n THEN 0 ELSE n - 0 + 1
        BY <3>1, FS_Interval
      <3> QED BY <1>1, <3>1, <3>2
    <2>2. Cardinality(items) < Cardinality(0..n)
      BY <1>1, <2>1
    <2> DEFINE D == 0..n
    <2>3. IsFiniteSet(D) /\ Cardinality(items) < Cardinality(D) /\ at \in [D -> items]
      BY <1>2, <2>1, <2>2
    <2> HIDE DEF D
    <2>4. \E i, j \in D : i # j /\ at[i] = at[j]
      BY <2>3, FS_PigeonHole
    <2> QED BY <2>4 DEF D
  <1>4. \A i \in 1..n : links.prev[at[i]] = at[i - 1]
    <2>1. ASSUME NEW i \in 1..n PROVE links.prev[at[i]] = at[i - 1]
      <3>1. i - 1 \in 0..n
        BY <1>1
      <3>2. at[i - 1] \in items /\ at[i] = links.next[at[i - 1]]
        BY <1>2, <3>1
      <3> QED BY <3>2 DEF MutuallyInverse
    <2> QED BY <2>1
  <1>5. \E k \in 1..n : at[k] = head
    <2> DEFINE T == {i \in 0..n : \E j \in (i + 1)..n : at[i] = at[j]}
    <2>1. T # {}
      <3>1. PICK i, j \in 0..n : i # j /\ at[i] = at[j]
        BY <1>3
      <3>2. CASE i < j
        <4>1. j \in (i + 1)..n
          BY <1>1, <3>2
        <4> QED BY <3>1, <4>1
      <3>3. CASE j < i
        <4>1. i \in (j + 1)..n
          BY <1>1, <3>3
        <4> QED BY <3>1, <4>1
      <3> QED BY <1>1, <3>1, <3>2, <3>3
    <2>2. PICK i \in T : \A y \in T : ~(y < i)
      <3>1. T \in SUBSET Nat
        OBVIOUS
      <3> HIDE DEF T
      <3> QED BY <2>1, <3>1, FirstExists
    <2>3. PICK j \in (i + 1)..n : at[i] = at[j]
      OBVIOUS
    <2>4. CASE i = 0
      <3>1. j \in 1..n
        BY <2>4
      <3> QED BY <1>2, <2>3, <2>4, <3>1
    <2>5. CASE i # 0
      <3>1. /\ i \in 1..n /\ j \in 1..n /\ i - 1 \in 0..n /\ i - 1 < i
            /\ j - 1 \in ((i - 1) + 1)..n
        BY <1>1, <2>5
      <3>2. at[i - 1] = at[j - 1]
        BY <1>4, <2>3, <3>1
      <3>3. i - 1 \in T
        BY <3>1, <3>2
      <3> QED BY <2>2, <3>1, <3>3
    <2> QED BY <2>4, <2>5
  <1> QED BY <1>1, <1>2, <1>4, <1>5

\* The places met on a walk of as many steps as there are items are a whole
\* ring: following next and prev does not lead out of it.
LEMMA WalkCloses ==
  ASSUME NEW items, IsFiniteSet(items), NEW links \in LinksOf(items),
         MutuallyInverse(links, items), NEW head \in items,
         NEW at, at = Walk(links, head, Cardinality(items))
  PROVE  /\ head \in Range(at) /\ Range(at) \subseteq items
         /\ Closed(Range(at), links)
  <1> DEFINE n == Cardinality(items)
  <1>1. n \in Nat
    BY WalkReturns
  <1>2. /\ at \in [0..n -> items] /\ at[0] = head
        /\ \A i \in 1..n : at[i] = links.next[at[i - 1]]
    BY WalkReturns
  <1>4. \A i \in 1..n : links.prev[at[i]] = at[i - 1]
    BY WalkReturns
  <1>5. PICK k \in 1..n : at[k] = head
    BY WalkReturns
  <1> HIDE DEF n
  <1>6. at[n] = at[n - k]
    <2> DEFINE T == {i \in 0..(n - k) : at[i] # at[i + k]}
    <2>1. CASE T = {}
      <3>1. n - k \in 0..(n - k) /\ (n - k) + k = n
        BY <1>1
      <3> QED BY <2>1, <3>1
    <2>2. CASE T # {}
      <3>1. PICK i \in T : \A y \in T : ~(y < i)
        <4>1. T \in SUBSET Nat
          OBVIOUS
        <4> HIDE DEF T
        <4> QED BY <2>2, <4>1, FirstExists
      <3>2. i \in 0..(n - k) /\ at[i] # at[i + k]
        OBVIOUS
      <3>3. i # 0
        <4>1. 0 + k = k
          BY <1>1
        <4> QED BY <1>2, <1>5, <3>2, <4>1
      <3>4. /\ i \in 1..n /\ i + k \in 1..n /\ i - 1 \in 0..(n - k)
            /\ i - 1 < i /\ (i - 1) + k = (i + k) - 1
        BY <1>1, <3>2, <3>3
      <3>5. at[i - 1] = at[(i - 1) + k]
        BY <3>1, <3>4
      <3>6. at[i] = at[i + k]
        BY <1>2, <3>4, <3>5
      <3> QED BY <3>2, <3>6
    <2> QED BY <2>1, <2>2
  <1>7. Range(at) = {at[i] : i \in 0..n}
    BY <1>2 DEF Range
  <1>8. ASSUME NEW i \in 0..n
        PROVE  links.next[at[i]] \in Range(at) /\ links.prev[at[i]] \in Range(at)
    <2>1. links.next[at[i]] \in Range(at)
      <3>1. CASE i # n
        <4>1. i + 1 \in 1..n /\ i + 1 \in 0..n /\ (i + 1) - 1 = i
          BY <1>1, <3>1
        <4> QED BY <1>2, <1>7, <4>1
      <3>2. CASE i = n
        <4>1. (n - k) + 1 \in 1..n /\ (n - k) + 1 \in 0..n /\ ((n - k) + 1) - 1 = n - k
          BY <1>1
        <4>2. at[(n - k) + 1] = links.next[at[n - k]]
          BY <1>2, <4>1
        <4> QED BY <1>6, <1>7, <3>2, <4>1, <4>2
      <3> QED BY <3>1, <3>2
    <2>2. links.prev[at[i]] \in Range(at)
      <3>1. CASE i # 0
        <4>1. i \in 1..n /\ i - 1 \in 0..n
          BY <1>1, <3>1
        <4> QED BY <1>4, <1>7, <4>1
      <3>2. CASE i = 0
        <4>1. k - 1 \in 0..n
          BY <1>1
        <4>2. links.prev[at[i]] = at[k - 1]
          BY <1>2, <1>4, <1>5, <3>2
        <4> QED BY <1>7, <4>1, <4>2
      <3> QED BY <3>1, <3>2
    <2> QED BY <2>1, <2>2
  <1>9. head \in Range(at) /\ Range(at) \subseteq items
    <2>1. 0 \in 0..n
      BY <1>1
    <2> QED BY <1>2, <1>7, <2>1
  <1> QED BY <1>7, <1>8, <1>9 DEF Closed

\* Where some head points into every ring, every item can be reached.
LEMMA CoveredReached ==
  ASSUME NEW items, IsFiniteSet(items), NEW links \in LinksOf(items),
         MutuallyInverse(links, items), NEW heads, Covered(heads, links, items),
         NEW m \in items
  PROVE  \E h \in heads \cap items : m \in Range(Walk(links, h, Cardinality(items)))
  <1> DEFINE R(h) == Range(Walk(links, h, Cardinality(items)))
             C == {y \in items : \A h \in heads \cap items : y \notin R(h)}
  <1>1. ASSUME NEW h \in items
        PROVE  h \in R(h) /\ R(h) \subseteq items /\ Closed(R(h), links)
    BY WalkCloses
  <1> HIDE DEF R
  <1>2. ASSUME NEW y \in C PROVE links.next[y] \in C /\ links.prev[y] \in C
    <2>1. /\ links.next[y] \in items /\ links.prev[y] \in items
          /\ links.prev[links.next[y]] = y /\ links.next[links.prev[y]] = y
      BY DEF LinksOf, MutuallyInverse
    <2>2. ASSUME NEW h \in heads \cap items
          PROVE  links.next[y] \notin R(h) /\ links.prev[y] \notin R(h)
      <3>1. y \notin R(h)
        OBVIOUS
      <3> QED BY <1>1, <2>1, <3>1 DEF Closed
    <2> QED BY <2>1, <2>2
  <1>3. C = {}
    <2>1. SUFFICES ASSUME C # {} PROVE FALSE
      OBVIOUS
    <2>2. C \in SUBSET items /\ Closed(C, links)
      BY <1>2 DEF Closed
    <2>3. PICK h \in heads : h \in C
      <3> HIDE DEF C
      <3> QED BY <2>1, <2>2 DEF Covered
    <2>4. h \in heads \cap items /\ h \notin R(h)
      BY <2>3
    <2> QED BY <1>1, <2>4
  <1> QED BY <1>3 DEF R

\* An item moved from one ring to another leaves no ring without a head, if
\* the item becomes a head, and the one after it, where there is one; the head
\* it is put before, and it itself, may be heads no more.
LEMMA MoveCovered ==
  ASSUME NEW items, NULL \notin items, NEW links \in LinksOf(items),
         NEW x \in items, NEW from \in items, links.next[from] = from => x = from,
         NEW to \in items \cup {NULL},
         NEW heads, Covered(heads, links, items),
         NEW new, \A h \in heads \ {x, to} : h \in new,
         x \in new, links.next[x] # x => links.next[x] \in new
  PROVE  Covered(new, EnqLinks(DeqLinks(links, x, from), x, to), items)
  <1> DEFINE out == DeqLinks(links, x, from)
             moved == EnqLinks(out, x, to)
             before == links.prev[x]
             after == links.next[x]
  <1>1. /\ links.next \in [items -> items] /\ links.prev \in [items -> items]
        /\ before \in items /\ after \in items /\ from # NULL
    BY DEF LinksOf
  <1>2. SUFFICES ASSUME NEW C \in SUBSET items, C # {}, Closed(C, moved), x \notin C
                 PROVE  \E h \in new : h \in C
    BY DEF Covered
  <1>3. /\ out.next \in [items -> items] /\ out.prev \in [items -> items]
        /\ from # NULL
        /\ \A y \in items \ {x} :
             /\ out.next[y] = IF links.next[from] # from /\ y = before
                              THEN after ELSE links.next[y]
             /\ out.prev[y] = IF links.next[from] # from /\ y = after
                              THEN before ELSE links.prev[y]
    <2>1. CASE links.next[from] = from
      BY <1>1, <2>1 DEF DeqLinks, SelfLinked
    <2>2. CASE links.next[from] # from
      <3>1. /\ out.next = [[links.next EXCEPT ![before] = after] EXCEPT ![x] = x]
            /\ out.prev = [[links.prev EXCEPT ![after] = before] EXCEPT ![x] = x]
        BY <1>1, <2>2 DEF DeqLinks, SelfLinked, Unlinked
      <3> HIDE DEF out, before, after
      <3> QED BY <1>1, <2>2, <3>1
    <2> QED BY <2>1, <2>2
  <1> HIDE DEF out, before
  <1>4. /\ to \notin C
        /\ \A y \in C : out.next[y] \in C /\ out.prev[y] \in C
    <2>1. CASE to = NULL
      <3>1. \A y \in C : moved.next[y] = out.next[y] /\ moved.prev[y] = out.prev[y]
        BY <1>2, <1>3, <2>1 DEF EnqLinks, SelfLinked
      <3> QED BY <1>2, <2>1, <3>1 DEF Closed
    <2>2. CASE to # NULL
      <3> DEFINE last == out.prev[to]
      <3>1. /\ moved.next = [[out.next EXCEPT ![x] = to] EXCEPT ![last] = x]
            /\ moved.prev = [[out.prev EXCEPT ![x] = last] EXCEPT ![to] = x]
            /\ last \in items /\ to \in items
        BY <1>3, <2>2 DEF EnqLinks
      <3> HIDE DEF moved, last
      <3>2. last \notin C /\ to \notin C
        BY <1>2, <1>3, <3>1 DEF Closed
      <3>3. \A y \in C : moved.next[y] = out.next[y] /\ moved.prev[y] = out.prev[y]
        BY <1>2, <1>3, <3>1, <3>2
      <3> QED BY <1>2, <3>2, <3>3 DEF Closed
    <2> QED BY <2>1, <2>2
  <1>5. CASE links.next[from] # from /\ (before \in C \/ after \in C)
    <2>1. after \in C
      BY <1>2, <1>3, <1>4, <1>5
    <2> QED BY <1>2, <2>1
  <1>6. CASE ~(links.next[from] # from /\ (before \in C \/ after \in C))
    <2>1. Closed(C, links)
      <3>1. \A y \in C : links.next[y] = out.next[y] /\ links.prev[y] = out.prev[y]
        BY <1>2, <1>3, <1>6
      <3> QED BY <1>4, <3>1 DEF Closed
    <2>2. PICK h \in heads : h \in C
      BY <1>2, <2>1 DEF Covered
    <2> QED BY <1>2, <1>4, <2>2
  <1> QED BY <1>5, <1>6

-----------------------------------------------------------------------------
(* Rings as sequences again: every head points to one.                     *)

\* Every item is the first of a ring.
LEMMA RingExists ==
  ASSUME NEW items, IsFiniteSet(items), NEW links \in LinksOf(items),
         MutuallyInverse(links, items), NEW head \in items
  PROVE  \E ring \in Seq(items) : Forms(ring, links, head)
  <1> DEFINE n == Cardinality(items)
             at == Walk(links, head, n)
             T == {k \in 1..n : at[k] = head}
  <1>1. /\ n \in Nat /\ at \in [0..n -> items] /\ at[0] = head
        /\ \A i \in 1..n : at[i] = links.next[at[i - 1]] /\ links.prev[at[i]] = at[i - 1]
        /\ \E k \in 1..n : at[k] = head
    BY WalkReturns
  <1> HIDE DEF n, at
  <1>2. PICK k \in T : \A y \in T : ~(y < k)
    <2>1. T \in SUBSET Nat
      OBVIOUS
    <2>2. T # {}
      BY <1>1
    <2> HIDE DEF T
    <2> QED BY <2>1, <2>2, FirstExists
  <1>3. /\ k \in 1..n /\ at[k] = head
        /\ \A i \in 1..(k - 1) : at[i] # head
    BY <1>1, <1>2
  <1> DEFINE ring == [i \in 1..k |-> at[i - 1]]
  <1>4. /\ ring \in Seq(items) /\ Len(ring) = k /\ ring # <<>>
        /\ \A i \in 1..k : ring[i] = at[i - 1]
    <2>1. k \in Nat /\ k # 0
      BY <1>1, <1>3
    <2>2. \A i \in 1..k : at[i - 1] \in items
      BY <1>1, <1>3
    <2> QED BY <2>1, <2>2
  <1>5. NoDuplicates(ring)
    <2> DEFINE D == {i \in 0..(k - 1) : \E j \in (i + 1)..(k - 1) : at[i] = at[j]}
    <2>1. CASE D = {}
      <3>1. ASSUME NEW i \in 1..k, NEW j \in 1..k, i < j, ring[i] = ring[j] PROVE FALSE
        <4>1. at[i - 1] = at[j - 1] /\ i - 1 \in 0..(k - 1) /\ j - 1 \in ((i - 1) + 1)..(k - 1)
          BY <1>1, <1>3, <1>4, <3>1
        <4> QED BY <2>1, <4>1
      <3>2. ASSUME NEW i \in 1..k, NEW j \in 1..k, ring[i] = ring[j] PROVE i = j
        <4>1. ~(i < j) /\ ~(j < i)
          BY <3>1, <3>2
        <4> QED BY <1>1, <1>3, <4>1
      <3>3. DOMAIN ring = 1..k
        OBVIOUS
      <3> HIDE DEF ring
      <3> QED BY <3>2, <3>3 DEF NoDuplicates, IsInjective
    <2>2. CASE D # {}
      <3>1. PICK i \in D : \A y \in D : ~(y < i)
        <4>1. D \in SUBSET Nat
          OBVIOUS
        <4> HIDE DEF D
        <4> QED BY <2>2, <4>1, FirstExists
      <3>2. PICK j \in (i + 1)..(k - 1) : at[i] = at[j]
        OBVIOUS
      <3>3. i # 0
        <4>1. SUFFICES ASSUME i = 0 PROVE FALSE
          OBVIOUS
        <4>2. j \in 1..(k - 1)
          BY <4>1
        <4> QED BY <1>1, <1>3, <3>2, <4>1, <4>2
      <3>4. /\ i \in 1..n /\ j \in 1..n /\ i - 1 \in 0..(k - 1) /\ i - 1 < i
            /\ j - 1 \in ((i - 1) + 1)..(k - 1)
        BY <1>1, <1>3, <3>3
      <3>5. at[i - 1] = at[j - 1]
        BY <1>1, <3>2, <3>4
      <3>6. i - 1 \in D
        BY <3>4, <3>5
      <3> QED BY <3>1, <3>4, <3>6
    <2> QED BY <2>1, <2>2
  <1>6. ASSUME NEW i \in 1..k
        PROVE  links.next[ring[i]] = IF i = k THEN ring[1] ELSE ring[i + 1]
    <2>1. i \in 1..n /\ links.next[ring[i]] = at[i]
      BY <1>1, <1>3, <1>4
    <2>2. CASE i = k
      <3>1. ring[1] = at[0]
        BY <1>1, <1>3
      <3> QED BY <1>1, <1>3, <2>1, <2>2, <3>1
    <2>3. CASE i # k
      <3>1. i + 1 \in 1..k /\ (i + 1) - 1 = i
        BY <1>1, <1>3, <2>3
      <3>2. ring[i + 1] = at[i]
        BY <3>1
      <3> QED BY <2>1, <2>3, <3>2
    <2> QED BY <2>2, <2>3
  <1>7. head = ring[1]
    BY <1>1, <1>3
  <1> HIDE DEF ring
  <1>8. Forms(ring, links, head)
    BY <1>4, <1>5, <1>6, <1>7 DEF Forms
  <1> QED BY <1>4, <1>8

\* An item moved from its ring to the front of another: the two rings are the
\* one without it and the other with it, and the rest of the links stays.
LEMMA MoveForms ==
  ASSUME NEW items, NULL \notin items,
         NEW links \in LinksOf(items), MutuallyInverse(links, items),
         NEW r \in Seq(items), NEW from, Forms(r, links, from), NEW x \in Range(r),
         NEW s \in Seq(items), NEW to, Forms(s, links, to),
         Range(r) \cap Range(s) = {},
         NEW new, new = EnqLinks(DeqLinks(links, x, from), x, to)
  PROVE  /\ Deq(x, r) \in Seq(items) /\ Range(Deq(x, r)) = Range(r) \ {x}
         /\ Forms(Deq(x, r), new, DeqHead(links, x, from))
         /\ Enq(x, s) \in Seq(items) /\ Range(Enq(x, s)) = Range(s) \cup {x}
         /\ Forms(Enq(x, s), new, x)
         /\ \A y \in items \ (Range(r) \cup Range(s)) : new.next[y] = links.next[y]
  <1> DEFINE out == DeqLinks(links, x, from)
             hd == DeqHead(links, x, from)
  <1>1. x \in items /\ x \notin Range(s) /\ Range(r) \subseteq items /\ Range(s) \subseteq items
    BY RingMembers
  <1>2. from \in items /\ (links.next[from] = from => x = from)
    BY HeadAlone
  <1>3. out \in LinksOf(items) /\ MutuallyInverse(out, items)
    BY <1>1, <1>2, DeqLinksInverse
  <1>4. /\ Forms(Deq(x, r), out, hd)
        /\ \A y \in items \ Range(r) : out.next[y] = links.next[y]
    BY DeqForms
  <1>5. Deq(x, r) \in Seq(items) /\ Range(Deq(x, r)) = Range(r) \ {x}
    BY DeqMembers DEF Forms
  <1>6. Enq(x, s) \in Seq(items) /\ Range(Enq(x, s)) = Range(s) \cup {x}
    BY <1>1, EnqMembers DEF Forms
  <1> HIDE DEF out, hd
  <1>7. Forms(s, out, to)
    <2>1. \A y \in Range(s) : out.next[y] = links.next[y]
      BY <1>1, <1>4
    <2> QED BY <2>1, FormsKept
  <1>8. /\ Forms(Enq(x, s), EnqLinks(out, x, to), x)
        /\ \A y \in items \ (Range(s) \cup {x}) : EnqLinks(out, x, to).next[y] = out.next[y]
    BY <1>1, <1>3, <1>7, EnqForms
  <1>9. new = EnqLinks(out, x, to)
    BY DEF out
  <1>10. Forms(Deq(x, r), new, hd)
    <2>1. \A y \in Range(Deq(x, r)) : new.next[y] = out.next[y]
      BY <1>1, <1>5, <1>8, <1>9
    <2> QED BY <1>4, <1>5, <2>1, FormsKept
  <1>11. \A y \in items \ (Range(r) \cup Range(s)) : new.next[y] = links.next[y]
    BY <1>4, <1>8, <1>9
  <1> QED BY <1>5, <1>6, <1>8, <1>9, <1>10, <1>11 DEF hd

\* The oldest item first: enq appends, deq of the head takes the last and deq
\* of the last item the first.
LEMMA ReversedRing ==
  ASSUME NEW S, NEW ring \in Seq(S)
  PROVE  /\ Reverse(ring) \in Seq(S) /\ Len(Reverse(ring)) = Len(ring)
         /\ \A i \in 1..Len(ring) : Reverse(ring)[i] = ring[(Len(ring) - i) + 1]
  BY DEF Reverse

LEMMA ReversedEnq ==
  ASSUME NEW S, NEW ring \in Seq(S), NEW x \in S
  PROVE  Reverse(Enq(x, ring)) = Append(Reverse(ring), x)
  <1> DEFINE L == Len(ring)
             a == Reverse(Enq(x, ring))
             b == Append(Reverse(ring), x)
  <1>1. /\ Enq(x, ring) \in Seq(S) /\ Len(Enq(x, ring)) = L + 1 /\ L \in Nat
        /\ \A i \in 1..(L + 1) : Enq(x, ring)[i] = IF i = 1 THEN x ELSE ring[i - 1]
    <2> DEFINE e == Enq(x, ring)
    <2>1. /\ e \in Seq(S) /\ Len(e) = L + 1
          /\ \A i \in 1..Len(e) : e[i] = IF i = 1 THEN x ELSE ring[i - 1]
      BY EnqElements
    <2>2. L \in Nat
      OBVIOUS
    <2> HIDE DEF e, L
    <2>3. \A i \in 1..(L + 1) : e[i] = IF i = 1 THEN x ELSE ring[i - 1]
      BY <2>1
    <2> QED BY <2>1, <2>2, <2>3 DEF e
  <1>2. /\ a \in Seq(S) /\ Len(a) = L + 1
        /\ \A i \in 1..(L + 1) : a[i] = Enq(x, ring)[((L + 1) - i) + 1]
    BY <1>1, ReversedRing
  <1>3. /\ Reverse(ring) \in Seq(S) /\ Len(Reverse(ring)) = L
        /\ \A i \in 1..L : Reverse(ring)[i] = ring[(L - i) + 1]
    BY ReversedRing
  <1>4. /\ b \in Seq(S) /\ Len(b) = L + 1
        /\ \A i \in 1..(L + 1) : b[i] = IF i = L + 1 THEN x ELSE Reverse(ring)[i]
    BY <1>1, <1>3
  <1> HIDE DEF L, a, b
  <1>5. ASSUME NEW i \in 1..(L + 1) PROVE a[i] = b[i]
    <2>1. CASE i = L + 1
      <3>1. ((L + 1) - i) + 1 = 1 /\ 1 \in 1..(L + 1)
        BY <1>1, <2>1
      <3> QED BY <1>1, <1>2, <1>4, <2>1, <3>1
    <2>2. CASE i # L + 1
      <3>1. /\ i \in 1..L /\ ((L + 1) - i) + 1 \in 1..(L + 1) /\ ((L + 1) - i) + 1 # 1
            /\ (((L + 1) - i) + 1) - 1 = (L - i) + 1
        BY <1>1, <2>2
      <3> QED BY <1>1, <1>2, <1>3, <1>4, <2>2, <3>1
    <2> QED BY <2>1, <2>2
  <1>6. a = b
    BY <1>1, <1>2, <1>4, <1>5
  <1> QED BY <1>6 DEF a, b

LEMMA ReversedDeqHead ==
  ASSUME NEW S, NEW ring \in Seq(S), ring # <<>>, NoDuplicates(ring)
  PROVE  /\ Reverse(ring) # <<>>
         /\ Last(Reverse(ring)) = ring[1]
         /\ Reverse(Deq(ring[1], ring)) = Front(Reverse(ring))
  <1> DEFINE L == Len(ring)
             x == ring[1]
             a == Reverse(Deq(x, ring))
             r == Reverse(ring)
  <1>1. L \in Nat \ {0} /\ 1 \in 1..L /\ x \in Range(ring)
    BY DEF Range
  <1>2. Position(x, ring) = 1
    BY <1>1, PositionFound DEF NoDuplicates, IsInjective
  <1>3. /\ Deq(x, ring) \in Seq(S) /\ Len(Deq(x, ring)) = L - 1
        /\ \A i \in 1..(L - 1) : Deq(x, ring)[i] = ring[i + 1]
    BY <1>1, <1>2, DeqElements
  <1>4. /\ a \in Seq(S) /\ Len(a) = L - 1
        /\ \A i \in 1..(L - 1) : a[i] = Deq(x, ring)[((L - 1) - i) + 1]
    <2> DEFINE d == Deq(x, ring)
    <2>1. d \in Seq(S) /\ Len(d) = L - 1
      BY <1>3
    <2> HIDE DEF d, L
    <2>2. /\ Reverse(d) \in Seq(S) /\ Len(Reverse(d)) = Len(d)
          /\ \A i \in 1..Len(d) : Reverse(d)[i] = d[(Len(d) - i) + 1]
      BY <2>1, ReversedRing
    <2> QED BY <2>1, <2>2 DEF d
  <1>5. r \in Seq(S) /\ Len(r) = L /\ \A i \in 1..L : r[i] = ring[(L - i) + 1]
    BY ReversedRing
  <1> HIDE DEF L, a, r
  <1>6. /\ Front(r) \in Seq(S) /\ Len(Front(r)) = L - 1
        /\ \A i \in 1..(L - 1) : Front(r)[i] = r[i]
    BY <1>1, <1>5 DEF Front
  <1>7. ASSUME NEW i \in 1..(L - 1) PROVE a[i] = Front(r)[i]
    <2>1. /\ i \in 1..L /\ ((L - 1) - i) + 1 \in 1..(L - 1)
          /\ (((L - 1) - i) + 1) + 1 = (L - i) + 1
      BY <1>1
    <2> QED BY <1>3, <1>4, <1>5, <1>6, <2>1, ZenonT(60)
  <1>8. a = Front(r)
    BY <1>4, <1>6, <1>7
  <1>9. r # <<>> /\ Last(r) = x
    <2>1. L \in 1..L /\ (L - L) + 1 = 1
      BY <1>1
    <2> QED BY <1>1, <1>5, <2>1 DEF Last
  <1> QED BY <1>8, <1>9 DEF a, r

LEMMA ReversedDeqLast ==
  ASSUME NEW S, NEW ring \in Seq(S), ring # <<>>, NoDuplicates(ring)
  PROVE  /\ Reverse(ring) # <<>>
         /\ Head(Reverse(ring)) = ring[Len(ring)]
         /\ Reverse(Deq(ring[Len(ring)], ring)) = Tail(Reverse(ring))
  <1> DEFINE L == Len(ring)
             x == ring[L]
             a == Reverse(Deq(x, ring))
             r == Reverse(ring)
  <1>1. L \in Nat \ {0} /\ L \in 1..L /\ x \in Range(ring)
    BY DEF Range
  <1>2. Position(x, ring) = L
    BY <1>1, PositionFound DEF NoDuplicates, IsInjective
  <1>3. /\ Deq(x, ring) \in Seq(S) /\ Len(Deq(x, ring)) = L - 1
        /\ \A i \in 1..(L - 1) : Deq(x, ring)[i] = ring[i]
    BY <1>1, <1>2, DeqElements
  <1>4. /\ a \in Seq(S) /\ Len(a) = L - 1
        /\ \A i \in 1..(L - 1) : a[i] = Deq(x, ring)[((L - 1) - i) + 1]
    <2> DEFINE d == Deq(x, ring)
    <2>1. d \in Seq(S) /\ Len(d) = L - 1
      BY <1>3
    <2> HIDE DEF d, L
    <2>2. /\ Reverse(d) \in Seq(S) /\ Len(Reverse(d)) = Len(d)
          /\ \A i \in 1..Len(d) : Reverse(d)[i] = d[(Len(d) - i) + 1]
      BY <2>1, ReversedRing
    <2> QED BY <2>1, <2>2 DEF d
  <1>5. r \in Seq(S) /\ Len(r) = L /\ \A i \in 1..L : r[i] = ring[(L - i) + 1]
    BY ReversedRing
  <1> HIDE DEF L, a, r
  <1>6. /\ r # <<>> /\ Tail(r) \in Seq(S) /\ Len(Tail(r)) = L - 1
        /\ \A i \in 1..(L - 1) : Tail(r)[i] = r[i + 1]
    BY <1>1, <1>5
  <1>7. ASSUME NEW i \in 1..(L - 1) PROVE a[i] = Tail(r)[i]
    <2>1. /\ i + 1 \in 1..L /\ ((L - 1) - i) + 1 \in 1..(L - 1)
          /\ ((L - 1) - i) + 1 = (L - (i + 1)) + 1
      BY <1>1
    <2> QED BY <1>3, <1>4, <1>5, <1>6, <2>1, ZenonT(60)
  <1>8. a = Tail(r)
    BY <1>4, <1>6, <1>7
  <1>9. Head(r) = ring[L]
    <2>1. 1 \in 1..L /\ (L - 1) + 1 = L
      BY <1>1
    <2> QED BY <1>1, <1>5, <1>6, <2>1
  <1> QED BY <1>6, <1>8, <1>9 DEF a, r, L
=============================================================================
