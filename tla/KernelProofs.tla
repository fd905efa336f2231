---------------------------- MODULE KernelProofs ----------------------------
(***************************************************************************)
(* Theorems about Kernel, for any processes, priorities, message queues    *)
(* and mails, and about Servers, the programs main.c runs on it.           *)
(*                                                                         *)
(* For the kernel the inductive invariant IInv has three parts: what the   *)
(* rings of pcbs and the CPU look like (SchedInv), who owns which message  *)
(* queue, who waits on it and how the mails are linked (IpcInv), and the   *)
(* types of the variables these do not depend on (RestType).               *)
(*                                                                         *)
(* What the processes of main.c do is what Kernel lets processes do, so    *)
(* all that is proved of the kernel holds for them.  Then what Servers     *)
(* adds: the search over blockq can leave it in two ways only, stale heads *)
(* or not.                                                                 *)
(***************************************************************************)
EXTENDS Servers, RingTheorems

SchedType ==
  /\ running \in Proc
  /\ pqueue \in [Prio -> Seq(Proc)]
  /\ blockq \in Seq(Proc)
  /\ pcblist \in Seq(Proc)
  /\ state \in [Proc -> {"WTR", "BLOCKED"}]
  /\ prio \in [Proc -> Prio]

SchedInv == SchedType /\ PlacedOnce /\ RunningIsHighest /\ CpuHasWork

-----------------------------------------------------------------------------
\* A walk down the priorities finds the highest queue that is not empty.
LEMMA FirstReadyFound ==
  ASSUME NEW q \in [Prio -> Seq(Proc)], NEW S \in SUBSET Prio,
         NEW j \in S, q[j] # <<>>, HIGHEST_PRIO \in Nat
  PROVE  \E k \in S : /\ FirstReady(q, S) \in Range(q[k])
                      /\ \A i \in S : q[i] # <<>> => i <= k
  <1>1. Occupied(q, S) \in SUBSET (1..HIGHEST_PRIO) /\ Occupied(q, S) # {}
    BY DEF Occupied, Prio
  <1> DEFINE k == Max(Occupied(q, S))
  <1>2. k \in Occupied(q, S) /\ \A i \in Occupied(q, S) : i <= k
    BY <1>1, HighestExists
  <1> HIDE DEF k
  <1>3. k \in S /\ k \in Prio /\ q[k] # <<>>
    BY <1>2 DEF Occupied
  <1>4. q[k][1] \in Range(q[k])
    BY <1>3, EmptyRing
  <1>5. \A i \in S : q[i] # <<>> => i <= k
    BY <1>2 DEF Occupied
  <1> QED BY <1>3, <1>4, <1>5 DEF FirstReady, k

\* The running process is in the queue of its priority, with no other queue
\* above it occupied.
LEMMA RunningPlaced ==
  ASSUME SchedInv
  PROVE  /\ running \in Range(pqueue[prio[running]])
         /\ prio[running] \in Prio
         /\ pqueue[prio[running]] \in Seq(Proc)
         /\ NoDuplicates(pqueue[prio[running]])
         /\ state[running] = "WTR" /\ running \notin Range(pcblist)
  BY DEF SchedInv, SchedType, PlacedOnce, RunningIsHighest, Ready, Ended

\* The ready processes are those in the priority queues.
LEMMA ReadyIsQueued ==
  ASSUME SchedInv, NEW p \in Proc
  PROVE  /\ Ready(p) => p \in Range(pqueue[prio[p]])
         /\ \A k \in Prio : p \in Range(pqueue[k]) => Ready(p) /\ prio[p] = k
  BY DEF SchedInv, SchedType, PlacedOnce

-----------------------------------------------------------------------------
\* change_running: the process leaves its queue, and the CPU goes to a ready
\* process no other ready process is above.  idle_proc is there to be found.
LEMMA LeavesCpu ==
  ASSUME ConstantsOK, SchedInv, running # IdleProc, change_running
  PROVE  /\ running' \in Proc \ {running}
         /\ Ready(running')
         /\ \A p \in Proc \ {running} : Ready(p) => prio[p] <= prio[running']
         /\ pqueue' \in [Prio -> Seq(Proc)]
         /\ \A k \in Prio : /\ NoDuplicates(pqueue'[k])
                            /\ Range(pqueue'[k]) = Range(pqueue[k]) \ {running}
  <1> DEFINE top == prio[running]
             own == pqueue[top]
  <1>1. /\ running \in Range(own) /\ top \in Prio
        /\ own \in Seq(Proc) /\ NoDuplicates(own)
    BY RunningPlaced
  <1>2. /\ running \in Proc /\ pqueue \in [Prio -> Seq(Proc)]
        /\ prio \in [Proc -> Prio]
        /\ \A k \in Prio : NoDuplicates(pqueue[k])
        /\ IdleProc \in Proc /\ Ready(IdleProc) /\ prio[IdleProc] = 1
        /\ \A p \in Proc : Ready(p) => prio[p] <= top
        /\ Prio \subseteq Int
    BY DEF SchedInv, SchedType, PlacedOnce, CpuHasWork, RunningIsHighest,
           ConstantsOK, Prio
  <1>3. pqueue' = [pqueue EXCEPT ![top] = Deq(running, own)]
    BY DEF change_running
  <1>4. /\ pqueue' \in [Prio -> Seq(Proc)]
        /\ \A k \in Prio : /\ NoDuplicates(pqueue'[k])
                           /\ Range(pqueue'[k]) = Range(pqueue[k]) \ {running}
    <2> HIDE DEF top
    <2>1. /\ Deq(running, own) \in Seq(Proc) /\ NoDuplicates(Deq(running, own))
          /\ Range(Deq(running, own)) = Range(own) \ {running}
      BY <1>1, DeqMembers
    <2>2. \A k \in Prio : k # top => running \notin Range(pqueue[k])
      BY <1>2, ReadyIsQueued DEF top
    <2>3. pqueue' \in [Prio -> Seq(Proc)]
      BY <1>2, <1>3, <2>1
    <2>4. \A k \in Prio : pqueue'[k] = IF k = top THEN Deq(running, own)
                                                  ELSE pqueue[k]
      BY <1>2, <1>3
    <2> QED BY <1>2, <2>1, <2>2, <2>3, <2>4
  <1>5. CASE Len(own) = 1
    <2> DEFINE S == 1..(top - 1)
    <2>1. running' = FirstReady(pqueue, S)
      BY <1>5 DEF change_running
    <2>2. \A p \in Proc : p # running /\ Ready(p) => prio[p] # top
      <3>1. Range(own) = {running}
        BY <1>1, <1>5, DeqAlone
      <3> QED BY <3>1, ReadyIsQueued
    <2>3. \A p \in Proc \ {running} : Ready(p) => prio[p] \in S
      BY <1>1, <1>2, <2>2 DEF Prio
    <2>4. S \in SUBSET Prio /\ HIGHEST_PRIO \in Nat
      BY <1>1 DEF Prio, ConstantsOK
    <2>5. 1 \in S /\ pqueue[1] # <<>>
      <3>1. IdleProc \in Range(pqueue[1])
        BY <1>2, ReadyIsQueued
      <3>2. 1 \in S /\ 1 \in Prio
        BY <1>2, <2>3, <2>4
      <3>3. pqueue[1] # <<>>
        <4>1. pqueue[1] \in Seq(Proc)
          BY <1>2, <3>2
        <4> QED BY <3>1, <4>1, EmptyRing
      <3> QED BY <3>2, <3>3
    <2>6. PICK k \in S : /\ FirstReady(pqueue, S) \in Range(pqueue[k])
                         /\ \A i \in S : pqueue[i] # <<>> => i <= k
      <3> HIDE DEF S
      <3> QED BY <1>2, <2>4, <2>5, FirstReadyFound
    <2> HIDE DEF S, top
    <2>7. k \in Prio /\ running' \in Range(pqueue[k])
      BY <2>1, <2>4, <2>6
    <2>8. running' \in Proc
      BY <1>2, <2>7, RingMembers
    <2>9. Ready(running') /\ prio[running'] = k
      BY <2>7, <2>8, ReadyIsQueued
    <2>10. k # top
      BY <1>1, <2>6 DEF S, Prio
    <2>11. running' # running
      BY <2>9, <2>10 DEF top
    <2>12. ASSUME NEW p \in Proc \ {running}, Ready(p)
           PROVE  prio[p] <= prio[running']
      <3>1. p \in Range(pqueue[prio[p]]) /\ prio[p] \in S /\ prio[p] \in Prio
        BY <1>2, <2>3, <2>12, ReadyIsQueued
      <3>2. pqueue[prio[p]] # <<>>
        BY <1>2, <3>1, EmptyRing
      <3> QED BY <2>6, <2>9, <3>1, <3>2
    <2> QED BY <1>4, <2>8, <2>9, <2>11, <2>12
  <1>6. CASE Len(own) # 1
    <2>1. running' = Following(running, own)
      BY <1>6 DEF change_running
    <2>2. running' \in Range(own) /\ running' # running
      BY <1>1, <1>6, <2>1, FollowingMember
    <2>3. running' \in Proc
      BY <1>1, <2>2, RingMembers
    <2>4. Ready(running') /\ prio[running'] = top
      BY <1>1, <2>2, <2>3, ReadyIsQueued
    <2> QED BY <1>2, <1>4, <2>2, <2>3, <2>4
  <1> QED BY <1>5, <1>6

-----------------------------------------------------------------------------
(* The five ways a step changes the rings of pcbs or the CPU.              *)

\* k_recv blocks.
LEMMA BlockSched ==
  ASSUME ConstantsOK, SchedInv, NEW b \in Msgq,
         running # IdleProc, Block(running, b)
  PROVE  SchedInv'
  <1>1. /\ running' \in Proc \ {running}
        /\ Ready(running')
        /\ \A p \in Proc \ {running} : Ready(p) => prio[p] <= prio[running']
        /\ pqueue' \in [Prio -> Seq(Proc)]
        /\ \A k \in Prio : /\ NoDuplicates(pqueue'[k])
                           /\ Range(pqueue'[k]) = Range(pqueue[k]) \ {running}
    BY LeavesCpu DEF Block
  <1>2. /\ blockq' = Enq(running, blockq)
        /\ state' = [state EXCEPT ![running] = "BLOCKED"]
        /\ pcblist' = pcblist /\ prio' = prio
    BY DEF Block
  <1>3. /\ SchedType /\ PlacedOnce /\ CpuHasWork
        /\ Ready(running) /\ ~Ended(running) /\ state[running] = "WTR"
    BY DEF SchedInv, RunningIsHighest, Ready
  <1>4. running \in Proc /\ running \notin Range(blockq)
    BY <1>3 DEF SchedType, PlacedOnce
  <1>5. /\ blockq' \in Seq(Proc) /\ NoDuplicates(blockq')
        /\ Range(blockq') = Range(blockq) \cup {running}
    BY <1>2, <1>3, <1>4, EnqMembers DEF SchedType, PlacedOnce
  <1>6. SchedType'
    BY <1>1, <1>2, <1>3, <1>5 DEF SchedType
  <1>7. \A p \in Proc : /\ state'[p] = IF p = running THEN "BLOCKED" ELSE state[p]
                        /\ Ended(p)' <=> Ended(p)
                        /\ Ready(p)' <=> Ready(p) /\ p # running
    BY <1>2, <1>3 DEF SchedType, Ready, Ended
  <1>8. PlacedOnce'
    <2>1. \A k \in Prio : NoDuplicates(pqueue'[k])
      BY <1>1
    <2>2. NoDuplicates(blockq') /\ NoDuplicates(pcblist')
      BY <1>2, <1>3, <1>5 DEF PlacedOnce
    <2>3. ASSUME NEW p \in Proc
          PROVE  /\ \A k \in Prio : p \in Range(pqueue'[k]) <=>
                                      Ready(p)' /\ prio'[p] = k
                 /\ p \in Range(blockq') <=> state'[p] = "BLOCKED"
                 /\ Ended(p)' => state'[p] = "WTR"
      BY <1>1, <1>2, <1>3, <1>5, <1>7 DEF PlacedOnce
    <2> QED BY <2>1, <2>2, <2>3 DEF PlacedOnce
  <1>9. RunningIsHighest'
    BY <1>1, <1>2, <1>7 DEF RunningIsHighest
  <1>10. CpuHasWork'
    BY <1>2, <1>3, <1>7, ConstantsOK DEF CpuHasWork, ConstantsOK
  <1> QED BY <1>6, <1>8, <1>9, <1>10 DEF SchedInv

\* k_terminate ends.
LEMMA TerminateSched ==
  ASSUME ConstantsOK, SchedInv, running # IdleProc, TerminateDone
  PROVE  SchedInv'
  <1>1. /\ running' \in Proc \ {running}
        /\ Ready(running')
        /\ \A p \in Proc \ {running} : Ready(p) => prio[p] <= prio[running']
        /\ pqueue' \in [Prio -> Seq(Proc)]
        /\ \A k \in Prio : /\ NoDuplicates(pqueue'[k])
                           /\ Range(pqueue'[k]) = Range(pqueue[k]) \ {running}
    BY LeavesCpu DEF TerminateDone
  <1>2. /\ pcblist' = Enq(running, pcblist)
        /\ state' = state /\ blockq' = blockq /\ prio' = prio
    BY DEF TerminateDone
  <1>3. /\ SchedType /\ PlacedOnce /\ CpuHasWork
        /\ Ready(running) /\ running \notin Range(pcblist)
        /\ state[running] = "WTR"
    BY DEF SchedInv, RunningIsHighest, Ready, Ended
  <1>4. /\ pcblist' \in Seq(Proc) /\ NoDuplicates(pcblist')
        /\ Range(pcblist') = Range(pcblist) \cup {running}
    BY <1>2, <1>3, EnqMembers DEF SchedType, PlacedOnce
  <1>5. SchedType'
    BY <1>1, <1>2, <1>3, <1>4 DEF SchedType
  <1>6. \A p \in Proc : /\ Ended(p)' <=> Ended(p) \/ p = running
                        /\ Ready(p)' <=> Ready(p) /\ p # running
    BY <1>2, <1>4 DEF Ready, Ended
  <1>7. PlacedOnce'
    <2>1. ASSUME NEW p \in Proc
          PROVE  /\ \A k \in Prio : p \in Range(pqueue'[k]) <=>
                                      Ready(p)' /\ prio'[p] = k
                 /\ p \in Range(blockq') <=> state'[p] = "BLOCKED"
                 /\ Ended(p)' => state'[p] = "WTR"
      BY <1>1, <1>2, <1>3, <1>6 DEF PlacedOnce
    <2> QED BY <1>1, <1>2, <1>3, <1>4, <2>1 DEF PlacedOnce
  <1>8. RunningIsHighest'
    BY <1>1, <1>2, <1>6 DEF RunningIsHighest
  <1>9. CpuHasWork'
    BY <1>2, <1>3, <1>6 DEF CpuHasWork, ConstantsOK
  <1> QED BY <1>5, <1>7, <1>8, <1>9 DEF SchedInv

\* k_send wakes the blocked receiver.
LEMMA ResumeSched ==
  ASSUME ConstantsOK, SchedInv, NEW p \in Proc, state[p] = "BLOCKED", Resume(p)
  PROVE  SchedInv'
  <1>1. /\ blockq' = Deq(p, blockq)
        /\ pqueue' = [pqueue EXCEPT ![prio[p]] = Enq(p, pqueue[prio[p]])]
        /\ state' = [state EXCEPT ![p] = "WTR"]
        /\ running' = IF prio[p] >= prio[running] THEN p ELSE running
        /\ pcblist' = pcblist /\ prio' = prio
    BY DEF Resume, Preempts
  <1>2. /\ SchedType /\ PlacedOnce /\ RunningIsHighest /\ CpuHasWork
        /\ p \in Range(blockq) /\ ~Ready(p) /\ ~Ended(p)
        /\ \A k \in Prio : p \notin Range(pqueue[k])
    BY DEF SchedInv, PlacedOnce, Ready
  <1>3. /\ blockq' \in Seq(Proc) /\ NoDuplicates(blockq')
        /\ Range(blockq') = Range(blockq) \ {p}
    BY <1>1, <1>2, DeqMembers DEF SchedType, PlacedOnce
  <1>4. /\ pqueue' \in [Prio -> Seq(Proc)]
        /\ \A k \in Prio :
             /\ NoDuplicates(pqueue'[k])
             /\ Range(pqueue'[k]) = IF k = prio[p] THEN Range(pqueue[k]) \cup {p}
                                                   ELSE Range(pqueue[k])
    <2>1. /\ pqueue \in [Prio -> Seq(Proc)] /\ prio[p] \in Prio
          /\ \A k \in Prio : NoDuplicates(pqueue[k])
      BY <1>2 DEF SchedType, PlacedOnce
    <2>2. /\ Enq(p, pqueue[prio[p]]) \in Seq(Proc)
          /\ NoDuplicates(Enq(p, pqueue[prio[p]]))
          /\ Range(Enq(p, pqueue[prio[p]])) = Range(pqueue[prio[p]]) \cup {p}
      BY <1>2, <2>1, EnqMembers
    <2> QED BY <1>1, <2>1, <2>2
  <1>5. SchedType'
    BY <1>1, <1>2, <1>3, <1>4 DEF SchedType
  <1>6. \A q \in Proc : /\ state'[q] = IF q = p THEN "WTR" ELSE state[q]
                        /\ Ended(q)' <=> Ended(q)
                        /\ Ready(q)' <=> Ready(q) \/ q = p
    BY <1>1, <1>2 DEF SchedType, Ready, Ended
  <1>7. PlacedOnce'
    <2>1. ASSUME NEW q \in Proc
          PROVE  /\ \A k \in Prio : q \in Range(pqueue'[k]) <=>
                                      Ready(q)' /\ prio'[q] = k
                 /\ q \in Range(blockq') <=> state'[q] = "BLOCKED"
                 /\ Ended(q)' => state'[q] = "WTR"
      <3>1. \A k \in Prio : q \in Range(pqueue[k]) <=> Ready(q) /\ prio[q] = k
        BY <1>2 DEF PlacedOnce
      <3>2. \A k \in Prio : q \in Range(pqueue'[k]) <=>
                              q \in Range(pqueue[k]) \/ (q = p /\ k = prio[p])
        BY <1>4
      <3>3. \A k \in Prio : q \in Range(pqueue'[k]) <=> Ready(q)' /\ prio'[q] = k
        BY <1>1, <1>2, <1>6, <3>1, <3>2
      <3>4. q \in Range(blockq') <=> state'[q] = "BLOCKED"
        BY <1>2, <1>3, <1>6 DEF PlacedOnce
      <3>5. Ended(q)' => state'[q] = "WTR"
        BY <1>2, <1>6 DEF PlacedOnce
      <3> QED BY <3>3, <3>4, <3>5
    <2> QED BY <1>1, <1>2, <1>3, <1>4, <2>1 DEF PlacedOnce
  <1>8. RunningIsHighest'
    <2>1. /\ running \in Proc /\ prio \in [Proc -> Int]
          /\ Ready(running)
          /\ \A q \in Proc : Ready(q) => prio[q] <= prio[running]
      BY <1>2 DEF SchedType, RunningIsHighest, Prio
    <2> QED BY <1>1, <1>6, <2>1 DEF RunningIsHighest
  <1>9. CpuHasWork'
    BY <1>1, <1>2, <1>6 DEF CpuHasWork, ConstantsOK
  <1> QED BY <1>5, <1>7, <1>8, <1>9 DEF SchedInv

\* k_nice: the process moves to the head of another queue, and going down it
\* leaves the CPU to the highest one.
LEMMA NiceSched ==
  ASSUME ConstantsOK, SchedInv, NEW new \in Prio, running # IdleProc,
         Nice(running, new)
  PROVE  SchedInv'
  <1> DEFINE top == prio[running]
             out == Deq(running, pqueue[top])
             in  == Enq(running, pqueue[new])
             moved == [pqueue EXCEPT ![top] = out, ![new] = in]
  <1>1. /\ pqueue' = moved
        /\ running' = IF new < top THEN FirstReady(moved, Prio) ELSE running
        /\ prio' = [prio EXCEPT ![running] = new]
        /\ state' = state /\ blockq' = blockq /\ pcblist' = pcblist
        /\ new # top
    BY DEF Nice
  <1>2. /\ SchedType /\ PlacedOnce /\ RunningIsHighest /\ CpuHasWork
        /\ running \in Range(pqueue[top]) /\ top \in Prio /\ Ready(running)
    BY RunningPlaced DEF SchedInv, RunningIsHighest
  <1>3. /\ pqueue \in [Prio -> Seq(Proc)] /\ running \in Proc
        /\ prio \in [Proc -> Prio] /\ Prio \subseteq Int
        /\ \A k \in Prio : NoDuplicates(pqueue[k])
        /\ running \notin Range(pqueue[new])
    BY <1>1, <1>2, ReadyIsQueued DEF SchedType, PlacedOnce, Prio
  <1> HIDE DEF top
  <1>4. /\ out \in Seq(Proc) /\ NoDuplicates(out)
        /\ Range(out) = Range(pqueue[top]) \ {running}
    BY <1>2, <1>3, DeqMembers
  <1>5. /\ in \in Seq(Proc) /\ NoDuplicates(in)
        /\ Range(in) = Range(pqueue[new]) \cup {running}
    BY <1>3, EnqMembers
  <1> HIDE DEF out, in
  <1>6. /\ moved \in [Prio -> Seq(Proc)]
        /\ \A k \in Prio : moved[k] = CASE k = new -> in
                                        [] k = top /\ k # new -> out
                                        [] OTHER -> pqueue[k]
    BY <1>1, <1>2, <1>3, <1>4, <1>5
  <1> HIDE DEF moved
  <1>7. \A k \in Prio :
          /\ NoDuplicates(moved[k])
          /\ Range(moved[k]) = IF k = new THEN Range(pqueue[k]) \cup {running}
                                          ELSE Range(pqueue[k]) \ {running}
    <2>1. \A k \in Prio : k # top => running \notin Range(pqueue[k])
      BY <1>2, <1>3, ReadyIsQueued DEF top
    <2> QED BY <1>3, <1>4, <1>5, <1>6, <2>1
  <1>8. \A p \in Proc : /\ prio'[p] = IF p = running THEN new ELSE prio[p]
                        /\ prio'[p] \in Prio
                        /\ Ended(p)' <=> Ended(p)
                        /\ Ready(p)' <=> Ready(p)
    BY <1>1, <1>3 DEF Ready, Ended
  <1>9. \A p \in Proc : \A k \in Prio :
          p \in Range(moved[k]) <=> Ready(p) /\ prio'[p] = k
    <2> SUFFICES ASSUME NEW p \in Proc, NEW k \in Prio
                 PROVE  p \in Range(moved[k]) <=> Ready(p) /\ prio'[p] = k
      OBVIOUS
    <2>1. p \in Range(pqueue[k]) <=> Ready(p) /\ prio[p] = k
      BY <1>2 DEF PlacedOnce
    <2> QED BY <1>2, <1>7, <1>8, <2>1
  <1>10. \* the new running process
         /\ running' \in Proc /\ Ready(running')
         /\ \A p \in Proc : Ready(p) => prio'[p] <= prio'[running']
    <2>1. CASE new < top
      <3>1. in # <<>>
        BY <1>5, EmptyRing
      <3>2. moved[new] # <<>>
        BY <1>6, <3>1
      <3>3. PICK k \in Prio : /\ FirstReady(moved, Prio) \in Range(moved[k])
                              /\ \A i \in Prio : moved[i] # <<>> => i <= k
        BY <1>6, <3>2, FirstReadyFound DEF ConstantsOK
      <3>4. running' \in Range(moved[k])
        BY <1>1, <2>1, <3>3
      <3>5. running' \in Proc
        BY <1>6, <3>4, RingMembers
      <3>6. Ready(running') /\ prio'[running'] = k
        BY <1>9, <3>4, <3>5
      <3>7. ASSUME NEW p \in Proc, Ready(p) PROVE prio'[p] <= k
        <4>1. prio'[p] \in Prio /\ p \in Range(moved[prio'[p]])
          BY <1>8, <1>9, <3>7
        <4>2. moved[prio'[p]] # <<>>
          BY <1>6, <4>1, EmptyRing
        <4> QED BY <3>3, <4>1, <4>2
      <3> QED BY <3>5, <3>6, <3>7
    <2>2. CASE ~(new < top)
      <3>1. running' = running /\ new > top
        BY <1>1, <1>2, <1>3, <2>2
      <3>2. \A p \in Proc : Ready(p) => prio[p] <= top
        BY <1>2 DEF RunningIsHighest, top
      <3>3. prio'[running'] = new /\ new \in Int /\ top \in Int
        BY <1>2, <1>3, <1>8, <3>1
      <3>4. ASSUME NEW p \in Proc, Ready(p) PROVE prio'[p] <= new
        <4>1. prio[p] \in Int /\ prio[p] <= top
          BY <1>3, <3>2, <3>4
        <4> QED BY <1>8, <3>1, <3>3, <4>1
      <3> QED BY <1>2, <1>3, <3>1, <3>3, <3>4
    <2> QED BY <2>1, <2>2
  <1>11. SchedType'
    BY <1>1, <1>2, <1>3, <1>6, <1>10 DEF SchedType
  <1>12. PlacedOnce'
    <2>1. ASSUME NEW p \in Proc
          PROVE  /\ \A k \in Prio : p \in Range(pqueue'[k]) <=>
                                      Ready(p)' /\ prio'[p] = k
                 /\ p \in Range(blockq') <=> state'[p] = "BLOCKED"
                 /\ Ended(p)' => state'[p] = "WTR"
      BY <1>1, <1>2, <1>8, <1>9 DEF PlacedOnce
    <2> QED BY <1>1, <1>2, <1>7, <2>1 DEF PlacedOnce
  <1>13. RunningIsHighest'
    BY <1>8, <1>10 DEF RunningIsHighest
  <1>14. CpuHasWork'
    BY <1>2, <1>8 DEF CpuHasWork, ConstantsOK
  <1> QED BY <1>11, <1>12, <1>13, <1>14 DEF SchedInv

\* next_process: the CPU stays in the ring.
LEMMA SliceSched ==
  ASSUME ConstantsOK, SchedInv, next_process
  PROVE  SchedInv'
  <1>1. /\ running' = Following(running, pqueue[prio[running]])
        /\ UNCHANGED <<pqueue, blockq, pcblist, state, prio>>
    BY DEF next_process
  <1>2. /\ running' \in Range(pqueue[prio[running]])
        /\ pqueue[prio[running]] \in Seq(Proc) /\ prio[running] \in Prio
    BY <1>1, RunningPlaced, FollowingMember
  <1>3. running' \in Proc
    BY <1>2, RingMembers
  <1>4. Ready(running') /\ prio[running'] = prio[running]
    BY <1>2, <1>3, ReadyIsQueued
  <1>5. /\ SchedType' /\ PlacedOnce' /\ CpuHasWork'
        /\ \A p \in Proc : Ready(p)' <=> Ready(p)
    BY <1>1, <1>3 DEF SchedInv, SchedType, PlacedOnce, CpuHasWork, Ready, Ended
  <1>6. RunningIsHighest'
    BY <1>1, <1>3, <1>4, <1>5 DEF SchedInv, RunningIsHighest
  <1> QED BY <1>5, <1>6 DEF SchedInv

\* Steps that leave the rings of pcbs alone.
LEMMA SchedUnchanged ==
  ASSUME SchedInv, UNCHANGED sched
  PROVE  SchedInv'
  BY DEF SchedInv, sched, SchedType, PlacedOnce, RunningIsHighest, CpuHasWork,
         Ready, Ended

\* k_send, from a process or from a handler.
LEMMA SendSched ==
  ASSUME ConstantsOK, SchedInv, pcbptr \in [Msgq -> Proc \cup {NULL}],
         NEW b \in Msgq, k_send(b)
  PROVE  SchedInv'
  <1>1. CASE WaitsOn(pcbptr[b], b) /\ Resume(pcbptr[b])
    BY <1>1, ResumeSched DEF WaitsOn
  <1>2. CASE Store(b)
    BY <1>2, SchedUnchanged DEF Store
  <1> QED BY <1>1, <1>2 DEF k_send

-----------------------------------------------------------------------------
(* Message queues and mails.                                               *)

IpcType ==
  /\ blocked_mailbox \in [Proc -> 0..MSGQARR_SIZE]
  /\ msgqptr \in [Proc -> Seq(Msgq)]
  /\ pcbptr \in [Msgq -> Proc \cup {NULL}]
  /\ mailq \in [Msgq -> Mail \cup {NULL}]
  /\ maillist \in Mail \cup {NULL}
  /\ links \in LinksOf(Mail)
  /\ kcall \in KCall

IpcInv == IpcType /\ OwnersAgree /\ CallInProgress /\ NoLostWakeup /\ MailsLinked

\* A mail taken from a ring and enqueued through another head: what k_send,
\* k_recv and return_mail do.
LEMMA MoveMail ==
  ASSUME NULL \notin Mail, NEW lk \in LinksOf(Mail), MutuallyInverse(lk, Mail),
         NEW m \in Mail, NEW from \in Mail, lk.next[from] = from => m = from,
         NEW to \in Mail \cup {NULL}
  PROVE  /\ EnqLinks(DeqLinks(lk, m, from), m, to) \in LinksOf(Mail)
         /\ MutuallyInverse(EnqLinks(DeqLinks(lk, m, from), m, to), Mail)
  <1> DEFINE out == DeqLinks(lk, m, from)
  <1>1. out \in LinksOf(Mail) /\ MutuallyInverse(out, Mail) /\ out.next[m] = m
    BY DeqLinksInverse
  <1> HIDE DEF out
  <1>2. EnqLinks(out, m, to) \in LinksOf(Mail) /\ MutuallyInverse(EnqLinks(out, m, to), Mail)
    BY <1>1, EnqLinksInverse
  <1> QED BY <1>2 DEF out

\* The head deq leaves is a mail of the ring or NULL.
LEMMA DeqHeadType ==
  ASSUME NEW lk \in LinksOf(Mail), NEW m \in Mail, NEW head \in Mail \cup {NULL}
  PROVE  DeqHead(lk, m, head) \in Mail \cup {NULL}
  BY DEF DeqHead, LinksOf

\* k_send: the mail goes to a message queue no process waits on.
LEMMA SendIpc ==
  ASSUME ConstantsOK, SchedInv, IpcInv, kcall = NoCall, NEW b \in Msgq, k_send(b),
         UNCHANGED <<owners, kcall>>
  PROVE  IpcInv'
  <1>1. /\ IpcType /\ OwnersAgree /\ CallInProgress /\ NoLostWakeup /\ MailsLinked
        /\ NULL \notin Mail /\ NULL \notin Proc
    BY DEF IpcInv, ConstantsOK
  <1>2. msgqptr' = msgqptr /\ pcbptr' = pcbptr /\ kcall' = kcall
    BY DEF owners
  <1>3. kcall.code = "NONE" /\ kcall.box = 0 /\ kcall.tmp = NULL
    BY DEF NoCall
  <1>4. CASE WaitsOn(pcbptr[b], b) /\ Resume(pcbptr[b])
    <2>1. /\ state' = [state EXCEPT ![pcbptr[b]] = "WTR"]
          /\ UNCHANGED <<pcblist, blocked_mailbox, mailq, maillist, links>>
      BY <1>4 DEF Resume, mails
    <2>2. IpcType' /\ MailsLinked'
      BY <1>1, <1>2, <2>1 DEF IpcType, MailsLinked
    <2>3. OwnersAgree' /\ CallInProgress'
      BY <1>1, <1>2, <1>3, <2>1 DEF OwnersAgree, CallInProgress, Ended
    <2>4. NoLostWakeup'
      BY <1>1, <1>2, <2>1 DEF NoLostWakeup, SchedInv, SchedType
    <2> QED BY <2>2, <2>3, <2>4 DEF IpcInv
  <1>5. CASE ~WaitsOn(pcbptr[b], b) /\ Store(b)
    <2>1. UNCHANGED <<running, pcblist, state, blocked_mailbox>>
      BY <1>5 DEF Store, sched
    <2>2. CASE maillist = NULL
      <3>1. UNCHANGED <<mailq, maillist, links>>
        BY <1>5, <2>2 DEF Store, mails
      <3> QED BY <1>1, <1>2, <2>1, <3>1
              DEF IpcInv, IpcType, OwnersAgree, CallInProgress, NoLostWakeup,
                  MailsLinked, Ended
    <2>3. CASE maillist # NULL
      <3>1. /\ maillist' = DeqHead(links, maillist, maillist)
            /\ links' = EnqLinks(DeqLinks(links, maillist, maillist),
                                 maillist, mailq[b])
            /\ mailq' = [mailq EXCEPT ![b] = maillist]
            /\ maillist \in Mail
        BY <1>1, <1>5, <2>3 DEF Store, IpcType
      <3>2. links' \in LinksOf(Mail) /\ MailsLinked'
        BY <1>1, <3>1, MoveMail DEF IpcType, MailsLinked
      <3>3. maillist' \in Mail \cup {NULL} /\ mailq' \in [Msgq -> Mail \cup {NULL}]
        BY <1>1, <3>1, DeqHeadType DEF IpcType
      <3>4. IpcType'
        BY <1>1, <1>2, <2>1, <3>2, <3>3 DEF IpcType
      <3>5. OwnersAgree' /\ CallInProgress'
        BY <1>1, <1>2, <1>3, <2>1 DEF OwnersAgree, CallInProgress, Ended
      <3>6. NoLostWakeup'
        <4>1. SUFFICES ASSUME NEW p \in Proc, state[p] = "BLOCKED"
              PROVE  /\ blocked_mailbox[p] \in Msgq
                     /\ pcbptr[blocked_mailbox[p]] = p
                     /\ mailq'[blocked_mailbox[p]] = NULL
          BY <1>2, <2>1 DEF NoLostWakeup
        <4>2. /\ blocked_mailbox[p] \in Msgq
              /\ pcbptr[blocked_mailbox[p]] = p
              /\ mailq[blocked_mailbox[p]] = NULL
          BY <1>1, <4>1 DEF NoLostWakeup
        <4>3. blocked_mailbox[p] # b
          BY <1>1, <1>5, <4>1, <4>2 DEF WaitsOn
        <4> QED BY <1>1, <3>1, <4>2, <4>3 DEF IpcType
      <3> QED BY <3>2, <3>4, <3>5, <3>6 DEF IpcInv
    <2> QED BY <2>2, <2>3
  <1> QED BY <1>4, <1>5 DEF k_send

\* k_recv: a process blocks on a message queue it owns and finds empty.
LEMMA BlockIpc ==
  ASSUME ConstantsOK, SchedInv, IpcInv, kcall = NoCall, NEW b \in Msgq,
         pcbptr[b] = running, Block(running, b), UNCHANGED <<owners, kcall>>
  PROVE  IpcInv'
  <1>1. /\ IpcType /\ OwnersAgree /\ CallInProgress /\ NoLostWakeup /\ MailsLinked
        /\ running \in Proc /\ state \in [Proc -> {"WTR", "BLOCKED"}]
    BY DEF IpcInv, SchedInv, SchedType
  <1>2. /\ msgqptr' = msgqptr /\ pcbptr' = pcbptr /\ kcall' = kcall
        /\ pcblist' = pcblist
        /\ UNCHANGED <<mailq, maillist, links>>
        /\ mailq[b] = NULL
        /\ blocked_mailbox' = [blocked_mailbox EXCEPT ![running] = b]
        /\ state' = [state EXCEPT ![running] = "BLOCKED"]
    BY DEF owners, Block, mails
  <1>3. kcall.code = "NONE" /\ kcall.box = 0 /\ kcall.tmp = NULL
    BY DEF NoCall
  <1>4. IpcType' /\ MailsLinked'
    <2>1. b \in 0..MSGQARR_SIZE
      BY DEF Msgq, ConstantsOK
    <2> QED BY <1>1, <1>2, <2>1 DEF IpcType, MailsLinked
  <1>5. OwnersAgree' /\ CallInProgress'
    BY <1>1, <1>2, <1>3 DEF OwnersAgree, CallInProgress, Ended
  <1>6. NoLostWakeup'
    BY <1>1, <1>2 DEF NoLostWakeup, IpcType
  <1> QED BY <1>4, <1>5, <1>6 DEF IpcInv

\* k_recv: a mail is fetched.
LEMMA FetchIpc ==
  ASSUME ConstantsOK, SchedInv, IpcInv, NEW b \in Msgq, Fetch(b),
         UNCHANGED <<owners, kcall>>
  PROVE  IpcInv'
  <1>1. /\ IpcType /\ OwnersAgree /\ CallInProgress /\ NoLostWakeup /\ MailsLinked
        /\ NULL \notin Mail
    BY DEF IpcInv, ConstantsOK
  <1> DEFINE oldest == links.prev[mailq[b]]
  <1>2. /\ msgqptr' = msgqptr /\ pcbptr' = pcbptr /\ kcall' = kcall
        /\ UNCHANGED <<running, pcblist, state, blocked_mailbox, mailq>>
        /\ mailq[b] # NULL
        /\ links' = EnqLinks(DeqLinks(links, oldest, mailq[b]), oldest, maillist)
        /\ maillist' = oldest
    BY DEF owners, Fetch, sched
  <1>3. /\ mailq[b] \in Mail /\ oldest \in Mail
        /\ links.next[mailq[b]] = mailq[b] => oldest = mailq[b]
    BY <1>1, <1>2 DEF IpcType, LinksOf, MailsLinked, MutuallyInverse
  <1> HIDE DEF oldest
  <1>4. links' \in LinksOf(Mail) /\ MailsLinked'
    BY <1>1, <1>2, <1>3, MoveMail DEF IpcType, MailsLinked
  <1>5. IpcType'
    BY <1>1, <1>2, <1>3, <1>4 DEF IpcType
  <1>6. OwnersAgree' /\ CallInProgress' /\ NoLostWakeup'
    BY <1>1, <1>2 DEF OwnersAgree, CallInProgress, NoLostWakeup, Ended
  <1> QED BY <1>4, <1>5, <1>6 DEF IpcInv

\* k_bind: a free message queue gets an owner.
LEMMA BindIpc ==
  ASSUME ConstantsOK, SchedInv, IpcInv, NEW num \in 0..MSGQARR_SIZE,
         Bind(running, num)
  PROVE  IpcInv'
  <1> DEFINE b == IF num = 0 THEN Min(Free) ELSE num
  <1>1. /\ IpcType /\ OwnersAgree /\ CallInProgress /\ NoLostWakeup /\ MailsLinked
        /\ NULL \notin Proc /\ running \in Proc
        /\ running \notin Range(pcblist) /\ state[running] = "WTR"
        /\ kcall = NoCall
    BY RunningPlaced
       DEF IpcInv, ConstantsOK, SchedInv, SchedType, Bind, CallsKernel, Thread,
           HandlerDone
  <1>2. /\ pcbptr' = [pcbptr EXCEPT ![b] = running]
        /\ msgqptr' = [msgqptr EXCEPT ![running] = Enq(b, msgqptr[running])]
        /\ UNCHANGED <<running, pcblist, state, blocked_mailbox>>
        /\ UNCHANGED <<mailq, maillist, links, kcall>>
    BY DEF Bind, sched, mails
  <1>3. b \in Free
    <2>1. CASE num = 0
      <3>1. Free \in SUBSET (1..MSGQARR_SIZE) /\ Free # {} /\ MSGQARR_SIZE \in Nat
        BY <2>1 DEF Bind, Free, Msgq, ConstantsOK
      <3> QED BY <2>1, <3>1, LowestExists
    <2>2. CASE num # 0
      BY <2>2 DEF Bind
    <2> QED BY <2>1, <2>2
  <1> HIDE DEF b
  <1>4. b \in Msgq /\ pcbptr[b] = NULL
    BY <1>3 DEF Free
  <1>5. kcall.code = "NONE" /\ kcall.box = 0 /\ kcall.tmp = NULL
    BY <1>1 DEF NoCall
  <1>6. b \notin Range(msgqptr[running])
    BY <1>1, <1>4, <1>5 DEF OwnersAgree
  <1>7. /\ msgqptr' \in [Proc -> Seq(Msgq)]
        /\ \A p \in Proc : NoDuplicates(msgqptr'[p])
        /\ \A p \in Proc : Range(msgqptr'[p]) = IF p = running
                                                THEN Range(msgqptr[p]) \cup {b}
                                                ELSE Range(msgqptr[p])
        /\ \A p \in Proc : p # running => msgqptr'[p] = msgqptr[p]
    <2>1. /\ msgqptr \in [Proc -> Seq(Msgq)]
          /\ \A p \in Proc : NoDuplicates(msgqptr[p])
      BY <1>1 DEF IpcType, OwnersAgree
    <2>2. /\ Enq(b, msgqptr[running]) \in Seq(Msgq)
          /\ NoDuplicates(Enq(b, msgqptr[running]))
          /\ Range(Enq(b, msgqptr[running])) = Range(msgqptr[running]) \cup {b}
      BY <1>1, <1>4, <1>6, <2>1, EnqMembers
    <2> QED BY <1>1, <1>2, <2>1, <2>2
  <1>8. IpcType' /\ MailsLinked'
    BY <1>1, <1>2, <1>4, <1>7 DEF IpcType, MailsLinked
  <1>9. OwnersAgree'
    <2>1. ASSUME NEW p \in Proc
          PROVE  Ended(p)' => msgqptr'[p] = <<>>
      BY <1>1, <1>2, <1>7 DEF OwnersAgree, Ended
    <2>2. ASSUME NEW p \in Proc, NEW c \in Msgq
          PROVE  c \in Range(msgqptr'[p]) <=> pcbptr'[c] = p
      <3>1. c \in Range(msgqptr[p]) <=> pcbptr[c] = p
        BY <1>1, <1>5 DEF OwnersAgree
      <3>2. pcbptr'[c] = IF c = b THEN running ELSE pcbptr[c]
        BY <1>1, <1>2, <1>4 DEF IpcType
      <3>3. CASE p = running
        BY <1>7, <3>1, <3>2, <3>3
      <3>4. CASE p # running
        BY <1>1, <1>4, <1>7, <3>1, <3>2, <3>4
      <3> QED BY <3>3, <3>4
    <2> QED BY <1>2, <1>5, <1>7, <2>1, <2>2 DEF OwnersAgree
  <1>10. CallInProgress'
    BY <1>1, <1>2, <1>5 DEF CallInProgress
  <1>11. NoLostWakeup'
    BY <1>1, <1>2, <1>4 DEF NoLostWakeup, IpcType
  <1> QED BY <1>8, <1>9, <1>10, <1>11 DEF IpcInv

\* k_nice: no message queue is concerned.
LEMMA NiceIpc ==
  ASSUME IpcInv, NEW new \in Prio, Nice(running, new)
  PROVE  IpcInv'
  <1>1. kcall.code = "NONE" /\ kcall.box = 0 /\ kcall.tmp = NULL
    BY DEF Nice, CallsKernel, Thread, HandlerDone, NoCall
  <1>2. /\ UNCHANGED <<pcblist, state, blocked_mailbox, msgqptr, pcbptr>>
        /\ UNCHANGED <<mailq, maillist, links, kcall>>
    BY DEF Nice, owners, mails
  <1> QED BY <1>1, <1>2
          DEF IpcInv, IpcType, OwnersAgree, CallInProgress, NoLostWakeup,
              MailsLinked, Ended

\* k_unbind begins: the message queue has no owner any more.
LEMMA UnbindIpc ==
  ASSUME ConstantsOK, SchedInv, IpcInv, NEW b \in Msgq, Unbind(running, b)
  PROVE  IpcInv'
  <1>1. /\ IpcType /\ OwnersAgree /\ CallInProgress /\ NoLostWakeup /\ MailsLinked
        /\ NULL \notin Proc /\ running \in Proc /\ state[running] = "WTR"
        /\ kcall = NoCall
    BY RunningPlaced
       DEF IpcInv, ConstantsOK, SchedInv, SchedType, Unbind, CallsKernel, Thread,
           HandlerDone
  <1>2. /\ running # IdleProc /\ pcbptr[b] = running
        /\ pcbptr' = [pcbptr EXCEPT ![b] = NULL]
        /\ kcall' = [code |-> "UNBIND", box |-> b, tmp |-> mailq[b]]
        /\ UNCHANGED <<running, pcblist, state, blocked_mailbox, msgqptr>>
        /\ UNCHANGED <<mailq, maillist, links>>
    BY DEF Unbind, sched, mails
  <1>3. kcall.code = "NONE" /\ b # 0 /\ b \in 0..MSGQARR_SIZE
    BY <1>1 DEF NoCall, Msgq, ConstantsOK
  <1>4. IpcType' /\ MailsLinked'
    BY <1>1, <1>2, <1>3 DEF IpcType, MailsLinked, KCall
  <1>5. OwnersAgree'
    BY <1>1, <1>2, <1>3 DEF OwnersAgree, Ended, IpcType
  <1>6. CallInProgress'
    BY <1>1, <1>2, <1>3 DEF CallInProgress, OwnersAgree, IpcType
  <1>7. NoLostWakeup'
    BY <1>1, <1>2 DEF NoLostWakeup, IpcType
  <1> QED BY <1>4, <1>5, <1>6, <1>7 DEF IpcInv

\* k_terminate begins.
LEMMA TerminateIpc ==
  ASSUME ConstantsOK, IpcInv, Terminate(running)
  PROVE  IpcInv'
  <1>1. kcall.code = "NONE"
    BY DEF Terminate, CallsKernel, Thread, HandlerDone, NoCall
  <1>2. /\ running # IdleProc
        /\ kcall' = [code |-> "TERMINATE", box |-> 0, tmp |-> NULL]
        /\ UNCHANGED <<running, pcblist, state, blocked_mailbox, msgqptr, pcbptr>>
        /\ UNCHANGED <<mailq, maillist, links>>
    BY DEF Terminate, sched, owners, mails
  <1>3. /\ kcall' \in KCall /\ kcall'.code = "TERMINATE" /\ kcall'.box = 0
        /\ kcall'.tmp = NULL
    BY <1>2 DEF KCall, ConstantsOK
  <1>4. IpcType' /\ MailsLinked' /\ NoLostWakeup'
    BY <1>2, <1>3 DEF IpcInv, IpcType, MailsLinked, NoLostWakeup
  <1>5. OwnersAgree'
    BY <1>1, <1>2, <1>3 DEF IpcInv, OwnersAgree, Ended
  <1>6. CallInProgress'
    BY <1>2, <1>3 DEF CallInProgress
  <1> QED BY <1>4, <1>5, <1>6 DEF IpcInv

\* One iteration of return_mail: the mail is the head of its message queue.
LEMMA ReturnMailIpc ==
  ASSUME ConstantsOK, SchedInv, IpcInv, return_mail
  PROVE  IpcInv'
  <1> DEFINE b == kcall.box
             m == kcall.tmp
             head == DeqHead(links, m, mailq[b])
  <1>1. /\ IpcType /\ OwnersAgree /\ CallInProgress /\ NoLostWakeup /\ MailsLinked
        /\ NULL \notin Mail /\ NULL \notin Proc
    BY DEF IpcInv, ConstantsOK
  <1>2. /\ m # NULL
        /\ mailq' = [mailq EXCEPT ![b] = head]
        /\ links' = EnqLinks(DeqLinks(links, m, mailq[b]), m, maillist)
        /\ maillist' = m
        /\ kcall' = [kcall EXCEPT !.tmp = IF head = NULL THEN NULL
                                          ELSE links.next[m]]
        /\ UNCHANGED <<running, pcblist, state, blocked_mailbox, msgqptr, pcbptr>>
    BY DEF return_mail, sched, owners
  <1>3. /\ b \in Msgq /\ m \in Mail /\ mailq[b] = m /\ pcbptr[b] = NULL
        /\ kcall.code # "NONE"
    <2>1. kcall.code # "NONE"
      BY <1>1, <1>2 DEF CallInProgress, NoCall
    <2>2. b # 0 /\ b \in 0..MSGQARR_SIZE /\ m \in Mail
      BY <1>1, <1>2 DEF CallInProgress, IpcType, KCall
    <2> QED BY <1>1, <1>2, <2>1, <2>2 DEF CallInProgress, Msgq, ConstantsOK
  <1>4. head \in Mail \cup {NULL} /\ (head # NULL => head = links.next[m])
    BY <1>1, <1>3, DeqHeadType DEF IpcType, DeqHead
  <1> HIDE DEF head
  <1>5. kcall' = [kcall EXCEPT !.tmp = head] /\ kcall \in KCall
    BY <1>1, <1>2, <1>4 DEF IpcType
  <1>6. /\ kcall' \in KCall /\ kcall'.code = kcall.code /\ kcall'.box = b
        /\ kcall'.tmp = head
    BY <1>4, <1>5 DEF KCall
  <1>7. links' \in LinksOf(Mail) /\ MailsLinked'
    BY <1>1, <1>2, <1>3, MoveMail DEF IpcType, MailsLinked
  <1>8. IpcType'
    BY <1>1, <1>2, <1>3, <1>4, <1>6, <1>7 DEF IpcType
  <1>9. OwnersAgree'
    BY <1>1, <1>2, <1>6 DEF OwnersAgree, Ended
  <1>10. CallInProgress'
    BY <1>1, <1>2, <1>3, <1>6 DEF CallInProgress, IpcType
  <1>11. NoLostWakeup'
    BY <1>1, <1>2, <1>3 DEF NoLostWakeup, IpcType
  <1> QED BY <1>7, <1>8, <1>9, <1>10, <1>11 DEF IpcInv

\* k_unbind ends: the message queue leaves the list of its former owner.
LEMMA UnbindDoneIpc ==
  ASSUME ConstantsOK, SchedInv, IpcInv, UnbindDone
  PROVE  IpcInv'
  <1> DEFINE b == kcall.box
  <1>1. /\ IpcType /\ OwnersAgree /\ CallInProgress /\ NoLostWakeup /\ MailsLinked
        /\ NULL \notin Proc /\ running \in Proc /\ running \notin Range(pcblist)
    BY RunningPlaced DEF IpcInv, ConstantsOK, SchedInv, SchedType
  <1>2. /\ kcall.code = "UNBIND" /\ kcall' = NoCall
        /\ msgqptr' = [msgqptr EXCEPT ![running] = Deq(b, msgqptr[running])]
        /\ UNCHANGED <<running, pcblist, state, blocked_mailbox, pcbptr>>
        /\ UNCHANGED <<mailq, maillist, links>>
    BY DEF UnbindDone, sched, mails
  <1>3. b \in Range(msgqptr[running]) /\ pcbptr[b] = NULL
    BY <1>1, <1>2 DEF CallInProgress
  <1>4. /\ msgqptr' \in [Proc -> Seq(Msgq)]
        /\ \A p \in Proc : NoDuplicates(msgqptr'[p])
        /\ \A p \in Proc : Range(msgqptr'[p]) = IF p = running
                                                THEN Range(msgqptr[p]) \ {b}
                                                ELSE Range(msgqptr[p])
        /\ \A p \in Proc : p # running => msgqptr'[p] = msgqptr[p]
    <2>1. /\ msgqptr \in [Proc -> Seq(Msgq)]
          /\ \A p \in Proc : NoDuplicates(msgqptr[p])
      BY <1>1 DEF IpcType, OwnersAgree
    <2>2. /\ Deq(b, msgqptr[running]) \in Seq(Msgq)
          /\ NoDuplicates(Deq(b, msgqptr[running]))
          /\ Range(Deq(b, msgqptr[running])) = Range(msgqptr[running]) \ {b}
      BY <1>1, <1>3, <2>1, DeqMembers
    <2> QED BY <1>1, <1>2, <2>1, <2>2
  <1>5. kcall' \in KCall /\ kcall'.code = "NONE" /\ kcall'.box = 0 /\ kcall'.tmp = NULL
    BY <1>2 DEF NoCall, KCall, ConstantsOK
  <1>6. IpcType' /\ MailsLinked'
    BY <1>1, <1>2, <1>4, <1>5 DEF IpcType, MailsLinked
  <1>7. OwnersAgree'
    <2>1. ASSUME NEW p \in Proc
          PROVE  Ended(p)' => msgqptr'[p] = <<>>
      BY <1>1, <1>2, <1>4 DEF OwnersAgree, Ended
    <2>2. ASSUME NEW p \in Proc, NEW c \in Msgq
          PROVE  c \in Range(msgqptr'[p]) <=> pcbptr'[c] = p
      <3>1. c \in Range(msgqptr[p]) <=> pcbptr[c] = p \/ (c = b /\ p = running)
        BY <1>1, <1>2 DEF OwnersAgree
      <3>2. c \in Range(msgqptr'[p]) <=>
              c \in Range(msgqptr[p]) /\ ~(c = b /\ p = running)
        BY <1>4
      <3> QED BY <1>1, <1>2, <1>3, <3>1, <3>2
    <2> QED BY <1>2, <1>4, <1>5, <2>1, <2>2 DEF OwnersAgree
  <1>8. CallInProgress' /\ NoLostWakeup'
    BY <1>1, <1>2, <1>5 DEF CallInProgress, NoLostWakeup
  <1> QED BY <1>6, <1>7, <1>8 DEF IpcInv

\* k_terminate takes the next message queue of the process.
LEMMA TerminateMsgqIpc ==
  ASSUME ConstantsOK, SchedInv, IpcInv, TerminateMsgq
  PROVE  IpcInv'
  <1> DEFINE own == msgqptr[running]
             b == Head(own)
  <1>1. /\ IpcType /\ OwnersAgree /\ CallInProgress /\ NoLostWakeup /\ MailsLinked
        /\ NULL \notin Proc /\ running \in Proc /\ running \notin Range(pcblist)
        /\ state[running] = "WTR"
    BY RunningPlaced DEF IpcInv, ConstantsOK, SchedInv, SchedType
  <1>2. /\ kcall.code = "TERMINATE" /\ own # <<>>
        /\ pcbptr' = [pcbptr EXCEPT ![b] = NULL]
        /\ kcall' = [kcall EXCEPT !.box = b, !.tmp = mailq[b]]
        /\ msgqptr' = [msgqptr EXCEPT ![running] = Tail(own)]
        /\ UNCHANGED <<running, pcblist, state, blocked_mailbox>>
        /\ UNCHANGED <<mailq, maillist, links>>
    BY DEF TerminateMsgq, sched, mails
  <1>3. own \in Seq(Msgq) /\ NoDuplicates(own)
    BY <1>1 DEF IpcType, OwnersAgree
  <1>4. /\ b \in Msgq /\ Tail(own) \in Seq(Msgq) /\ NoDuplicates(Tail(own))
        /\ Range(own) = Range(Tail(own)) \cup {b} /\ b \notin Range(Tail(own))
    BY <1>2, <1>3, HeadTailMembers
  <1> HIDE DEF b
  <1>5. pcbptr[b] = running
    BY <1>1, <1>2, <1>4 DEF OwnersAgree
  <1>6. /\ msgqptr' \in [Proc -> Seq(Msgq)]
        /\ \A p \in Proc : NoDuplicates(msgqptr'[p])
        /\ \A p \in Proc : Range(msgqptr'[p]) = IF p = running
                                                THEN Range(msgqptr[p]) \ {b}
                                                ELSE Range(msgqptr[p])
        /\ \A p \in Proc : p # running => msgqptr'[p] = msgqptr[p]
    <2>1. /\ msgqptr \in [Proc -> Seq(Msgq)]
          /\ \A p \in Proc : NoDuplicates(msgqptr[p])
      BY <1>1 DEF IpcType, OwnersAgree
    <2>2. \A p \in Proc : msgqptr'[p] = IF p = running THEN Tail(own)
                                                       ELSE msgqptr[p]
      BY <1>2, <2>1
    <2>3. msgqptr' \in [Proc -> Seq(Msgq)]
      BY <1>2, <1>4, <2>1
    <2>4. Range(Tail(own)) = Range(own) \ {b}
      BY <1>4
    <2> QED BY <1>4, <2>1, <2>2, <2>3, <2>4
  <1>7. /\ kcall' \in KCall /\ kcall'.code = "TERMINATE" /\ kcall'.box = b
        /\ kcall'.tmp = mailq[b] /\ b # 0
    <2>1. b # 0 /\ b \in 0..MSGQARR_SIZE
      BY <1>4 DEF Msgq, ConstantsOK
    <2>2. mailq[b] \in Mail \cup {NULL} /\ kcall \in KCall
      BY <1>1, <1>4 DEF IpcType
    <2> QED BY <1>2, <2>1, <2>2 DEF KCall
  <1>8. IpcType' /\ MailsLinked'
    BY <1>1, <1>2, <1>4, <1>6, <1>7 DEF IpcType, MailsLinked
  <1>9. OwnersAgree'
    <2>1. ASSUME NEW p \in Proc
          PROVE  Ended(p)' => msgqptr'[p] = <<>>
      BY <1>1, <1>2, <1>6 DEF OwnersAgree, Ended
    <2>2. ASSUME NEW p \in Proc, NEW c \in Msgq
          PROVE  c \in Range(msgqptr'[p]) <=> pcbptr'[c] = p
      <3>1. c \in Range(msgqptr[p]) <=> pcbptr[c] = p
        BY <1>1, <1>2 DEF OwnersAgree
      <3>2. pcbptr'[c] = IF c = b THEN NULL ELSE pcbptr[c]
        BY <1>1, <1>2, <1>4 DEF IpcType
      <3>3. c \in Range(msgqptr'[p]) <=>
              c \in Range(msgqptr[p]) /\ ~(c = b /\ p = running)
        BY <1>6
      <3> QED BY <1>1, <1>5, <3>1, <3>2, <3>3
    <2> QED BY <1>2, <1>6, <1>7, <2>1, <2>2 DEF OwnersAgree
  <1>10. CallInProgress'
    BY <1>1, <1>2, <1>4, <1>7 DEF CallInProgress, IpcType
  <1>11. NoLostWakeup'
    BY <1>1, <1>2, <1>5 DEF NoLostWakeup, IpcType
  <1> QED BY <1>8, <1>9, <1>10, <1>11 DEF IpcInv

\* k_terminate ends.
LEMMA TerminateDoneIpc ==
  ASSUME ConstantsOK, SchedInv, IpcInv, TerminateDone
  PROVE  IpcInv'
  <1>1. /\ IpcType /\ OwnersAgree /\ CallInProgress /\ NoLostWakeup /\ MailsLinked
        /\ SchedType /\ NoDuplicates(pcblist) /\ running \notin Range(pcblist)
    BY RunningPlaced DEF IpcInv, SchedInv, PlacedOnce
  <1>2. /\ kcall.code = "TERMINATE" /\ kcall' = NoCall /\ msgqptr[running] = <<>>
        /\ pcblist' = Enq(running, pcblist)
        /\ UNCHANGED <<state, blocked_mailbox, msgqptr, pcbptr>>
        /\ UNCHANGED <<mailq, maillist, links>>
    BY DEF TerminateDone, mails, owners
  <1>3. \A p \in Proc : Ended(p)' => Ended(p) \/ p = running
    <2>1. Range(pcblist') = Range(pcblist) \cup {running}
      BY <1>1, <1>2, EnqMembers DEF SchedType
    <2> QED BY <2>1 DEF Ended
  <1>4. kcall' \in KCall /\ kcall'.code = "NONE" /\ kcall'.box = 0 /\ kcall'.tmp = NULL
    BY <1>2 DEF NoCall, KCall, ConstantsOK
  <1>5. IpcType' /\ MailsLinked' /\ CallInProgress' /\ NoLostWakeup'
    BY <1>1, <1>2, <1>4
       DEF IpcType, MailsLinked, CallInProgress, NoLostWakeup
  <1>6. OwnersAgree'
    BY <1>1, <1>2, <1>3, <1>4 DEF OwnersAgree
  <1> QED BY <1>5, <1>6 DEF IpcInv

\* Steps that change nothing but the CPU and the interrupt state, between calls.
LEMMA IpcUnchanged ==
  ASSUME IpcInv, kcall = NoCall,
         UNCHANGED <<pcblist, state, blocked_mailbox, mails, owners, kcall>>
  PROVE  IpcInv'
  <1>1. kcall.code = "NONE" /\ kcall.box = 0 /\ kcall.tmp = NULL
    BY DEF NoCall
  <1>2. /\ UNCHANGED <<pcblist, state, blocked_mailbox, msgqptr, pcbptr>>
        /\ UNCHANGED <<mailq, maillist, links, kcall>>
    BY DEF owners, mails
  <1> QED BY <1>1, <1>2
          DEF IpcInv, IpcType, OwnersAgree, CallInProgress, NoLostWakeup,
              MailsLinked, Ended

-----------------------------------------------------------------------------
(* The invariant.                                                          *)

\* What the invariant does not need to know.
RestType ==
  /\ sending \in [Proc -> 0..MSGQARR_SIZE]
  /\ pendsv \in BOOLEAN
  /\ switching \in BOOLEAN
  /\ tick_cnt \in 0..TICKS

IInv == SchedInv /\ IpcInv /\ RestType

\* main leaves the rings and the mails so that the invariant holds.
LEMMA InitIInv ==
  ASSUME ConstantsOK, RegQueueOK, MailRingOK, Init
  PROVE  IInv
  <1>1. /\ pqueue = RegQueue /\ running = FirstReady(RegQueue, Prio)
        /\ blockq = <<>> /\ pcblist = <<>>
        /\ state = [p \in Proc |-> "WTR"]
        /\ prio = [p \in Proc |-> CHOOSE k \in Prio : p \in Range(RegQueue[k])]
    BY DEF Init
  <1>2. /\ RegQueue \in [Prio -> Seq(Proc)]
        /\ \A k \in Prio : NoDuplicates(RegQueue[k])
        /\ \A p \in Proc : \E k \in Prio :
             /\ p \in Range(RegQueue[k])
             /\ \A j \in Prio : p \in Range(RegQueue[j]) => j = k
        /\ IdleProc \in Proc /\ IdleProc \in Range(RegQueue[1]) /\ 1 \in Prio
    BY DEF RegQueueOK, ConstantsOK, Prio
  <1>3. \A p \in Proc : /\ prio[p] \in Prio
                        /\ \A k \in Prio : p \in Range(RegQueue[k]) <=> prio[p] = k
    BY <1>1, <1>2
  <1>4. \A p \in Proc : Ready(p) /\ ~Ended(p)
    BY <1>1, EmptyRing DEF Ready, Ended
  <1>5. PICK k \in Prio : /\ running \in Range(RegQueue[k])
                          /\ \A i \in Prio : RegQueue[i] # <<>> => i <= k
    <2>1. RegQueue[1] # <<>> /\ HIGHEST_PRIO \in Nat
      BY <1>2, EmptyRing DEF ConstantsOK
    <2> QED BY <1>1, <1>2, <2>1, FirstReadyFound
  <1>6. running \in Proc
    BY <1>2, <1>5, RingMembers
  <1>7. SchedType
    <2>1. <<>> \in Seq(Proc)
      OBVIOUS
    <2>2. prio \in [Proc -> Prio]
      BY <1>1, <1>3
    <2> QED BY <1>1, <1>2, <1>6, <2>1, <2>2 DEF SchedType
  <1>8. PlacedOnce
    <2>1. NoDuplicates(<<>>) /\ Range(<<>>) = {}
      BY EmptyRing
    <2> QED BY <1>1, <1>2, <1>3, <1>4, <2>1 DEF PlacedOnce
  <1>9. RunningIsHighest
    <2>1. ASSUME NEW p \in Proc PROVE prio[p] <= prio[running]
      <3>1. prio[p] \in Prio /\ p \in Range(RegQueue[prio[p]])
        BY <1>3
      <3>2. RegQueue[prio[p]] # <<>>
        BY <1>2, <3>1, EmptyRing
      <3> QED BY <1>3, <1>5, <1>6, <3>1, <3>2
    <2> QED BY <1>4, <1>6, <2>1 DEF RunningIsHighest
  <1>10. CpuHasWork
    BY <1>2, <1>3, <1>4 DEF CpuHasWork
  <1>11. /\ links.next = [m \in Mail |-> Following(m, MailRing)]
         /\ links.prev = [m \in Mail |-> CHOOSE l \in Mail : Following(l, MailRing) = m]
         /\ links = [next |-> links.next, prev |-> links.prev]
         /\ maillist = MailRing[1]
    BY DEF Init
  <1>12. links \in LinksOf(Mail) /\ MailsLinked /\ maillist \in Mail
    <2>1. MailRing \in Seq(Mail) /\ NoDuplicates(MailRing) /\ Range(MailRing) = Mail
      BY DEF MailRingOK
    <2>2. \A m \in Mail : /\ Following(m, MailRing) \in Mail
                          /\ \E l \in Mail : Following(l, MailRing) = m
                          /\ \A l \in Mail :
                               Following(l, MailRing) = Following(m, MailRing) => l = m
      BY <2>1, FollowingBijective
    <2>3. /\ links.next \in [Mail -> Mail] /\ links.prev \in [Mail -> Mail]
          /\ \A m \in Mail : links.next[links.prev[m]] = m
      BY <1>11, <2>2
    <2>4. \A m \in Mail : links.prev[links.next[m]] = m
      BY <1>11, <2>2, <2>3
    <2>5. links \in LinksOf(Mail)
      BY <1>11, <2>3 DEF LinksOf
    <2>6. maillist \in Mail
      BY <1>11, <2>1, EmptyRing DEF MailRingOK
    <2> QED BY <2>3, <2>4, <2>5, <2>6 DEF MailsLinked, MutuallyInverse
  <1>13. /\ blocked_mailbox = [p \in Proc |-> 0]
         /\ msgqptr = [p \in Proc |-> <<>>]
         /\ pcbptr = [b \in Msgq |-> NULL] /\ mailq = [b \in Msgq |-> NULL]
         /\ kcall.code = "NONE" /\ kcall.box = 0 /\ kcall.tmp = NULL
         /\ kcall = NoCall
    BY DEF Init, NoCall
  <1>14. IpcType
    <2>1. 0 \in 0..MSGQARR_SIZE
      BY DEF ConstantsOK
    <2>2. kcall \in KCall
      BY <1>13, <2>1 DEF NoCall, KCall
    <2> QED BY <1>12, <1>13, <2>1, <2>2 DEF IpcType
  <1>15. OwnersAgree /\ CallInProgress /\ NoLostWakeup
    <2>1. NoDuplicates(<<>>) /\ Range(<<>>) = {}
      BY EmptyRing
    <2>2. OwnersAgree
      BY <1>13, <2>1 DEF OwnersAgree, ConstantsOK
    <2>3. CallInProgress
      BY <1>13 DEF CallInProgress
    <2>4. NoLostWakeup
      BY <1>1 DEF NoLostWakeup
    <2> QED BY <2>2, <2>3, <2>4
  <1>16. RestType
    <2>1. 0 \in 0..TICKS /\ 0 \in 0..MSGQARR_SIZE
      BY DEF ConstantsOK
    <2>2. /\ sending = [p \in Proc |-> 0] /\ pendsv = FALSE
          /\ switching = FALSE /\ tick_cnt = 0
      BY DEF Init
    <2> QED BY <2>1, <2>2 DEF RestType
  <1> QED BY <1>7, <1>8, <1>9, <1>10, <1>12, <1>14, <1>15, <1>16
          DEF IInv, SchedInv, IpcInv

\* A step between two calls of a process; k_send is its only effect on the
\* rings and the mails.
LEMMA SendStep ==
  ASSUME ConstantsOK, IInv, kcall = NoCall, NEW b \in Msgq, k_send(b),
         UNCHANGED <<owners, kcall>>
  PROVE  SchedInv' /\ IpcInv'
  <1>1. pcbptr \in [Msgq -> Proc \cup {NULL}] /\ SchedInv /\ IpcInv
    BY DEF IInv, IpcInv, IpcType
  <1> QED BY <1>1, SendSched, SendIpc

\* Every kernel call a process makes preserves the invariant.
LEMMA ProcessStepIInv ==
  ASSUME ConstantsOK, IInv, NEW p \in Proc, ProcessStep(p)
  PROVE  IInv'
  <1>1. /\ SchedInv /\ IpcInv /\ RestType
        /\ \A b \in Msgq : b \in 0..MSGQARR_SIZE
    BY DEF IInv, Msgq, ConstantsOK
  <1>2. ASSUME NEW b \in Msgq, SendCheck(p, b) PROVE IInv'
    <2>1. /\ kcall = NoCall /\ UNCHANGED <<sched, mails, owners, kcall, irq>>
          /\ sending' = [sending EXCEPT ![p] = b]
      BY <1>2 DEF SendCheck, CallsKernel, Thread, HandlerDone
    <2>2. SchedInv' /\ IpcInv'
      BY <1>1, <2>1, SchedUnchanged, IpcUnchanged DEF sched
    <2>3. RestType'
      BY <1>1, <2>1 DEF RestType, irq
    <2> QED BY <2>2, <2>3 DEF IInv
  <1>3. ASSUME NEW b \in Msgq, Recv(p, b) PROVE IInv'
    <2>1. /\ kcall = NoCall /\ p = running /\ p # IdleProc /\ pcbptr[b] = p
          /\ Block(p, b) \/ Fetch(b)
          /\ UNCHANGED <<owners, sending, kcall, irq>>
      BY <1>3 DEF Recv, CallsKernel, Thread, HandlerDone
    <2>2. ASSUME Block(p, b) PROVE SchedInv' /\ IpcInv'
      <3>1. Block(running, b) /\ pcbptr[b] = running /\ running # IdleProc
        BY <2>1, <2>2
      <3>2. SchedInv' /\ IpcInv'
        BY <1>1, <2>1, <3>1, BlockSched, BlockIpc
      <3> QED BY <3>2
    <2>3. ASSUME Fetch(b) PROVE SchedInv' /\ IpcInv'
      <3>1. UNCHANGED sched
        BY <2>3 DEF Fetch
      <3>2. SchedInv' /\ IpcInv'
        BY <1>1, <2>1, <2>3, <3>1, SchedUnchanged, FetchIpc
      <3> QED BY <3>2
    <2>4. RestType'
      BY <1>1, <2>1 DEF RestType, irq
    <2> QED BY <2>1, <2>2, <2>3, <2>4 DEF IInv
  <1>4. ASSUME NEW b \in Msgq, Unbind(p, b) PROVE IInv'
    <2>1. p = running /\ UNCHANGED <<sched, sending, irq>>
      BY <1>4 DEF Unbind, CallsKernel, Thread
    <2>2. SchedInv' /\ IpcInv'
      BY <1>1, <1>4, <2>1, SchedUnchanged, UnbindIpc
    <2>3. RestType'
      BY <1>1, <2>1 DEF RestType, irq
    <2> QED BY <2>2, <2>3 DEF IInv
  <1>5. ASSUME NEW num \in 0..MSGQARR_SIZE, Bind(p, num) PROVE IInv'
    <2>1. p = running /\ UNCHANGED <<sched, sending, irq>>
      BY <1>5 DEF Bind, CallsKernel, Thread
    <2>2. SchedInv' /\ IpcInv'
      BY <1>1, <1>5, <2>1, SchedUnchanged, BindIpc
    <2>3. RestType'
      BY <1>1, <2>1 DEF RestType, irq
    <2> QED BY <2>2, <2>3 DEF IInv
  <1>6. ASSUME NEW new \in Prio, Nice(p, new) PROVE IInv'
    <2>1. p = running /\ p # IdleProc /\ UNCHANGED <<sending, irq>>
      BY <1>6 DEF Nice, CallsKernel, Thread
    <2>2. SchedInv' /\ IpcInv'
      BY <1>1, <1>6, <2>1, NiceSched, NiceIpc
    <2>3. RestType'
      BY <1>1, <2>1 DEF RestType, irq
    <2> QED BY <2>2, <2>3 DEF IInv
  <1>7. CASE Send(p)
    <2>1. /\ kcall = NoCall /\ sending[p] # 0 /\ k_send(sending[p])
          /\ sending' = [sending EXCEPT ![p] = 0]
          /\ UNCHANGED <<owners, kcall, irq>>
      BY <1>7 DEF Send, Thread, HandlerDone
    <2>2. sending[p] \in Msgq /\ 0 \in 0..MSGQARR_SIZE
      BY <1>1, <2>1 DEF RestType, Msgq, ConstantsOK
    <2>3. SchedInv' /\ IpcInv'
      BY <2>1, <2>2, SendStep
    <2>4. RestType'
      BY <1>1, <2>1, <2>2 DEF RestType, irq
    <2> QED BY <2>3, <2>4 DEF IInv
  <1>8. CASE Terminate(p)
    <2>1. p = running /\ UNCHANGED <<sched, sending, irq>>
      BY <1>8 DEF Terminate, CallsKernel, Thread
    <2>2. SchedInv' /\ IpcInv'
      BY <1>1, <1>8, <2>1, SchedUnchanged, TerminateIpc
    <2>3. RestType'
      BY <1>1, <2>1 DEF RestType, irq
    <2> QED BY <2>2, <2>3 DEF IInv
  <1> QED BY <1>2, <1>3, <1>4, <1>5, <1>6, <1>7, <1>8 DEF ProcessStep

\* The loops of k_unbind and k_terminate preserve the invariant.
LEMMA KernelStepIInv ==
  ASSUME ConstantsOK, IInv, KernelStep
  PROVE  IInv'
  <1>1. SchedInv /\ IpcInv /\ RestType
    BY DEF IInv
  <1>2. RestType'
    <2>1. UNCHANGED <<sending, irq>>
      BY DEF KernelStep, return_mail, UnbindDone, TerminateMsgq, TerminateDone
    <2> QED BY <1>1, <2>1 DEF RestType, irq
  <1>3. CASE return_mail
    <2>1. UNCHANGED sched
      BY <1>3 DEF return_mail
    <2> QED BY <1>1, <1>2, <1>3, <2>1, SchedUnchanged, ReturnMailIpc DEF IInv
  <1>4. CASE UnbindDone
    <2>1. UNCHANGED sched
      BY <1>4 DEF UnbindDone
    <2> QED BY <1>1, <1>2, <1>4, <2>1, SchedUnchanged, UnbindDoneIpc DEF IInv
  <1>5. CASE TerminateMsgq
    <2>1. UNCHANGED sched
      BY <1>5 DEF TerminateMsgq
    <2> QED BY <1>1, <1>2, <1>5, <2>1, SchedUnchanged, TerminateMsgqIpc DEF IInv
  <1>6. CASE TerminateDone
    <2>1. running # IdleProc
      BY <1>1, <1>6 DEF TerminateDone, IpcInv, CallInProgress
    <2> QED BY <1>1, <1>2, <1>6, <2>1, TerminateSched, TerminateDoneIpc DEF IInv
  <1> QED BY <1>3, <1>4, <1>5, <1>6 DEF KernelStep

\* The handlers preserve the invariant.
LEMMA HandlersIInv ==
  ASSUME ConstantsOK, IInv, UartReceive \/ SysTick \/ PendSV \/ next_process
  PROVE  IInv'
  <1>1. /\ SchedInv /\ IpcInv /\ RestType
        /\ INPUT_SERVER_MSGQ \in Msgq /\ TIME_SERVER_MSGQ \in Msgq
    BY DEF IInv, ConstantsOK
  <1>2. CASE UartReceive
    <2>1. /\ kcall = NoCall /\ k_send(INPUT_SERVER_MSGQ)
          /\ UNCHANGED <<owners, sending, kcall, irq>>
      BY <1>2 DEF UartReceive, HandlerDone
    <2>2. SchedInv' /\ IpcInv'
      BY <1>1, <2>1, SendStep
    <2> QED BY <1>1, <2>1, <2>2 DEF IInv, RestType, irq
  <1>3. CASE SysTick
    <2>1. /\ kcall = NoCall /\ UNCHANGED <<owners, sending, kcall, switching>>
          /\ pendsv' = TRUE
      BY <1>3 DEF SysTick, HandlerDone
    <2>2. CASE TickDue /\ tick_cnt' = 1 /\ k_send(TIME_SERVER_MSGQ)
      <3>1. SchedInv' /\ IpcInv'
        BY <1>1, <2>1, <2>2, SendStep
      <3>2. tick_cnt' \in 0..TICKS
        BY <2>2 DEF ConstantsOK
      <3> QED BY <1>1, <2>1, <3>1, <3>2 DEF IInv, RestType
    <2>3. CASE ~TickDue /\ tick_cnt' = tick_cnt + 1 /\ UNCHANGED <<sched, mails>>
      <3>1. SchedInv' /\ IpcInv'
        BY <1>1, <2>1, <2>3, SchedUnchanged, IpcUnchanged DEF sched
      <3>2. tick_cnt' \in 0..TICKS
        BY <1>1, <2>3 DEF ConstantsOK, RestType, TickDue
      <3> QED BY <1>1, <2>1, <3>1, <3>2 DEF IInv, RestType
    <2> QED BY <1>3, <2>2, <2>3 DEF SysTick
  <1>4. CASE PendSV
    <2>1. /\ kcall = NoCall /\ pendsv' = FALSE /\ switching' = TRUE
          /\ UNCHANGED <<sched, mails, owners, sending, kcall, tick_cnt>>
      BY <1>4 DEF PendSV, HandlerDone
    <2>2. SchedInv' /\ IpcInv'
      BY <1>1, <2>1, SchedUnchanged, IpcUnchanged DEF sched
    <2> QED BY <1>1, <2>1, <2>2 DEF IInv, RestType
  <1>5. CASE next_process
    <2>1. /\ kcall = NoCall /\ switching' = FALSE
          /\ UNCHANGED <<blockq, pcblist, state, prio, blocked_mailbox>>
          /\ UNCHANGED <<mails, owners, sending, kcall, pendsv, tick_cnt>>
      BY <1>5 DEF next_process, HandlerDone
    <2>2. SchedInv' /\ IpcInv'
      BY <1>1, <1>5, <2>1, SliceSched, IpcUnchanged
    <2> QED BY <1>1, <2>1, <2>2 DEF IInv, RestType
  <1> QED BY <1>2, <1>3, <1>4, <1>5

\* The invariant holds in every reachable state.
LEMMA InductiveInvariant == Spec => []IInv
  <1>1. Init => IInv
    BY InitIInv, ConstantsOK, RegQueueOK, MailRingOK
  <1>2. IInv /\ [Next]_vars => IInv'
    <2> SUFFICES ASSUME IInv, [Next]_vars PROVE IInv'
      OBVIOUS
    <2>1. CASE Next
      BY <2>1, ConstantsOK, ProcessStepIInv, KernelStepIInv, HandlersIInv DEF Next
    <2>2. CASE UNCHANGED vars
      <3>1. /\ UNCHANGED <<sched, running, pqueue, blockq, pcblist, state, prio>>
            /\ UNCHANGED <<blocked_mailbox, msgqptr, pcbptr>>
            /\ UNCHANGED <<mailq, maillist, links, kcall>>
            /\ UNCHANGED <<sending, pendsv, switching, tick_cnt>>
        BY <2>2 DEF vars, sched, mails, owners, irq
      <3>2. SchedInv' /\ RestType'
        BY <3>1, SchedUnchanged DEF IInv, RestType
      <3>3. IpcInv'
        BY <3>1 DEF IInv, IpcInv, IpcType, OwnersAgree, CallInProgress,
                    NoLostWakeup, MailsLinked, Ended
      <3> QED BY <3>2, <3>3 DEF IInv
    <2> QED BY <2>1, <2>2
  <1> QED BY <1>1, <1>2, PTL DEF Spec

-----------------------------------------------------------------------------
(* What follows for every instance.                                        *)

\* Every variable has its type in every reachable state.
THEOREM TypeCorrect == Spec => []TypeOK
  <1>1. IInv => TypeOK
    BY DEF IInv, SchedInv, SchedType, IpcInv, IpcType, RestType, LinksOf, TypeOK
  <1> QED BY <1>1, InductiveInvariant, PTL

\* Every pcb is, in every reachable state, in the one ring its own state and
\* prio name, and there once: the deq of k_send, change_running, k_nice and
\* k_terminate always finds its process.
THEOREM RingsCorrect == Spec => []PlacedOnce
  <1>1. IInv => PlacedOnce
    BY DEF IInv, SchedInv
  <1> QED BY <1>1, InductiveInvariant, PTL

\* The process that has the CPU is ready, and no ready process has a higher
\* priority, whatever calls, wake-ups and switches came before.
THEOREM HighestRuns == Spec => []RunningIsHighest
  <1>1. IInv => RunningIsHighest
    BY DEF IInv, SchedInv
  <1> QED BY <1>1, InductiveInvariant, PTL

\* idle_proc stays ready at the lowest priority, so that a walk down pqueue
\* always finds a process.
THEOREM WalkEnds == Spec => []CpuHasWork
  <1>1. IInv => CpuHasWork
    BY DEF IInv, SchedInv
  <1> QED BY <1>1, InductiveInvariant, PTL

\* No process is blocked on a message queue that holds a mail or that it does
\* not own: the k_send that queues a message always wakes its receiver.
THEOREM WakeupsNotLost == Spec => []NoLostWakeup
  <1>1. IInv => NoLostWakeup
    BY DEF IInv, IpcInv
  <1> QED BY <1>1, InductiveInvariant, PTL

\* pcbptr and msgqptr agree at every step of bind, unbind and terminate.
THEOREM OwnershipAgrees == Spec => []OwnersAgree
  <1>1. IInv => OwnersAgree
    BY DEF IInv, IpcInv
  <1> QED BY <1>1, InductiveInvariant, PTL

\* While the loop of return_mail runs nobody owns the message queue it empties,
\* and its local mail pointer is the head of that queue.
THEOREM LoopsKeepHead == Spec => []CallInProgress
  <1>1. IInv => CallInProgress
    BY DEF IInv, IpcInv
  <1> QED BY <1>1, InductiveInvariant, PTL

\* The next and prev links of the mails are inverse to each other in every
\* reachable state, stale heads or not: each enq and deq of a mail splits or
\* joins whole rings.
THEOREM MailRingsWhole == Spec => []MailsLinked
  <1>1. IInv => MailsLinked
    BY DEF IInv, IpcInv
  <1> QED BY <1>1, InductiveInvariant, PTL

\* A kernel call changes the priority and the message queues of its caller only:
\* what any other process has checked about itself stays true.
THEOREM OwnChecksStayTrue == Spec => OwnChecksHold
  <1>1. ASSUME IInv, Next PROVE OthersKept
    <2>1. /\ running \in Proc /\ prio \in [Proc -> Prio]
          /\ pcbptr \in [Msgq -> Proc \cup {NULL}] /\ NULL \notin Proc
          /\ msgqptr \in [Proc -> Seq(Msgq)] /\ OwnersAgree
      BY <1>1, ConstantsOK DEF IInv, SchedInv, SchedType, IpcInv, IpcType
    <2>2. ASSUME UNCHANGED <<prio, pcbptr>> PROVE OthersKept
      BY <2>2 DEF OthersKept
    <2>3. ASSUME NEW b \in Msgq, k_send(b), UNCHANGED owners PROVE OthersKept
      BY <2>2, <2>3 DEF k_send, Resume, Store, sched, owners
    <2>4. ASSUME NEW p \in Proc, NEW b \in Msgq,
                 SendCheck(p, b) \/ Recv(p, b) \/ Unbind(p, b)
          PROVE  OthersKept
      <3>1. CASE SendCheck(p, b) \/ Recv(p, b)
        BY <2>2, <3>1 DEF SendCheck, Recv, Block, Fetch, sched, owners
      <3>2. CASE Unbind(p, b)
        BY <2>1, <3>2 DEF Unbind, CallsKernel, Thread, sched, OthersKept
      <3> QED BY <2>4, <3>1, <3>2
    <2>5. ASSUME NEW p \in Proc, NEW num \in 0..MSGQARR_SIZE, Bind(p, num)
          PROVE  OthersKept
      <3>1. PICK b \in Free : /\ pcbptr' = [pcbptr EXCEPT ![b] = p]
                              /\ p = running /\ UNCHANGED prio
        <4>1. (IF num = 0 THEN Min(Free) ELSE num) \in Free
          <5>1. Free \in SUBSET (1..MSGQARR_SIZE) /\ MSGQARR_SIZE \in Nat
            BY ConstantsOK DEF Free, Msgq
          <5> QED BY <2>5, <5>1, LowestExists DEF Bind
        <4> QED BY <2>5, <4>1 DEF Bind, CallsKernel, Thread, sched
      <3> QED BY <2>1, <3>1 DEF Free, OthersKept
    <2>6. ASSUME NEW p \in Proc, NEW new \in Prio, Nice(p, new) PROVE OthersKept
      BY <2>1, <2>6 DEF Nice, CallsKernel, Thread, owners, OthersKept
    <2>7. ASSUME NEW p \in Proc, Send(p) PROVE OthersKept
      <3>1. sending[p] \in Msgq
        BY <1>1, <2>7, ConstantsOK DEF IInv, RestType, Send, Msgq
      <3> QED BY <2>3, <2>7, <3>1 DEF Send
    <2>8. ASSUME NEW p \in Proc, Terminate(p) PROVE OthersKept
      BY <2>2, <2>8 DEF Terminate, sched, owners
    <2>9. ASSUME KernelStep PROVE OthersKept
      <3>1. CASE return_mail \/ UnbindDone \/ TerminateDone
        BY <2>2, <3>1 DEF return_mail, UnbindDone, TerminateDone, sched, owners
      <3>2. CASE TerminateMsgq
        <4> DEFINE b == Head(msgqptr[running])
        <4>1. /\ kcall.code = "TERMINATE" /\ msgqptr[running] # <<>>
              /\ pcbptr' = [pcbptr EXCEPT ![b] = NULL] /\ UNCHANGED prio
          BY <3>2 DEF TerminateMsgq, sched
        <4>2. b \in Msgq /\ b \in Range(msgqptr[running])
          BY <2>1, <4>1, HeadTailMembers DEF OwnersAgree
        <4> HIDE DEF b
        <4>3. pcbptr[b] = running
          BY <2>1, <4>1, <4>2 DEF OwnersAgree
        <4> QED BY <2>1, <4>1, <4>2, <4>3 DEF OthersKept
      <3> QED BY <2>9, <3>1, <3>2 DEF KernelStep
    <2>10. ASSUME UartReceive \/ SysTick PROVE OthersKept
      <3>1. INPUT_SERVER_MSGQ \in Msgq /\ TIME_SERVER_MSGQ \in Msgq
        BY ConstantsOK DEF ConstantsOK
      <3>2. CASE UartReceive
        BY <2>3, <3>1, <3>2 DEF UartReceive
      <3>3. CASE SysTick
        BY <2>2, <2>3, <3>1, <3>3 DEF SysTick, sched, owners
      <3> QED BY <2>10, <3>2, <3>3
    <2>11. ASSUME PendSV \/ next_process PROVE OthersKept
      BY <2>2, <2>11 DEF PendSV, next_process, sched, owners
    <2> QED BY <1>1, <2>4, <2>5, <2>6, <2>7, <2>8, <2>9, <2>10, <2>11
        DEF Next, ProcessStep
  <1>2. IInv /\ [Next]_vars => [OthersKept]_vars
    BY <1>1
  <1> QED BY <1>2, InductiveInvariant, PTL DEF Spec, OwnChecksHold

-----------------------------------------------------------------------------
(* Kernel implements Scheduler: every call, handler and switch of the      *)
(* kernel is a step the abstract scheduler allows, or leaves the CPU, the  *)
(* priorities and what the processes are alone.  The invariant tells where *)
(* the processes are before and after the step.                            *)

\* What status says of a process.
LEMMA StatusIs ==
  ASSUME SchedInv, NEW p \in Proc
  PROVE  /\ status[p] = "ready" <=> Ready(p)
         /\ status[p] = "blocked" <=> state[p] = "BLOCKED"
         /\ status[p] = "ended" <=> Ended(p)
  BY DEF SchedInv, SchedType, PlacedOnce, status, Ready

\* The running process is one the abstract scheduler may choose, before ...
LEMMA RunningChosen ==
  ASSUME SchedInv
  PROVE  running \in Sched!Highest(status, prio)
  BY StatusIs DEF SchedInv, SchedType, RunningIsHighest, Sched!Highest

\* ... and after a step.
LEMMA NextChosen ==
  ASSUME SchedInv'
  PROVE  running' \in Sched!Highest(status', prio')
  BY DEF SchedInv, SchedType, PlacedOnce, RunningIsHighest, Sched!Highest,
         status, Ready

\* k_recv blocks the running process.
LEMMA BlockRefines ==
  ASSUME SchedInv, SchedInv', NEW b \in Msgq, Block(running, b)
  PROVE  Sched!Leave("blocked")
  <1>1. /\ state' = [state EXCEPT ![running] = "BLOCKED"]
        /\ pcblist' = pcblist /\ prio' = prio
    BY DEF Block
  <1>2. running \in Proc /\ ~Ended(running) /\ state \in [Proc -> {"WTR", "BLOCKED"}]
    BY DEF SchedInv, SchedType, RunningIsHighest, Ready
  <1>3. status' = [status EXCEPT ![running] = "blocked"]
    BY <1>1, <1>2 DEF status, Ended
  <1> QED BY <1>1, <1>3, NextChosen DEF Sched!Leave

\* k_terminate ends the running process.
LEMMA TerminateRefines ==
  ASSUME SchedInv, SchedInv', TerminateDone
  PROVE  Sched!Leave("ended")
  <1>1. pcblist' = Enq(running, pcblist) /\ UNCHANGED <<state, prio>>
    BY DEF TerminateDone
  <1>2. /\ running \in Proc /\ pcblist \in Seq(Proc)
        /\ NoDuplicates(pcblist) /\ running \notin Range(pcblist)
    BY RunningPlaced DEF SchedInv, SchedType, PlacedOnce
  <1>3. Range(pcblist') = Range(pcblist) \cup {running}
    BY <1>1, <1>2, EnqMembers
  <1>4. status' = [status EXCEPT ![running] = "ended"]
    BY <1>1, <1>2, <1>3 DEF status, Ended
  <1> QED BY <1>1, <1>4, NextChosen DEF Sched!Leave

\* k_send wakes process p up.
LEMMA ResumeRefines ==
  ASSUME SchedInv, NEW p \in Proc, state[p] = "BLOCKED", Resume(p)
  PROVE  Sched!Wake(p)
  <1>1. /\ state' = [state EXCEPT ![p] = "WTR"]
        /\ pcblist' = pcblist /\ prio' = prio
        /\ running' = IF prio[p] >= prio[running] THEN p ELSE running
    BY DEF Resume, Preempts
  <1>2. state \in [Proc -> {"WTR", "BLOCKED"}] /\ ~Ended(p)
    BY DEF SchedInv, SchedType, PlacedOnce
  <1>3. status' = [status EXCEPT ![p] = "ready"]
    BY <1>1, <1>2 DEF status, Ended
  <1> QED BY <1>1, <1>3, StatusIs DEF Sched!Wake

\* k_send of a process or of a handler wakes a process up or changes nothing.
LEMMA SendRefines ==
  ASSUME ConstantsOK, SchedInv, pcbptr \in [Msgq -> Proc \cup {NULL}],
         NEW b \in Msgq, k_send(b)
  PROVE  (\E p \in Proc : Sched!Wake(p)) \/ UNCHANGED <<running, status, prio>>
  <1>1. CASE WaitsOn(pcbptr[b], b) /\ Resume(pcbptr[b])
    BY <1>1, ResumeRefines DEF WaitsOn
  <1>2. CASE Store(b)
    BY <1>2 DEF Store, sched, status, Ended
  <1> QED BY <1>1, <1>2 DEF k_send

\* k_nice moves the running process.
LEMMA NiceRefines ==
  ASSUME SchedInv, SchedInv', NEW new \in Prio, Nice(running, new)
  PROVE  Sched!Nice(new)
  <1>1. /\ prio' = [prio EXCEPT ![running] = new]
        /\ new > prio[running] => running' = running
        /\ UNCHANGED <<state, pcblist>>
    <2>1. new \in Int /\ prio[running] \in Int
      BY DEF SchedInv, SchedType, Prio
    <2>2. running' = running \/ new < prio[running]
      BY DEF Nice
    <2>3. ~(new > prio[running] /\ new < prio[running])
      BY <2>1
    <2>4. prio' = [prio EXCEPT ![running] = new] /\ UNCHANGED <<state, pcblist>>
      BY DEF Nice
    <2> QED BY <2>2, <2>3, <2>4
  <1>2. status' = status
    BY <1>1 DEF status, Ended
  <1> QED BY <1>1, <1>2, NextChosen DEF Sched!Nice

\* The end of a time slice: the next process in the ring is another one of the
\* same priority, if there is one.
LEMMA SliceRefines ==
  ASSUME SchedInv, SchedInv', next_process
  PROVE  Sched!Slice
  <1> DEFINE ring == pqueue[prio[running]]
             others == Sched!Highest(status, prio) \ {running}
  <1>1. /\ running' = Following(running, ring)
        /\ UNCHANGED <<state, pcblist, prio>>
    BY DEF next_process
  <1>2. status' = status
    BY <1>1 DEF status, Ended
  <1>3. running' \in Sched!Highest(status, prio)
    BY <1>1, <1>2, NextChosen
  <1>4. ASSUME running' = running PROVE others = {}
    <2>1. Len(ring) = 1 /\ Range(ring) = {running}
      BY <1>1, <1>4, RunningPlaced, FollowingMember, DeqAlone
    <2>2. ASSUME NEW q \in Sched!Highest(status, prio) PROVE q = running
      <3>1. q \in Proc /\ Ready(q) /\ prio[running] <= prio[q]
        BY <2>2, StatusIs DEF Sched!Highest, SchedInv, SchedType, RunningIsHighest
      <3>2. prio[q] <= prio[running] /\ prio[q] \in Int /\ prio[running] \in Int
        BY <3>1 DEF SchedInv, SchedType, RunningIsHighest, Prio
      <3>3. prio[q] = prio[running]
        BY <3>1, <3>2
      <3> QED BY <2>1, <3>1, <3>3, ReadyIsQueued
    <2> QED BY <2>2
  <1> QED BY <1>1, <1>2, <1>3, <1>4 DEF Sched!Slice

-----------------------------------------------------------------------------
\* A step of the kernel that leaves the rings of pcbs alone.
LEMMA SchedStutters ==
  ASSUME UNCHANGED sched
  PROVE  UNCHANGED <<running, status, prio>>
  BY DEF sched, status, Ended

\* What main leaves is an initial state of the abstract scheduler.
LEMMA InitRefines ==
  ASSUME ConstantsOK, Init, IInv
  PROVE  Sched!Init
  <1>1. /\ running \in Proc /\ prio \in [Proc -> Prio]
        /\ running \in Sched!Highest(status, prio)
    BY RunningChosen DEF IInv, SchedInv, SchedType
  <1>2. status = [p \in Proc |-> "ready"]
    <2>1. pcblist = <<>> /\ pcblist \in Seq(Proc) /\ state = [p \in Proc |-> "WTR"]
      BY DEF Init, IInv, SchedInv, SchedType
    <2>2. Range(pcblist) = {}
      BY <2>1, EmptyRing
    <2> QED BY <2>1, <2>2 DEF status, Ended
  <1> QED BY <1>1, <1>2 DEF Sched!Init

\* Every step of the kernel is one of the abstract scheduler, or a stutter.
LEMMA StepRefines ==
  ASSUME ConstantsOK, IInv, IInv', Next
  PROVE  Sched!Next \/ UNCHANGED <<running, status, prio>>
  <1> DEFINE Goal == Sched!Next \/ UNCHANGED <<running, status, prio>>
  <1>1. /\ SchedInv /\ SchedInv'
        /\ pcbptr \in [Msgq -> Proc \cup {NULL}]
        /\ INPUT_SERVER_MSGQ \in Msgq /\ TIME_SERVER_MSGQ \in Msgq
    BY DEF IInv, IpcInv, IpcType, ConstantsOK
  <1>2. ASSUME NEW b \in Msgq, k_send(b) PROVE Goal
    BY <1>1, <1>2, SendRefines DEF Sched!Next
  <1>3. ASSUME UNCHANGED sched PROVE Goal
    BY <1>3, SchedStutters
  <1> HIDE DEF Goal
  <1>4. ASSUME NEW p \in Proc, ProcessStep(p) PROVE Goal
    <2>1. ASSUME NEW b \in Msgq, SendCheck(p, b) \/ Unbind(p, b) PROVE Goal
      BY <1>3, <2>1 DEF SendCheck, Unbind, sched
    <2>2. ASSUME NEW b \in Msgq, Recv(p, b) PROVE Goal
      <3>1. p = running /\ (Block(p, b) \/ Fetch(b))
        BY <2>2 DEF Recv, CallsKernel, Thread
      <3>2. CASE Block(p, b)
        BY <1>1, <3>1, <3>2, BlockRefines DEF Sched!Next, Goal
      <3>3. CASE Fetch(b)
        BY <1>3, <3>3 DEF Fetch
      <3> QED BY <3>1, <3>2, <3>3
    <2>3. ASSUME NEW num \in 0..MSGQARR_SIZE, Bind(p, num) PROVE Goal
      BY <1>3, <2>3 DEF Bind, sched
    <2>4. ASSUME NEW new \in Prio, Nice(p, new) PROVE Goal
      <3>1. p = running
        BY <2>4 DEF Nice, CallsKernel, Thread
      <3> QED BY <1>1, <2>4, <3>1, NiceRefines DEF Sched!Next, Goal
    <2>5. ASSUME Send(p) PROVE Goal
      <3>1. sending[p] \in Msgq /\ k_send(sending[p])
        BY <2>5 DEF IInv, RestType, Send, Msgq, ConstantsOK
      <3> QED BY <1>2, <3>1
    <2>6. ASSUME Terminate(p) PROVE Goal
      BY <1>3, <2>6 DEF Terminate, sched
    <2> QED BY <1>4, <2>1, <2>2, <2>3, <2>4, <2>5, <2>6 DEF ProcessStep
  <1>5. ASSUME KernelStep PROVE Goal
    <2>1. CASE TerminateDone
      BY <1>1, <2>1, TerminateRefines DEF Sched!Next, Goal
    <2>2. CASE return_mail \/ UnbindDone \/ TerminateMsgq
      <3>1. UNCHANGED sched
        BY <2>2 DEF return_mail, UnbindDone, TerminateMsgq
      <3> QED BY <1>3, <3>1
    <2> QED BY <1>5, <2>1, <2>2 DEF KernelStep
  <1>6. ASSUME UartReceive \/ SysTick PROVE Goal
    BY <1>1, <1>2, <1>3, <1>6 DEF UartReceive, SysTick, sched
  <1>7. ASSUME PendSV PROVE Goal
    BY <1>3, <1>7 DEF PendSV, sched
  <1>8. ASSUME next_process PROVE Goal
    BY <1>1, <1>8, SliceRefines DEF Sched!Next, Goal
  <1>9. Goal
    BY <1>4, <1>5, <1>6, <1>7, <1>8 DEF Next
  <1> QED BY <1>9 DEF Goal

\* The kernel implements the abstract scheduler: whatever the processes call and
\* whenever the handlers interrupt, the CPU moves only at the end of a slice to
\* an equal, away from a process that blocks or ends to the highest ready one,
\* to a woken process that is not below, and by nice.
THEOREM SchedulerImplemented == Spec => ImplementsScheduler
  <1>1. Init /\ IInv => Sched!Init
    BY ConstantsOK, InitRefines
  <1>2. IInv /\ IInv' /\ [Next]_vars => [Sched!Next]_(Sched!vars)
    <2>1. ASSUME IInv, IInv', Next PROVE [Sched!Next]_(Sched!vars)
      BY <2>1, ConstantsOK, StepRefines DEF Sched!vars
    <2>2. ASSUME UNCHANGED vars PROVE UNCHANGED Sched!vars
      <3>1. UNCHANGED sched
        BY <2>2 DEF vars, sched
      <3> QED BY <3>1, SchedStutters DEF Sched!vars
    <2> QED BY <2>1, <2>2
  <1> QED BY <1>1, <1>2, InductiveInvariant, PTL
      DEF Spec, ImplementsScheduler, Sched!Spec
-----------------------------------------------------------------------------
(* The mails: where they are, and in which order.                          *)

\* reg_mails has put finitely many mails in the list.
LEMMA MailsFinite == IsFiniteSet(Mail)
  <1>1. /\ MailRing \in Seq(Mail) /\ Range(MailRing) = Mail /\ Len(MailRing) \in Nat
    BY MailRingOK
  <1>2. MailRing \in Surjection(1..Len(MailRing), Mail)
    BY <1>1 DEF Range, Surjection
  <1>3. IsFiniteSet(1..Len(MailRing))
    <2> DEFINE n == Len(MailRing)
    <2>1. 1 \in Int /\ n \in Int
      BY <1>1
    <2> HIDE DEF n
    <2>2. IsFiniteSet(1..n)
      BY <2>1, FS_Interval
    <2> QED BY <2>2 DEF n
  <1> QED BY <1>2, <1>3, FS_Surjection

\* A step leaves the mails alone, or is one of the three that move one: the
\* end of k_send for a process that does not wait, k_recv by the owner, or an
\* iteration of return_mail over a message queue nobody owns.
LEMMA MailSteps ==
  ASSUME IInv, Next
  PROVE  \/ UNCHANGED mails
         \/ \E b \in Msgq : Store(b)
         \/ \E b \in Msgq : Fetch(b) /\ pcbptr[b] # NULL
         \/ return_mail
  <1>1. /\ INPUT_SERVER_MSGQ \in Msgq /\ TIME_SERVER_MSGQ \in Msgq /\ NULL \notin Proc
        /\ RestType
    BY ConstantsOK DEF IInv
  <1>2. ASSUME NEW b \in Msgq, k_send(b) PROVE UNCHANGED mails \/ Store(b)
    BY <1>2 DEF k_send, Resume
  <1>3. ASSUME NEW p \in Proc, NEW b \in Msgq, Recv(p, b)
        PROVE  UNCHANGED mails \/ (Fetch(b) /\ pcbptr[b] # NULL)
    BY <1>1, <1>3 DEF Recv, Block
  <1>4. ASSUME NEW p \in Proc, Send(p)
        PROVE  UNCHANGED mails \/ \E b \in Msgq : Store(b)
    <2>1. sending[p] \in Msgq /\ k_send(sending[p])
      BY <1>1, <1>4, ConstantsOK DEF Send, RestType, Msgq
    <2> QED BY <1>2, <2>1
  <1>5. ASSUME NEW p \in Proc,
               \/ \E b \in Msgq : SendCheck(p, b) \/ Unbind(p, b)
               \/ \E num \in 0..MSGQARR_SIZE : Bind(p, num)
               \/ \E new \in Prio : Nice(p, new)
               \/ Terminate(p)
        PROVE  UNCHANGED mails
    BY <1>5 DEF SendCheck, Unbind, Bind, Nice, Terminate
  <1>6. ASSUME KernelStep PROVE UNCHANGED mails \/ return_mail
    BY <1>6 DEF KernelStep, UnbindDone, TerminateMsgq, TerminateDone
  <1>7. ASSUME UartReceive PROVE UNCHANGED mails \/ \E b \in Msgq : Store(b)
    BY <1>1, <1>2, <1>7 DEF UartReceive
  <1>8. ASSUME SysTick PROVE UNCHANGED mails \/ \E b \in Msgq : Store(b)
    BY <1>1, <1>2, <1>8 DEF SysTick
  <1>9. ASSUME PendSV \/ next_process PROVE UNCHANGED mails
    BY <1>9 DEF PendSV, next_process
  <1> QED BY <1>3, <1>4, <1>5, <1>6, <1>7, <1>8, <1>9 DEF Next, ProcessStep

\* What a step that moves a mail does: m is taken from the ring of from and
\* put before to.
Moved(m, from, to) ==
  /\ m \in Mail /\ from \in Mail /\ to \in Mail \cup {NULL}
  /\ links.next[from] = from => m = from
  /\ links' = EnqLinks(DeqLinks(links, m, from), m, to)

\* The head of the free mails, put before the mails of message queue b.
LEMMA StoreMoves ==
  ASSUME IInv, NEW b \in Msgq, Store(b), maillist # NULL
  PROVE  /\ Moved(maillist, maillist, mailq[b])
         /\ maillist' = DeqHead(links, maillist, maillist)
         /\ mailq' = [mailq EXCEPT ![b] = maillist]
         /\ mailq \in [Msgq -> Mail \cup {NULL}]
  BY DEF IInv, IpcInv, IpcType, Store, Moved

\* The last mail of message queue b, put before the free mails.
LEMMA FetchMoves ==
  ASSUME IInv, NEW b \in Msgq, Fetch(b)
  PROVE  /\ Moved(links.prev[mailq[b]], mailq[b], maillist)
         /\ links.next[links.prev[mailq[b]]] = mailq[b]
         /\ maillist' = links.prev[mailq[b]]
         /\ mailq' = mailq
         /\ mailq \in [Msgq -> Mail \cup {NULL}]
  <1>1. /\ mailq \in [Msgq -> Mail \cup {NULL}] /\ mailq[b] # NULL
        /\ maillist \in Mail \cup {NULL}
        /\ links.prev \in [Mail -> Mail] /\ MutuallyInverse(links, Mail)
        /\ links' = EnqLinks(DeqLinks(links, links.prev[mailq[b]], mailq[b]),
                             links.prev[mailq[b]], maillist)
        /\ maillist' = links.prev[mailq[b]] /\ mailq' = mailq
    BY DEF IInv, IpcInv, IpcType, Fetch, MailsLinked, LinksOf
  <1>2. mailq[b] \in Mail
    BY <1>1
  <1>3. /\ links.prev[mailq[b]] \in Mail /\ links.next[links.prev[mailq[b]]] = mailq[b]
        /\ links.next[mailq[b]] = mailq[b] => links.prev[mailq[b]] = mailq[b]
    BY <1>1, <1>2 DEF MutuallyInverse
  <1> QED BY <1>1, <1>2, <1>3 DEF Moved

\* The head of the message queue that is emptied, put before the free mails.
LEMMA ReturnMoves ==
  ASSUME IInv, return_mail
  PROVE  /\ kcall.box \in Msgq /\ mailq[kcall.box] = kcall.tmp
         /\ pcbptr[kcall.box] = NULL
         /\ Moved(kcall.tmp, kcall.tmp, maillist)
         /\ maillist' = kcall.tmp
         /\ mailq' = [mailq EXCEPT ![kcall.box] = DeqHead(links, kcall.tmp, kcall.tmp)]
         /\ mailq \in [Msgq -> Mail \cup {NULL}]
  <1>1. /\ IpcType /\ CallInProgress
    BY DEF IInv, IpcInv
  <1>2. /\ kcall.tmp # NULL /\ maillist' = kcall.tmp
        /\ mailq' = [mailq EXCEPT ![kcall.box] = DeqHead(links, kcall.tmp, mailq[kcall.box])]
        /\ links' = EnqLinks(DeqLinks(links, kcall.tmp, mailq[kcall.box]), kcall.tmp, maillist)
    BY DEF return_mail
  <1>3. /\ kcall.box # 0 /\ kcall.box \in 0..MSGQARR_SIZE /\ kcall.tmp \in Mail
        /\ mailq[kcall.box] = kcall.tmp /\ pcbptr[kcall.box] = NULL
    BY <1>1, <1>2 DEF CallInProgress, IpcType, KCall
  <1>4. kcall.box \in Msgq
    BY <1>3, ConstantsOK DEF Msgq
  <1> QED BY <1>1, <1>2, <1>3, <1>4 DEF IpcType, Moved

\* The head pointers into the rings of mails.
Heads == {maillist} \cup {mailq[b] : b \in Msgq}

\* The mails' invariant: every ring has a head.
MailsCovered == Covered(Heads, links, Mail)

\* reg_mails: the one ring is that of the mail list.
LEMMA InitCovered ==
  ASSUME IInv, Init PROVE MailsCovered
  <1>1. /\ MailRing \in Seq(Mail) /\ MailRing # <<>> /\ NoDuplicates(MailRing)
        /\ Range(MailRing) = Mail
        /\ maillist = MailRing[1]
        /\ \A m \in Mail : links.next[m] = Following(m, MailRing)
    BY MailRingOK DEF Init
  <1>2. MutuallyInverse(links, Mail)
    BY DEF IInv, IpcInv, MailsLinked
  <1> DEFINE n == Len(MailRing)
  <1>3. n \in Nat \ {0}
    BY <1>1
  <1>4. ASSUME NEW i \in 1..n, i # 1
        PROVE  /\ MailRing[i] \in Mail /\ MailRing[i - 1] \in Mail
               /\ links.prev[MailRing[i]] = MailRing[i - 1]
    <2>1. i - 1 \in 1..n /\ i - 1 # n /\ (i - 1) + 1 = i
      BY <1>3, <1>4
    <2>2. MailRing[i] \in Mail /\ MailRing[i - 1] \in Mail
      BY <1>1, <2>1
    <2>3. Position(MailRing[i - 1], MailRing) = i - 1
      <3>1. MailRing[i - 1] \in Range(MailRing)
        BY <1>1, <2>2
      <3>2. /\ Position(MailRing[i - 1], MailRing) \in 1..n
            /\ MailRing[Position(MailRing[i - 1], MailRing)] = MailRing[i - 1]
        BY <1>1, <3>1, PositionFound
      <3> QED BY <1>1, <2>1, <3>2 DEF NoDuplicates, IsInjective
    <2>4. links.next[MailRing[i - 1]] = MailRing[i]
      BY <1>1, <2>1, <2>2, <2>3 DEF Following
    <2> QED BY <1>2, <2>2, <2>4 DEF MutuallyInverse
  <1>5. SUFFICES ASSUME NEW C \in SUBSET Mail, C # {}, Closed(C, links)
                 PROVE  maillist \in C
    BY DEF MailsCovered, Covered, Heads
  <1> DEFINE T == {i \in 1..n : MailRing[i] \in C}
  <1>6. T # {}
    BY <1>1, <1>5 DEF Range
  <1>7. PICK i \in T : \A y \in T : ~(y < i)
    <2>1. T \in SUBSET Nat
      OBVIOUS
    <2> HIDE DEF T
    <2> QED BY <1>6, <2>1, FirstExists
  <1>8. i \in 1..n /\ MailRing[i] \in C
    OBVIOUS
  <1>9. i = 1
    <2>1. SUFFICES ASSUME i # 1 PROVE FALSE
      OBVIOUS
    <2>2. MailRing[i - 1] \in C
      BY <1>4, <1>5, <1>8, <2>1 DEF Closed
    <2>3. i - 1 \in T /\ i - 1 < i
      BY <1>3, <1>8, <2>1, <2>2
    <2> QED BY <1>7, <2>3
  <1> QED BY <1>1, <1>8, <1>9

\* A step that moves a mail leaves no ring without a head.
LEMMA MoveCovers ==
  ASSUME IInv, MailsCovered, NEW m, NEW from, NEW to, Moved(m, from, to),
         \A h \in Heads \ {m, to} : h \in Heads',
         m \in Heads', links.next[m] # m => links.next[m] \in Heads'
  PROVE  MailsCovered'
  <1>1. NULL \notin Mail /\ links \in LinksOf(Mail)
    BY ConstantsOK DEF IInv, IpcInv, IpcType
  <1>2. Covered(Heads', EnqLinks(DeqLinks(links, m, from), m, to), Mail)
    BY <1>1, MoveCovered DEF Moved, MailsCovered
  <1> QED BY <1>2 DEF Moved, MailsCovered

LEMMA StepCovered ==
  ASSUME IInv, MailsCovered, [Next]_vars PROVE MailsCovered'
  <1>1. CASE UNCHANGED mails
    BY <1>1 DEF mails, MailsCovered, Heads
  <1>2. ASSUME NEW b \in Msgq, Store(b) PROVE MailsCovered'
    <2>1. CASE maillist = NULL
      BY <1>1, <1>2, <2>1 DEF Store
    <2>2. CASE maillist # NULL
      <3>1. /\ Moved(maillist, maillist, mailq[b])
            /\ maillist' = DeqHead(links, maillist, maillist)
            /\ mailq' = [mailq EXCEPT ![b] = maillist]
            /\ mailq \in [Msgq -> Mail \cup {NULL}]
        BY <1>2, <2>2, StoreMoves
      <3>2. \A h \in Heads \ {maillist, mailq[b]} : h \in Heads'
        BY <3>1 DEF Heads
      <3>3. maillist \in Heads'
        BY <3>1 DEF Heads
      <3>4. links.next[maillist] # maillist => links.next[maillist] \in Heads'
        BY <2>2, <3>1 DEF Heads, DeqHead
      <3> QED BY <3>1, <3>2, <3>3, <3>4, MoveCovers
    <2> QED BY <2>1, <2>2
  <1>3. ASSUME NEW b \in Msgq, Fetch(b) PROVE MailsCovered'
    <2> DEFINE oldest == links.prev[mailq[b]]
    <2>1. /\ Moved(oldest, mailq[b], maillist) /\ links.next[oldest] = mailq[b]
          /\ maillist' = oldest /\ mailq' = mailq
      BY <1>3, FetchMoves
    <2> HIDE DEF oldest
    <2>2. /\ \A h \in Heads \ {oldest, maillist} : h \in Heads'
          /\ oldest \in Heads' /\ links.next[oldest] \in Heads'
      BY <2>1 DEF Heads
    <2> QED BY <2>1, <2>2, MoveCovers
  <1>4. CASE return_mail
    <2> DEFINE m == kcall.tmp
               b == kcall.box
    <2>1. /\ b \in Msgq /\ mailq[b] = m /\ Moved(m, m, maillist) /\ maillist' = m
          /\ mailq' = [mailq EXCEPT ![b] = DeqHead(links, m, m)]
          /\ mailq \in [Msgq -> Mail \cup {NULL}]
      BY <1>4, ReturnMoves
    <2>2. NULL \notin Mail
      BY ConstantsOK
    <2> HIDE DEF m, b
    <2>3. /\ \A h \in Heads \ {m, maillist} : h \in Heads'
          /\ m \in Heads'
      BY <2>1 DEF Heads
    <2>4. links.next[m] # m => links.next[m] \in Heads'
      BY <2>1, <2>2 DEF Heads, DeqHead, Moved
    <2> QED BY <2>1, <2>3, <2>4, MoveCovers
  <1>5. CASE UNCHANGED vars
    BY <1>1, <1>5 DEF vars
  <1> QED BY <1>1, <1>2, <1>3, <1>4, <1>5, MailSteps

\* No mail is lost, stale heads or not: in every reachable state each mail can
\* be reached from the mail list or from a message queue.
THEOREM NoMailLost == Spec => []MailsConserved
  <1>1. Init /\ IInv => MailsCovered
    BY InitCovered
  <1>2. IInv /\ MailsCovered /\ [Next]_vars => MailsCovered'
    BY StepCovered
  <1>3. IInv /\ MailsCovered => MailsConserved
    <2> SUFFICES ASSUME IInv, MailsCovered PROVE MailsConserved
      OBVIOUS
    <2>1. /\ links \in LinksOf(Mail) /\ MutuallyInverse(links, Mail) /\ NULL \notin Mail
          /\ maillist \in Mail \cup {NULL} /\ mailq \in [Msgq -> Mail \cup {NULL}]
      BY ConstantsOK DEF IInv, IpcInv, IpcType, MailsLinked
    <2> DEFINE R(h) == Range(Walk(links, h, Cardinality(Mail)))
    <2>2. ASSUME NEW m \in Mail
          PROVE  m \in MailsOf(maillist) \cup UNION {MailsOf(mailq[b]) : b \in Msgq}
      <3>1. PICK h \in Heads \cap Mail : m \in R(h)
        BY <2>1, MailsFinite, CoveredReached DEF MailsCovered
      <3>2. h # NULL /\ m \in MailsOf(h)
        BY <2>1, <3>1 DEF MailsOf
      <3> QED BY <3>2 DEF Heads
    <2>3. ASSUME NEW h \in Mail \cup {NULL} PROVE MailsOf(h) \subseteq Mail
      <3>1. CASE h = NULL
        BY <3>1 DEF MailsOf
      <3>2. CASE h # NULL
        BY <2>1, <3>2, MailsFinite, WalkCloses DEF MailsOf
      <3> QED BY <3>1, <3>2
    <2>4. ASSUME NEW b \in Msgq PROVE MailsOf(mailq[b]) \subseteq Mail
      BY <2>1, <2>3
    <2> QED BY <2>1, <2>2, <2>3, <2>4 DEF MailsConserved
  <1> QED BY <1>1, <1>2, <1>3, InductiveInvariant, PTL DEF Spec

-----------------------------------------------------------------------------
(* The order of the mails: while no head pointer leads to where another    *)
(* one does, the ring of each is a sequence, and each step that moves a    *)
(* mail is a step of the FIFOs of Mailboxes.                               *)

\* MailsOf and OldestFirst for given links.
MailsAt(lk, hd) == IF hd = NULL THEN {} ELSE Range(Walk(lk, hd, Cardinality(Mail)))

OldestAt(lk, hd) ==
  IF hd = NULL THEN <<>>
  ELSE LET walk == Walk(lk, hd, Cardinality(Mail))
           n  == Min({i \in 1..Cardinality(Mail) : walk[i] = hd})
       IN  [i \in 1..n |-> walk[n - i]]

LEMMA MailsNowAndThen ==
  /\ MailsOf(maillist) = MailsAt(links, maillist)
  /\ MailsOf(maillist)' = MailsAt(links', maillist')
  /\ \A b \in Msgq : /\ MailsOf(mailq[b]) = MailsAt(links, mailq[b])
                     /\ MailsOf(mailq[b])' = MailsAt(links', mailq'[b])
                     /\ OldestFirst(mailq[b]) = OldestAt(links, mailq[b])
                     /\ OldestFirst(mailq[b])' = OldestAt(links', mailq'[b])
  BY DEF MailsOf, MailsAt, OldestFirst, OldestAt

\* What a ring of mails is to them.
LEMMA FormsMails ==
  ASSUME NULL \notin Mail, NEW ring \in Seq(Mail), NEW lk, NEW hd, Forms(ring, lk, hd)
  PROVE  MailsAt(lk, hd) = Range(ring) /\ OldestAt(lk, hd) = Reverse(ring)
  <1>1. CASE ring = <<>>
    <2>1. hd = NULL /\ Range(ring) = {}
      BY <1>1, EmptyRing DEF Forms
    <2>2. Reverse(ring) = <<>>
      <3>1. Reverse(ring) \in Seq(Mail) /\ Len(Reverse(ring)) = Len(ring)
        BY ReversedRing
      <3>2. Len(ring) = 0
        BY <1>1
      <3> QED BY <3>1, <3>2
    <2> QED BY <2>1, <2>2 DEF MailsAt, OldestAt
  <1>2. CASE ring # <<>>
    <2> DEFINE c == Cardinality(Mail)
               walk == Walk(lk, hd, c)
               L == Len(ring)
               T == {i \in 1..c : walk[i] = hd}
    <2>1. hd # NULL
      BY <1>2 DEF Forms
    <2>2. /\ L \in 1..c /\ c \in Nat
          /\ \A i \in 0..(L - 1) : walk[i] = ring[i + 1]
          /\ walk[L] = hd
          /\ \A i \in 1..(L - 1) : walk[i] # hd
          /\ Range(walk) = Range(ring)
      BY <1>2, MailsFinite, WalkMeets
    <2>3. /\ MailsAt(lk, hd) = Range(walk)
          /\ OldestAt(lk, hd) = [i \in 1..Min(T) |-> walk[Min(T) - i]]
      BY <2>1 DEF MailsAt, OldestAt
    <2>a. Reverse(ring) = [i \in 1..L |-> ring[(L - i) + 1]]
      BY DEF Reverse
    <2> HIDE DEF c, walk, L
    <2>4. Min(T) = L
      <3>1. L \in T /\ \A y \in T : L <= y
        <4>1. ASSUME NEW y \in T PROVE L <= y
          <5>1. y \in 1..c /\ walk[y] = hd
            OBVIOUS
          <5>2. ~(y \in 1..(L - 1))
            BY <2>2, <5>1
          <5> QED BY <2>2, <5>1, <5>2
        <4> QED BY <2>2, <4>1
      <3>2. ASSUME NEW m \in T, \A y \in T : m <= y PROVE m = L
        <4>1. m <= L /\ L <= m /\ m \in Nat /\ L \in Nat
          BY <2>2, <3>1, <3>2
        <4> QED BY <4>1
      <3> HIDE DEF T
      <3> QED BY <3>1, <3>2 DEF Min
    <2> HIDE DEF T
    <2>5. ASSUME NEW i \in 1..L PROVE walk[L - i] = ring[(L - i) + 1]
      <3>1. L - i \in 0..(L - 1)
        BY <2>2
      <3> QED BY <2>2, <3>1
    <2> QED BY <2>2, <2>3, <2>a, <2>4, <2>5
  <1> QED BY <1>1, <1>2

\* Every head pointer leads to a ring.
LEMMA HeadsForm ==
  ASSUME IInv, NEW hd \in Mail \cup {NULL}
  PROVE  \E ring \in Seq(Mail) : Forms(ring, links, hd)
  <1>1. links \in LinksOf(Mail) /\ MutuallyInverse(links, Mail)
    BY DEF IInv, IpcInv, IpcType, MailsLinked
  <1>2. CASE hd = NULL
    <2>1. <<>> \in Seq(Mail)
      OBVIOUS
    <2>2. NoDuplicates(<<>>)
      BY <2>1, EmptyRing
    <2>3. Forms(<<>>, links, hd)
      BY <1>2, <2>2 DEF Forms
    <2> QED BY <2>1, <2>3
  <1>3. CASE hd # NULL
    BY <1>1, <1>3, MailsFinite, RingExists
  <1> QED BY <1>2, <1>3

\* The rings of the message queues and of the mail list, free, all apart.
RingsApart(ring, free) ==
  /\ ring \in [Msgq -> Seq(Mail)] /\ free \in Seq(Mail)
  /\ Forms(free, links, maillist)
  /\ \A b \in Msgq : /\ Forms(ring[b], links, mailq[b])
                     /\ Range(ring[b]) \cap Range(free) = {}
                     /\ \A a \in Msgq : a # b => Range(ring[a]) \cap Range(ring[b]) = {}

LEMMA RingsFound ==
  ASSUME IInv, HeadsApart
  PROVE  \E ring, free : RingsApart(ring, free)
  <1>1. /\ maillist \in Mail \cup {NULL} /\ mailq \in [Msgq -> Mail \cup {NULL}]
        /\ NULL \notin Mail
    BY ConstantsOK DEF IInv, IpcInv, IpcType
  <1>2. PICK free \in Seq(Mail) : Forms(free, links, maillist)
    BY <1>1, HeadsForm
  <1> DEFINE ring == [b \in Msgq |-> CHOOSE r \in Seq(Mail) : Forms(r, links, mailq[b])]
  <1>3. ASSUME NEW b \in Msgq PROVE ring[b] \in Seq(Mail) /\ Forms(ring[b], links, mailq[b])
    <2>1. \E r \in Seq(Mail) : Forms(r, links, mailq[b])
      BY <1>1, HeadsForm
    <2> QED BY <2>1
  <1>4. ring \in [Msgq -> Seq(Mail)]
    BY <1>3
  <1> HIDE DEF ring
  <1>5. MailsOf(maillist) = Range(free)
    BY <1>1, <1>2, FormsMails, MailsNowAndThen
  <1>6. \A b \in Msgq : MailsOf(mailq[b]) = Range(ring[b])
    BY <1>1, <1>3, FormsMails, MailsNowAndThen
  <1>7. RingsApart(ring, free)
    BY <1>2, <1>3, <1>4, <1>5, <1>6 DEF RingsApart, HeadsApart, NoStaleHead
  <1> QED BY <1>7

\* What Mailboxes sees of rings that are the same before and after.
LEMMA SeenNow ==
  ASSUME IInv, NEW ring, NEW free, RingsApart(ring, free)
  PROVE  /\ MailsOf(maillist) = Range(free)
         /\ \A b \in Msgq : OldestFirst(mailq[b]) = Reverse(ring[b])
  BY ConstantsOK, FormsMails, MailsNowAndThen DEF RingsApart

\* The other message queues, where the mail goes from one ring to another.
LEMMA OthersSame ==
  ASSUME IInv, NEW ring, NEW free, RingsApart(ring, free), NEW b \in Msgq,
         \A y \in Mail \ (Range(free) \cup Range(ring[b])) : links'.next[y] = links.next[y],
         NEW a \in Msgq, a # b, mailq'[a] = mailq[a]
  PROVE  OldestFirst(mailq[a])' = OldestFirst(mailq[a])
  <1>1. /\ ring[a] \in Seq(Mail) /\ Forms(ring[a], links, mailq[a])
        /\ Range(ring[a]) \cap Range(free) = {} /\ Range(ring[a]) \cap Range(ring[b]) = {}
        /\ NULL \notin Mail
    BY ConstantsOK DEF RingsApart
  <1>2. \A y \in Range(ring[a]) : links'.next[y] = links.next[y]
    BY <1>1, RingMembers
  <1>3. Forms(ring[a], links', mailq'[a])
    BY <1>1, <1>2, FormsKept
  <1> QED BY <1>1, <1>3, FormsMails, MailsNowAndThen

\* k_send queues the first free mail behind those that wait.
LEMMA StoreInOrder ==
  ASSUME IInv, HeadsApart, NEW b \in Msgq, Store(b), maillist # NULL
  PROVE  Boxes!Post(b)
  <1>1. PICK ring, free : RingsApart(ring, free)
    BY RingsFound
  <1> DEFINE x == maillist
             q == mailq[b]
  <1>2. /\ Moved(x, x, q) /\ x \in Mail
        /\ maillist' = DeqHead(links, x, x)
        /\ mailq' = [mailq EXCEPT ![b] = x]
        /\ mailq \in [Msgq -> Mail \cup {NULL}]
        /\ links' = EnqLinks(DeqLinks(links, x, x), x, q)
    BY StoreMoves DEF Moved
  <1>3. /\ NULL \notin Mail /\ links \in LinksOf(Mail) /\ MutuallyInverse(links, Mail)
    BY ConstantsOK DEF IInv, IpcInv, IpcType, MailsLinked
  <1>4. /\ free \in Seq(Mail) /\ Forms(free, links, x) /\ x \in Range(free)
        /\ ring[b] \in Seq(Mail) /\ Forms(ring[b], links, q)
        /\ Range(free) \cap Range(ring[b]) = {}
    <2>1. /\ free \in Seq(Mail) /\ Forms(free, links, x)
          /\ ring[b] \in Seq(Mail) /\ Forms(ring[b], links, q)
          /\ Range(free) \cap Range(ring[b]) = {}
      BY <1>1 DEF RingsApart
    <2>2. free # <<>> /\ x = free[1]
      BY <2>1 DEF Forms
    <2>3. x \in Range(free)
      BY <2>1, <2>2, EmptyRing
    <2> QED BY <2>1, <2>3
  <1>5. mailq'[b] = x /\ \A a \in Msgq : a # b => mailq'[a] = mailq[a]
    BY <1>2
  <1> HIDE DEF x, q
  <1>6. /\ Deq(x, free) \in Seq(Mail) /\ Range(Deq(x, free)) = Range(free) \ {x}
        /\ Forms(Deq(x, free), links', DeqHead(links, x, x))
        /\ Enq(x, ring[b]) \in Seq(Mail) /\ Forms(Enq(x, ring[b]), links', x)
        /\ \A y \in Mail \ (Range(free) \cup Range(ring[b])) : links'.next[y] = links.next[y]
    BY <1>2, <1>3, <1>4, MoveForms
  <1>7. MailsOf(maillist) = Range(free) /\ OldestFirst(mailq[b]) = Reverse(ring[b])
    BY <1>1, SeenNow
  <1>8. MailsOf(maillist)' = Range(free) \ {x}
    BY <1>2, <1>3, <1>6, FormsMails, MailsNowAndThen
  <1>9. OldestFirst(mailq[b])' = Append(Reverse(ring[b]), x)
    <2>1. OldestFirst(mailq[b])' = Reverse(Enq(x, ring[b]))
      BY <1>3, <1>5, <1>6, FormsMails, MailsNowAndThen
    <2> QED BY <1>2, <1>4, <2>1, ReversedEnq
  <1>10. \A a \in Msgq : a # b => OldestFirst(mailq[a])' = OldestFirst(mailq[a])
    BY <1>1, <1>5, <1>6, OthersSame
  <1>11. [a \in Msgq |-> OldestFirst(mailq[a])]'
           = [[a \in Msgq |-> OldestFirst(mailq[a])] EXCEPT ![b] = Append(@, x)]
    BY <1>7, <1>9, <1>10
  <1> QED BY <1>4, <1>7, <1>8, <1>11 DEF Boxes!Post

\* k_recv takes the oldest mail of its caller's message queue, unless it
\* leaves the head of that queue in the mail list.
LEMMA FetchInOrder ==
  ASSUME IInv, HeadsApart, HeadsApart', IInv', NEW b \in Msgq, Fetch(b), pcbptr[b] # NULL
  PROVE  Boxes!Take(b)
  <1>1. PICK ring, free : RingsApart(ring, free)
    BY RingsFound
  <1> DEFINE q == mailq[b]
             x == links.prev[q]
  <1>2. /\ Moved(x, q, maillist) /\ x \in Mail /\ q \in Mail
        /\ maillist' = x /\ mailq' = mailq
        /\ links' = EnqLinks(DeqLinks(links, x, q), x, maillist)
    BY FetchMoves DEF Moved
  <1>3. /\ NULL \notin Mail /\ links \in LinksOf(Mail) /\ MutuallyInverse(links, Mail)
        /\ links' \in LinksOf(Mail) /\ MutuallyInverse(links', Mail)
    BY ConstantsOK DEF IInv, IpcInv, IpcType, MailsLinked
  <1>4. /\ free \in Seq(Mail) /\ Forms(free, links, maillist)
        /\ ring[b] \in Seq(Mail) /\ Forms(ring[b], links, q)
        /\ Range(ring[b]) \cap Range(free) = {}
    BY <1>1 DEF RingsApart
  <1>5. ring[b] # <<>> /\ q = ring[b][1]
    BY <1>2, <1>3, <1>4 DEF Forms
  <1>6. x = ring[b][Len(ring[b])] /\ x \in Range(ring[b])
    <2> DEFINE r == ring[b]
    <2>1. 1 \in 1..Len(r) /\ Len(r) \in 1..Len(r)
      BY <1>4, <1>5
    <2>2. links.prev[r[1]] = r[Len(r)]
      BY <1>3, <1>4, <2>1, FormsPrev
    <2>3. r[Len(r)] \in Range(r)
      BY <1>4, <2>1 DEF Range
    <2> QED BY <1>5, <2>2, <2>3
  <1> HIDE DEF x
  <1>7. x # q
    <2>1. SUFFICES ASSUME x = q PROVE FALSE
      OBVIOUS
    <2>2. MailsOf(mailq[b])' = MailsOf(maillist)'
      BY <1>2, <2>1, MailsNowAndThen
    <2>3. q \in MailsOf(maillist)'
      <3>1. q \in Range(Walk(links', q, Cardinality(Mail)))
        BY <1>2, <1>3, MailsFinite, WalkCloses
      <3>2. MailsOf(maillist)' = Range(Walk(links', q, Cardinality(Mail)))
        BY <1>2, <1>3, <2>1, MailsNowAndThen DEF MailsAt
      <3> QED BY <3>1, <3>2
    <2>4. MailsOf(mailq[b])' \cap MailsOf(maillist)' = {}
      BY DEF HeadsApart, NoStaleHead
    <2> QED BY <2>2, <2>3, <2>4
  <1> HIDE DEF q
  <1>8. /\ Deq(x, ring[b]) \in Seq(Mail)
        /\ Forms(Deq(x, ring[b]), links', DeqHead(links, x, q))
        /\ Enq(x, free) \in Seq(Mail) /\ Range(Enq(x, free)) = Range(free) \cup {x}
        /\ Forms(Enq(x, free), links', x)
        /\ \A y \in Mail \ (Range(ring[b]) \cup Range(free)) : links'.next[y] = links.next[y]
    BY <1>2, <1>3, <1>4, <1>6, MoveForms
  <1>9. DeqHead(links, x, q) = q
    BY <1>2, <1>3, <1>7 DEF DeqHead, Moved
  <1>10. MailsOf(maillist) = Range(free) /\ OldestFirst(mailq[b]) = Reverse(ring[b])
    BY <1>1, SeenNow
  <1>11. MailsOf(maillist)' = Range(free) \cup {x}
    BY <1>2, <1>3, <1>8, FormsMails, MailsNowAndThen
  <1>12. /\ Reverse(ring[b]) # <<>> /\ Head(Reverse(ring[b])) = x
         /\ OldestFirst(mailq[b])' = Tail(Reverse(ring[b]))
    <2>1. OldestFirst(mailq[b])' = Reverse(Deq(x, ring[b]))
      BY <1>2, <1>3, <1>8, <1>9, FormsMails, MailsNowAndThen DEF q
    <2>2. NoDuplicates(ring[b])
      BY <1>4 DEF Forms
    <2> QED BY <1>4, <1>5, <1>6, <2>1, <2>2, ReversedDeqLast
  <1>13. \A a \in Msgq : a # b => OldestFirst(mailq[a])' = OldestFirst(mailq[a])
    BY <1>1, <1>2, <1>8, OthersSame
  <1>14. [a \in Msgq |-> OldestFirst(mailq[a])]'
           = [[a \in Msgq |-> OldestFirst(mailq[a])] EXCEPT ![b] = Tail(@)]
    BY <1>10, <1>12, <1>13
  <1> QED BY <1>10, <1>11, <1>12, <1>14 DEF Boxes!Take

\* return_mail gives back the newest mail of a message queue nobody owns.
LEMMA ReturnInOrder ==
  ASSUME IInv, HeadsApart, return_mail, NEW b, b = kcall.box,
         NEW x, x = kcall.tmp
  PROVE  b \in Msgq /\ Boxes!GiveBack(b)
  <1>1. PICK ring, free : RingsApart(ring, free)
    BY RingsFound
  <1>2. /\ b \in Msgq /\ mailq[b] = x /\ pcbptr[b] = NULL
        /\ x \in Mail /\ maillist' = x
        /\ mailq' = [mailq EXCEPT ![b] = DeqHead(links, x, x)]
        /\ mailq \in [Msgq -> Mail \cup {NULL}]
        /\ links' = EnqLinks(DeqLinks(links, x, x), x, maillist)
    BY ReturnMoves DEF Moved
  <1>3. /\ NULL \notin Mail /\ links \in LinksOf(Mail) /\ MutuallyInverse(links, Mail)
    BY ConstantsOK DEF IInv, IpcInv, IpcType, MailsLinked
  <1>4. /\ free \in Seq(Mail) /\ Forms(free, links, maillist)
        /\ ring[b] \in Seq(Mail) /\ Forms(ring[b], links, x)
        /\ Range(ring[b]) \cap Range(free) = {}
    BY <1>1, <1>2 DEF RingsApart
  <1>5. ring[b] # <<>> /\ x = ring[b][1] /\ x \in Range(ring[b])
    BY <1>2, <1>3, <1>4, EmptyRing DEF Forms
  <1>6. mailq'[b] = DeqHead(links, x, x) /\ \A a \in Msgq : a # b => mailq'[a] = mailq[a]
    BY <1>2
  <1>7. /\ Deq(x, ring[b]) \in Seq(Mail)
        /\ Forms(Deq(x, ring[b]), links', DeqHead(links, x, x))
        /\ Enq(x, free) \in Seq(Mail) /\ Range(Enq(x, free)) = Range(free) \cup {x}
        /\ Forms(Enq(x, free), links', x)
        /\ \A y \in Mail \ (Range(ring[b]) \cup Range(free)) : links'.next[y] = links.next[y]
    BY <1>2, <1>3, <1>4, <1>5, MoveForms
  <1>8. MailsOf(maillist) = Range(free) /\ OldestFirst(mailq[b]) = Reverse(ring[b])
    BY <1>1, <1>2, SeenNow
  <1>9. MailsOf(maillist)' = Range(free) \cup {x}
    BY <1>2, <1>3, <1>7, FormsMails, MailsNowAndThen
  <1>10. /\ Reverse(ring[b]) # <<>> /\ Last(Reverse(ring[b])) = x
         /\ OldestFirst(mailq[b])' = Front(Reverse(ring[b]))
    <2>1. OldestFirst(mailq[b])' = Reverse(Deq(x, ring[b]))
      BY <1>2, <1>3, <1>6, <1>7, FormsMails, MailsNowAndThen
    <2>2. NoDuplicates(ring[b])
      BY <1>4 DEF Forms
    <2> QED BY <1>4, <1>5, <2>1, <2>2, ReversedDeqHead
  <1>11. \A a \in Msgq : a # b => OldestFirst(mailq[a])' = OldestFirst(mailq[a])
    BY <1>1, <1>2, <1>6, <1>7, OthersSame
  <1>12. \A s : Boxes!Front(s) = Front(s) /\ Boxes!Last(s) = Last(s)
    BY DEF Boxes!Front, Front, Boxes!Last, Last
  <1>13. [a \in Msgq |-> OldestFirst(mailq[a])]'
           = [[a \in Msgq |-> OldestFirst(mailq[a])] EXCEPT ![b] = Front(@)]
    BY <1>8, <1>10, <1>11
  <1>14. Boxes!GiveBack(b)
    BY <1>2, <1>8, <1>9, <1>10, <1>12, <1>13 DEF Boxes!GiveBack
  <1> QED BY <1>2, <1>14

\* Messages are received in the order they were sent: as long as no head
\* pointer leads into the ring of another, each kernel call and handler is a
\* step of the FIFOs, or leaves the mails alone.
THEOREM MailsKeepOrder == Spec => MailsInOrder
  <1>1. ASSUME IInv, IInv', Next, HeadsApart, HeadsApart'
        PROVE  Boxes!Next \/ UNCHANGED mails
    <2>1. ASSUME NEW b \in Msgq, Store(b) PROVE Boxes!Next \/ UNCHANGED mails
      <3>1. CASE maillist = NULL
        BY <2>1, <3>1 DEF Store
      <3>2. CASE maillist # NULL
        BY <1>1, <2>1, <3>2, StoreInOrder DEF Boxes!Next
      <3> QED BY <3>1, <3>2
    <2>2. ASSUME NEW b \in Msgq, Fetch(b), pcbptr[b] # NULL PROVE Boxes!Next
      BY <1>1, <2>2, FetchInOrder DEF Boxes!Next
    <2>3. ASSUME return_mail PROVE Boxes!Next
      BY <1>1, <2>3, ReturnInOrder DEF Boxes!Next
    <2> QED BY <1>1, <2>1, <2>2, <2>3, MailSteps
  <1>2. IInv /\ IInv' /\ [Next]_vars => [HeadsApart /\ HeadsApart' => Boxes!Next]_mails
    <2>1. UNCHANGED vars => UNCHANGED mails
      BY DEF vars
    <2> QED BY <1>1, <2>1
  <1> QED BY <1>2, InductiveInvariant, PTL DEF Spec, MailsInOrder

-----------------------------------------------------------------------------
(* The programs of main.c. *)

\* The servers' own processes and message queues are the kernel's.
LEMMA OwnBoxes ==
  ASSUME ServersOK, ConstantsOK
  PROVE  /\ DOMAIN Own \subseteq Proc
         /\ \A p \in DOMAIN Own : Own[p] \in Msgq
         /\ \A p \in DOMAIN Own : Own[p] \in 0..MSGQARR_SIZE
  <1>1. \A p \in DOMAIN Own : Own[p] \in Msgq
    BY DEF Own, ServersOK, ConstantsOK
  <1>2. DOMAIN Own \subseteq Proc
    BY DEF Own, ServersOK, ConstantsOK
  <1>3. Msgq \subseteq 0..MSGQARR_SIZE
    BY DEF Msgq, ConstantsOK
  <1> QED BY <1>1, <1>2, <1>3

\* A step of a program is one of its process, or leaves the kernel alone.
LEMMA ProgramStep ==
  ASSUME ServersOK, ConstantsOK, Program
  PROVE  Next \/ UNCHANGED vars
  <1>1. ASSUME NEW p \in DOMAIN Own, bind(p)
        PROVE  Next
    <2>1. p \in Proc /\ Own[p] \in 0..MSGQARR_SIZE
      BY OwnBoxes
    <2>2. Bind(p, Own[p])
      BY <1>1 DEF bind
    <2> QED BY <2>1, <2>2 DEF Next, ProcessStep
  <1>2. ASSUME NEW p \in DOMAIN Own, send(p)
        PROVE  Next \/ UNCHANGED vars
    <2>1. p \in Proc
      BY OwnBoxes
    <2>2. PICK o \in Outgoing(p) :
            \/ o.dst \in Msgq /\ SendCheck(p, o.dst)
            \/ UNCHANGED vars
            \/ Send(p)
      BY <1>2 DEF send
    <2> QED BY <2>1, <2>2 DEF Next, ProcessStep
  <1>3. ASSUME NEW p \in DOMAIN Own \ {IdleProc}, recv(p)
        PROVE  Next
    <2>1. p \in Proc /\ Own[p] \in Msgq
      BY OwnBoxes
    <2>2. Recv(p, Own[p])
      BY <1>3 DEF recv
    <2> QED BY <2>1, <2>2 DEF Next, ProcessStep
  <1>4. CASE UserEnds
    <2>1. user \in Proc
      BY DEF ServersOK
    <2>2. Terminate(user)
      BY <1>4 DEF UserEnds
    <2> QED BY <2>1, <2>2 DEF Next, ProcessStep
  <1>5. CASE \/ time_server_ignores \/ output_server_flags \/ output_server_shows
             \/ decode_cmd \/ Search \/ Found \/ UserChooses
    <2>1. UNCHANGED vars
      BY <1>5 DEF time_server_ignores, output_server_flags, output_server_shows,
                  decode_cmd, Search, Found, UserChooses
    <2> QED BY <2>1
  <1> QED BY <1>1, <1>2, <1>3, <1>4, <1>5 DEF Program

\* The programs of main.c with the kernel below them do what the kernel does:
\* sending, receiving and the walk over blockq change nothing of it.
THEOREM ServersAreProcesses == ServersSpec => Spec
  <1>1. ServersInit => Init
    BY DEF ServersInit
  <1>2. [ServersNext]_allvars => [Next]_vars
    <2>1. CASE Program
      BY <2>1, ProgramStep, ServersOK, ConstantsOK
    <2>2. CASE KernelGoesOn
      BY <2>2 DEF KernelGoesOn, Next
    <2>3. CASE Handlers
      BY <2>3 DEF Handlers, Next
    <2>4. CASE UNCHANGED allvars
      BY <2>4 DEF allvars
    <2> QED BY <2>1, <2>2, <2>3, <2>4 DEF ServersNext
  <1> QED BY <1>1, <1>2, PTL DEF ServersSpec, Spec

\* No wake-up of a server is lost: a server that is blocked has no mail.
THEOREM ServersWoken == ServersSpec => []NoLostWakeup
  BY ServersAreProcesses, WakeupsNotLost, PTL

\* The servers, the user's process and the handlers keep the promises of the
\* abstract scheduler.
THEOREM ServersScheduled == ServersSpec => ImplementsScheduler
  BY ServersAreProcesses, SchedulerImplemented, PTL

-----------------------------------------------------------------------------
(* Who is who.                                                             *)

Clients == {time_server, input_server, output_server, user, IdleProc}

\* The processes and their message queues are five each.
LEMMA OwnIs ==
  /\ DOMAIN Own = Clients /\ Clients \subseteq Proc
  /\ Own[time_server] = TIME_SERVER_MSGQ /\ Own[input_server] = INPUT_SERVER_MSGQ
  /\ Own[output_server] = OUTPUT_SERVER_MSGQ /\ Own[user] = USER_MSGQ
  /\ Own[IdleProc] = IDLE_MSGQ
  /\ \A p \in Clients : Own[p] \in Msgq /\ Own[p] # 0
  /\ \A p, q \in Clients : Own[p] = Own[q] => p = q
  /\ time_server # input_server /\ time_server # output_server /\ time_server # user
  /\ input_server # output_server /\ input_server # user /\ output_server # user
  /\ IdleProc \notin {time_server, input_server, output_server, user}
  /\ TIME_SERVER_MSGQ # INPUT_SERVER_MSGQ /\ TIME_SERVER_MSGQ # OUTPUT_SERVER_MSGQ
  /\ TIME_SERVER_MSGQ # USER_MSGQ /\ INPUT_SERVER_MSGQ # OUTPUT_SERVER_MSGQ
  /\ INPUT_SERVER_MSGQ # USER_MSGQ /\ OUTPUT_SERVER_MSGQ # USER_MSGQ
  /\ NULL \notin Proc
  <1>1. /\ time_server # input_server /\ time_server # output_server /\ time_server # user
        /\ input_server # output_server /\ input_server # user /\ output_server # user
    <2> DEFINE s == <<time_server, input_server, output_server, user>>
    <2>1. \A i, j \in 1..4 : s[i] = s[j] => i = j
      BY ServersOK DEF NoDuplicates, IsInjective
    <2> QED BY <2>1
  <1>2. /\ TIME_SERVER_MSGQ # INPUT_SERVER_MSGQ /\ TIME_SERVER_MSGQ # OUTPUT_SERVER_MSGQ
        /\ TIME_SERVER_MSGQ # USER_MSGQ /\ TIME_SERVER_MSGQ # IDLE_MSGQ
        /\ INPUT_SERVER_MSGQ # OUTPUT_SERVER_MSGQ /\ INPUT_SERVER_MSGQ # USER_MSGQ
        /\ INPUT_SERVER_MSGQ # IDLE_MSGQ /\ OUTPUT_SERVER_MSGQ # USER_MSGQ
        /\ OUTPUT_SERVER_MSGQ # IDLE_MSGQ /\ USER_MSGQ # IDLE_MSGQ
    <2> DEFINE s == <<TIME_SERVER_MSGQ, INPUT_SERVER_MSGQ, OUTPUT_SERVER_MSGQ,
                      USER_MSGQ, IDLE_MSGQ>>
    <2>1. \A i, j \in 1..5 : s[i] = s[j] => i = j
      BY ServersOK DEF NoDuplicates, IsInjective
    <2> QED BY <2>1
  <1>3. /\ IdleProc \notin {time_server, input_server, output_server, user}
        /\ Clients \subseteq Proc /\ NULL \notin Proc
        /\ \A b \in Msgq : b # 0
        /\ {TIME_SERVER_MSGQ, INPUT_SERVER_MSGQ, OUTPUT_SERVER_MSGQ, USER_MSGQ, IDLE_MSGQ}
             \subseteq Msgq
    BY ServersOK, ConstantsOK DEF Clients, Msgq
  <1>4. /\ DOMAIN Own = Clients
        /\ Own[time_server] = TIME_SERVER_MSGQ /\ Own[input_server] = INPUT_SERVER_MSGQ
        /\ Own[output_server] = OUTPUT_SERVER_MSGQ /\ Own[user] = USER_MSGQ
        /\ Own[IdleProc] = IDLE_MSGQ
    BY <1>1, <1>3 DEF Own, Clients
  <1>5. \A p \in Clients : Own[p] \in Msgq /\ Own[p] # 0
    BY <1>3, <1>4 DEF Clients
  <1>6. \A p, q \in Clients : Own[p] = Own[q] => p = q
    BY <1>2, <1>4 DEF Clients
  <1> QED BY <1>1, <1>2, <1>3, <1>4, <1>5, <1>6

\* Each process sends one thing to one message queue, where it is in its program.
LEMMA OutgoingIs ==
  ASSUME NEW p \in Clients, NEW o \in Outgoing(p)
  PROVE  \/ /\ p \in {IdleProc, user} /\ at[p] = "print"
            /\ o.dst = OUTPUT_SERVER_MSGQ /\ o.msg = "text" /\ o.then \in {"print", "choose"}
         \/ /\ p = user /\ at[p] = "ask"
            /\ o.dst = TIME_SERVER_MSGQ /\ o.msg \in {"TIME", "time?"} /\ o.then = "recv"
         \/ /\ p = time_server /\ at[p] = "got" /\ got[p].src = SYSTICK_HANDLER
            /\ o.dst = OUTPUT_SERVER_MSGQ /\ o.msg = "text" /\ o.then = "recv"
         \/ /\ p = time_server /\ at[p] = "got" /\ got[p].src # SYSTICK_HANDLER
            /\ got[p].msg = "TIME"
            /\ o.dst = got[p].src /\ o.msg = "text" /\ o.then = "recv"
         \/ /\ p = input_server /\ at[p] = "tell"
            /\ o.dst = blocked_mailbox[ptr] /\ o.msg = "line" /\ o.then = "clear"
  BY OwnIs DEF Outgoing, Clients

-----------------------------------------------------------------------------
(* The walk over blockq.                                                   *)

\* The programs' own variables are functions on the processes and the mails.
Shape == DOMAIN at = Proc /\ DOMAIN got = Proc /\ DOMAIN mail = Mail /\ DOMAIN request_input = Proc

\* Where a step leaves process p in its program.
Stays(p) == at'[p] = at[p]

LEMMA GoesOn ==
  ASSUME Shape, NEW p \in Proc, NEW from, NEW to, Goes(p, from, to)
  PROVE  /\ DOMAIN at' = Proc /\ at[p] = from /\ at'[p] = to
         /\ \A q \in Proc : q # p => Stays(q)
  BY DEF Goes, Shape, Stays

LEMMA InitShape == ServersInit => Shape
  BY DEF ServersInit, Shape

LEMMA DeliverShape ==
  ASSUME Shape, NEW dst, NEW m, NEW before, DOMAIN before = Proc, Deliver(dst, m, before)
  PROVE  DOMAIN got' = Proc /\ DOMAIN mail' = Mail
  BY DEF Deliver, Shape

LEMMA NextShape == ASSUME Shape, [ServersNext]_allvars PROVE Shape'
  <1>1. ASSUME NEW p \in Clients, bind(p) \/ recv(p) PROVE Shape'
    BY <1>1 DEF bind, recv, Goes, Shape, data, search
  <1>2. ASSUME NEW p \in Clients, send(p) PROVE Shape'
    <2>1. PICK o \in Outgoing(p) :
            \/ UNCHANGED <<at, data, search>>
            \/ /\ Goes(p, at[p], o.then)
               /\ got' = [got EXCEPT ![p] = NoMessage]
               /\ UNCHANGED <<mail, search>>
            \/ /\ Deliver(sending[p], Message(Own[p], o.msg), [got EXCEPT ![p] = NoMessage])
               /\ Goes(p, at[p], o.then)
               /\ UNCHANGED search
      BY <1>2 DEF send
    <2>2. DOMAIN [got EXCEPT ![p] = NoMessage] = Proc
      BY DEF Shape
    <2>3. CASE UNCHANGED <<at, data, search>>
      BY <2>3 DEF Shape, data, search
    <2>4. CASE /\ Goes(p, at[p], o.then)
               /\ got' = [got EXCEPT ![p] = NoMessage]
               /\ UNCHANGED <<mail, search>>
      BY <2>4 DEF Goes, Shape, search
    <2>5. CASE /\ Deliver(sending[p], Message(Own[p], o.msg), [got EXCEPT ![p] = NoMessage])
               /\ Goes(p, at[p], o.then)
               /\ UNCHANGED search
      <3>1. DOMAIN got' = Proc /\ DOMAIN mail' = Mail
        BY <2>2, <2>5, DeliverShape
      <3> QED BY <2>5, <3>1 DEF Goes, Shape, search
    <2> QED BY <2>1, <2>3, <2>4, <2>5
  <1>3. CASE time_server_ignores \/ output_server_flags \/ output_server_shows
             \/ decode_cmd \/ Search \/ Found \/ UserChooses \/ UserEnds
    BY <1>3 DEF time_server_ignores, output_server_flags, output_server_shows, Faults,
                decode_cmd, Search, Found, UserChooses, UserEnds, Goes, Shape, data, search
  <1>4. CASE KernelGoesOn
    BY <1>4 DEF KernelGoesOn, Shape, search
  <1>5. CASE Handlers
    <2>1. /\ UNCHANGED <<at, search>>
          /\ \/ UNCHANGED data
             \/ \E dst, m : Deliver(dst, m, got)
      BY <1>5 DEF Handlers
    <2>2. DOMAIN got = Proc
      BY DEF Shape
    <2>3. DOMAIN got' = Proc /\ DOMAIN mail' = Mail
      BY <2>1, <2>2, DeliverShape DEF Shape, data
    <2> QED BY <2>1, <2>3 DEF Shape, search
  <1>6. CASE UNCHANGED allvars
    BY <1>6 DEF allvars, data, search, Shape
  <1> QED BY <1>1, <1>2, <1>3, <1>4, <1>5, <1>6, OwnIs DEF ServersNext, Program

LEMMA ServersShape == ServersSpec => []Shape
  BY InitShape, NextShape, PTL DEF ServersSpec

\* What a step can do to the search: the input server begins it, goes on with
\* it, or leaves ptr and its place alone unless it ends the search.
LEMMA SearchStep ==
  ASSUME Shape, [ServersNext]_allvars
  PROVE  \/ Stays(input_server) /\ UNCHANGED <<ptr, want>>
         \/ at'[input_server] \notin {"search", "tell"}
         \/ decode_cmd
         \/ Search
  <1>1. input_server \in Clients /\ Clients \subseteq Proc
    BY OwnIs DEF Clients
  <1>2. ASSUME NEW p \in Clients, bind(p) \/ recv(p)
        PROVE  \/ Stays(input_server) /\ UNCHANGED <<ptr, want>>
               \/ at'[input_server] \notin {"search", "tell"}
    <2>1. UNCHANGED <<ptr, want>>
      BY <1>2 DEF bind, recv, search
    <2>2. PICK from, to : Goes(p, from, to) /\ to \notin {"search", "tell"}
      BY <1>2 DEF bind, recv
    <2>3. /\ at'[p] = to
          /\ \A q \in Proc : q # p => Stays(q)
      BY <1>1, <2>2, GoesOn
    <2> QED BY <1>1, <2>1, <2>2, <2>3
  <1>3. ASSUME NEW p \in Clients, send(p)
        PROVE  \/ Stays(input_server) /\ UNCHANGED <<ptr, want>>
               \/ at'[input_server] \notin {"search", "tell"}
    <2>1. UNCHANGED <<ptr, want>>
      BY <1>3 DEF send, search
    <2>2. PICK o \in Outgoing(p) : UNCHANGED at \/ Goes(p, at[p], o.then)
      BY <1>3 DEF send
    <2>3. o.then \notin {"search", "tell"}
      BY OutgoingIs
    <2>4. CASE UNCHANGED at
      BY <2>1, <2>4 DEF Stays
    <2>5. CASE Goes(p, at[p], o.then)
      <3>1. /\ at'[p] = o.then
            /\ \A q \in Proc : q # p => Stays(q)
        BY <1>1, <2>5, GoesOn
      <3> QED BY <1>1, <2>1, <2>3, <3>1
    <2> QED BY <2>2, <2>4, <2>5
  <1>4. CASE Found
    <2>1. Goes(input_server, "clear", "recv")
      BY <1>4 DEF Found
    <2>2. at'[input_server] = "recv"
      BY <1>1, <2>1, GoesOn
    <2> QED BY <2>2
  <1>5. ASSUME NEW p \in {time_server, output_server, user},
               NEW from, NEW to, Goes(p, from, to), UNCHANGED <<ptr, want>>
        PROVE  Stays(input_server) /\ UNCHANGED <<ptr, want>>
    <2>1. p \in Proc /\ p # input_server
      BY OwnIs DEF Clients
    <2> QED BY <1>1, <1>5, <2>1, GoesOn
  <1>6. CASE time_server_ignores
    BY <1>5, <1>6 DEF time_server_ignores, search
  <1>7. CASE output_server_flags \/ output_server_shows
    BY <1>5, <1>7 DEF output_server_flags, output_server_shows, Faults, search
  <1>8. CASE UserChooses \/ UserEnds
    BY <1>5, <1>8 DEF UserChooses, UserEnds, search
  <1>9. CASE KernelGoesOn \/ Handlers \/ UNCHANGED allvars
    BY <1>9 DEF KernelGoesOn, Handlers, allvars, search, Stays
  <1> QED BY <1>2, <1>3, <1>4, <1>6, <1>7, <1>8, <1>9, OwnIs DEF ServersNext, Program

\* decode_cmd walks from one blocked process to the next (main.c:83-102).  It
\* leaves blockq in two ways only, for any processes and any interleaving: it
\* begins with nobody blocked, or somebody else wakes up the pcb it looks at.
THEOREM SearchLeavesInTwoWays == ServersSpec => SearchStays
  <1>1. ASSUME Shape, IInv, [ServersNext]_allvars, OnBlockq
        PROVE  \/ OnBlockq'
               \/ blockq = <<>>
               \/ UNCHANGED <<ptr, want>> /\ at'[input_server] = at[input_server]
    <2>1. /\ blockq \in Seq(Proc) /\ NoDuplicates(blockq)
          /\ input_server \in Proc
      BY <1>1, OwnIs DEF IInv, SchedInv, SchedType, PlacedOnce, Clients
    <2>2. CASE decode_cmd /\ blockq # <<>>
      <3>1. \E to : /\ Goes(input_server, "got", to)
                    /\ to = "recv" \/ ptr' = Head(blockq)
        BY <2>2 DEF decode_cmd, vars, sched
      <3>2. blockq' = blockq
        BY <2>2 DEF decode_cmd, vars, sched
      <3>3. Head(blockq) \in Range(blockq)
        BY <2>1, <2>2, EmptyRing
      <3>4. at'[input_server] = "recv" \/ ptr' = Head(blockq)
        BY <1>1, <2>1, <3>1, GoesOn
      <3> QED BY <3>2, <3>3, <3>4 DEF OnBlockq
    <2>3. CASE Search /\ blockq # <<>>
      <3>1. at[input_server] = "search" /\ blockq' = blockq
        BY <2>3 DEF Search, Goes, vars, sched
      <3>2. ptr \in Range(blockq)
        BY <1>1, <3>1 DEF OnBlockq
      <3>3. RingOf(ptr) = blockq
        BY <3>2 DEF RingOf
      <3>4. Following(ptr, blockq) \in Range(blockq)
        BY <2>1, <3>2, FollowingMember
      <3>5. \/ ptr' = ptr
            \/ Goes(input_server, "search", "recv")
            \/ ptr' = Following(ptr, blockq)
        BY <2>3, <3>3 DEF Search
      <3>6. \/ ptr' = ptr
            \/ at'[input_server] = "recv"
            \/ ptr' = Following(ptr, blockq)
        BY <1>1, <2>1, <3>5, GoesOn
      <3> QED BY <3>1, <3>2, <3>4, <3>6 DEF OnBlockq
    <2>4. CASE at'[input_server] \notin {"search", "tell"}
      BY <2>4 DEF OnBlockq
    <2>5. CASE Stays(input_server) /\ UNCHANGED <<ptr, want>>
      BY <2>5 DEF Stays
    <2> QED BY <1>1, <2>2, <2>3, <2>4, <2>5, SearchStep
  <1>2. Shape /\ IInv /\ [ServersNext]_allvars
          => [OnBlockq => \/ OnBlockq'
                          \/ blockq = <<>>
                          \/ UNCHANGED <<ptr, want>> /\ at'[input_server] = at[input_server]]_allvars
    BY <1>1
  <1> QED BY <1>2, ServersShape, ServersAreProcesses, InductiveInvariant, PTL
      DEF ServersSpec, SearchStays

=============================================================================
