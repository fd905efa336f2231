----------------------------- MODULE Scheduler -----------------------------
(***************************************************************************)
(* What the kernel promises about the CPU, without queues or interrupts:   *)
(* a process is ready, blocked or ended; the CPU is at a ready process of  *)
(* the highest priority; and it moves only on the grounds listed in Next.  *)
(* Kernel implements it (Kernel!ImplementsScheduler).                      *)
(***************************************************************************)
EXTENDS Integers

CONSTANTS Proc,   \* the processes
          Prio    \* the priorities

VARIABLES running,  \* the process at the CPU
          status,   \* what each process is
          prio      \* the priority of each process

vars == <<running, status, prio>>

\* The ready processes no ready process is above.
Highest(st, pr) ==
  {p \in Proc : /\ st[p] = "ready"
                /\ \A q \in Proc : st[q] = "ready" => pr[q] <= pr[p]}

Init ==
  /\ status = [p \in Proc |-> "ready"]
  /\ prio \in [Proc -> Prio]
  /\ running \in Highest(status, prio)

\* The time quantum is over: another process of the same priority, if any.
Slice ==
  LET others == Highest(status, prio) \ {running}
  IN  /\ IF others = {} THEN running' = running ELSE running' \in others
      /\ UNCHANGED <<status, prio>>

\* The running process waits for a message, or ends.
Leave(st) ==
  /\ status' = [status EXCEPT ![running] = st]
  /\ running' \in Highest(status', prio)
  /\ prio' = prio

\* A message comes for a blocked process: it takes the CPU unless the running
\* process is above it.
Wake(p) ==
  /\ status[p] = "blocked"
  /\ status' = [status EXCEPT ![p] = "ready"]
  /\ running' = IF prio[p] >= prio[running] THEN p ELSE running
  /\ prio' = prio

\* The running process changes its priority: upwards it keeps the CPU.
Nice(new) ==
  /\ prio' = [prio EXCEPT ![running] = new]
  /\ running' \in Highest(status, prio')
  /\ new > prio[running] => running' = running
  /\ status' = status

Next == \/ Slice
        \/ Leave("blocked") \/ Leave("ended")
        \/ \E p \in Proc : Wake(p)
        \/ \E new \in Prio : Nice(new)

Spec == Init /\ [][Next]_vars
=============================================================================
