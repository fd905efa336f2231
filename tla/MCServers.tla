----------------------------- MODULE MCServers -----------------------------
(***************************************************************************)
(* The processes as main registers them, and a user process of the same    *)
(* priority.                                                               *)
(*                                                                         *)
(* BOUND: HeadsApart is the state constraint of the run: it goes up to the *)
(* first state in which a head of a message queue is stale, and not on     *)
(* from there, for the states would be too many.  Beyond it SearchStays is *)
(* proved (KernelProofs, SearchLeavesInTwoWays); what the servers make of  *)
(* an old mail is something no run shows.                                  *)
(***************************************************************************)
EXTENDS Servers, TLC

CONSTANTS idle, m1, m2

Registered == << <<idle>>, <<user, time_server, output_server, input_server>> >>
TwoMails == <<m1, m2>>

Symmetry == Permutations(Mail)
=============================================================================
