------------------------------ MODULE MCKernel ------------------------------
(***************************************************************************)
(* Small instances of Kernel.  The processes and the mails of an instance  *)
(* are interchangeable: only Init tells them apart.                        *)
(***************************************************************************)
EXTENDS Kernel, TLC

CONSTANTS idle, p, q, r, s, m1, m2, m3

OneMail    == <<m1>>
TwoMails   == <<m1, m2>>
ThreeMails == <<m1, m2, m3>>

\* The idle process at priority 1 and these above it.
Above(above) == [k \in Prio |-> CASE k = 1 -> <<idle>>
                                  [] k \in DOMAIN above -> above[k]
                                  [] OTHER -> <<>>]

TwoPeers   == Above(2 :> <<q, p>>)
ThreePeers == Above(2 :> <<r, q, p>>)
FourPeers  == Above(2 :> <<s, r, q, p>>)
TwoLevels  == Above(2 :> <<r>> @@ 3 :> <<q, p>>)

Peers == Proc \ {idle}
Symmetry == Permutations(Peers) \cup Permutations(Mail)
=============================================================================
