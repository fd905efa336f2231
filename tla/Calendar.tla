------------------------------ MODULE Calendar ------------------------------
(***************************************************************************)
(* What a clock with a date promises, without hours, months or carries:    *)
(* the number of days since 1 January 1900 and the tenth of a second of    *)
(* the day.  Each step is one second.                                      *)
(***************************************************************************)
EXTENDS Integers

VARIABLES day, tenth

TenthsPerDay == 24 * 60 * 60 * 10

\* The clock is set to some moment, ...
Init == day \in Nat /\ tenth \in 0..(TenthsPerDay - 1)

\* ... and a second passes, the last of a day into the next day.
Second ==
  \/ tenth + 10 < TenthsPerDay /\ tenth' = tenth + 10 /\ day' = day
  \/ tenth + 10 >= TenthsPerDay /\ tenth' = tenth + 10 - TenthsPerDay /\ day' = day + 1

Spec == Init /\ [][Second]_<<day, tenth>>
=============================================================================
