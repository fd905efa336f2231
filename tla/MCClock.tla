------------------------------- MODULE MCClock -------------------------------
(***************************************************************************)
(* The clock at the moments where something carries: the last seconds of   *)
(* every minute of a day, and the last second of every day of some years.  *)
(***************************************************************************)
EXTENDS Clock

CONSTANT Years

At(h, m, s) == [hour |-> h, min |-> m, sec |-> s, tsec |-> 0]

Date(y, m, d) == [year |-> y, month |-> m, day |-> d]

Minutes == {<<At(h, m, 58), Date(1999, 12, 31)>> : h \in 0..23, m \in 0..59}

Days == {<<At(23, 59, 58), Date(y, m, d)>> : y \in Years, m \in Month, d \in 1..31}

RealDays == {s \in Days : s[2].day <= days_of(s[2].month, s[2].year)}

Moments == {Epoch} \cup Minutes \cup RealDays
=============================================================================
