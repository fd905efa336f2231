-------------------------------- MODULE Clock --------------------------------
(***************************************************************************)
(* The clock of Time.c as time_server of main.c drives it: at each message *)
(* of the SysTick handler a second is added to decimal_time, the carry of  *)
(* the day to decimal_date, and the time is written into char_time.        *)
(*                                                                         *)
(* A text is the sequence of its digits (char_time) or of its digits and   *)
(* the name of the month (char_date); the separators never change.         *)
(***************************************************************************)
EXTENDS Integers, Sequences

CONSTANTS
  Start,      \* the moments the clock starts from: {Epoch}, or later ones
  MaxTicks    \* BOUND: how many seconds it runs

VARIABLES
  decimal_time, decimal_date,
  char_time,
  ticks       \* how many messages of the SysTick handler it has got

vars == <<decimal_time, decimal_date, char_time, ticks>>

-----------------------------------------------------------------------------
LEAP_YEAR(y) == \/ y % 4 = 0 /\ y % 100 # 0
                \/ y % 400 = 0 /\ y % 3200 # 0

\* The names and days of the months; those of a leap year differ in February.
date_tbl == << <<"JAN", 31>>, <<"FEB", 28>>, <<"MAR", 31>>, <<"APR", 30>>,
               <<"MAY", 31>>, <<"JUN", 30>>, <<"JUL", 31>>, <<"AUG", 31>>,
               <<"SEP", 30>>, <<"OCT", 31>>, <<"NOV", 30>>, <<"DEC", 31>> >>

Month == 1..12
Year == 0..9999

Time_t == [hour : 0..23, min : 0..59, sec : 0..59, tsec : 0..9]
Date_t == [year : Year, month : Month, day : 1..31]

Epoch == << [hour |-> 0, min |-> 0, sec |-> 0, tsec |-> 0],
            [year |-> 1900, month |-> 1, day |-> 1] >>

\* The time after some more tenths, ...
update_time(t, tick) ==
  LET extra_sec  == (t.tsec + tick) \div 10
      extra_min  == (t.sec + extra_sec) \div 60
      extra_hour == (t.min + extra_min) \div 60
  IN  [tsec |-> (t.tsec + tick) % 10,
       sec  |-> (t.sec + extra_sec) % 60,
       min  |-> (t.min + extra_min) % 60,
       hour |-> (t.hour + extra_hour) % 24]

\* Mutant of extra_day: the carry of the minutes is forgotten.
extra_day_late(t, tick) == t.hour \div 24

\* ... and the days it carries over.
extra_day(t, tick) ==
  LET extra_sec  == (t.tsec + tick) \div 10
      extra_min  == (t.sec + extra_sec) \div 60
      extra_hour == (t.min + extra_min) \div 60
  IN  (t.hour + extra_hour) \div 24

days_of(m, y) == date_tbl[m][2] + (IF m = 2 /\ LEAP_YEAR(y) THEN 1 ELSE 0)

\* Mutant of update_date: every month has 31 days.
update_date_31(d, extra) ==
  LET extra_mon == (extra + d.day - 1) \div 31
  IN  [day   |-> 1 + ((d.day + extra - 1) % 31),
       month |-> 1 + ((d.month + extra_mon - 1) % 12),
       year  |-> (d.year + (d.month + extra_mon - 1) \div 12) % 10000]

update_date(d, extra) ==
  LET days      == days_of(d.month, d.year)
      extra_mon == (extra + d.day - 1) \div days
  IN  [day   |-> 1 + ((d.day + extra - 1) % days),
       month |-> 1 + ((d.month + extra_mon - 1) % 12),
       year  |-> (d.year + (d.month + extra_mon - 1) \div 12) % 10000]

-----------------------------------------------------------------------------
decimalTime_to_charTime(t) ==
  << t.hour \div 10, t.hour % 10, t.min \div 10, t.min % 10,
     t.sec \div 10, t.sec % 10, t.tsec >>

\* Nobody calls this one; it is here for what it would show.
decimalDate_to_charDate(d) ==
  LET div10   == d.year \div 10
      div100  == div10 \div 10
      div1000 == div100 \div 10
  IN  << d.day \div 10, d.day % 10, date_tbl[d.month][1],
         div1000 % 10, div100 % 10, div10 % 10, d.year % 10 >>

-----------------------------------------------------------------------------
\* The clock starts from moments of the calendar.
ASSUME StartOK ==
  /\ MaxTicks \in Nat
  /\ \A s \in Start : /\ s = <<s[1], s[2]>>
                      /\ s[1] \in Time_t /\ s[2] \in Date_t /\ s[2].year >= 1900
                      /\ s[2].day <= days_of(s[2].month, s[2].year)

Init == \E s \in Start :
  /\ decimal_time = s[1]
  /\ decimal_date = s[2]
  /\ char_time = decimalTime_to_charTime(s[1])
  /\ ticks = 0

\* time_server, when the message came from the SysTick handler.
Tick ==
  /\ ticks < MaxTicks
  /\ ticks' = ticks + 1
  /\ decimal_time' = update_time(decimal_time, 10)
  /\ decimal_date' = update_date(decimal_date, extra_day(decimal_time, 10))
  /\ char_time' = decimalTime_to_charTime(decimal_time')

Next == Tick

Spec == Init /\ [][Next]_vars

-----------------------------------------------------------------------------
(* What should hold.                                                       *)

\* The years in which LEAP_YEAR is the Gregorian rule.  It leaves out 3200, and
\* after 9999 the year begins again at 0.
Gregorian(y) == 1900 <= y /\ y < 3200

\* The last day of a month in the Gregorian calendar.
LastDay(m, y) == CASE m \in {4, 6, 9, 11} -> 30
                   [] m = 2 -> IF y % 400 = 0 \/ (y % 4 = 0 /\ y % 100 # 0)
                               THEN 29 ELSE 28
                   [] OTHER -> 31

\* The time has its ranges and the date is one of the calendar, whatever carries:
\* no 31 April, and 29 February in leap years only.
TypeOK ==
  /\ decimal_time \in Time_t
  /\ decimal_date \in Date_t
  /\ decimal_date.day <= LastDay(decimal_date.month, decimal_date.year)
  /\ char_time \in [1..7 -> 0..9]
  /\ ticks \in 0..MaxTicks

\* What a reader takes from a text: the tenths of the day ...
TenthShown(text) ==
  (((10 * text[1] + text[2]) * 60 + 10 * text[3] + text[4]) * 60
     + 10 * text[5] + text[6]) * 10 + text[7]

\* ... and the days since 1900, counted with the leap years of the calendar.
LeapYearsBefore(y) == (y - 1) \div 4 - (y - 1) \div 100 + (y - 1) \div 400

DaysBefore(m, y) ==
  LET leap == IF LeapYearsBefore(y + 1) > LeapYearsBefore(y) THEN 1 ELSE 0
  IN  << 0, 31, 59 + leap, 90 + leap, 120 + leap, 151 + leap, 181 + leap,
         212 + leap, 243 + leap, 273 + leap, 304 + leap, 334 + leap >>[m]

DayShown(text) ==
  LET y == 1000 * text[4] + 100 * text[5] + 10 * text[6] + text[7]
      m == CHOOSE i \in Month : date_tbl[i][1] = text[3]
  IN  365 * (y - 1900) + LeapYearsBefore(y) - LeapYearsBefore(1900)
        + DaysBefore(m, y) + 10 * text[1] + text[2] - 1

\* What the clock shows, in figures, moves on by one second of the calendar at
\* each tick: through all carries, from tenths to years, and through the texts.
Cal == INSTANCE Calendar WITH
         day   <- DayShown(decimalDate_to_charDate(decimal_date)),
         tenth <- TenthShown(char_time)
ImplementsCalendar ==
  Cal!Init /\ [][Gregorian(decimal_date.year) => Cal!Second]_vars
=============================================================================
