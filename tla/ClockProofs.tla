----------------------------- MODULE ClockProofs -----------------------------
(***************************************************************************)
(* What module Clock shows is a time of the day and a date of the          *)
(* calendar, and moves on by one second at each tick: for every moment,    *)
(* not only for those a run starts from.                                   *)
(***************************************************************************)
EXTENDS Clock, TLAPS

-----------------------------------------------------------------------------
(* The time of the day.                                                    *)

\* A number of at most two digits is what its digits show.
LEMMA TwoDigits ==
  ASSUME NEW n \in 0..99
  PROVE  /\ n \div 10 \in 0..9 /\ n % 10 \in 0..9
         /\ 10 * (n \div 10) + (n % 10) = n
  OBVIOUS

\* The tenths of the day of a time.
Tenth(t) == ((t.hour * 60 + t.min) * 60 + t.sec) * 10 + t.tsec

\* The carries of a second, one unit at a time: n goes up by c, at m it begins
\* again.
LEMMA Carry ==
  ASSUME NEW m \in {24, 60}, NEW n \in 0..(m - 1), NEW c \in {0, 1}
  PROVE  /\ (n + c) % m \in 0..(m - 1) /\ (n + c) \div m \in {0, 1}
         /\ n + c = m * ((n + c) \div m) + ((n + c) % m)
  <1>1. CASE m = 24
    BY <1>1
  <1>2. CASE m = 60
    BY <1>2
  <1> QED BY <1>1, <1>2

\* update_time adds a second, less the day it carries.
LEMMA TimeStep ==
  ASSUME NEW t \in Time_t
  PROVE  /\ update_time(t, 10) \in Time_t
         /\ extra_day(t, 10) \in {0, 1}
         /\ Tenth(update_time(t, 10)) = Tenth(t) + 10 - 864000 * extra_day(t, 10)
  <1> DEFINE s == (t.tsec + 10) \div 10
             i == (t.sec + s) \div 60
             h == (t.min + i) \div 60
             d == (t.hour + h) \div 24
  <1>0. /\ t.hour \in 0..23 /\ t.min \in 0..59
        /\ t.sec \in 0..59 /\ t.tsec \in 0..9
    BY DEF Time_t
  <1>1. s = 1 /\ (t.tsec + 10) % 10 = t.tsec
    BY <1>0
  <1>2. /\ (t.sec + s) % 60 \in 0..59 /\ i \in {0, 1}
        /\ t.sec + 1 = 60 * i + ((t.sec + s) % 60)
    BY <1>0, <1>1, Carry
  <1>3. /\ (t.min + i) % 60 \in 0..59 /\ h \in {0, 1}
        /\ t.min + i = 60 * h + ((t.min + i) % 60)
    <2> HIDE DEF i
    <2> QED BY <1>0, <1>2, Carry
  <1>4. /\ (t.hour + h) % 24 \in 0..23 /\ d \in {0, 1}
        /\ t.hour + h = 24 * d + ((t.hour + h) % 24)
    <2> HIDE DEF h
    <2> QED BY <1>0, <1>3, Carry
  <1>5. /\ update_time(t, 10) = [tsec |-> t.tsec, sec |-> (t.sec + s) % 60,
                                 min |-> (t.min + i) % 60, hour |-> (t.hour + h) % 24]
        /\ extra_day(t, 10) = d
    BY <1>1 DEF update_time, extra_day
  <1> HIDE DEF s, i, h, d
  <1> DEFINE u == update_time(t, 10)
  <1>6. u.tsec = t.tsec /\ u.sec = t.sec + 1 - 60 * i
    BY <1>0, <1>2, <1>5
  <1>7. u.min = t.min + i - 60 * h /\ u.hour = t.hour + h - 24 * d
    BY <1>0, <1>2, <1>3, <1>4, <1>5
  <1>8. u \in Time_t
    BY <1>0, <1>2, <1>3, <1>4, <1>5 DEF Time_t
  <1>9. Tenth(u) = Tenth(t) + 10 - 864000 * d
    <2> DEFINE hr == t.hour
               mi == t.min
               se == t.sec
               ts == t.tsec
    <2>1. hr \in 0..23 /\ mi \in 0..59 /\ se \in 0..59 /\ ts \in 0..9
      BY <1>0
    <2>2. /\ Tenth(t) = ((hr * 60 + mi) * 60 + se) * 10 + ts
          /\ Tenth(u) = (((hr + h - 24 * d) * 60 + (mi + i - 60 * h)) * 60
                            + (se + 1 - 60 * i)) * 10 + ts
      BY <1>6, <1>7 DEF Tenth
    <2> HIDE DEF hr, mi, se, ts, u
    <2> QED BY SMT, <1>2, <1>3, <1>4, <2>1, <2>2
  <1> QED BY SMT, <1>4, <1>5, <1>8, <1>9

\* char_time shows the tenths of the day.
LEMMA TimeShown ==
  ASSUME NEW t \in Time_t
  PROVE  /\ decimalTime_to_charTime(t) \in [1..7 -> 0..9]
         /\ TenthShown(decimalTime_to_charTime(t)) = Tenth(t)
         /\ Tenth(t) \in Int /\ 0 <= Tenth(t) /\ Tenth(t) < 864000
  <1>0. /\ t.hour \in 0..23 /\ t.min \in 0..59
        /\ t.sec \in 0..59 /\ t.tsec \in 0..9
    BY DEF Time_t
  <1> DEFINE T == decimalTime_to_charTime(t)
  <1>1. /\ T[1] = t.hour \div 10 /\ T[2] = t.hour % 10
        /\ T[3] = t.min \div 10 /\ T[4] = t.min % 10
        /\ T[5] = t.sec \div 10 /\ T[6] = t.sec % 10 /\ T[7] = t.tsec
    BY DEF decimalTime_to_charTime
  <1>2. /\ 10 * T[1] + T[2] = t.hour /\ T[1] \in 0..9 /\ T[2] \in 0..9
        /\ 10 * T[3] + T[4] = t.min /\ T[3] \in 0..9 /\ T[4] \in 0..9
        /\ 10 * T[5] + T[6] = t.sec /\ T[5] \in 0..9 /\ T[6] \in 0..9
    BY <1>0, <1>1, TwoDigits
  <1>3. T \in [1..7 -> 0..9]
    BY <1>0, <1>1, <1>2 DEF decimalTime_to_charTime
  <1>4. TenthShown(T) = Tenth(t)
    <2> DEFINE h == t.hour
               m == t.min
               s == t.sec
    <2>1. TenthShown(T) = (((10 * T[1] + T[2]) * 60 + 10 * T[3] + T[4]) * 60
                             + 10 * T[5] + T[6]) * 10 + T[7]
      BY DEF TenthShown
    <2>2. Tenth(t) = ((h * 60 + m) * 60 + s) * 10 + T[7]
      BY <1>1 DEF Tenth
    <2>3. T[7] \in 0..9
      BY <1>0, <1>1
    <2> DEFINE a == T[1]
               b == T[2]
               c == T[3]
               d == T[4]
               e == T[5]
               f == T[6]
               g == T[7]
    <2>4. /\ a \in 0..9 /\ b \in 0..9 /\ c \in 0..9 /\ d \in 0..9
          /\ e \in 0..9 /\ f \in 0..9 /\ g \in 0..9
          /\ 10 * a + b = h /\ 10 * c + d = m /\ 10 * e + f = s
      BY <1>2, <2>3
    <2>5. TenthShown(T) = (((10 * a + b) * 60 + 10 * c + d) * 60 + 10 * e + f) * 10 + g
      BY <2>1
    <2>6. Tenth(t) = ((h * 60 + m) * 60 + s) * 10 + g
      BY <2>2
    <2> HIDE DEF T, h, m, s, a, b, c, d, e, f, g
    <2> QED BY SMT, <2>4, <2>5, <2>6
  <1>5. Tenth(t) \in Int /\ 0 <= Tenth(t) /\ Tenth(t) < 864000
    <2> DEFINE h == t.hour
               m == t.min
               s == t.sec
               x == t.tsec
    <2>1. Tenth(t) = ((h * 60 + m) * 60 + s) * 10 + x
      BY DEF Tenth
    <2>2. h \in 0..23 /\ m \in 0..59 /\ s \in 0..59 /\ x \in 0..9
      BY <1>0
    <2> HIDE DEF h, m, s, x
    <2> QED BY SMT, <2>1, <2>2
  <1> QED BY SMT, <1>3, <1>4, <1>5
-----------------------------------------------------------------------------
(* The date.                                                               *)

\* A year has at most four digits.
LEMMA YearRange ==
  /\ \A y \in Year : y \in Int /\ 0 <= y /\ y < 10000
  /\ \A y \in Int : 0 <= y /\ y < 10000 => y \in Year
  BY SMT DEF Year

\* Four digits show the number they were taken from.
LEMMA FourDigits ==
  ASSUME NEW y \in Int, 0 <= y, y < 10000
  PROVE  1000 * (((y \div 10) \div 10) \div 10 % 10)
           + 100 * (((y \div 10) \div 10) % 10)
           + 10 * ((y \div 10) % 10) + (y % 10) = y
  BY SMT

\* A month is known by its name.
LEMMA MonthNamed ==
  ASSUME NEW m \in Month
  PROVE  (CHOOSE i \in Month : date_tbl[i][1] = date_tbl[m][1]) = m
  <1>1. \A i \in Month : date_tbl[i][1] = date_tbl[m][1] => i = m
    BY SMT DEF Month, date_tbl
  <1> QED BY <1>1, SMT

\* The days a month has for update_date.
LEMMA DaysOf ==
  ASSUME NEW m \in Month, NEW y \in Int
  PROVE  /\ days_of(m, y) \in 28..31
         /\ days_of(m, y) <= LastDay(m, y)
         /\ Gregorian(y) => days_of(m, y) = LastDay(m, y)
  <1>1. y % 3200 = 0 => y % 400 = 0
    BY SMT
  <1>2. 1900 <= y /\ y < 3200 => y % 3200 # 0
    BY SMT
  <1>3. m \in {1, 2, 3, 4, 5, 6, 7, 8, 9, 10, 11, 12}
    BY DEF Month
  <1> QED
    BY <1>1, <1>2, <1>3, SMT DEF days_of, date_tbl, LEAP_YEAR, LastDay, Gregorian

\* The Gregorian rule.
Leap(y) == y % 400 = 0 \/ (y % 4 = 0 /\ y % 100 # 0)

\* A leap year has a day more than the others.
LEMMA LeapDay ==
  ASSUME NEW y \in Int, Gregorian(y)
  PROVE  /\ LeapYearsBefore(y) \in Int
         /\ Leap(y) => LeapYearsBefore(y + 1) = LeapYearsBefore(y) + 1
         /\ ~Leap(y) => LeapYearsBefore(y + 1) = LeapYearsBefore(y)
  <1>1. y \div 4 = (y - 1) \div 4 + (IF y % 4 = 0 THEN 1 ELSE 0)
    BY SMT
  <1>2. y \div 100 = (y - 1) \div 100 + (IF y % 100 = 0 THEN 1 ELSE 0)
    BY SMT
  <1>3. y \div 400 = (y - 1) \div 400 + (IF y % 400 = 0 THEN 1 ELSE 0)
    BY SMT
  <1>4. (y % 400 = 0 => y % 100 = 0) /\ (y % 100 = 0 => y % 4 = 0)
    BY SMT
  <1> QED BY <1>1, <1>2, <1>3, <1>4, SMT DEF LeapYearsBefore, Leap, Gregorian

\* The number of a date, in days since 1 January 1900.
Number(y, m, n) == 365 * (y - 1900) + LeapYearsBefore(y) - LeapYearsBefore(1900)
                     + DaysBefore(m, y) + n - 1

DayNumber(d) == Number(d.year, d.month, d.day)

\* The text of a date shows its number.
LEMMA DateShown ==
  ASSUME NEW d \in Date_t
  PROVE  DayShown(decimalDate_to_charDate(d)) = DayNumber(d)
  <1> DEFINE T == decimalDate_to_charDate(d)
             y == d.year
             m == d.month
             n == d.day
  <1>0. y \in Year /\ m \in Month /\ n \in 1..31
    BY DEF Date_t
  <1>1. /\ T[1] = n \div 10 /\ T[2] = n % 10 /\ T[3] = date_tbl[m][1]
        /\ T[4] = ((y \div 10) \div 10) \div 10 % 10 /\ T[5] = ((y \div 10) \div 10) % 10
        /\ T[6] = (y \div 10) % 10 /\ T[7] = y % 10
    BY DEF decimalDate_to_charDate
  <1>2. DayNumber(d) = 365 * (y - 1900) + LeapYearsBefore(y) - LeapYearsBefore(1900)
                         + DaysBefore(m, y) + n - 1
    BY DEF DayNumber, Number
  <1> HIDE DEF T, y, m, n
  <1>3. 1000 * T[4] + 100 * T[5] + 10 * T[6] + T[7] = y
    <2>1. y \in Int /\ 0 <= y /\ y < 10000
      BY <1>0, YearRange
    <2> QED BY <1>1, <2>1, FourDigits
  <1>4. 10 * T[1] + T[2] = n
    BY <1>0, <1>1, TwoDigits
  <1>5. (CHOOSE i \in Month : date_tbl[i][1] = T[3]) = m
    BY <1>0, <1>1, MonthNamed
  <1>6. DayShown(T) = 365 * (y - 1900) + LeapYearsBefore(y) - LeapYearsBefore(1900)
                        + DaysBefore(m, y) + 10 * T[1] + T[2] - 1
    <2> DEFINE Y == 1000 * T[4] + 100 * T[5] + 10 * T[6] + T[7]
               M == CHOOSE i \in Month : date_tbl[i][1] = T[3]
    <2>1. DayShown(T) = 365 * (Y - 1900) + LeapYearsBefore(Y) - LeapYearsBefore(1900)
                          + DaysBefore(M, Y) + 10 * T[1] + T[2] - 1
      BY Zenon DEF DayShown
    <2>2. Y = y /\ M = m
      BY <1>3, <1>5
    <2> HIDE DEF Y, M
    <2> QED BY <2>1, <2>2, SMT
  <1>7. /\ LeapYearsBefore(y) \in Int /\ LeapYearsBefore(1900) \in Int
        /\ DaysBefore(m, y) \in Int /\ T[1] \in Int /\ T[2] \in Int /\ y \in Int
    <2>0. y \in Int
      BY <1>0, YearRange
    <2>1. LeapYearsBefore(y) \in Int /\ LeapYearsBefore(1900) \in Int
      BY <2>0, SMT DEF LeapYearsBefore
    <2>2. m \in {1, 2, 3, 4, 5, 6, 7, 8, 9, 10, 11, 12}
      BY <1>0 DEF Month
    <2>3. DaysBefore(m, y) \in Int
      BY <2>2, SMT DEF DaysBefore
    <2> QED BY <1>0, <1>1, <2>0, <2>1, <2>3
  <1> QED BY <1>0, <1>2, <1>4, <1>6, <1>7, SMT DEF T

\* The number of a date, and of one since 1900.
LEMMA DayIsInt ==
  ASSUME NEW d \in Date_t
  PROVE  DayNumber(d) \in Int /\ (d.year >= 1900 => DayNumber(d) \in Nat)
  <1> DEFINE y == d.year
             m == d.month
             n == d.day
             l == IF LeapYearsBefore(y + 1) > LeapYearsBefore(y) THEN 1 ELSE 0
  <1>1. y \in Year /\ m \in Month /\ n \in 1..31
    BY DEF Date_t
  <1>2. DayNumber(d) = Number(y, m, n)
    BY DEF DayNumber
  <1> HIDE DEF y, m, n
  <1>3. y \in Int
    BY <1>1, YearRange
  <1>4. m \in {1, 2, 3, 4, 5, 6, 7, 8, 9, 10, 11, 12}
    BY <1>1 DEF Month
  <1>5. DaysBefore(m, y) \in Nat
    BY <1>4, SMT DEF DaysBefore
  <1>6. LeapYearsBefore(y) \in Int /\ LeapYearsBefore(1900) \in Int
    BY <1>3, SMT DEF LeapYearsBefore
  <1>7. y >= 1900 => LeapYearsBefore(y) >= LeapYearsBefore(1900)
    BY <1>3, SMT DEF LeapYearsBefore
  <1>8. Number(y, m, n) \in Int /\ (y >= 1900 => Number(y, m, n) \in Nat)
    BY <1>1, <1>3, <1>5, <1>6, <1>7, SMT DEF Number
  <1> QED BY <1>2, <1>8 DEF y

\* The months of a year follow each other, and a year another.
LEMMA NextMonth ==
  ASSUME NEW m \in Month, NEW y \in Int, Gregorian(y)
  PROVE  /\ DaysBefore(m, y) \in Int
         /\ m < 12 => DaysBefore(m + 1, y) = DaysBefore(m, y) + LastDay(m, y)
         /\ m = 12 => LeapYearsBefore(y) + DaysBefore(m, y) + LastDay(m, y)
                        = 365 + LeapYearsBefore(y + 1)
         /\ DaysBefore(1, y + 1) = 0
  <1> DEFINE l == IF LeapYearsBefore(y + 1) > LeapYearsBefore(y) THEN 1 ELSE 0
  <1>0. m \in {1, 2, 3, 4, 5, 6, 7, 8, 9, 10, 11, 12}
    BY DEF Month
  <1>1. /\ LeapYearsBefore(y) \in Int
        /\ Leap(y) => LeapYearsBefore(y + 1) = LeapYearsBefore(y) + 1
        /\ ~Leap(y) => LeapYearsBefore(y + 1) = LeapYearsBefore(y)
    BY LeapDay
  <1>2. (Leap(y) => l = 1) /\ (~Leap(y) => l = 0)
    BY <1>1
  <1>3. /\ m \in {4, 6, 9, 11} => LastDay(m, y) = 30
        /\ m = 2 /\ Leap(y) => LastDay(m, y) = 29
        /\ m = 2 /\ ~Leap(y) => LastDay(m, y) = 28
        /\ m \notin {2, 4, 6, 9, 11} => LastDay(m, y) = 31
    BY <1>0 DEF LastDay, Leap
  <1>4. \A i \in 1..12 : DaysBefore(i, y) =
          << 0, 31, 59 + l, 90 + l, 120 + l, 151 + l, 181 + l,
             212 + l, 243 + l, 273 + l, 304 + l, 334 + l >>[i]
    BY DEF DaysBefore
  <1>5. DaysBefore(1, y + 1) = 0
    BY DEF DaysBefore
  <1> HIDE DEF l
  <1>6. /\ DaysBefore(1, y) = 0 /\ DaysBefore(2, y) = 31 /\ DaysBefore(3, y) = 59 + l
        /\ DaysBefore(4, y) = 90 + l /\ DaysBefore(5, y) = 120 + l
        /\ DaysBefore(6, y) = 151 + l /\ DaysBefore(7, y) = 181 + l
        /\ DaysBefore(8, y) = 212 + l /\ DaysBefore(9, y) = 243 + l
        /\ DaysBefore(10, y) = 273 + l /\ DaysBefore(11, y) = 304 + l
        /\ DaysBefore(12, y) = 334 + l
    BY <1>4
  <1>7. CASE Leap(y)
    BY <1>0, <1>1, <1>2, <1>3, <1>5, <1>6, <1>7, SMT
  <1>8. CASE ~Leap(y)
    BY <1>0, <1>1, <1>2, <1>3, <1>5, <1>6, <1>8, SMT
  <1> QED BY <1>7, <1>8

\* A date of the calendar.
RealDate(d) == d \in Date_t /\ d.day <= days_of(d.month, d.year)

\* update_date gives a date of the calendar, as many days later as it is told.
LEMMA DateStep ==
  ASSUME NEW d, RealDate(d), NEW x \in {0, 1}
  PROVE  /\ RealDate(update_date(d, x))
         /\ Gregorian(d.year) => DayNumber(update_date(d, x)) = DayNumber(d) + x
  <1> DEFINE y == d.year
             m == d.month
             n == d.day
             days == days_of(m, y)
             mon == (x + n - 1) \div days
             u == update_date(d, x)
  <1>0. /\ y \in Year /\ m \in 1..12 /\ n \in 1..31
        /\ n <= days /\ days \in 28..31 /\ m \in Month
        /\ y \in Int /\ 0 <= y /\ y < 10000
    <2>1. y \in Year /\ m \in Month /\ n \in 1..31 /\ n <= days
      BY DEF RealDate, Date_t
    <2> HIDE DEF y, m, n
    <2>2. y \in Int /\ 0 <= y /\ y < 10000
      BY <2>1, YearRange
    <2>3. days \in 28..31
      BY <2>1, <2>2, DaysOf
    <2> QED BY <2>1, <2>2, <2>3 DEF Month
  <1>1. u = [day |-> 1 + ((n + x - 1) % days), month |-> 1 + ((m + mon - 1) % 12),
             year |-> (y + (m + mon - 1) \div 12) % 10000]
    BY DEF update_date
  <1>2. /\ DayNumber(d) = 365 * (y - 1900) + LeapYearsBefore(y) - LeapYearsBefore(1900)
                            + DaysBefore(m, y) + n - 1
        /\ DayNumber(u) = 365 * (u.year - 1900) + LeapYearsBefore(u.year)
                            - LeapYearsBefore(1900) + DaysBefore(u.month, u.year) + u.day - 1
    BY DEF DayNumber, Number
  <1>3. Gregorian(y) => /\ days = LastDay(m, y)
                        /\ LeapYearsBefore(y) \in Int /\ DaysBefore(m, y) \in Int
                        /\ LeapYearsBefore(1900) \in Int
    <2> HIDE DEF y, m, n
    <2>1. Gregorian(1900)
      BY SMT DEF Gregorian
    <2>2. Gregorian(y) => days = LastDay(m, y)
      BY <1>0, DaysOf
    <2>3. ASSUME Gregorian(y)
          PROVE  LeapYearsBefore(y) \in Int /\ LeapYearsBefore(1900) \in Int
      BY <1>0, <2>1, <2>3, LeapDay
    <2>4. ASSUME Gregorian(y)
          PROVE  DaysBefore(m, y) \in Int
      BY <1>0, <2>4, NextMonth
    <2> QED BY <2>2, <2>3, <2>4
  <1>4. RealDate(u) <=> /\ u \in Date_t /\ u.day <= days_of(u.month, u.year)
    BY DEF RealDate
  <1>5. days_of(m, y) = days
    OBVIOUS
  <1>6. Gregorian(d.year) = Gregorian(y)
    OBVIOUS
  <1> HIDE DEF y, m, n, days
  <1>7. CASE x + n - 1 < days
    <2>1. mon = 0 /\ (n + x - 1) % days = n + x - 1
      <3>1. CASE days = 28
        BY <1>0, <1>7, <3>1
      <3>2. CASE days = 29
        BY <1>0, <1>7, <3>2
      <3>3. CASE days = 30
        BY <1>0, <1>7, <3>3
      <3>4. CASE days = 31
        BY <1>0, <1>7, <3>4
      <3> QED BY <1>0, <3>1, <3>2, <3>3, <3>4
    <2> HIDE DEF mon
    <2>2. u = [day |-> n + x, month |-> m, year |-> y]
      BY <1>0, <1>1, <2>1
    <2>3. RealDate(u)
      BY <1>0, <1>4, <1>5, <1>7, <2>2 DEF Date_t, Month
    <2>4. u.day = n + x /\ u.month = m /\ u.year = y
      BY <2>2
    <2> HIDE DEF u
    <2>5. Gregorian(y) => DayNumber(u) = DayNumber(d) + x
      BY <1>0, <1>2, <1>3, <2>4, SMT DEF Gregorian
    <2> QED BY <1>6, <2>3, <2>5 DEF u
  <1>8. CASE x + n - 1 >= days
    <2>1. x = 1 /\ n = days
      BY <1>0, <1>8
    <2>2. mon = 1 /\ (n + x - 1) % days = 0
      <3>1. CASE days = 28
        BY <2>1, <3>1
      <3>2. CASE days = 29
        BY <2>1, <3>2
      <3>3. CASE days = 30
        BY <2>1, <3>3
      <3>4. CASE days = 31
        BY <2>1, <3>4
      <3> QED BY <1>0, <3>1, <3>2, <3>3, <3>4
    <2> HIDE DEF mon
    <2>3. CASE m < 12
      <3>1. u = [day |-> 1, month |-> m + 1, year |-> y]
        BY <1>0, <1>1, <2>2, <2>3
      <3>2. days_of(m + 1, y) \in 28..31
        <4>1. m + 1 \in Month
          BY <1>0, <2>3 DEF Month
        <4> QED BY <1>0, <4>1, DaysOf
      <3>3. RealDate(u)
        BY <1>0, <1>4, <2>3, <3>1, <3>2 DEF Date_t, Month
      <3>4. u.day = 1 /\ u.month = m + 1 /\ u.year = y
        BY <3>1
      <3> HIDE DEF u
      <3>5. Gregorian(y) => DaysBefore(m + 1, y) = DaysBefore(m, y) + days
        BY <1>0, <1>3, <2>3, NextMonth
      <3>6. Gregorian(y) => DayNumber(u) = DayNumber(d) + x
        BY <1>0, <1>2, <1>3, <2>1, <3>4, <3>5, SMT DEF Gregorian
      <3> QED BY <1>6, <3>3, <3>6 DEF u
    <2>4. CASE m = 12
      <3>1. u = [day |-> 1, month |-> 1, year |-> (y + 1) % 10000]
        BY <1>0, <1>1, <2>2, <2>4
      <3>2. /\ (y + 1) % 10000 \in Year /\ (y + 1) % 10000 \in Int
            /\ Gregorian(y) => (y + 1) % 10000 = y + 1
        <4>1. /\ (y + 1) % 10000 \in Int
              /\ 0 <= (y + 1) % 10000 /\ (y + 1) % 10000 < 10000
          BY <1>0, SMT
        <4>2. Gregorian(y) => (y + 1) % 10000 = y + 1
          BY <1>0, SMT DEF Gregorian
        <4> QED BY <4>1, <4>2, YearRange
      <3>3. days_of(1, (y + 1) % 10000) \in 28..31
        <4>1. 1 \in Month
          BY DEF Month
        <4> QED BY <3>2, <4>1, DaysOf
      <3>4. RealDate(u)
        BY <1>4, <3>1, <3>2, <3>3 DEF Date_t, Month
      <3>5. u.day = 1 /\ u.month = 1 /\ u.year = (y + 1) % 10000
        BY <3>1
      <3> HIDE DEF u
      <3>6. Gregorian(y) => /\ LeapYearsBefore(y) + DaysBefore(12, y) + days
                                 = 365 + LeapYearsBefore(y + 1)
                            /\ LeapYearsBefore(y + 1) \in Int
                            /\ DaysBefore(1, y + 1) = 0
        <4> SUFFICES ASSUME Gregorian(y)
                     PROVE  /\ LeapYearsBefore(y) + DaysBefore(12, y) + days
                                  = 365 + LeapYearsBefore(y + 1)
                            /\ LeapYearsBefore(y + 1) \in Int
                            /\ DaysBefore(1, y + 1) = 0
          OBVIOUS
        <4>1. LeapYearsBefore(y) \in Int
          BY <1>0, LeapDay
        <4>2. LeapYearsBefore(y + 1) \in Int
          BY <1>0, <4>1, LeapDay, SMT
        <4>3. days = LastDay(12, y)
          BY <1>3, <2>4
        <4>4. 12 \in Month
          BY DEF Month
        <4> QED BY <1>0, <4>2, <4>3, <4>4, NextMonth
      <3>7. Gregorian(y) => DayNumber(u) = DayNumber(d) + x
        <4> SUFFICES ASSUME Gregorian(y) PROVE DayNumber(u) = DayNumber(d) + x
          OBVIOUS
        <4>1. DayNumber(u) = 365 * (y + 1 - 1900) + LeapYearsBefore(y + 1)
                               - LeapYearsBefore(1900) + 0 + 1 - 1
          <5>1. (y + 1) % 10000 = y + 1
            BY <3>2
          <5>2. u.day = 1 /\ u.month = 1 /\ u.year = y + 1
            BY <3>5, <5>1
          <5>3. DayNumber(u) = Number(y + 1, 1, 1)
            BY <5>2 DEF DayNumber
          <5> QED BY <1>0, <1>3, <3>6, <5>3, SMT DEF Number
        <4>2. DayNumber(d) = 365 * (y - 1900) + LeapYearsBefore(y) - LeapYearsBefore(1900)
                               + DaysBefore(12, y) + n - 1
          BY <1>2, <2>4
        <4>3. DaysBefore(12, y) \in Int
          BY <1>3, <2>4
        <4> QED BY <1>0, <1>3, <2>1, <3>6, <4>1, <4>2, <4>3, SMT
      <3> QED BY <1>6, <3>4, <3>7 DEF u
    <2> QED BY <1>0, <2>3, <2>4
  <1> QED BY <1>0, <1>7, <1>8

-----------------------------------------------------------------------------
(* The clock.                                                              *)

\* TypeOK with the days update_date divides by, and what char_time shows.
IInv ==
  /\ TypeOK
  /\ RealDate(decimal_date)
  /\ char_time = decimalTime_to_charTime(decimal_time)

\* A real date of the calendar of update_date is one of the Gregorian calendar.
LEMMA RealIsLast ==
  ASSUME NEW d, RealDate(d)
  PROVE  d.day <= LastDay(d.month, d.year)
  <1> DEFINE y == d.year
             m == d.month
             n == d.day
  <1>1. y \in Year /\ m \in Month /\ n \in 1..31 /\ n <= days_of(m, y)
    BY DEF RealDate, Date_t
  <1> HIDE DEF y, m, n
  <1>2. y \in Int
    BY <1>1, YearRange
  <1>3. LastDay(m, y) \in Int /\ days_of(m, y) <= LastDay(m, y) /\ days_of(m, y) \in 28..31
    <2>1. LastDay(m, y) \in Int
      BY <1>1, SMT DEF LastDay, Month
    <2> QED BY <1>1, <1>2, <2>1, DaysOf
  <1>4. n <= LastDay(m, y)
    BY <1>1, <1>3
  <1> QED BY <1>4 DEF y, m, n

LEMMA InitIInv == Init => IInv
  <1> SUFFICES ASSUME Init PROVE IInv
    OBVIOUS
  <1>1. decimal_time \in Time_t /\ RealDate(decimal_date)
    BY StartOK DEF Init, RealDate
  <1>2. char_time = decimalTime_to_charTime(decimal_time) /\ ticks \in 0..MaxTicks
    BY StartOK DEF Init
  <1> QED BY <1>1, <1>2, TimeShown, RealIsLast DEF IInv, TypeOK, RealDate

LEMMA NextIInv == IInv /\ [Next]_vars => IInv'
  <1> SUFFICES ASSUME IInv, [Next]_vars PROVE IInv'
    OBVIOUS
  <1>1. CASE Tick
    <2>1. /\ decimal_time \in Time_t /\ RealDate(decimal_date) /\ ticks \in 0..MaxTicks
      BY DEF IInv, TypeOK
    <2>2. decimal_time' \in Time_t /\ RealDate(decimal_date')
      BY <1>1, <2>1, TimeStep, DateStep DEF Tick
    <2>3. char_time' = decimalTime_to_charTime(decimal_time') /\ ticks' \in 0..MaxTicks
      BY <1>1, <2>1, StartOK DEF Tick
    <2> QED BY <2>2, <2>3, TimeShown, RealIsLast DEF IInv, TypeOK, RealDate
  <1>2. CASE UNCHANGED vars
    BY <1>2 DEF IInv, TypeOK, vars, RealDate
  <1> QED BY <1>1, <1>2 DEF Next

LEMMA IInvAlways == Spec => []IInv
  BY InitIInv, NextIInv, PTL DEF Spec

\* The clock's time and date are always ones of the calendar: update_time and
\* update_date carry into the right fields.
THEOREM ClockTypeCorrect == Spec => []TypeOK
  <1>1. IInv => TypeOK
    BY DEF IInv
  <1> QED BY <1>1, IInvAlways, PTL

\* A clock that is set right shows the next second of the calendar at each tick,
\* from 1900 to the end of 3199: refinement of module Calendar.
THEOREM ClockImplementsCalendar == Spec => ImplementsCalendar
  <1> DEFINE Shown == DayShown(decimalDate_to_charDate(decimal_date))
             Step == Gregorian(decimal_date.year) => Cal!Second
  <1>1. Init => Cal!Init
    <2> SUFFICES ASSUME Init PROVE Cal!Init
      OBVIOUS
    <2>1. decimal_time \in Time_t /\ decimal_date \in Date_t /\ decimal_date.year >= 1900
      BY StartOK DEF Init
    <2>2. char_time = decimalTime_to_charTime(decimal_time)
      BY DEF Init
    <2>3. TenthShown(char_time) \in 0..(Cal!TenthsPerDay - 1)
      <3> DEFINE t == TenthShown(char_time)
      <3>1. t \in Int /\ 0 <= t /\ t < 864000
        BY <2>1, <2>2, TimeShown
      <3>2. Cal!TenthsPerDay = 864000
        BY SMT DEF Cal!TenthsPerDay
      <3> DEFINE N == Cal!TenthsPerDay
      <3>3. N \in Int /\ t < N
        BY <3>1, <3>2
      <3> HIDE DEF t, N
      <3>4. t \in 0..(N - 1)
        BY <3>1, <3>3
      <3> QED BY <3>4 DEF t, N
    <2>4. Shown \in Nat
      BY <2>1, DateShown, DayIsInt, SMT
    <2> QED BY <2>3, <2>4 DEF Cal!Init
  <1>2. IInv /\ [Next]_vars => [Step]_vars
    <2> SUFFICES ASSUME IInv, Tick, Gregorian(decimal_date.year)
                 PROVE  Cal!Second
      BY DEF Next
    <2> DEFINE e == extra_day(decimal_time, 10)
               t == TenthShown(char_time)
               x == Tenth(decimal_time)
               n == DayNumber(decimal_date)
    <2>1. decimal_time \in Time_t /\ RealDate(decimal_date) /\ decimal_date \in Date_t
      BY DEF IInv, TypeOK
    <2>2. decimal_time' \in Time_t /\ decimal_date' \in Date_t
      BY <2>1, TimeStep, DateStep DEF Tick, RealDate
    <2>3. e \in {0, 1}
      BY <2>1, TimeStep
    <2>4. t = x /\ x \in Int /\ 0 <= x /\ x < 864000
      BY <2>1, TimeShown DEF IInv
    <2>5. t' = Tenth(decimal_time') /\ t' \in Int /\ 0 <= t' /\ t' < 864000
      BY <2>2, TimeShown DEF Tick
    <2>6. Tenth(decimal_time') = x + 10 - 864000 * e
      BY <2>1, TimeStep DEF Tick
    <2>7. Shown = n
      BY <2>1, DateShown
    <2>8. Shown' = n + e
      <3>1. Shown' = DayNumber(decimal_date')
        BY <2>2, DateShown
      <3>2. DayNumber(decimal_date') = n + e
        BY <2>1, <2>3, DateStep DEF Tick
      <3> QED BY <3>1, <3>2
    <2>9. n \in Int
      BY <2>1, DayIsInt
    <2> DEFINE tn == t'
               sn == Shown'
               s == Shown
    <2>10. Cal!Second <=> \/ t + 10 < Cal!TenthsPerDay /\ tn = t + 10 /\ sn = s
                          \/ /\ t + 10 >= Cal!TenthsPerDay
                             /\ tn = t + 10 - Cal!TenthsPerDay /\ sn = s + 1
      BY DEF Cal!Second
    <2>11. Cal!TenthsPerDay = 864000
      BY SMT DEF Cal!TenthsPerDay
    <2>12. /\ t = x /\ x \in Int /\ 0 <= x /\ x < 864000 /\ e \in {0, 1}
           /\ tn = x + 10 - 864000 * e /\ 0 <= tn /\ tn < 864000
           /\ s = n /\ sn = n + e /\ n \in Int
      BY <2>3, <2>4, <2>5, <2>6, <2>7, <2>8, <2>9
    <2> HIDE DEF e, t, x, n, tn, s, sn
    <2> QED BY <2>10, <2>11, <2>12, SMT
  <1>3. Spec => [][Step]_vars
    BY <1>2, IInvAlways, PTL DEF Spec
  <1>4. Spec => Cal!Init
    BY <1>1 DEF Spec
  <1> QED BY <1>3, <1>4 DEF ImplementsCalendar
=============================================================================
