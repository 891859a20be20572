------------------------------- MODULE Moments ------------------------------
(***************************************************************************)
(* Reference for module XsdTm: moments moved to UTC day by day on a        *)
(* calendar, and compared field by field; and the proof that xsd_tm.c      *)
(* gives the same answers for all of them.                                 *)
(***************************************************************************)
EXTENDS XsdTm, Sequences, SequenceTheorems, TLAPS

LastDay(yr, mo) ==
  CASE mo = 2 -> IF yr % 400 = 0 \/ (yr % 4 = 0 /\ yr % 100 # 0) THEN 29 ELSE 28
    [] mo \in {4, 6, 9, 11} -> 30
    [] OTHER -> 31

NextDay(yr, mo, dy) ==
  CASE dy < LastDay(yr, mo) -> <<yr, mo, dy + 1>>
    [] dy = LastDay(yr, mo) /\ mo < 12 -> <<yr, mo + 1, 1>>
    [] OTHER -> <<yr + 1, 1, 1>>

DayBefore(yr, mo, dy) ==
  CASE dy > 1 -> <<yr, mo, dy - 1>>
    [] dy = 1 /\ mo > 1 -> <<yr, mo - 1, LastDay(yr, mo - 1)>>
    [] OTHER -> <<yr - 1, 12, 31>>

(* The day in UTC of what is minute m of the day in t, which may be one    *)
(* of the day before or after.                                             *)
DayAt(t, m) ==
  IF m < 0 THEN DayBefore(t.yr, t.mo, t.dy)
  ELSE IF m > 1439 THEN NextDay(t.yr, t.mo, t.dy)
  ELSE <<t.yr, t.mo, t.dy>>

Minute(t, zone) == t.hr * 60 + t.mi - zone

Fields(s) == s @@ Default

UTC(s, zone) ==
  LET t == Fields(s)
      day == DayAt(t, Minute(t, zone))
  IN  <<day[1], day[2], day[3], Minute(t, zone) % 1440, t.se, t.mics>>

Before(t1, t2) == \E i \in DOMAIN t1 : t1[i] < t2[i] /\ \A j \in 1 .. i - 1 : t1[j] = t2[j]

(* A moment without a time zone is before another with one if it is in     *)
(* every time zone.                                                        *)
East == 840
West == -840
Zones(s) == IF "zone" \in DOMAIN s THEN {s.zone} ELSE {West, East}
Zoned(s) == "zone" \in DOMAIN s
Earlier(s1, s2) ==
  IF Zoned(s1) = Zoned(s2)
  THEN Before(UTC(s1, IF Zoned(s1) THEN s1.zone ELSE 0), UTC(s2, IF Zoned(s2) THEN s2.zone ELSE 0))
  ELSE \A z1 \in Zones(s1), z2 \in Zones(s2) : Before(UTC(s1, z1), UTC(s2, z2))
Same(s1, s2) ==
  Zoned(s1) = Zoned(s2) /\ ~Earlier(s1, s2) /\ ~Earlier(s2, s1)

-----------------------------------------------------------------------------
(* The years.                                                              *)
Leaps(n) == n \div 4 - n \div 100 + n \div 400
Extra(yr) == IF leap(yr) THEN 1 ELSE 0
NewYear(yr) == IF yr >= 0 THEN y2d(yr - 1) ELSE y2d(yr) - 366

(* There are no fewer leap years up to a later year.                       *)
LEMMA LeapsGrow ==
  ASSUME NEW n \in Nat, NEW m \in Nat, n <= m
  PROVE  Leaps(n) <= Leaps(m)
BY DEF Leaps

(* Leap years are counted one year at a time.                              *)
LEMMA LeapsStep ==
  ASSUME NEW n \in Nat, n > 0
  PROVE  Leaps(n) = Leaps(n - 1) + Extra(n)
BY DEF Leaps, Extra, leap

(* Their count is a number.                                                *)
LEMMA LeapsNat ==
  ASSUME NEW n \in Nat
  PROVE  Leaps(n) \in Nat
BY DEF Leaps

(* The day before the first of a year from 1 on.                           *)
LEMMA NewYearAfter ==
  ASSUME NEW yr \in Int, yr > 0
  PROVE  NewYear(yr) = 365 * (yr - 1) + Leaps(yr - 1)
BY DEF NewYear, y2d, Quot, Leaps

(* The same of a year before 1.                                            *)
LEMMA NewYearBefore ==
  ASSUME NEW yr \in Int, yr < 0
  PROVE  NewYear(yr) = 365 * yr - Leaps(-yr) - 366
BY DEF NewYear, y2d, Quot, Leaps

(* Leap years before year 1 are those after it, mirrored.                  *)
LEMMA ExtraMirrored ==
  ASSUME NEW yr \in Int
  PROVE  Extra(-yr) = Extra(yr)
BY DEF Extra, leap

(* A year starts after the last day of the one before.                     *)
LEMMA YearLength ==
  ASSUME NEW yr \in Int, yr # 0, yr # -1
  PROVE  NewYear(yr + 1) = NewYear(yr) + 365 + Extra(yr)
<1>1. CASE yr > 0
  BY <1>1, NewYearAfter, LeapsStep, LeapsNat DEF Extra
<1>2. CASE yr < 0
  <2>1. -yr \in Nat /\ -yr > 0 /\ -(yr + 1) = -yr - 1 /\ yr + 1 < 0
    BY <1>2
  <2>2. Leaps(-yr) = Leaps(-yr - 1) + Extra(yr)
    BY <2>1, LeapsStep, ExtraMirrored
  <2> QED
    BY <1>2, <2>1, <2>2, NewYearBefore, LeapsNat DEF Extra
<1> QED
  BY <1>1, <1>2

(* A later year starts after the end of an earlier one.                    *)
LEMMA YearsGrow ==
  ASSUME NEW y1 \in Int, NEW y2 \in Int, y1 # 0, y2 # 0, y1 < y2
  PROVE  NewYear(y2) >= NewYear(y1) + 365 + Extra(y1)
<1>1. CASE y1 > 0
  <2>1. Leaps(y1) <= Leaps(y2 - 1) /\ Leaps(y1) = Leaps(y1 - 1) + Extra(y1)
    BY <1>1, LeapsGrow, LeapsStep
  <2> QED
    BY <1>1, <2>1, NewYearAfter, LeapsNat DEF Extra
<1>2. CASE y1 < 0 /\ y2 < 0
  <2>1. -y1 \in Nat /\ -y1 > 0 /\ -y2 \in Nat /\ -y2 <= -y1 - 1
    BY <1>2
  <2>2. Leaps(-y2) <= Leaps(-y1 - 1) /\ Leaps(-y1) = Leaps(-y1 - 1) + Extra(y1)
    BY <2>1, LeapsGrow, LeapsStep, ExtraMirrored
  <2> QED
    BY <1>2, <2>1, <2>2, NewYearBefore, LeapsNat DEF Extra
<1>3. CASE y1 < 0 /\ y2 > 0
  <2>1. NewYear(y1) + 365 + Extra(y1) <= 0 /\ NewYear(y2) >= 0
    BY <1>3, NewYearBefore, NewYearAfter, LeapsNat DEF Extra
  <2>2. NewYear(y1) \in Int /\ NewYear(y2) \in Int
    BY <1>3, NewYearBefore, NewYearAfter, LeapsNat
  <2> QED
    BY <2>1, <2>2 DEF Extra
<1> QED
  BY <1>1, <1>2, <1>3

-----------------------------------------------------------------------------
(* The days of a year.                                                     *)
Month(yr, mo) == DaysBefore[mo] + IF mo > 2 /\ leap(yr) THEN 1 ELSE 0

(* The months, one by one.                                                 *)
LEMMA TwelveMonths ==
  ASSUME NEW mo \in 1 .. 12
  PROVE  \/ mo = 1 \/ mo = 2 \/ mo = 3 \/ mo = 4 \/ mo = 5 \/ mo = 6
         \/ mo = 7 \/ mo = 8 \/ mo = 9 \/ mo = 10 \/ mo = 11 \/ mo = 12
OBVIOUS

(* The last day of each month, and how many February has.                  *)
LEMMA LastDays ==
  ASSUME NEW yr \in Int, NEW mo \in 1 .. 12
  PROVE  /\ mo \in {1, 3, 5, 7, 8, 10, 12} => LastDay(yr, mo) = 31
         /\ mo \in {4, 6, 9, 11} => LastDay(yr, mo) = 30
         /\ mo = 2 => LastDay(yr, mo) = 28 + Extra(yr)
         /\ LastDay(yr, mo) \in 28 .. 31
<1>1. leap(yr) <=> yr % 400 = 0 \/ (yr % 4 = 0 /\ yr % 100 # 0)
  BY DEF leap
<1>2. mo = 2 => LastDay(yr, mo) = 28 + Extra(yr) /\ LastDay(yr, mo) \in 28 .. 31
  BY <1>1 DEF LastDay, Extra
<1>3. mo \in {4, 6, 9, 11} => LastDay(yr, mo) = 30
  BY DEF LastDay
<1>4. mo \in {1, 3, 5, 7, 8, 10, 12} => LastDay(yr, mo) = 31
  BY DEF LastDay
<1> QED
  BY <1>2, <1>3, <1>4, TwelveMonths

(* The days before each month.                                             *)
LEMMA Months ==
  ASSUME NEW yr \in Int
  PROVE  /\ Month(yr, 1) = 0 /\ Month(yr, 2) = 31
         /\ Month(yr, 3) = 59 + Extra(yr) /\ Month(yr, 4) = 90 + Extra(yr)
         /\ Month(yr, 5) = 120 + Extra(yr) /\ Month(yr, 6) = 151 + Extra(yr)
         /\ Month(yr, 7) = 181 + Extra(yr) /\ Month(yr, 8) = 212 + Extra(yr)
         /\ Month(yr, 9) = 243 + Extra(yr) /\ Month(yr, 10) = 273 + Extra(yr)
         /\ Month(yr, 11) = 304 + Extra(yr) /\ Month(yr, 12) = 334 + Extra(yr)
         /\ Extra(yr) \in 0 .. 1
BY DEF Month, DaysBefore, Extra

(* A month starts after the last day of the one before.                    *)
LEMMA MonthLength ==
  ASSUME NEW yr \in Int, NEW mo \in 1 .. 11
  PROVE  Month(yr, mo + 1) = Month(yr, mo) + LastDay(yr, mo)
<1>1. mo \in 1 .. 12
  OBVIOUS
<1>2. /\ mo \in {1, 3, 5, 7, 8, 10, 12} => LastDay(yr, mo) = 31
      /\ mo \in {4, 6, 9, 11} => LastDay(yr, mo) = 30
      /\ mo = 2 => LastDay(yr, mo) = 28 + Extra(yr)
  BY <1>1, LastDays
<1> QED
  BY <1>1, <1>2, Months, TwelveMonths

(* Months end within the year.                                             *)
LEMMA MonthInYear ==
  ASSUME NEW yr \in Int, NEW mo \in 1 .. 12
  PROVE  /\ Month(yr, mo) \in Int /\ Month(yr, mo) >= 0
         /\ Month(yr, mo) + LastDay(yr, mo) <= 365 + Extra(yr)
         /\ mo = 12 => Month(yr, mo) + LastDay(yr, mo) = 365 + Extra(yr)
<1>1. /\ mo \in {1, 3, 5, 7, 8, 10, 12} => LastDay(yr, mo) = 31
      /\ mo \in {4, 6, 9, 11} => LastDay(yr, mo) = 30
      /\ mo = 2 => LastDay(yr, mo) = 28 + Extra(yr)
  BY LastDays
<1> QED
  BY <1>1, Months, TwelveMonths

(* A later month starts after the end of an earlier one.                   *)
LEMMA MonthsGrow ==
  ASSUME NEW yr \in Int, NEW m1 \in 1 .. 12, NEW m2 \in 1 .. 12, m1 < m2
  PROVE  Month(yr, m2) >= Month(yr, m1) + LastDay(yr, m1)
<1>1. Month(yr, m1 + 1) = Month(yr, m1) + LastDay(yr, m1)
  BY MonthLength
<1>2. m1 + 1 \in 1 .. 12 /\ m1 + 1 <= m2
  OBVIOUS
<1>3. ASSUME NEW m \in 1 .. 12, m <= m2 PROVE Month(yr, m) <= Month(yr, m2)
  BY <1>3, Months, TwelveMonths
<1> QED
  BY <1>1, <1>2, <1>3

-----------------------------------------------------------------------------
(* The days of all years but 0: no two have the same number, and the next  *)
(* day has the next number.                                                *)
IsDate(yr, mo, dy) == yr \in Int \ {0} /\ mo \in 1 .. 12 /\ dy \in 1 .. LastDay(yr, mo)

(* The number of a date, from those of its year and its month.             *)
LEMMA DayNumber ==
  ASSUME NEW yr, NEW mo, NEW dy, IsDate(yr, mo, dy)
  PROVE  /\ ymd2ds(yr, mo, dy) = NewYear(yr) + Month(yr, mo) + dy
         /\ NewYear(yr) \in Int /\ Month(yr, mo) \in Int /\ ymd2ds(yr, mo, dy) \in Int
         /\ LastDay(yr, mo) \in 28 .. 31 /\ dy \in Int
<1>1. yr \in Int /\ yr # 0 /\ mo \in 1 .. 12 /\ dy \in 1 .. LastDay(yr, mo) /\ LastDay(yr, mo) \in 28 .. 31
  BY LastDays DEF IsDate
<1>2. NewYear(yr) \in Int
  <2>1. CASE yr > 0
    BY <1>1, <2>1, NewYearAfter, LeapsNat
  <2>2. CASE yr < 0
    BY <1>1, <2>2, NewYearBefore, LeapsNat
  <2> QED
    BY <1>1, <2>1, <2>2
<1>3. Month(yr, mo) \in Int
  BY <1>1, MonthInYear
<1>4. DaysBefore[mo] \in Int
  BY <1>1 DEF DaysBefore
<1>5. ymd2ds(yr, mo, dy) = NewYear(yr) + Month(yr, mo) + dy
  BY <1>1, <1>2, <1>3, <1>4 DEF ymd2ds, ymd2dn, NewYear, Month
<1> QED
  BY <1>1, <1>2, <1>3, <1>5

(* The months of a date are within its year.                               *)
LEMMA YearAround ==
  ASSUME NEW yr, NEW mo, NEW dy, IsDate(yr, mo, dy)
  PROVE  /\ Month(yr, mo) >= 0
         /\ Month(yr, mo) + LastDay(yr, mo) <= 365 + Extra(yr)
<1>1. PICK y \in Int, m \in 1 .. 12 : y = yr /\ m = mo
  BY DEF IsDate
<1>2. Month(y, m) >= 0 /\ Month(y, m) + LastDay(y, m) <= 365 + Extra(y)
  BY MonthInYear
<1> QED
  BY <1>1, <1>2

(* Dates of the calendar are numbered in their order (ymd2ds).             *)
LEMMA DatesInOrder ==
  ASSUME NEW y1, NEW m1, NEW d1, NEW y2, NEW m2, NEW d2,
         IsDate(y1, m1, d1), IsDate(y2, m2, d2),
         y1 < y2 \/ (y1 = y2 /\ (m1 < m2 \/ (m1 = m2 /\ d1 < d2)))
  PROVE  ymd2ds(y1, m1, d1) < ymd2ds(y2, m2, d2)
<1>1. /\ ymd2ds(y1, m1, d1) = NewYear(y1) + Month(y1, m1) + d1
      /\ NewYear(y1) \in Int /\ Month(y1, m1) \in Int /\ LastDay(y1, m1) \in 28 .. 31 /\ d1 \in Int
  BY DayNumber
<1>2. /\ ymd2ds(y2, m2, d2) = NewYear(y2) + Month(y2, m2) + d2
      /\ NewYear(y2) \in Int /\ Month(y2, m2) \in Int /\ LastDay(y2, m2) \in 28 .. 31 /\ d2 \in Int
  BY DayNumber
<1>3. /\ y1 \in Int /\ y1 # 0 /\ m1 \in 1 .. 12 /\ d1 \in 1 .. LastDay(y1, m1)
      /\ y2 \in Int /\ y2 # 0 /\ m2 \in 1 .. 12 /\ d2 \in 1 .. LastDay(y2, m2)
  BY DEF IsDate
<1>4. CASE y1 < y2
  <2>1. NewYear(y2) >= NewYear(y1) + 365 + Extra(y1)
    BY <1>3, <1>4, YearsGrow
  <2>2. Month(y1, m1) + LastDay(y1, m1) <= 365 + Extra(y1) /\ Month(y2, m2) >= 0
    BY YearAround
  <2>3. Extra(y1) \in 0 .. 1
    BY <1>3, Months
  <2> QED
    BY <1>1, <1>2, <1>3, <2>1, <2>2, <2>3
<1>5. CASE y1 = y2 /\ m1 < m2
  <2>1. Month(y2, m2) >= Month(y1, m1) + LastDay(y1, m1)
    BY <1>3, <1>5, MonthsGrow
  <2> QED
    BY <1>1, <1>2, <1>3, <1>5, <2>1
<1>6. CASE y1 = y2 /\ m1 = m2 /\ d1 < d2
  BY <1>1, <1>2, <1>3, <1>6
<1> QED
  BY <1>4, <1>5, <1>6

(* The next day has the next number.                                       *)
LEMMA NextDayNumber ==
  ASSUME NEW yr, NEW mo, NEW dy, IsDate(yr, mo, dy),
         NEW n, n = NextDay(yr, mo, dy), n[1] # 0
  PROVE  IsDate(n[1], n[2], n[3]) /\ ymd2ds(n[1], n[2], n[3]) = ymd2ds(yr, mo, dy) + 1
<1>1. /\ ymd2ds(yr, mo, dy) = NewYear(yr) + Month(yr, mo) + dy
      /\ NewYear(yr) \in Int /\ Month(yr, mo) \in Int /\ LastDay(yr, mo) \in 28 .. 31
      /\ yr \in Int /\ yr # 0 /\ mo \in 1 .. 12 /\ dy \in 1 .. LastDay(yr, mo)
  BY DayNumber DEF IsDate
<1>2. CASE dy < LastDay(yr, mo)
  <2>1. n[1] = yr /\ n[2] = mo /\ n[3] = dy + 1
    BY <1>1, <1>2 DEF NextDay
  <2>2. IsDate(yr, mo, dy + 1)
    BY <1>1, <1>2 DEF IsDate
  <2>3. ymd2ds(yr, mo, dy + 1) = NewYear(yr) + Month(yr, mo) + (dy + 1)
    BY <2>2, DayNumber
  <2> QED
    BY <1>1, <2>1, <2>2, <2>3
<1>3. CASE dy = LastDay(yr, mo) /\ mo < 12
  <2>1. n[1] = yr /\ n[2] = mo + 1 /\ n[3] = 1
    BY <1>1, <1>3 DEF NextDay
  <2>2. mo + 1 \in 1 .. 12 /\ mo \in 1 .. 11
    BY <1>1, <1>3
  <2>3. IsDate(yr, mo + 1, 1)
    BY <1>1, <2>2, LastDays DEF IsDate
  <2>4. ymd2ds(yr, mo + 1, 1) = NewYear(yr) + Month(yr, mo + 1) + 1
    BY <2>3, DayNumber
  <2>5. Month(yr, mo + 1) = Month(yr, mo) + LastDay(yr, mo)
    BY <1>1, <2>2, MonthLength
  <2> QED
    BY <1>1, <1>3, <2>1, <2>3, <2>4, <2>5
<1>4. CASE dy = LastDay(yr, mo) /\ mo = 12
  <2>1. n[1] = yr + 1 /\ n[2] = 1 /\ n[3] = 1
    BY <1>1, <1>4 DEF NextDay
  <2>2. yr + 1 \in Int /\ yr + 1 # 0 /\ yr # -1
    BY <1>1, <2>1
  <2>3. IsDate(yr + 1, 1, 1)
    BY <2>2, LastDays DEF IsDate
  <2>4. ymd2ds(yr + 1, 1, 1) = NewYear(yr + 1) + Month(yr + 1, 1) + 1 /\ NewYear(yr + 1) \in Int
    BY <2>3, DayNumber
  <2>5. Month(yr, mo) + LastDay(yr, mo) = 365 + Extra(yr) /\ Month(yr + 1, 1) = 0 /\ Extra(yr) \in 0 .. 1
    BY <1>1, <1>4, <2>2, MonthInYear, Months
  <2>6. NewYear(yr + 1) = NewYear(yr) + 365 + Extra(yr)
    BY <1>1, <2>2, YearLength
  <2> QED
    BY <1>1, <1>4, <2>1, <2>3, <2>4, <2>5, <2>6
<1> QED
  BY <1>1, <1>2, <1>3, <1>4

(* The day before has the number before.                                   *)
LEMMA DayBeforeNumber ==
  ASSUME NEW yr, NEW mo, NEW dy, IsDate(yr, mo, dy),
         NEW n, n = DayBefore(yr, mo, dy), n[1] # 0
  PROVE  IsDate(n[1], n[2], n[3]) /\ ymd2ds(n[1], n[2], n[3]) = ymd2ds(yr, mo, dy) - 1
<1>1. yr \in Int /\ yr # 0 /\ mo \in 1 .. 12 /\ dy \in 1 .. LastDay(yr, mo) /\ LastDay(yr, mo) \in 28 .. 31
  BY DayNumber DEF IsDate
<1>2. IsDate(n[1], n[2], n[3]) /\ NextDay(n[1], n[2], n[3]) = <<yr, mo, dy>>
  <2>1. CASE dy > 1
    <3>1. n[1] = yr /\ n[2] = mo /\ n[3] = dy - 1
      BY <2>1 DEF DayBefore
    <3> QED
      BY <1>1, <2>1, <3>1 DEF IsDate, NextDay
  <2>2. CASE dy = 1 /\ mo > 1
    <3>1. n[1] = yr /\ n[2] = mo - 1 /\ n[3] = LastDay(yr, mo - 1)
      BY <2>2 DEF DayBefore
    <3>2. mo - 1 \in 1 .. 12 /\ mo - 1 < 12 /\ (mo - 1) + 1 = mo
      BY <1>1, <2>2
    <3>3. LastDay(yr, mo - 1) \in 28 .. 31
      BY <1>1, <3>2, LastDays
    <3> QED
      BY <1>1, <2>2, <3>1, <3>2, <3>3 DEF IsDate, NextDay
  <2>3. CASE dy = 1 /\ mo = 1
    <3>1. n[1] = yr - 1 /\ n[2] = 12 /\ n[3] = 31
      BY <2>3 DEF DayBefore
    <3>2. yr - 1 \in Int /\ yr - 1 # 0 /\ (yr - 1) + 1 = yr
      BY <1>1, <3>1
    <3>3. LastDay(yr - 1, 12) = 31
      BY <3>2, LastDays
    <3> QED
      BY <1>1, <2>3, <3>1, <3>2, <3>3 DEF IsDate, NextDay
  <2> QED
    BY <1>1, <2>1, <2>2, <2>3
<1>3. ymd2ds(yr, mo, dy) = ymd2ds(n[1], n[2], n[3]) + 1
  <2>1. PICK l : l = NextDay(n[1], n[2], n[3])
    OBVIOUS
  <2>2. l[1] = yr /\ l[2] = mo /\ l[3] = dy
    BY <1>2, <2>1
  <2> QED
    BY <1>1, <1>2, <2>1, <2>2, NextDayNumber
<1> QED
  BY <1>2, <1>3, DayNumber

-----------------------------------------------------------------------------
(* A date and a time of the day, without a leap second.                    *)
Clocked(t) ==
  /\ IsDate(t.yr, t.mo, t.dy)
  /\ t.hr \in 0 .. 23 /\ t.mi \in 0 .. 59 /\ t.se \in 0 .. 59 /\ t.mics \in Nat

Local(t, tz) ==
  [days |-> ymd2ds(t.yr, t.mo, t.dy), secs |-> t.se + 60 * (t.mi + 60 * t.hr), mics |-> t.mics, tz |-> tz]

(* What xsd_tm.c has of a moment is its place in UTC.                      *)
Reads(tm, u) ==
  /\ u \in Seq(Int) /\ Len(u) = 6 /\ IsDate(u[1], u[2], u[3])
  /\ u[4] \in 0 .. 1439 /\ u[5] \in 0 .. 59 /\ u[6] \in Nat
  /\ tm.days = ymd2ds(u[1], u[2], u[3]) /\ tm.secs = 60 * u[4] + u[5] /\ tm.mics = u[6]

(* The day in UTC: the one before, the next, or the same.                  *)
LEMMA DayPicked ==
  ASSUME NEW t, NEW m \in Int
  PROVE  /\ m < 0 => DayAt(t, m) = DayBefore(t.yr, t.mo, t.dy)
         /\ m > 1439 => DayAt(t, m) = NextDay(t.yr, t.mo, t.dy)
<1>1. m > 1439 => ~(m < 0)
  OBVIOUS
<1>2. m < 0 => DayAt(t, m) = DayBefore(t.yr, t.mo, t.dy)
  BY DEF DayAt
<1>3. m > 1439 => DayAt(t, m) = NextDay(t.yr, t.mo, t.dy)
  BY <1>1 DEF DayAt
<1> QED
  BY <1>2, <1>3

(* The day in UTC has the number of the day, or one less or more.          *)
LEMMA DayMoved ==
  ASSUME NEW t, Clocked(t), NEW m \in Int, NEW d, d = DayAt(t, m), d[1] # 0
  PROVE  /\ IsDate(d[1], d[2], d[3])
         /\ ymd2ds(d[1], d[2], d[3]) = ymd2ds(t.yr, t.mo, t.dy)
              + IF m < 0 THEN -1 ELSE IF m > 1439 THEN 1 ELSE 0
<1>1. IsDate(t.yr, t.mo, t.dy) /\ ymd2ds(t.yr, t.mo, t.dy) \in Int
  BY DayNumber DEF Clocked
<1>2. CASE m < 0
  <2>1. d = DayBefore(t.yr, t.mo, t.dy)
    BY <1>2, DayPicked
  <2> QED
    BY <1>1, <1>2, <2>1, DayBeforeNumber
<1>3. CASE m \in 0 .. 1439
  <2>1. d[1] = t.yr /\ d[2] = t.mo /\ d[3] = t.dy
    BY <1>3 DEF DayAt
  <2> QED
    BY <1>1, <1>3, <2>1
<1>4. CASE m > 1439
  <2>1. d = NextDay(t.yr, t.mo, t.dy)
    BY <1>4, DayPicked
  <2> QED
    BY <1>1, <1>4, <2>1, NextDayNumber
<1> QED
  BY <1>2, <1>3, <1>4

(* addsecs goes to the day before or after.                                *)
LEMMA SecsAdded ==
  ASSUME NEW days \in Int, NEW secs \in Int, NEW mics, NEW tz, NEW n \in Int,
         NEW l, l = [days |-> days, secs |-> secs, mics |-> mics, tz |-> tz], NEW a, a = addsecs(l, n)
  PROVE  /\ a.mics = mics /\ a.tz = tz
         /\ secs + n < 0 => a.days = days - 1 /\ a.secs = (secs + n) + DAYSECS
         /\ secs + n >= DAYSECS => a.days = days + 1 /\ a.secs = (secs + n) - DAYSECS
         /\ ~(secs + n < 0) /\ ~(secs + n >= DAYSECS) => a.days = days /\ a.secs = secs + n
<1>1. PICK sum : sum = secs + n
  OBVIOUS
<1>2. l.secs = secs /\ l.days = days /\ l.mics = mics /\ l.tz = tz
  OBVIOUS
<1>0. \A x, y \in Int : /\ [l EXCEPT !.days = x, !.secs = y].days = x
                       /\ [l EXCEPT !.days = x, !.secs = y].secs = y
                       /\ [l EXCEPT !.days = x, !.secs = y].mics = mics
                       /\ [l EXCEPT !.days = x, !.secs = y].tz = tz
                       /\ [l EXCEPT !.secs = y].secs = y
                       /\ [l EXCEPT !.secs = y].days = days
                       /\ [l EXCEPT !.secs = y].mics = mics
                       /\ [l EXCEPT !.secs = y].tz = tz
  OBVIOUS
<1>3. sum \in Int /\ DAYSECS \in Int /\ (sum >= DAYSECS => ~(sum < 0))
  BY <1>1, SMT DEF DAYSECS
<1>4. CASE sum < 0
  <2>1. PICK x, y \in Int : x = days - 1 /\ y = sum + DAYSECS
    BY <1>3
  <2>2. l.secs + n < 0 /\ x = l.days - 1 /\ y = (l.secs + n) + DAYSECS /\ ~(l.secs + n >= DAYSECS)
    BY <1>1, <1>2, <1>3, <1>4, <2>1
  <2>3. a = [l EXCEPT !.days = x, !.secs = y]
    BY <2>2, Zenon DEF addsecs
  <2> QED
    BY <1>0, <1>1, <1>3, <1>4, <2>1, <2>3
<1>5. CASE sum >= DAYSECS
  <2>1. PICK x, y \in Int : x = days + 1 /\ y = sum - DAYSECS
    BY <1>3
  <2>2. ~(l.secs + n < 0) /\ l.secs + n >= DAYSECS /\ x = l.days + 1 /\ y = (l.secs + n) - DAYSECS
    BY <1>1, <1>2, <1>3, <1>5, <2>1
  <2>3. a = [l EXCEPT !.days = x, !.secs = y]
    BY <2>2, Zenon DEF addsecs
  <2> QED
    BY <1>0, <1>1, <1>3, <1>5, <2>1, <2>3
<1>6. CASE ~(sum < 0) /\ ~(sum >= DAYSECS)
  <2>1. a = [l EXCEPT !.secs = sum]
    BY <1>1, <1>2, <1>6 DEF addsecs
  <2> QED
    BY <1>0, <1>1, <1>3, <1>6, <2>1
<1> QED
  BY <1>4, <1>5, <1>6

(* The time zones that can be written, in minutes.                         *)
Shifts == -899 .. 899

(* The time of day in UTC, in minutes.                                     *)
LEMMA MinuteOfDay ==
  ASSUME NEW m \in Int, m >= -1440, m < 2880
  PROVE  /\ m % 1440 \in 0 .. 1439
         /\ m < 0 => m % 1440 = m + 1440
         /\ m >= 0 /\ m <= 1439 => m % 1440 = m
         /\ m > 1439 => m % 1440 = m - 1440
BY SMT

(* Six numbers in a row.                                                   *)
LEMMA SixInts ==
  ASSUME NEW i1 \in Int, NEW i2 \in Int, NEW i3 \in Int, NEW i4 \in Int, NEW i5 \in Int, NEW i6 \in Int
  PROVE  <<i1, i2, i3, i4, i5, i6>> \in Seq(Int)
OBVIOUS

(* And so does the calendar.                                               *)
LEMMA ReadInUTC ==
  ASSUME NEW s, Clocked(Fields(s)), NEW zone \in Shifts, UTC(s, zone)[1] # 0, NEW tz,
         NEW a, a = addsecs(Local(Fields(s), tz), -60 * zone)
  PROVE  Reads(a, UTC(s, zone)) /\ a.tz = tz
<1>1. PICK t : t = Fields(s)
  OBVIOUS
<1>2. PICK u : u = UTC(s, zone)
  OBVIOUS
<1>3. PICK m : m = Minute(t, zone)
  OBVIOUS
<1>4. PICK d : d = DayAt(t, m)
  OBVIOUS
<1>5. PICK days, secs : days = ymd2ds(t.yr, t.mo, t.dy) /\ secs = t.se + 60 * (t.mi + 60 * t.hr)
  OBVIOUS
<1>6. PICK sum : sum = secs + -60 * zone
  OBVIOUS
<1>7. /\ t.hr \in 0 .. 23 /\ t.mi \in 0 .. 59 /\ t.se \in 0 .. 59 /\ t.mics \in Nat
      /\ days \in Int
  BY <1>1, <1>5, DayNumber DEF Clocked
<1>8. PICK hr \in 0 .. 23, mi \in 0 .. 59, se \in 0 .. 59 : hr = t.hr /\ mi = t.mi /\ se = t.se
  BY <1>7
<1>9. /\ m \in Int /\ m >= -1440 /\ m < 2880 /\ -60 * zone \in Int /\ secs \in Int
      /\ sum \in Int /\ sum = 60 * m + se
  <2>1. m = (hr * 60 + mi) - zone
    BY <1>3, <1>8 DEF Minute, Shifts
  <2>2. secs = se + 60 * (mi + 60 * hr)
    BY <1>5, <1>8
  <2>3. /\ (hr * 60 + mi) - zone \in Int
        /\ (hr * 60 + mi) - zone >= -1440 /\ (hr * 60 + mi) - zone < 2880
        /\ -60 * zone \in Int /\ se + 60 * (mi + 60 * hr) \in Int
        /\ (se + 60 * (mi + 60 * hr)) + -60 * zone \in Int
        /\ (se + 60 * (mi + 60 * hr)) + -60 * zone = 60 * ((hr * 60 + mi) - zone) + se
    BY SMT DEF Shifts
  <2> QED
    BY <1>6, <2>1, <2>2, <2>3
<1>10. PICK r \in 0 .. 1439 : r = m % 1440
  BY <1>9, MinuteOfDay
<1>11. /\ m < 0 => sum < 0 /\ sum + DAYSECS = 60 * r + se
       /\ m >= 0 /\ m <= 1439 => sum >= 0 /\ sum < DAYSECS /\ sum = 60 * r + se
       /\ m > 1439 => sum >= DAYSECS /\ sum - DAYSECS = 60 * r + se
  <2>1. /\ m < 0 => r = m + 1440
        /\ m >= 0 /\ m <= 1439 => r = m
        /\ m > 1439 => r = m - 1440
    BY <1>9, <1>10, MinuteOfDay
  <2>2. m \in Int /\ se \in 0 .. 59 /\ r \in Int /\ sum \in Int /\ sum = 60 * m + se
    BY <1>9
  <2>3. /\ m < 0 => sum < 0
        /\ m >= 0 /\ m <= 1439 => sum >= 0 /\ sum < DAYSECS
        /\ m > 1439 => sum >= DAYSECS
        /\ r = m + 1440 => sum + DAYSECS = 60 * r + se
        /\ r = m => sum = 60 * r + se
        /\ r = m - 1440 => sum - DAYSECS = 60 * r + se
    BY <2>2, SMT DEF DAYSECS
  <2> QED
    BY <2>1, <2>3
<1>12. u = <<d[1], d[2], d[3], r, se, t.mics>>
  BY <1>1, <1>2, <1>3, <1>4, <1>8, <1>10 DEF UTC
<1>13. /\ u[4] = r /\ u[5] = se /\ u[6] = t.mics /\ u[1] = d[1] /\ u[2] = d[2] /\ u[3] = d[3]
       /\ Len(u) = 6
  BY <1>12
<1>14. /\ IsDate(d[1], d[2], d[3])
       /\ ymd2ds(d[1], d[2], d[3]) = days + IF m < 0 THEN -1 ELSE IF m > 1439 THEN 1 ELSE 0
  <2>1. d[1] # 0 /\ Clocked(t)
    BY <1>1, <1>2, <1>13
  <2>2. /\ IsDate(d[1], d[2], d[3])
        /\ ymd2ds(d[1], d[2], d[3]) = ymd2ds(t.yr, t.mo, t.dy)
              + IF m < 0 THEN -1 ELSE IF m > 1439 THEN 1 ELSE 0
    BY <1>4, <1>9, <2>1, DayMoved
  <2> QED
    BY <1>5, <2>2
<1>15. u \in Seq(Int)
  <2>1. d[1] \in Int /\ d[2] \in Int /\ d[3] \in Int
    BY <1>14, DayNumber DEF IsDate
  <2> QED
    BY <1>7, <1>12, <2>1, SixInts
<1>16. PICK l : l = Local(t, tz)
  OBVIOUS
<1>17. l = [days |-> days, secs |-> secs, mics |-> t.mics, tz |-> tz] /\ a = addsecs(l, -60 * zone)
  BY <1>1, <1>5, <1>16 DEF Local
<1>18. /\ a.mics = t.mics /\ a.tz = tz
       /\ sum < 0 => a.days = days - 1 /\ a.secs = sum + DAYSECS
       /\ sum >= DAYSECS => a.days = days + 1 /\ a.secs = sum - DAYSECS
       /\ ~(sum < 0) /\ ~(sum >= DAYSECS) => a.days = days /\ a.secs = sum
  BY <1>6, <1>7, <1>9, <1>17, SecsAdded
<1>19. /\ a.secs = 60 * r + se
       /\ a.days = days + IF m < 0 THEN -1 ELSE IF m > 1439 THEN 1 ELSE 0
  <2>1. DAYSECS \in Int
    BY SMT DEF DAYSECS
  <2>2. CASE m < 0
    BY <1>7, <1>9, <1>11, <1>18, <2>2
  <2>3. CASE m >= 0 /\ m <= 1439
    BY <1>7, <1>9, <1>11, <1>18, <2>1, <2>3
  <2>4. CASE m > 1439
    BY <1>7, <1>9, <1>11, <1>18, <2>4
  <2> QED
    BY <1>9, <2>2, <2>3, <2>4
<1>20. a.days = ymd2ds(d[1], d[2], d[3])
  BY <1>14, <1>19
<1> QED
  BY <1>2, <1>7, <1>9, <1>13, <1>14, <1>15, <1>18, <1>19, <1>20 DEF Reads

(* Order of six fields, one by one.                                        *)
LEMMA BeforeOfSix ==
  ASSUME NEW u \in Seq(Int), NEW v \in Seq(Int), Len(u) = 6, Len(v) = 6
  PROVE  Before(u, v) <=>
           \/ u[1] < v[1]
           \/ u[1] = v[1] /\ u[2] < v[2]
           \/ u[1] = v[1] /\ u[2] = v[2] /\ u[3] < v[3]
           \/ u[1] = v[1] /\ u[2] = v[2] /\ u[3] = v[3] /\ u[4] < v[4]
           \/ u[1] = v[1] /\ u[2] = v[2] /\ u[3] = v[3] /\ u[4] = v[4] /\ u[5] < v[5]
           \/ u[1] = v[1] /\ u[2] = v[2] /\ u[3] = v[3] /\ u[4] = v[4] /\ u[5] = v[5] /\ u[6] < v[6]
<1>1. DOMAIN u = 1 .. 6
  OBVIOUS
<1>2. Before(u, v) <=> \E i \in 1 .. 6 : u[i] < v[i] /\ \A j \in 1 .. i - 1 : u[j] = v[j]
  BY <1>1 DEF Before
<1>3. \A i \in 1 .. 6 : i = 1 \/ i = 2 \/ i = 3 \/ i = 4 \/ i = 5 \/ i = 6
  OBVIOUS
<1>4. /\ 1 .. 1 - 1 = {} /\ 1 .. 2 - 1 = {1} /\ 1 .. 3 - 1 = {1, 2} /\ 1 .. 4 - 1 = {1, 2, 3}
      /\ 1 .. 5 - 1 = {1, 2, 3, 4} /\ 1 .. 6 - 1 = {1, 2, 3, 4, 5}
  OBVIOUS
<1> QED
  BY <1>2, <1>3, <1>4

(* Comparison in days, seconds and microseconds is that of the fields.     *)
LEMMA ComparedInUTC ==
  ASSUME NEW a, NEW u, Reads(a, u), NEW b, NEW v, Reads(b, v)
  PROVE  /\ tmcmp(a, b) = -1 <=> Before(u, v)
         /\ tmcmp(a, b) = 1 <=> Before(v, u)
         /\ tmcmp(a, b) \in {-1, 0, 1}
         /\ ~(Before(u, v) /\ Before(v, u))
<1>1. /\ a.days = ymd2ds(u[1], u[2], u[3]) /\ b.days = ymd2ds(v[1], v[2], v[3])
      /\ a.days \in Int /\ b.days \in Int
      /\ IsDate(u[1], u[2], u[3]) /\ IsDate(v[1], v[2], v[3])
  BY DayNumber DEF Reads
<1>2. /\ u[1] \in Int /\ u[2] \in Int /\ u[3] \in Int /\ u[4] \in 0 .. 1439 /\ u[5] \in 0 .. 59 /\ u[6] \in Int
      /\ a.secs = 60 * u[4] + u[5] /\ a.mics = u[6]
  <2>1. u[1] \in Int /\ u[2] \in Int /\ u[3] \in Int
    BY <1>1, DayNumber DEF IsDate
  <2>2. /\ u[4] \in 0 .. 1439 /\ u[5] \in 0 .. 59 /\ u[6] \in Nat
        /\ a.secs = 60 * u[4] + u[5] /\ a.mics = u[6]
    BY DEF Reads
  <2> QED
    BY <2>1, <2>2
<1>3. /\ v[1] \in Int /\ v[2] \in Int /\ v[3] \in Int /\ v[4] \in 0 .. 1439 /\ v[5] \in 0 .. 59 /\ v[6] \in Int
      /\ b.secs = 60 * v[4] + v[5] /\ b.mics = v[6]
  <2>1. v[1] \in Int /\ v[2] \in Int /\ v[3] \in Int
    BY <1>1, DayNumber DEF IsDate
  <2>2. /\ v[4] \in 0 .. 1439 /\ v[5] \in 0 .. 59 /\ v[6] \in Nat
        /\ b.secs = 60 * v[4] + v[5] /\ b.mics = v[6]
    BY DEF Reads
  <2> QED
    BY <2>1, <2>2
<1> DEFINE Sooner(x, y) == \/ x[1] < y[1]
                           \/ x[1] = y[1] /\ (x[2] < y[2] \/ (x[2] = y[2] /\ x[3] < y[3]))
           Day(x, y) == x[1] = y[1] /\ x[2] = y[2] /\ x[3] = y[3]
<1>4. /\ Before(u, v) <=>
           \/ Sooner(u, v)
           \/ Day(u, v) /\ (u[4] < v[4] \/ (u[4] = v[4] /\ (u[5] < v[5] \/ (u[5] = v[5] /\ u[6] < v[6]))))
      /\ Before(v, u) <=>
           \/ Sooner(v, u)
           \/ Day(v, u) /\ (v[4] < u[4] \/ (v[4] = u[4] /\ (v[5] < u[5] \/ (v[5] = u[5] /\ v[6] < u[6]))))
  <2>1. u \in Seq(Int) /\ v \in Seq(Int) /\ Len(u) = 6 /\ Len(v) = 6
    BY DEF Reads
  <2> QED
    BY <2>1, BeforeOfSix
<1>5. /\ Sooner(u, v) => a.days < b.days
      /\ Sooner(v, u) => b.days < a.days
      /\ Day(u, v) => a.days = b.days
      /\ Day(u, v) <=> Day(v, u)
      /\ Sooner(u, v) \/ Sooner(v, u) \/ Day(u, v)
      /\ Sooner(u, v) => ~Day(u, v)
      /\ Sooner(v, u) => ~Day(u, v)
  <2>1. Sooner(u, v) => a.days < b.days
    BY <1>1, DatesInOrder
  <2>2. Sooner(v, u) => b.days < a.days
    BY <1>1, DatesInOrder
  <2>3. Day(u, v) => a.days = b.days
    BY <1>1
  <2>4. Sooner(u, v) \/ Sooner(v, u) \/ Day(u, v)
    BY <1>2, <1>3
  <2>5. /\ Sooner(u, v) => ~Day(u, v)
        /\ Sooner(v, u) => ~Day(u, v)
    BY <1>2, <1>3
  <2> QED
    BY <2>1, <2>2, <2>3, <2>4, <2>5
<1> HIDE DEF Sooner, Day
<1>6. /\ a.secs < b.secs <=> u[4] < v[4] \/ (u[4] = v[4] /\ u[5] < v[5])
      /\ b.secs < a.secs <=> v[4] < u[4] \/ (v[4] = u[4] /\ v[5] < u[5])
      /\ a.secs = b.secs <=> u[4] = v[4] /\ u[5] = v[5]
      /\ a.secs \in Int /\ b.secs \in Int /\ a.mics \in Int /\ b.mics \in Int
  <2>0. u[4] \in 0 .. 1439 /\ u[5] \in 0 .. 59 /\ v[4] \in 0 .. 1439 /\ v[5] \in 0 .. 59
    BY <1>2, <1>3
  <2>1. PICK h1, s1 : h1 = u[4] /\ s1 = u[5]
    OBVIOUS
  <2>2. PICK h2, s2 : h2 = v[4] /\ s2 = v[5]
    OBVIOUS
  <2>4. h1 \in 0 .. 1439 /\ s1 \in 0 .. 59 /\ h2 \in 0 .. 1439 /\ s2 \in 0 .. 59
    BY <2>0, <2>1, <2>2
  <2>3. /\ 60 * h1 + s1 < 60 * h2 + s2 <=> h1 < h2 \/ (h1 = h2 /\ s1 < s2)
        /\ 60 * h2 + s2 < 60 * h1 + s1 <=> h2 < h1 \/ (h2 = h1 /\ s2 < s1)
        /\ 60 * h1 + s1 = 60 * h2 + s2 <=> h1 = h2 /\ s1 = s2
        /\ 60 * h1 + s1 \in Int /\ 60 * h2 + s2 \in Int
    BY <2>4, SMT
  <2> QED
    BY <1>2, <1>3, <2>1, <2>2, <2>3
<1>7. /\ Before(u, v) <=> \/ a.days < b.days
                          \/ a.days = b.days /\ (a.secs < b.secs \/ (a.secs = b.secs /\ a.mics < b.mics))
      /\ Before(v, u) <=> \/ b.days < a.days
                          \/ a.days = b.days /\ (b.secs < a.secs \/ (a.secs = b.secs /\ b.mics < a.mics))
  BY <1>1, <1>2, <1>3, <1>4, <1>5, <1>6, SMT
<1> QED
  BY <1>1, <1>6, <1>7, SMT DEF tmcmp, Sign

(* Each of the six is a number.                                            *)
LEMMA SixElements ==
  ASSUME NEW u \in Seq(Int), Len(u) = 6, NEW k \in 1 .. 6
  PROVE  u[k] \in Int
<1>1. u \in [1 .. Len(u) -> Int]
  BY LenProperties
<1> QED
  BY <1>1

(* What is before a moment is before what comes after it.                  *)
LEMMA BeforeTransitive ==
  ASSUME NEW u \in Seq(Int), NEW v \in Seq(Int), NEW w \in Seq(Int),
         Len(u) = 6, Len(v) = 6, Len(w) = 6, Before(u, v), Before(v, w)
  PROVE  Before(u, w)
<1>1. DOMAIN u = 1 .. 6 /\ DOMAIN v = 1 .. 6 /\ DOMAIN w = 1 .. 6
  OBVIOUS
<1>2. PICK i \in 1 .. 6 : u[i] < v[i] /\ \A k \in 1 .. i - 1 : u[k] = v[k]
  BY <1>1 DEF Before
<1>3. PICK j \in 1 .. 6 : v[j] < w[j] /\ \A k \in 1 .. j - 1 : v[k] = w[k]
  BY <1>1 DEF Before
<1>4. \A k \in 1 .. 6 : u[k] \in Int /\ v[k] \in Int /\ w[k] \in Int
  <2> TAKE k \in 1 .. 6
  <2> QED
    BY SixElements
<1>5. PICK l \in 1 .. 6 : l = IF i < j THEN i ELSE j
  OBVIOUS
<1>6. u[l] < w[l]
  <2>1. CASE i < j
    <3>1. l = i /\ i \in 1 .. j - 1
      BY <1>5, <2>1
    <3> QED
      BY <1>2, <1>3, <1>4, <3>1
  <2>2. CASE j < i
    <3>1. l = j /\ j \in 1 .. i - 1
      BY <1>5, <2>2
    <3> QED
      BY <1>2, <1>3, <1>4, <3>1
  <2>3. CASE i = j
    <3>1. l = i /\ l = j
      BY <1>5, <2>3
    <3>2. u[l] < v[l] /\ v[l] < w[l] /\ u[l] \in Int /\ v[l] \in Int /\ w[l] \in Int
      BY <1>2, <1>3, <1>4, <3>1
    <3> QED
      BY <3>2
  <2> QED
    BY <2>1, <2>2, <2>3
<1>7. \A k \in 1 .. l - 1 : u[k] = w[k]
  <2> TAKE k \in 1 .. l - 1
  <2>1. k \in 1 .. i - 1 /\ k \in 1 .. j - 1
    BY <1>5
  <2> QED
    BY <1>2, <1>3, <2>1
<1> QED
  BY <1>1, <1>6, <1>7 DEF Before

-----------------------------------------------------------------------------
(* A moment that is a date of the calendar, not in the year 0 and not      *)
(* moved there by a time zone: before year 1 the code knows no year 0 (see *)
(* ymd2ds), while the reference counts on.                                 *)
OwnZones(s) == IF Zoned(s) THEN {s.zone} ELSE {West, 0, East}
IsMoment(s) == Clocked(Fields(s)) /\ \A z \in OwnZones(s) : z \in Shifts /\ UTC(s, z)[1] # 0

(* A moment with a time zone is read in UTC (xsd_mktm).                    *)
LEMMA MadeWithZone ==
  ASSUME NEW s, IsMoment(s), Zoned(s)
  PROVE  Reads(xsd_mktm(s), UTC(s, s.zone)) /\ xsd_mktm(s).tz = TRUE
<1>1. Clocked(Fields(s)) /\ s.zone \in Shifts /\ UTC(s, s.zone)[1] # 0
  BY DEF IsMoment, OwnZones
<1>2. xsd_mktm(s) = addsecs(Local(Fields(s), TRUE), -60 * s.zone)
  <2>1. "zone" \in DOMAIN s
    BY DEF Zoned
  <2> QED
    BY <2>1 DEF xsd_mktm, Local, Fields
<1>3. PICK zone \in Shifts : zone = s.zone
  BY <1>1
<1>4. PICK a, tz : tz = TRUE /\ a = addsecs(Local(Fields(s), tz), -60 * zone)
  OBVIOUS
<1>5. Reads(a, UTC(s, zone)) /\ a.tz = tz
  <2>1. Clocked(Fields(s)) /\ UTC(s, zone)[1] # 0
    BY <1>1, <1>3
  <2>2. a = addsecs(Local(Fields(s), tz), -60 * zone)
    BY <1>4
  <2> QED
    BY <2>1, <2>2, ReadInUTC
<1> QED
  BY <1>2, <1>3, <1>4, <1>5

(* Both ends of the time zones, in seconds.                                *)
LEMMA FourteenWest ==
  ASSUME NEW z \in Int, z + 840 = 0
  PROVE  -60 * z = TZSECS
BY SMT DEF TZSECS

(* The other end.                                                          *)
LEMMA FourteenEast ==
  ASSUME NEW z \in Int, z - 840 = 0
  PROVE  -60 * z = -TZSECS
BY SMT DEF TZSECS

(* No shift in UTC itself.                                                 *)
LEMMA NoShift ==
  ASSUME NEW z \in Int, z >= 0, z <= 0
  PROVE  -60 * z = 0
<1>1. \A y \in Int : -60 * y = 0 - 60 * y
  BY SMT
<1>2. 0 - 60 * z = 0
  BY SMT
<1>3. -60 * z = 0 - 60 * z
  BY <1>1, Zenon
<1> QED
  BY <1>2, <1>3, Zenon

(* One without is read as if in UTC, and at both ends of the zones.        *)
LEMMA MadeWithoutZone ==
  ASSUME NEW s, IsMoment(s), ~Zoned(s)
  PROVE  /\ Reads(xsd_mktm(s), UTC(s, 0)) /\ xsd_mktm(s).tz = FALSE
         /\ Reads(addsecs(xsd_mktm(s), TZSECS), UTC(s, West))
         /\ Reads(addsecs(xsd_mktm(s), -TZSECS), UTC(s, East))
         /\ Before(UTC(s, East), UTC(s, West))
<1>1. /\ Clocked(Fields(s))
      /\ UTC(s, West)[1] # 0 /\ UTC(s, 0)[1] # 0 /\ UTC(s, East)[1] # 0
  BY DEF IsMoment, OwnZones
<1>2. xsd_mktm(s) = Local(Fields(s), FALSE)
  <2>1. ("zone" \in DOMAIN s) = FALSE
    BY DEF Zoned
  <2>2. PICK tm : tm = [days |-> ymd2ds(Fields(s).yr, Fields(s).mo, Fields(s).dy),
                        secs |-> Fields(s).se + 60 * (Fields(s).mi + 60 * Fields(s).hr),
                        mics |-> Fields(s).mics, tz |-> "zone" \in DOMAIN s]
    OBVIOUS
  <2>3. tm.tz = FALSE
    BY <2>1, <2>2
  <2>4. xsd_mktm(s) = IF tm.tz THEN addsecs(tm, -60 * s.zone) ELSE tm
    BY <2>2, Zenon DEF xsd_mktm, Fields
  <2>5. tm = Local(Fields(s), FALSE)
    BY <2>1, <2>2, Zenon DEF Local
  <2> QED
    BY <2>3, <2>4, <2>5
<1>3. /\ West \in Shifts /\ 0 \in Shifts /\ East \in Shifts /\ Shifts \subseteq Int
      /\ West + 840 = 0 /\ East - 840 = 0
  BY SMT DEF Shifts, East, West
<1>4. PICK e \in Shifts, o \in Shifts, w \in Shifts : e = East /\ o = 0 /\ w = West
  BY <1>3
<1>5. -60 * w = TZSECS /\ -60 * e = -TZSECS /\ -60 * o = 0
  <2>1. e \in Int /\ o \in Int /\ w \in Int /\ w + 840 = 0 /\ e - 840 = 0 /\ o >= 0 /\ o <= 0
    BY <1>3, <1>4
  <2>2. -60 * w = TZSECS
    BY <2>1, FourteenWest, SMT
  <2>3. -60 * e = -TZSECS
    BY <2>1, FourteenEast, SMT
  <2>4. -60 * o = 0
    BY <2>1, NoShift, SMT
  <2> QED
    BY <2>2, <2>3, <2>4
<1>6. PICK l : l = Local(Fields(s), FALSE)
  OBVIOUS
<1>7. /\ Reads(addsecs(l, TZSECS), UTC(s, West))
      /\ Reads(addsecs(l, -TZSECS), UTC(s, East))
      /\ Reads(addsecs(l, 0), UTC(s, 0))
  <2>1. \A z \in Shifts : UTC(s, z)[1] # 0 => Reads(addsecs(l, -60 * z), UTC(s, z))
    <3> SUFFICES ASSUME NEW z \in Shifts, UTC(s, z)[1] # 0
                 PROVE  Reads(addsecs(l, -60 * z), UTC(s, z))
      OBVIOUS
    <3>1. PICK a, tz : tz = FALSE /\ a = addsecs(Local(Fields(s), tz), -60 * z)
      OBVIOUS
    <3>2. a = addsecs(Local(Fields(s), tz), -60 * z)
      BY <3>1
    <3>3. Reads(a, UTC(s, z))
      BY <1>1, <3>2, ReadInUTC
    <3>4. l = Local(Fields(s), tz)
      BY <1>6, <3>1
    <3> QED
      BY <3>2, <3>3, <3>4
  <2> QED
    BY <1>1, <1>4, <1>5, <2>1
<1>8. PICK days, secs, mics : l = [days |-> days, secs |-> secs, mics |-> mics, tz |-> FALSE]
                              /\ days \in Int /\ secs \in Int /\ secs >= 0 /\ secs < DAYSECS
  <2>1. PICK t : t = Fields(s)
    OBVIOUS
  <2>2. t.hr \in 0 .. 23 /\ t.mi \in 0 .. 59 /\ t.se \in 0 .. 59 /\ ymd2ds(t.yr, t.mo, t.dy) \in Int
    BY <1>1, <2>1, DayNumber DEF Clocked
  <2>3. PICK hr \in 0 .. 23, mi \in 0 .. 59, se \in 0 .. 59 : hr = t.hr /\ mi = t.mi /\ se = t.se
    BY <2>2
  <2>4. PICK secs : secs = se + 60 * (mi + 60 * hr)
    OBVIOUS
  <2>5. secs \in Int /\ secs >= 0 /\ secs < DAYSECS
    BY <2>4, SMT DEF DAYSECS
  <2>6. l = [days |-> ymd2ds(t.yr, t.mo, t.dy), secs |-> secs, mics |-> t.mics, tz |-> FALSE]
    BY <1>6, <2>1, <2>3, <2>4 DEF Local
  <2> QED
    BY <2>2, <2>5, <2>6
<1>9. addsecs(l, 0).days = days /\ addsecs(l, 0).secs = secs /\ addsecs(l, 0).mics = mics
  <2>1. secs + 0 = secs /\ ~(secs < 0) /\ ~(secs >= DAYSECS) /\ 0 \in Int
    BY <1>8, SMT DEF DAYSECS
  <2> QED
    BY <1>8, <2>1, SecsAdded
<1>10. l.days = days /\ l.secs = secs /\ l.mics = mics /\ l.tz = FALSE
  BY <1>8
<1>11. Reads(l, UTC(s, 0))
  <2>1. PICK a, u : a = addsecs(l, 0) /\ u = UTC(s, 0)
    OBVIOUS
  <2>2. Reads(a, u) /\ l.days = a.days /\ l.secs = a.secs /\ l.mics = a.mics
    BY <1>7, <1>9, <1>10, <2>1
  <2>3. Reads(l, u)
    BY <2>2 DEF Reads
  <2> QED
    BY <2>1, <2>3
<1>12. addsecs(l, -TZSECS).days < addsecs(l, TZSECS).days
  <2>1. TZSECS \in Int /\ -TZSECS \in Int /\ DAYSECS \in Int
    BY SMT DEF TZSECS, DAYSECS
  <2>2. /\ secs + TZSECS < 0 => FALSE
        /\ secs + -TZSECS >= DAYSECS => FALSE
        /\ secs + -TZSECS < 0 \/ secs + TZSECS >= DAYSECS
    BY <1>8, SMT DEF TZSECS, DAYSECS
  <2>3. PICK a, b : a = addsecs(l, -TZSECS) /\ b = addsecs(l, TZSECS)
    OBVIOUS
  <2>4. /\ secs + -TZSECS < 0 => a.days = days - 1
        /\ ~(secs + -TZSECS < 0) /\ ~(secs + -TZSECS >= DAYSECS) => a.days = days
    BY <1>8, <2>1, <2>3, SecsAdded
  <2>5. /\ secs + TZSECS >= DAYSECS => b.days = days + 1
        /\ ~(secs + TZSECS < 0) /\ ~(secs + TZSECS >= DAYSECS) => b.days = days
    BY <1>8, <2>1, <2>3, SecsAdded
  <2>6. a.days < b.days
    BY <1>8, <2>2, <2>4, <2>5
  <2> QED
    BY <2>3, <2>6
<1>13. Before(UTC(s, East), UTC(s, West))
  <2>1. PICK a, b : a = addsecs(l, -TZSECS) /\ b = addsecs(l, TZSECS)
    OBVIOUS
  <2>2. Reads(a, UTC(s, East)) /\ Reads(b, UTC(s, West)) /\ a.days < b.days
    BY <1>7, <1>12, <2>1
  <2>3. a.days \in Int /\ b.days \in Int
    BY <2>2, DayNumber DEF Reads
  <2>4. tmcmp(a, b) = -1
    BY <2>2, <2>3 DEF tmcmp, Sign
  <2> QED
    BY <2>2, <2>4, ComparedInUTC
<1>14. l = xsd_mktm(s)
  BY <1>2, <1>6
<1> QED
  BY <1>7, <1>10, <1>11, <1>13, <1>14

(* With one time zone only, both ends of the zones decide.                 *)
LEMMA OneZone ==
  ASSUME NEW s, IsMoment(s), Zoned(s), NEW r, IsMoment(r), ~Zoned(r),
         NEW c, c = TmcmpZone(xsd_mktm(s), xsd_mktm(r))
  PROVE  /\ c \in {-1, 1, 2}
         /\ c = -1 <=> Earlier(s, r)
         /\ c = 1 <=> Earlier(r, s)
<1>1. PICK a, b : a = xsd_mktm(s) /\ b = xsd_mktm(r)
  OBVIOUS
<1>2. PICK u, v, w : u = UTC(s, s.zone) /\ v = UTC(r, East) /\ w = UTC(r, West)
  OBVIOUS
<1>3. Reads(a, u) /\ Reads(addsecs(b, TZSECS), w) /\ Reads(addsecs(b, -TZSECS), v) /\ Before(v, w)
  <2>1. Reads(xsd_mktm(s), UTC(s, s.zone))
    BY MadeWithZone
  <2>2. /\ Reads(addsecs(xsd_mktm(r), TZSECS), UTC(r, West))
        /\ Reads(addsecs(xsd_mktm(r), -TZSECS), UTC(r, East))
        /\ Before(UTC(r, East), UTC(r, West))
    BY MadeWithoutZone
  <2> QED
    BY <1>1, <1>2, <2>1, <2>2, Zenon
<1>4. /\ u \in Seq(Int) /\ v \in Seq(Int) /\ w \in Seq(Int) /\ Len(u) = 6 /\ Len(v) = 6 /\ Len(w) = 6
  BY <1>3 DEF Reads
<1>5. /\ tmcmp(a, addsecs(b, TZSECS)) = 1 <=> Before(w, u)
      /\ tmcmp(a, addsecs(b, -TZSECS)) = -1 <=> Before(u, v)
      /\ ~(Before(w, u) /\ Before(u, w))
  BY <1>3, ComparedInUTC
<1>6. Zones(s) = {s.zone} /\ Zones(r) = {West, East}
  BY DEF Zones, Zoned
<1>7. /\ Earlier(s, r) <=> Before(u, v) /\ Before(u, w)
      /\ Earlier(r, s) <=> Before(v, u) /\ Before(w, u)
  <2>1. ~(Zoned(s) = Zoned(r)) /\ ~(Zoned(r) = Zoned(s))
    BY DEF Zoned
  <2>2. Earlier(s, r) <=> \A z1 \in Zones(s), z2 \in Zones(r) : Before(UTC(s, z1), UTC(r, z2))
    BY <2>1, Zenon DEF Earlier
  <2>3. Earlier(r, s) <=> \A z1 \in Zones(r), z2 \in Zones(s) : Before(UTC(r, z1), UTC(s, z2))
    BY <2>1, Zenon DEF Earlier
  <2>4. Earlier(s, r) <=> Before(UTC(s, s.zone), UTC(r, East)) /\ Before(UTC(s, s.zone), UTC(r, West))
    BY <1>6, <2>2, Zenon
  <2>5. Earlier(r, s) <=> Before(UTC(r, East), UTC(s, s.zone)) /\ Before(UTC(r, West), UTC(s, s.zone))
    BY <1>6, <2>3, Zenon
  <2> QED
    BY <1>2, <2>4, <2>5, Zenon
<1>8. /\ Before(u, v) => Before(u, w)
      /\ Before(w, u) => Before(v, u)
  BY <1>3, <1>4, BeforeTransitive
<1>9. ~(Before(w, u) /\ Before(u, v))
  BY <1>5, <1>8
<1>10. c = CASE tmcmp(a, addsecs(b, TZSECS)) = 1 -> 1
             [] tmcmp(a, addsecs(b, -TZSECS)) = -1 -> -1
             [] OTHER -> 2
  BY <1>1 DEF TmcmpZone
<1>11. CASE Before(w, u)
  <2>1. c = 1
    BY <1>5, <1>9, <1>10, <1>11
  <2> QED
    BY <1>7, <1>8, <1>9, <1>11, <2>1
<1>12. CASE Before(u, v)
  <2>1. c = -1
    BY <1>5, <1>9, <1>10, <1>12
  <2> QED
    BY <1>7, <1>8, <1>9, <1>12, <2>1
<1>13. CASE ~Before(w, u) /\ ~Before(u, v)
  <2>1. c = 2
    BY <1>5, <1>10, <1>13
  <2> QED
    BY <1>7, <1>13, <2>1
<1> QED
  BY <1>11, <1>12, <1>13

(* Moments are compared as on the calendar (xsd_tmcmp): the answer is -1   *)
(* exactly if the first is earlier, in every time zone that either may be  *)
(* in, 1 exactly if it is later, and 0 exactly if they are the same.       *)
THEOREM MomentsCompared ==
  ASSUME NEW s1, IsMoment(s1), NEW s2, IsMoment(s2)
  PROVE  LET c == xsd_tmcmp(xsd_mktm(s1), xsd_mktm(s2)) IN
         /\ c = -1 <=> Earlier(s1, s2)
         /\ c = 1 <=> Earlier(s2, s1)
         /\ c = 0 <=> Same(s1, s2)
<1>1. PICK a, b, c : a = xsd_mktm(s1) /\ b = xsd_mktm(s2) /\ c = xsd_tmcmp(a, b)
  OBVIOUS
<1>2. /\ a.tz = Zoned(s1) /\ Zoned(s1) \in BOOLEAN
      /\ b.tz = Zoned(s2) /\ Zoned(s2) \in BOOLEAN
  <2>1. \A s : Zoned(s) \in BOOLEAN
    BY DEF Zoned
  <2>2. \A s : IsMoment(s) /\ Zoned(s) => xsd_mktm(s).tz = TRUE
    BY MadeWithZone, Zenon
  <2>3. \A s : IsMoment(s) /\ ~Zoned(s) => xsd_mktm(s).tz = FALSE
    BY MadeWithoutZone, Zenon
  <2>4. \A s : IsMoment(s) => xsd_mktm(s).tz = Zoned(s)
    BY <2>1, <2>2, <2>3, Zenon
  <2> QED
    BY <1>1, <2>1, <2>4, Zenon
<1>3. CASE Zoned(s1) = Zoned(s2)
  <2>1. PICK u, v : /\ u = UTC(s1, IF Zoned(s1) THEN s1.zone ELSE 0)
                    /\ v = UTC(s2, IF Zoned(s2) THEN s2.zone ELSE 0)
    OBVIOUS
  <2>2. Reads(a, u) /\ Reads(b, v)
    <3> SUFFICES ASSUME NEW s, IsMoment(s)
                 PROVE  Reads(xsd_mktm(s), UTC(s, IF Zoned(s) THEN s.zone ELSE 0))
      BY <1>1, <2>1, Zenon
    <3>1. CASE Zoned(s)
      <4>1. Reads(xsd_mktm(s), UTC(s, s.zone))
        BY <3>1, MadeWithZone
      <4> QED
        BY <3>1, <4>1, Zenon
    <3>2. CASE ~Zoned(s)
      <4>1. Reads(xsd_mktm(s), UTC(s, 0))
        BY <3>2, MadeWithoutZone
      <4> QED
        BY <3>2, <4>1, Zenon
    <3> QED
      BY <3>1, <3>2
  <2>3. c = tmcmp(a, b)
    BY <1>1, <1>2, <1>3 DEF xsd_tmcmp
  <2>4. /\ c = -1 <=> Before(u, v)
        /\ c = 1 <=> Before(v, u)
        /\ c \in {-1, 0, 1}
    BY <2>2, <2>3, ComparedInUTC
  <2>5. (Earlier(s1, s2) <=> Before(u, v)) /\ (Earlier(s2, s1) <=> Before(v, u))
    BY <1>3, <2>1, Zenon DEF Earlier
  <2>6. Same(s1, s2) <=> ~Before(u, v) /\ ~Before(v, u)
    BY <1>3, <2>5 DEF Same
  <2> QED
    BY <1>1, <2>4, <2>5, <2>6
<1>4. CASE Zoned(s1) /\ ~Zoned(s2)
  <2>1. c = TmcmpZone(a, b)
    BY <1>1, <1>2, <1>4 DEF xsd_tmcmp
  <2>2. /\ c \in {-1, 1, 2}
        /\ c = -1 <=> Earlier(s1, s2)
        /\ c = 1 <=> Earlier(s2, s1)
    BY <1>1, <1>4, <2>1, OneZone
  <2>3. ~Same(s1, s2)
    BY <1>4 DEF Same
  <2> QED
    BY <1>1, <2>2, <2>3
<1>5. CASE ~Zoned(s1) /\ Zoned(s2)
  <2>1. PICK d : d = TmcmpZone(b, a)
    OBVIOUS
  <2>2. c = -d
    BY <1>1, <1>2, <1>5, <2>1 DEF xsd_tmcmp
  <2>3. /\ d \in {-1, 1, 2}
        /\ d = -1 <=> Earlier(s2, s1)
        /\ d = 1 <=> Earlier(s1, s2)
    BY <1>1, <1>5, <2>1, OneZone
  <2>4. ~Same(s1, s2)
    BY <1>5 DEF Same
  <2>5. /\ c = -1 <=> d = 1
        /\ c = 1 <=> d = -1
        /\ c # 0
    BY <2>2, <2>3
  <2> QED
    BY <1>1, <2>3, <2>4, <2>5
<1> QED
  BY <1>2, <1>3, <1>4, <1>5

=============================================================================
