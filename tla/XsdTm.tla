------------------------------- MODULE XsdTm -------------------------------
(***************************************************************************)
(* xsd_tm.c: dates and times as a number of days, seconds and microseconds *)
(* and whether the time zone is known, and their comparison.               *)
(*                                                                         *)
(* The text is a record of the fields it spells out, among yr, mo, dy, hr, *)
(* mi, se, mics and zone, the offset from UTC in minutes.                  *)
(***************************************************************************)
EXTENDS Integers, TLC

leap(yr) == yr % 4 = 0 /\ (yr % 100 # 0 \/ yr % 400 = 0)

(* Division in C. *)
Quot(a, b) == IF a >= 0 THEN a \div b ELSE -((-a) \div b)

y2d(yr) == yr * 365 + Quot(yr, 4) - Quot(yr, 100) + Quot(yr, 400)

(* What the cases of the switch add up to, falling through.                *)
DaysBefore == <<0, 31, 59, 90, 120, 151, 181, 212, 243, 273, 304, 334>>

(* Slip: the day is added in February already. *)
ymd2dn_early(yr, mo, dy) == dy + DaysBefore[mo] + IF mo > 1 /\ leap(yr) THEN 1 ELSE 0

ymd2dn(yr, mo, dy) == dy + DaysBefore[mo] + IF mo > 2 /\ leap(yr) THEN 1 ELSE 0

ymd2ds(yr, mo, dy) ==
  (IF yr >= 0 THEN y2d(yr - 1) ELSE y2d(yr) - 366) + ymd2dn(yr, mo, dy)

DAYSECS == 86400
TZSECS == 50400     \* 14 hours

addsecs(tm, secs) ==
  LET sum == tm.secs + secs
  IN  CASE sum < 0 -> [tm EXCEPT !.days = @ - 1, !.secs = sum + DAYSECS]
        [] sum >= DAYSECS -> [tm EXCEPT !.days = @ + 1, !.secs = sum - DAYSECS]
        [] OTHER -> [tm EXCEPT !.secs = sum]

Default ==
  [yr |-> 2000, mo |-> 1, dy |-> 1, hr |-> 0, mi |-> 0, se |-> 0, mics |-> 0]

xsd_mktm(s) ==
  LET t == s @@ Default
      tm == [days |-> ymd2ds(t.yr, t.mo, t.dy), secs |-> t.se + 60 * (t.mi + 60 * t.hr),
             mics |-> t.mics, tz |-> "zone" \in DOMAIN s]
  IN  IF tm.tz THEN addsecs(tm, -60 * s.zone) ELSE tm

-----------------------------------------------------------------------------
(* -1, 0, 1, as memcmp; 2 and -2 if the order is not known.                *)
Sign(x) == CASE x < 0 -> -1 [] x = 0 -> 0 [] x > 0 -> 1

tmcmp(tm1, tm2) ==
  CASE tm1.days # tm2.days -> Sign(tm1.days - tm2.days)
    [] tm1.days = tm2.days /\ tm1.secs # tm2.secs -> Sign(tm1.secs - tm2.secs)
    [] OTHER -> Sign(tm1.mics - tm2.mics)

(* Only the first has a time zone.                                         *)
TmcmpZone(tm1, tm2) ==
  CASE tmcmp(tm1, addsecs(tm2, TZSECS)) = 1 -> 1
    [] tmcmp(tm1, addsecs(tm2, -TZSECS)) = -1 -> -1
    [] OTHER -> 2

xsd_tmcmp(tm1, tm2) ==
  CASE tm1.tz = tm2.tz -> tmcmp(tm1, tm2)
    [] tm1.tz /\ ~tm2.tz -> TmcmpZone(tm1, tm2)
    [] OTHER -> -TmcmpZone(tm2, tm1)

=============================================================================
