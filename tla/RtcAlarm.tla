------------------------------ MODULE RtcAlarm ------------------------------
(***************************************************************************)
(* From fields to an alarm: __rtc_read_alarm of drivers/rtc/interface.c,   *)
(* which completes what a driver reads from an alarm that has no day, no   *)
(* month or no year, and RTC_ALM_SET of dev.c, which gives a time of day   *)
(* its date.  Both read the clock while it goes on.  The calendar is a     *)
(* small one: a time of day is a minute and a second, `min` standing for   *)
(* minute and hour.                                                        *)
(***************************************************************************)
EXTENDS Integers, FiniteSets, FiniteSetsExt

CONSTANTS
  Secs, Mins,   \* seconds of a minute, minutes of a day
  Days,         \* days of the months, in a year that is not a leap year
  LeapMonth,    \* the month that has one more in a leap year
  LeapYears,    \* 4, or any other
  MaxYear,      \* bound on the years of the calendar
  Alarms,       \* what the registers of alarms hold: -1 is a field they do not have
  Tods,         \* the times of day given to RTC_ALM_SET
  MaxNow        \* bound on the clock

Leap(y) == y % LeapYears = 0
rtc_month_days(m, y) == Days[m] + IF m = LeapMonth /\ Leap(y) THEN 1 ELSE 0
Months == DOMAIN Days
LongestMonth == Max({Days[m] + IF m = LeapMonth THEN 1 ELSE 0 : m \in Months})

(* rtc_valid_tm. *)
rtc_valid_tm(tm) ==
  /\ tm.sec \in 0..Secs - 1 /\ tm.min \in 0..Mins - 1
  /\ tm.mon \in Months /\ tm.year >= 0
  /\ tm.mday >= 1 /\ tm.mday <= rtc_month_days(tm.mon, tm.year)

(* rtc_tm_to_time64 and rtc_time64_to_tm. *)
DaysBefore(m) == MapThenSumSet(LAMBDA k : Days[k], 0..m - 1)
YearStart(y) == y * DaysBefore(Cardinality(Months)) + (y + LeapYears - 1) \div LeapYears
MonthStart(m, y) == YearStart(y) + DaysBefore(m) + IF m > LeapMonth /\ Leap(y) THEN 1 ELSE 0
DayLen == Secs * Mins
ToTime(tm) == DayLen * (MonthStart(tm.mon, tm.year) + tm.mday - 1) + Secs * tm.min + tm.sec
ToTm(t) == LET n == t \div DayLen
               y == Max({k \in 0..MaxYear : YearStart(k) <= n})
               m == Max({k \in Months : MonthStart(k, y) <= n})
           IN  [sec |-> t % Secs, min |-> (t % DayLen) \div Secs,
                mday |-> n - MonthStart(m, y) + 1, mon |-> m, year |-> y]

-----------------------------------------------------------------------------
VARIABLES
  now,    \* the clock
  reg,    \* the registers of the alarm
  pc,     \* of __rtc_read_alarm: idle, alarm, after; of RTC_ALM_SET: set
  stamp,  \* before, of the loop; tm, of RTC_ALM_SET
  tod,    \* the time of day given to RTC_ALM_SET
  out     \* what was returned: ok, the alarm, and the reading of the clock it was made with

alarmVars == <<now, reg, pc, stamp, tod, out>>

NoStamp == ToTm(0)
NoOut == [by |-> "none", ok |-> FALSE, at |-> 0, now |-> 0]

AlarmInit ==
  /\ now \in 0..DayLen
  /\ reg \in Alarms
  /\ pc = "idle" /\ stamp = NoStamp /\ tod = [sec |-> 0, min |-> 0]
  /\ out = NoOut

(* The alarm fields with the missing ones taken from n. *)
Filled(a, n) == [sec |-> IF a.sec = -1 THEN n.sec ELSE a.sec,
                 min |-> IF a.min = -1 THEN n.min ELSE a.min,
                 mday |-> IF a.mday < 1 \/ a.mday > LongestMonth THEN n.mday ELSE a.mday,
                 mon |-> IF a.mon \notin Months THEN n.mon ELSE a.mon,
                 year |-> IF a.year = -1 THEN n.year ELSE a.year]

(* The largest field that may roll over. *)
Missing(a) == IF a.mday < 1 \/ a.mday > LongestMonth THEN "day"
              ELSE IF a.mon \notin Months THEN "month" ELSE IF a.year = -1 THEN "year" ELSE "none"

(* The months and the years after a date, the first that has the day. *)
(* Mutated form: the next month, whether it has the day or not. *)
NextMonth_Any(f) == IF f.mon + 1 \in Months THEN [f EXCEPT !.mon = @ + 1] ELSE [f EXCEPT !.mon = 0, !.year = @ + 1]
NextMonth(f) ==
  LET count == Cardinality(Months)
      After(k) == [f EXCEPT !.mon = (f.mon + k) % count, !.year = @ + (f.mon + k) \div count]
  IN  After(Min({k \in 1..2 * count : rtc_month_days(After(k).mon, After(k).year) >= f.mday}))
NextYear(f) ==
  LET After(k) == [f EXCEPT !.year = @ + k]
  IN  After(Min({k \in 1..LeapYears : Leap(f.year + k) \/ rtc_valid_tm(After(k))}))

(* What is returned for the fields a, read before the clock showed n. *)
Complete(a, n) ==
  LET f == Filled(a, n)
      rolled == CASE Missing(a) = "day" -> ToTm(ToTime(f) + DayLen)
                  [] Missing(a) = "month" -> NextMonth(f)
                  [] Missing(a) = "year" -> NextYear(f)
                  [] OTHER -> f
      g == IF rtc_valid_tm(f) /\ ToTime(n) >= ToTime(f) THEN rolled ELSE f
  IN  [by |-> "read", ok |-> rtc_valid_tm(g), at |-> IF rtc_valid_tm(g) THEN ToTime(g) ELSE 0, now |-> ToTime(n)]

-----------------------------------------------------------------------------
(* __rtc_read_alarm: the clock, the alarm, the clock again, until the two  *)
(* readings agree but for the seconds.                                     *)
ReadBefore ==
  /\ pc = "idle"
  /\ stamp' = ToTm(now) /\ pc' = "alarm" /\ out' = NoOut
  /\ UNCHANGED <<now, reg, tod>>
ReadAlarm ==
  /\ pc = "alarm"
  /\ IF rtc_valid_tm(reg)
     THEN /\ out' = [by |-> "full", ok |-> TRUE, at |-> ToTime(reg), now |-> ToTime(stamp)]
          /\ pc' = "idle" /\ stamp' = NoStamp
     ELSE out' = out /\ pc' = "after" /\ stamp' = stamp
  /\ UNCHANGED <<now, reg, tod>>
Agree(a, b) == a.min = b.min /\ a.mon = b.mon /\ a.year = b.year
ReadAfter ==
  /\ pc = "after"
  /\ IF Agree(stamp, ToTm(now))
     THEN out' = Complete(reg, ToTm(now)) /\ pc' = "idle" /\ stamp' = NoStamp
     ELSE out' = out /\ pc' = "alarm" /\ stamp' = ToTm(now)
  /\ UNCHANGED <<now, reg, tod>>

(* RTC_ALM_SET: the date of today, or of tomorrow. *)
AlmSet(t) ==
  /\ pc = "idle"
  /\ tod' = t /\ stamp' = ToTm(now) /\ pc' = "set" /\ out' = NoOut
  /\ UNCHANGED <<now, reg>>
Wraps(then, n) == then < n
AlmDated ==
  /\ pc = "set"
  /\ LET n == ToTime(stamp)
         then == ToTime([stamp EXCEPT !.sec = tod.sec, !.min = tod.min])
         tomorrow == ToTm(n + DayLen)
     IN  out' = [by |-> "set", ok |-> TRUE, now |-> n,
                 at |-> IF Wraps(then, n) THEN ToTime([tomorrow EXCEPT !.sec = tod.sec, !.min = tod.min]) ELSE then]
  /\ pc' = "idle" /\ stamp' = NoStamp
  /\ UNCHANGED <<now, reg, tod>>

(* The clock goes on. *)
AlarmTick ==
  /\ now < MaxNow
  /\ now' = now + 1
  /\ UNCHANGED <<reg, pc, stamp, tod, out>>

AlarmNext ==
  \/ ReadBefore \/ ReadAlarm \/ ReadAfter
  \/ \E t \in Tods : AlmSet(t)
  \/ AlmDated \/ AlarmTick

-----------------------------------------------------------------------------
AlarmTypeOK ==
  /\ now \in 0..MaxNow /\ reg \in Alarms
  /\ pc \in {"idle", "alarm", "after", "set"}
  /\ rtc_valid_tm(stamp) /\ tod \in Tods \cup {[sec |-> 0, min |-> 0]}
  /\ out.ok \in BOOLEAN /\ out.at \in Int

(* The moments at which an alarm with the fields a would ring. *)
Rings(a, t) ==
  LET tm == ToTm(t)
  IN  \A f \in {"sec", "min", "mday", "mon", "year"} : a[f] # -1 => tm[f] = a[f]

(* An alarm that is completed is the next moment at which the registers    *)
(* match; it is refused only if its date does not exist in the month or    *)
(* the year of the clock.  RTC_ALM_SET finds the next moment with this     *)
(* time of day, not before now and less than a day away.                   *)
AlarmIsNext ==
  /\ out.by = "read" /\ out.ok =>
       out.at > out.now /\ Rings(reg, out.at) /\ \A t \in out.now + 1..out.at - 1 : ~Rings(reg, t)
  /\ out.by = "read" /\ ~out.ok => ~rtc_valid_tm(Filled(reg, ToTm(out.now)))
  /\ out.by = "set" /\ pc = "idle" =>
       /\ out.at \in out.now..out.now + DayLen - 1
       /\ ToTm(out.at).sec = tod.sec /\ ToTm(out.at).min = tod.min
=============================================================================
