------------------------------ MODULE RtcTime ------------------------------
(***************************************************************************)
(* The range of an RTC: drivers/rtc/interface.c and class.c.  The counter  *)
(* of the hardware covers range_min..range_max and wraps; the device tree  *)
(* may give a first second start_secs, and the class then shows the        *)
(* seconds from there on, adding offset_secs to some readings of the       *)
(* counter and subtracting it from some of the times that are set.  Times   *)
(* are seconds: rtc_tm_to_time64 and rtc_time64_to_tm are inverse to each  *)
(* other.                                                                  *)
(***************************************************************************)
EXTENDS Integers

CONSTANTS
  Ranges,    \* the pairs range_min, range_max that drivers have; equal: none given
  Starts,    \* the first seconds of the years that a device tree may give
  Moments,   \* the seconds for which the clock and the alarm are set
  MaxClock   \* bound on the clock

ASSUME RangesAssumption == \A r \in Ranges : r.min \in Int /\ r.max \in Int /\ r.min <= r.max
ASSUME TimesAssumption == Starts \subseteq Int /\ Moments \subseteq Int /\ MaxClock \in Int

VARIABLES
  rtc,     \* min, max, start_secs, set_start_time, offset_secs
  hw,      \* the counter
  clock,   \* history: what it shows, by the seconds that have passed since it was set
  alarm    \* the alarm register, and (history) the second that was asked for

timeVars == <<rtc, hw, clock, alarm>>

(* rtc_device_get_offset. *)
(* Mutated form: the overlap is moved as if there were none. *)
rtc_device_get_offset_NoOverlap(min, max, start, given) ==
  IF min = max \/ ~given THEN 0 ELSE start - min
rtc_device_get_offset(min, max, start, given) ==
  LET range == max - min + 1
  IN  IF min = max \/ ~given THEN 0
      ELSE IF start > max \/ start + range - 1 < min THEN start - min
      ELSE IF start > min THEN range
      ELSE IF start < min THEN -range ELSE 0

(* rtc_add_offset: a reading in the overlap of the two ranges stays. *)
rtc_add_offset(r, s) ==
  IF \/ r.offset = 0
     \/ r.start > r.min /\ s >= r.start
     \/ r.start < r.min /\ s <= r.start + r.max - r.min
  THEN s ELSE s + r.offset

(* rtc_subtract_offset. *)
rtc_subtract_offset(r, t) ==
  IF r.offset = 0 \/ (r.min <= t /\ t <= r.max) THEN t ELSE t - r.offset

First(r) == IF r.given THEN r.start ELSE r.min
Last(r) == IF r.given THEN r.start + r.max - r.min ELSE r.max

(* rtc_valid_range. *)
rtc_valid_range(r, t) == r.min # r.max => First(r) <= t /\ t <= Last(r)

(* __rtc_read_time. *)
rtc_read_time == rtc_add_offset(rtc, hw)

TimeInit ==
  /\ \E r \in Ranges, given \in BOOLEAN : \E start \in IF given THEN Starts ELSE {0} :
       rtc = [min |-> r.min, max |-> r.max, start |-> start, given |-> given,
              offset |-> rtc_device_get_offset(r.min, r.max, start, given)]
  /\ hw \in {rtc.min, rtc.max}
  /\ clock = rtc_read_time
  /\ alarm = [set |-> FALSE, hw |-> 0, at |-> 0]

(* rtc_set_time: refused outside of the range. *)
rtc_set_time(t) ==
  /\ rtc_valid_range(rtc, t)
  /\ hw' = rtc_subtract_offset(rtc, t)
  /\ clock' = t
  /\ UNCHANGED <<rtc, alarm>>

(* rtc_set_alarm and __rtc_set_alarm: the alarm is to come. *)
rtc_set_alarm(t) ==
  /\ rtc_valid_range(rtc, t)
  /\ t > rtc_read_time
  /\ alarm' = [set |-> TRUE, hw |-> rtc_subtract_offset(rtc, t), at |-> t]
  /\ UNCHANGED <<rtc, hw, clock>>

(* A second passes.  At the end of its range the counter starts again; at  *)
(* the end of the range that is shown nothing is promised any more.        *)
Second ==
  /\ clock < MaxClock
  /\ rtc.min # rtc.max => clock < Last(rtc)
  /\ hw' = IF rtc.min # rtc.max /\ hw = rtc.max THEN rtc.min ELSE hw + 1
  /\ clock' = clock + 1
  /\ UNCHANGED <<rtc, alarm>>

TimeNext ==
  \/ \E t \in Moments : rtc_set_time(t) \/ rtc_set_alarm(t)
  \/ Second

TimeSpec == TimeInit /\ [][TimeNext]_timeVars

-----------------------------------------------------------------------------
(* Whatever is set can be held by the counter. *)
TimeTypeOK ==
  /\ rtc \in [min : Int, max : Int, start : Int, given : BOOLEAN, offset : Int]
  /\ hw \in Int /\ clock \in Int
  /\ alarm \in [set : BOOLEAN, hw : Int, at : Int]

(* The clock reads what was set and the seconds that have passed since,    *)
(* and the alarm register is matched in the second that was asked for and  *)
(* in no other, wherever the range that is shown lies and across the end   *)
(* of the counter.                                                         *)
ClockExact ==
  /\ rtc_read_time = clock
  /\ alarm.set => /\ hw = alarm.hw <=> clock = alarm.at
                  /\ rtc_add_offset(rtc, alarm.hw) = alarm.at
=============================================================================
