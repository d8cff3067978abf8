------------------------------ MODULE MCTimers --------------------------------
(***************************************************************************)
(* The RTC class: its timers, the time and the alarm that it reads, the    *)
(* system time across suspend and the character device, parts that share   *)
(* no state.  A behaviour moves one of them, chosen at its start.  The     *)
(* alarm and the system time use the same variables s1, s2, ...; of the    *)
(* device either the periodic or the emulated update interrupt moves.      *)
(***************************************************************************)
EXTENDS RtcCore, RtcTime, RtcDev

VARIABLES part, s1, s2, s3, s4, s5, s6

slots == <<s1, s2, s3, s4, s5, s6>>
Zero == s1 = 0 /\ s2 = 0 /\ s3 = 0 /\ s4 = 0 /\ s5 = 0 /\ s6 = 0

CONSTANT Parts   \* the parts that a run is about

(* RtcCore when it does not move. *)
CoreIdle ==
  /\ now = 0 /\ dev = Registered(1, FALSE) /\ flag = FALSE /\ opened = FALSE
  /\ setPc = "idle" /\ sets = 0 /\ raced = FALSE

(* RtcTime.  Ranges above, below and without the years that are shown.     *)
MCRanges == {[min |-> 4, max |-> 7], [min |-> 0, max |-> 3], [min |-> 5, max |-> 5]}
MCStarts == (-3..9) \cup {12}
MCTimes == (-3..10) \cup {13}
TimeIdle ==
  /\ rtc = [min |-> 0, max |-> 3, start |-> 0, given |-> FALSE, offset |-> 0]
  /\ hw = 0 /\ clock = 0 /\ alarm = [set |-> FALSE, hw |-> 0, at |-> 0]

(* RtcAlarm.  Three months of two and three days of two minutes of two     *)
(* seconds, over five years of which one is a leap year.                   *)
Fields(s, m, d, mo, y) == [sec |-> s, min |-> m, mday |-> d, mon |-> mo, year |-> y]
MCAlarms ==
  {Fields(s, m, -1, -1, -1) : s \in {0, 1}, m \in {0, 1}}
  \cup {Fields(s, 1, d, -1, -1) : s \in {0, 1}, d \in 1..3}
  \cup {Fields(1, 1, d, mo, -1) : d \in 1..3, mo \in 0..2}
  \cup {Fields(1, 0, 2, 1, 1)}
MCDays == [m \in 0..2 |-> IF m = 0 THEN 3 ELSE 2]
MCTods == {[sec |-> 1, min |-> 0], [sec |-> 0, min |-> 1]}
Alarm == INSTANCE RtcAlarm WITH
  Secs <- 2, Mins <- 2, Days <- MCDays, LeapMonth <- 1, LeapYears <- 2, MaxYear <- 4,
  Alarms <- MCAlarms, Tods <- MCTods, MaxNow <- 31,
  now <- s1, reg <- s2, pc <- s3, stamp <- s4, tod <- s5, out <- s6

(* RtcSleep.  Three suspends at every phase of the two clocks.             *)
MCChanges == {10, -10}
Sleep == INSTANCE RtcSleep WITH
  MaxSleeps <- 3, Runs <- {0, 1, 2}, Naps <- {0, 1, 3}, Corrections <- MCChanges, Fails <- FALSE,
  rtc <- s1, sys <- s2, right <- s3, old <- s4, pc <- s5, sleeps <- s6

-----------------------------------------------------------------------------
MCInit ==
  /\ part \in Parts
  /\ IF part = "timers" THEN RtcInit ELSE CoreIdle
  /\ IF part = "time" THEN TimeInit ELSE TimeIdle
  /\ DevInit
  /\ \/ part = "alarm" /\ Alarm!AlarmInit
     \/ part = "sleep" /\ Sleep!SleepInit
     \/ part \notin {"alarm", "sleep"} /\ Zero

MCNext ==
  /\ UNCHANGED part
  /\ \/ part = "timers" /\ RtcNext /\ UNCHANGED <<timeVars, devVars, slots>>
     \/ part = "time" /\ TimeNext /\ UNCHANGED <<rtcVars, devVars, slots>>
     \/ part = "alarm" /\ Alarm!AlarmNext /\ UNCHANGED <<rtcVars, timeVars, devVars>>
     \/ part = "sleep" /\ Sleep!SleepNext /\ UNCHANGED <<rtcVars, timeVars, devVars>>
     \/ part = "periodic" /\ DevNext /\ UNCHANGED <<rtcVars, timeVars, slots, timer>>
     \/ part = "update" /\ DevNext /\ UNCHANGED <<rtcVars, timeVars, slots, pie>>

allVars == <<part, rtcVars, timeVars, devVars, slots>>

(* As long as an interrupt is pending or the work is scheduled, one of the   *)
(* two happens; the interrupt controller and the workqueue guarantee that    *)
(* and more.  Nothing is assumed of the callers or of the passing of time.   *)
MCSpec ==
  /\ MCInit /\ [][MCNext]_allVars
  /\ WF_allVars(part = "timers" /\ (Interrupt \/ DoWork) /\ UNCHANGED <<part, timeVars, devVars, slots>>)

-----------------------------------------------------------------------------
(* The types of the parts. *)
TypesOK ==
  /\ RtcTypeOK /\ TimeTypeOK /\ DevTypeOK
  /\ part = "alarm" => Alarm!AlarmTypeOK
  /\ part = "sleep" => Sleep!SleepTypeOK
(* An alarm that is read back is the next second its fields name, and sleep *)
(* does not let the system time drift (__rtc_read_alarm, rtc_suspend,       *)
(* rtc_resume).                                                             *)
TimesKept == /\ part = "alarm" => Alarm!AlarmIsNext
             /\ part = "sleep" => Sleep!NoDrift
=============================================================================
