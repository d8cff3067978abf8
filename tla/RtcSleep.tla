------------------------------ MODULE RtcSleep ------------------------------
(***************************************************************************)
(* The system time across suspend and resume: rtc_suspend and rtc_resume   *)
(* of drivers/rtc/class.c, for the RTC that sets the system time.  The     *)
(* system time stops while the machine sleeps; what it missed is found     *)
(* from the RTC, which has whole seconds only.  Times are in halves of a   *)
(* second.                                                                 *)
(***************************************************************************)
EXTENDS Integers

CONSTANTS
  MaxSleeps,   \* bound on the suspends
  Runs,        \* halves of a second that the machine runs before, in and after a suspend
  Naps,        \* halves of a second that it sleeps
  Corrections, \* changes of the system time by its users, of more than two seconds
  Fails        \* can the RTC fail to be read?

VARIABLES
  rtc,     \* the RTC, with its fraction of a second
  sys,     \* the system time
  right,   \* history: the system time had it never stopped
  old,     \* old_rtc, old_system, old_delta
  pc,      \* where the cycle of suspend and resume is
  sleeps   \* suspends so far

sleepVars == <<rtc, sys, right, old, pc, sleeps>>

Whole(t) == 2 * (t \div 2)     \* rtc_read_time
Sec(d) == d \div 2             \* tv_sec of a normalised timespec64

SleepInit ==
  /\ rtc \in {8, 9}
  /\ sys \in {rtc - 1, rtc, rtc + 1} /\ right = sys
  /\ old = [rtc |-> 0, system |-> 0, delta |-> 0]
  /\ pc = "awake" /\ sleeps = 0

(* The machine runs, and nears its suspend or its resume. *)
After == [awake |-> "ready", going |-> "asleep", waking |-> "resume"]
Run(n) ==
  /\ pc \in DOMAIN After /\ sleeps < MaxSleeps
  /\ pc' = After[pc]
  /\ rtc' = rtc + n /\ sys' = sys + n /\ right' = right + n
  /\ UNCHANGED <<old, sleeps>>

(* The system time is corrected. *)
Correct(d) ==
  /\ pc = "awake"
  /\ sys' = right + d /\ right' = right + d /\ pc' = "ready"
  /\ UNCHANGED <<rtc, old, sleeps>>

(* rtc_suspend: what the system time is ahead of the RTC, compared with    *)
(* the last time; a small difference is the fraction of the second.        *)
Compensated(delta) == LET dd == Sec(delta - old.delta) IN ~(dd < -2 \/ dd >= 2)
rtc_suspend(fails) ==
  /\ pc = "ready" /\ pc' = "going"
  /\ LET delta == sys - Whole(rtc)
     IN  old' = IF fails THEN old
                ELSE IF Compensated(delta)
                     THEN [old EXCEPT !.rtc = Whole(rtc), !.system = sys - (delta - old.delta)]
                     ELSE [rtc |-> Whole(rtc), system |-> sys, delta |-> delta]
  /\ UNCHANGED <<rtc, sys, right, sleeps>>

(* The machine sleeps: only the RTC goes on. *)
Nap(n) ==
  /\ pc = "asleep" /\ pc' = "waking"
  /\ rtc' = rtc + n /\ right' = right + n
  /\ UNCHANGED <<sys, old, sleeps>>

(* rtc_resume: what the RTC has gone on, without what the system time has, *)
(* is injected.                                                            *)
rtc_resume(fails) ==
  /\ pc = "resume" /\ pc' = "awake" /\ sleeps' = sleeps + 1
  /\ LET slept == (Whole(rtc) - old.rtc) - (sys - old.system)
     IN  sys' = IF fails \/ Whole(rtc) < old.rtc \/ Sec(slept) < 0 THEN sys ELSE sys + slept
  /\ UNCHANGED <<rtc, right, old>>

SleepNext ==
  \/ \E n \in Runs : Run(n)
  \/ \E d \in Corrections : Correct(d)
  \/ \E n \in Naps : Nap(n)
  \/ \E f \in IF Fails THEN BOOLEAN ELSE {FALSE} : rtc_suspend(f) \/ rtc_resume(f)

-----------------------------------------------------------------------------
SleepTypeOK ==
  /\ rtc \in Nat /\ sys \in Int /\ right \in Int
  /\ old \in [rtc : Nat, system : Int, delta : Int]
  /\ pc \in {"awake", "ready", "going", "asleep", "waking", "resume"}
  /\ sleeps \in 0..MaxSleeps

(* However often the machine sleeps, the system time is not more than a    *)
(* second off when it is awake: the seconds that the RTC rounds away do    *)
(* not add up, and a corrected time stays corrected.                       *)
NoDrift == pc \in {"awake", "ready"} => sys - right \in -2..2
=============================================================================
