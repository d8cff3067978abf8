------------------------------- MODULE RtcDev -------------------------------
(***************************************************************************)
(* The events of an RTC character device: drivers/rtc/dev.c and            *)
(* interface.c.  rtc_handle_legacy_irq counts them in irq_data, where      *)
(* rtc_dev_read sleeps for them.  Periodic events come from a timer of the *)
(* kernel.  Update events of an RTC without interrupts are found by        *)
(* polling its second (CONFIG_RTC_INTF_DEV_UIE_EMUL), in a work that runs  *)
(* until the second changes, and a timer that starts it again shortly      *)
(* before the next.  What holds irq_lock is one step; the processor is     *)
(* one, and timers interrupt what does not hold it.                        *)
(***************************************************************************)
EXTENDS Naturals

CONSTANTS
  Minute,     \* seconds after which tm_sec repeats
  MaxSecs,    \* bound on the seconds that pass
  MaxOther,   \* bound on the periodic events that nobody has read
  Freqs,      \* frequencies asked for
  MaxUser,    \* max_user_freq
  ReadFails   \* can the RTC fail to be read by the work?

ASSUME MinuteAssumption == Minute \in Nat \ {0}
ASSUME DevBoundsAssumption == MaxSecs \in Nat /\ MaxOther \in Nat
ASSUME FreqsAssumption == Freqs \subseteq Nat /\ 1 <= MaxUser /\ MaxUser \in Nat

VARIABLES
  sec,     \* seconds since the start
  uie,     \* active, stop, timer and task: uie_irq_active, stop_uie_polling, uie_timer_active, uie_task_active; old: oldsecs
  timer,   \* uie_timer is armed
  work,    \* queued: uie_task is queued; pc, tm and num: of the one that runs
  call,    \* the process in UIE_ON, UIE_OFF, RTC_SET_TIME or close
  file,    \* open: RTC_DEV_BUSY; cap: it was opened by a privileged process
  pie,     \* on: pie_enabled and its timer, freq: irq_freq
  data,    \* irq_data: update events and others
  rd,      \* rtc_dev_read: pc, and ready: the task is not in TASK_INTERRUPTIBLE
  seen     \* history: base, the second when polling began or the count was cleared; polled, the
           \* last second found; got, update events read since; failed: a reading has failed

devVars == <<sec, uie, timer, work, call, file, pie, data, rd, seen>>

NoData == [uf |-> 0, other |-> 0]
NoWork == [queued |-> FALSE, pc |-> "no", tm |-> 0, num |-> 0]

DevInit ==
  /\ sec = 0
  /\ uie = [active |-> FALSE, stop |-> FALSE, timer |-> FALSE, task |-> FALSE, old |-> 0]
  /\ timer = FALSE /\ work = NoWork
  /\ call = [pc |-> "idle", tm |-> 0, then |-> "idle"]
  /\ file = [open |-> FALSE, cap |-> FALSE]
  /\ pie = [on |-> FALSE, freq |-> 1]
  /\ data = NoData
  /\ rd = [pc |-> "idle", ready |-> TRUE]
  /\ seen = [base |-> 0, polled |-> 0, got |-> 0, failed |-> FALSE]

Cleared(s) == [s EXCEPT !.base = s.polled, !.got = 0]

(* rtc_dev_open. *)
rtc_dev_open(cap) ==
  /\ ~file.open /\ call.pc = "idle"
  /\ file' = [open |-> TRUE, cap |-> cap]
  /\ data' = NoData /\ seen' = Cleared(seen)
  /\ UNCHANGED <<sec, uie, timer, work, call, pie, rd>>

-----------------------------------------------------------------------------
(* schedule_work(&uie_task): does not queue what is queued, and says so.   *)
Queue(u, on) == [u EXCEPT !.task = on /\ ~work.queued]

(* set_uie: the second is read, and the polling begins. *)
SetUieRead ==
  /\ call.pc = "on"
  /\ call' = [call EXCEPT !.pc = "set", !.tm = sec]
  /\ UNCHANGED <<sec, uie, timer, work, file, pie, data, rd, seen>>
Begun(u, tm) == Queue([u EXCEPT !.active = TRUE, !.stop = FALSE, !.old = tm % Minute], TRUE)
set_uie ==
  /\ call.pc = "set"
  /\ uie' = IF uie.active THEN uie ELSE Begun(uie, call.tm)
  /\ work' = IF uie.active THEN work ELSE [work EXCEPT !.queued = TRUE]
  /\ data' = NoData
  /\ seen' = IF uie.active THEN Cleared(seen)
             ELSE [base |-> call.tm, polled |-> call.tm, got |-> 0, failed |-> FALSE]
  /\ call' = [call EXCEPT !.pc = "idle", !.tm = 0]
  /\ UNCHANGED <<sec, timer, file, pie, rd>>

(* clear_uie: the timer, then the work, the lock dropped for each. *)
Wait(u) == IF u.task THEN "flush" ELSE call.then
Ended(u) == IF u.task THEN u ELSE [u EXCEPT !.active = FALSE]
clear_uie ==
  /\ call.pc = "off"
  /\ LET u == [uie EXCEPT !.stop = TRUE]
     IN  /\ uie' = IF ~uie.active THEN uie ELSE IF u.timer THEN u ELSE Ended(u)
         /\ call' = [call EXCEPT !.pc = IF ~uie.active THEN call.then ELSE IF u.timer THEN "del" ELSE Wait(u)]
  /\ UNCHANGED <<sec, timer, work, file, pie, data, rd, seen>>
DelTimerSync ==
  /\ call.pc = "del"
  /\ timer' = FALSE /\ call' = [call EXCEPT !.pc = "del2"]
  /\ UNCHANGED <<sec, uie, work, file, pie, data, rd, seen>>
TimerDeleted ==
  /\ call.pc = "del2"
  /\ LET u == [uie EXCEPT !.timer = FALSE]
     IN  uie' = Ended(u) /\ call' = [call EXCEPT !.pc = Wait(u)]
  /\ UNCHANGED <<sec, timer, work, file, pie, data, rd, seen>>
(* Mutated form: a work that is queued is not waited for. *)
Flushed_Running == work.pc = "no"
Flushed == work.pc = "no" /\ ~work.queued
FlushScheduledWork ==
  /\ call.pc = "flush" /\ Flushed
  /\ uie' = [uie EXCEPT !.active = FALSE]
  /\ call' = [call EXCEPT !.pc = call.then]
  /\ UNCHANGED <<sec, timer, work, file, pie, data, rd, seen>>

(* rtc_uie_timer. *)
rtc_uie_timer ==
  /\ timer
  /\ timer' = FALSE
  /\ uie' = Queue([uie EXCEPT !.timer = FALSE], TRUE)
  /\ work' = [work EXCEPT !.queued = TRUE]
  /\ UNCHANGED <<sec, call, file, pie, data, rd, seen>>

(* rtc_uie_task: the second is read; a new one starts the timer, the same  *)
(* one the work again; the events are counted without the lock.            *)
TaskReads ==
  /\ work.queued /\ work.pc = "no"
  /\ \E err \in IF ReadFails THEN BOOLEAN ELSE {FALSE} :
       work' = [queued |-> FALSE, pc |-> IF err THEN "err" ELSE "look", tm |-> sec, num |-> 0]
  /\ UNCHANGED <<sec, uie, timer, call, file, pie, data, rd, seen>>
TaskLooks ==
  /\ work.pc \in {"look", "err"}
  /\ LET tm == work.tm % Minute
         ends == uie.stop \/ work.pc = "err"
         new == ~ends /\ uie.old # tm
         same == ~ends /\ uie.old = tm
     IN  /\ uie' = IF ends THEN [uie EXCEPT !.task = FALSE]
                   ELSE IF new THEN [uie EXCEPT !.old = tm, !.timer = TRUE, !.task = FALSE]
                   ELSE IF work.queued THEN [uie EXCEPT !.task = FALSE] ELSE uie
         /\ timer' = (timer \/ new)
         /\ work' = IF new THEN [work EXCEPT !.pc = "post", !.num = (tm + Minute - uie.old) % Minute]
                    ELSE [work EXCEPT !.pc = "no", !.tm = 0, !.queued = @ \/ same]
         /\ seen' = [seen EXCEPT !.polled = IF new THEN work.tm ELSE @, !.failed = @ \/ work.pc = "err"]
  /\ UNCHANGED <<sec, call, file, pie, data, rd>>

(* rtc_handle_legacy_irq: the count, and the wakeup without the lock. *)
Woken == [rd EXCEPT !.ready = TRUE, !.pc = IF @ = "asleep" THEN "loop" ELSE @]
TaskPosts ==
  /\ work.pc = "post"
  /\ data' = [data EXCEPT !.uf = @ + work.num]
  /\ work' = [work EXCEPT !.pc = "wake", !.num = 0]
  /\ UNCHANGED <<sec, uie, timer, call, file, pie, rd, seen>>
TaskWakes ==
  /\ work.pc = "wake"
  /\ rd' = Woken
  /\ work' = [work EXCEPT !.pc = "no", !.tm = 0]
  /\ UNCHANGED <<sec, uie, timer, call, file, pie, data, seen>>

-----------------------------------------------------------------------------
(* rtc_pie_update_irq, in the interrupt. *)
rtc_pie_update_irq ==
  /\ pie.on /\ data.other < MaxOther
  /\ data' = [data EXCEPT !.other = @ + 1]
  /\ rd' = Woken
  /\ UNCHANGED <<sec, uie, timer, work, call, file, pie, seen>>

(* May this file have events at the frequency f? *)
May(f) == f <= MaxUser \/ file.cap

(* RTC_PIE_ON, RTC_PIE_OFF and RTC_IRQP_SET of rtc_dev_ioctl, with         *)
(* rtc_irq_set_state and rtc_irq_set_freq.                                 *)
rtc_irq_set_state(on) ==
  /\ file.open /\ call.pc = "idle"
  /\ on => May(pie.freq)
  /\ pie' = [pie EXCEPT !.on = on]
  /\ UNCHANGED <<sec, uie, timer, work, call, file, data, rd, seen>>
rtc_irq_set_freq(f) ==
  /\ file.open /\ call.pc = "idle"
  /\ May(f) /\ f > 0
  /\ pie' = [pie EXCEPT !.freq = f]
  /\ UNCHANGED <<sec, uie, timer, work, call, file, data, rd, seen>>

(* RTC_UIE_ON and RTC_UIE_OFF; RTC_SET_TIME, which turns off what is on    *)
(* and then on again.                                                      *)
Ioctl(cmd) ==
  /\ file.open /\ call.pc = "idle"
  /\ cmd = "set_time" => uie.active
  /\ call' = IF cmd = "on" THEN [call EXCEPT !.pc = "on", !.then = "idle"]
             ELSE [call EXCEPT !.pc = "off", !.then = IF cmd = "set_time" THEN "on" ELSE "idle"]
  /\ UNCHANGED <<sec, uie, timer, work, file, pie, data, rd, seen>>

(* rtc_dev_release, when no signal ends its waits for the lock. *)
ReleaseStart ==
  /\ file.open /\ call.pc = "idle" /\ rd.pc = "idle"
  /\ call' = [call EXCEPT !.pc = "off", !.then = "close"]
  /\ UNCHANGED <<sec, uie, timer, work, file, pie, data, rd, seen>>
Closed == [pie EXCEPT !.on = FALSE]
rtc_dev_release ==
  /\ call.pc = "close"
  /\ call' = [call EXCEPT !.pc = "idle", !.then = "idle"]
  /\ pie' = Closed
  /\ file' = [open |-> FALSE, cap |-> FALSE]
  /\ UNCHANGED <<sec, uie, timer, work, data, rd, seen>>

-----------------------------------------------------------------------------
(* rtc_dev_read: the state of the task is set before the count is taken.   *)
ReadStart ==
  /\ file.open /\ call.then # "close" /\ rd.pc = "idle"
  /\ rd' = [pc |-> "loop", ready |-> TRUE]
  /\ UNCHANGED <<sec, uie, timer, work, call, file, pie, data, seen>>
ReadLoop ==
  /\ rd.pc = "loop"
  /\ rd' = [pc |-> "take", ready |-> FALSE]
  /\ UNCHANGED <<sec, uie, timer, work, call, file, pie, data, seen>>
ReadTakes ==
  /\ rd.pc = "take"
  /\ data' = NoData
  /\ seen' = [seen EXCEPT !.got = @ + data.uf]
  /\ \/ data # NoData /\ rd' = [pc |-> "idle", ready |-> TRUE]
     \/ data = NoData /\ rd' = [rd EXCEPT !.pc = "schedule"]
     \/ data = NoData /\ rd' = [pc |-> "idle", ready |-> TRUE]     \* O_NONBLOCK, or a signal
  /\ UNCHANGED <<sec, uie, timer, work, call, file, pie>>
(* schedule(): a task that was woken goes on. *)
ReadSchedules ==
  /\ rd.pc = "schedule"
  /\ rd' = [rd EXCEPT !.pc = IF rd.ready THEN "loop" ELSE "asleep"]
  /\ UNCHANGED <<sec, uie, timer, work, call, file, pie, data, seen>>

(* The second changes.  As long as the second is polled no poll is a       *)
(* minute late, and set_uie does not take a minute for what it has read.   *)
DevTick ==
  /\ sec < MaxSecs
  /\ uie.active /\ ~seen.failed => sec + 1 - seen.polled < Minute
  /\ call.pc = "set" => sec + 1 - call.tm < Minute
  /\ sec' = sec + 1
  /\ UNCHANGED <<uie, timer, work, call, file, pie, data, rd, seen>>

DevNext ==
  \/ \E cap \in BOOLEAN : rtc_dev_open(cap)
  \/ SetUieRead \/ set_uie \/ clear_uie \/ DelTimerSync \/ TimerDeleted \/ FlushScheduledWork
  \/ rtc_uie_timer \/ TaskReads \/ TaskLooks \/ TaskPosts \/ TaskWakes
  \/ rtc_pie_update_irq
  \/ \E on \in BOOLEAN : rtc_irq_set_state(on)
  \/ \E f \in Freqs : rtc_irq_set_freq(f)
  \/ \E cmd \in {"on", "off", "set_time"} : Ioctl(cmd)
  \/ ReleaseStart \/ rtc_dev_release
  \/ ReadStart \/ ReadLoop \/ ReadTakes \/ ReadSchedules \/ DevTick

DevSpec == DevInit /\ [][DevNext]_devVars

-----------------------------------------------------------------------------
Polls == [active : BOOLEAN, stop : BOOLEAN, timer : BOOLEAN, task : BOOLEAN, old : 0..Minute - 1]
Works == [queued : BOOLEAN, pc : {"no", "look", "err", "post", "wake"}, tm : 0..MaxSecs, num : 0..Minute - 1]
Calls == [pc : {"idle", "on", "set", "off", "del", "del2", "flush", "close"}, tm : 0..MaxSecs,
          then : {"idle", "on", "close"}]
Readers == [pc : {"idle", "loop", "take", "schedule", "asleep"}, ready : BOOLEAN]
Histories == [base : 0..MaxSecs, polled : 0..MaxSecs, got : Nat, failed : BOOLEAN]
DevTypeOK ==
  /\ sec \in 0..MaxSecs /\ timer \in BOOLEAN
  /\ uie \in Polls /\ work \in Works /\ call \in Calls /\ rd \in Readers /\ seen \in Histories
  /\ file \in [open : BOOLEAN, cap : BOOLEAN] /\ pie \in [on : BOOLEAN, freq : Nat]
  /\ data \in [uf : Nat, other : 0..MaxOther]

(* While update events are on and not being turned off the second is       *)
(* polled: the work is queued or runs, or the timer is armed.              *)
Polled ==
  uie.active /\ call.pc \notin {"off", "del", "del2", "flush"} /\ ~seen.failed =>
    work.queued \/ work.pc # "no" \/ timer
(* When they are off nothing polls; at most a second found before is still *)
(* counted.                                                                *)
Stopped == ~uie.active => ~work.queued /\ ~timer /\ work.pc \in {"no", "post", "wake"}
(* Every second that was found is counted. *)
Counted ==
  uie.active => seen.got + data.uf + (IF work.pc = "post" THEN work.num ELSE 0) >= seen.polled - seen.base
(* Nobody sleeps in rtc_dev_read while there is something to read. *)
NoLostWakeup == rd.pc = "asleep" /\ data # NoData => work.pc = "wake"
(* Periodic events are off when the device is closed, and only a           *)
(* privileged process has them faster than max_user_freq.                  *)
PieAllowed == pie.on => file.open /\ (pie.freq <= MaxUser \/ file.cap)

(* Update and periodic interrupts reach the reader of the device, each      *)
(* second once, and stop when they are told to (rtc_uie_task, clear_uie,    *)
(* rtc_dev_read).                                                           *)
EventsExact == Polled /\ Stopped /\ Counted /\ NoLostWakeup /\ PieAllowed
=============================================================================
