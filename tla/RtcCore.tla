------------------------------- MODULE RtcCore --------------------------------
(***************************************************************************)
(* The timers of the RTC class: drivers/rtc/interface.c, the character     *)
(* device of dev.c and the driver of the RTS3917, rtc-rts.c.  Alarm, update *)
(* and kernel timers share a queue; one hardware alarm is programmed for    *)
(* the first of them, its interrupt schedules rtc_timer_do_work, and that   *)
(* runs what has expired.  Everything under ops_lock is one step, except    *)
(* rtc_set_time, which takes the lock three times.  Time is the counter of  *)
(* the RTC in seconds and does not advance inside a step.                   *)
(***************************************************************************)
EXTENDS Naturals, Sequences

SeqX == INSTANCE SequencesExt

CONSTANTS MaxTime,     \* bound on the counter
          MaxSets,     \* bound on the number of calls of rtc_set_time
          AlarmTimes,  \* the seconds for which the alarm is set
          KernTimes,   \* the seconds for which a kernel timer is started
          Rts          \* is the driver rtc-rts.c, or one that does all the class asks?

Timers == {"aie", "uie", "kern"}     \* kern: a timer of rtc_timer_start
Times == 0..(MaxTime + 1)

ASSUME RtcAssumption ==
    /\ MaxTime \in Nat /\ MaxSets \in Nat /\ Rts \in BOOLEAN
    /\ AlarmTimes \subseteq Times /\ KernTimes \subseteq Times

VARIABLES now,         \* the counter
          dev,         \* the queue and the hardware alarm, a Device
          flag,        \* the interrupt of the alarm is pending
          opened,      \* RTC_DEV_BUSY: the character device is open
          setPc,       \* the step of rtc_set_time (set_uie: set, and its local uie is 1)
          sets,        \* how often it was called
          raced        \* history: rtc_dev_release met rtc_set_time or a signal

rtcVars == <<now, dev, flag, opened, setPc, sets, raced>>

\* queue: the timerqueue, in the order in which the timers expire; a timer is in it
\* if its enabled is 1;
\* at and en: the second of the hardware alarm, and is it enabled?
\* work: irqwork is scheduled; muted (history): RTC_AIE_OFF has disabled the
\* alarm of a timer that stayed in the queue, and no work has run since.
Queues == UNION {{q \in [1..n -> Timers]: \A i, j \in 1..n: i # j => q[i] # q[j]}: n \in 0..3}
Device == [queue: Queues, expires: [Timers -> Times], at: Times, en: BOOLEAN,
           work: BOOLEAN, muted: BOOLEAN]

Queued(d) == SeqX!ToSet(d.queue)
FirstOf(d) == d.expires[Head(d.queue)]

\* The place behind all timers that expire in the second e or before.
Place(d, e) ==
    CHOOSE p \in 1..(Len(d.queue) + 1):
        \A i \in 1..Len(d.queue): i < p <=> d.expires[d.queue[i]] <= e

\* timerqueue_add
Add(d, t) == [d EXCEPT !.queue = SeqX!InsertAt(@, Place(d, d.expires[t]), t)]

-----------------------------------------------------------------------------
\* The driver's set_alarm: rts_rtc_set_alarm writes the second only.
HwAlarm(d, t) == [d EXCEPT !.at = t, !.en = @ \/ ~Rts]

\* The driver's alarm_irq_enable: rts_rtc_alarm_irq_enable ignores its argument.
HwEnable(d, on) == [d EXCEPT !.en = on \/ Rts]

\* schedule_work(&rtc->irqwork)
Schedule(d) == [d EXCEPT !.work = TRUE]

\* __rtc_set_alarm, and what its callers do with -ETIME for a time that is past.
Program(d, t, fails) ==
    IF t <= now THEN Schedule(d) ELSE IF fails THEN d ELSE HwAlarm(d, t)

\* Is a new timer before the first one that has not expired?
IsNext(d, e) == \A x \in Queued(d): d.expires[x] >= now => e < d.expires[x]

\* rtc_timer_enqueue.  When the driver fails the timer is taken out again.
Enqueue(d, t, fails) ==
    LET e == d.expires[t]
        q == Add(d, t)
    IN  IF ~IsNext(d, e) THEN q
        ELSE IF fails /\ e > now THEN d ELSE Program(q, e, FALSE)

\* The first timer was taken out: on to the next one.
Reprogram(d, fails) ==
    IF d.queue = <<>> THEN HwEnable(d, FALSE) ELSE Program(d, FirstOf(d), fails)

\* The timers that have left the queue: only the alarm keeps its time, for a
\* later RTC_AIE_ON.
Forget(d, ts) ==
    [d EXCEPT !.expires = [x \in Timers |-> IF x \in ts \ {"aie"} THEN 0 ELSE @[x]]]

\* timerqueue_del of a timer, and of the first n timers one by one.
Del(d, t) ==
    Forget([d EXCEPT !.queue = SeqX!RemoveAt(@, CHOOSE i \in 1..Len(@): @[i] = t)], {t})
FirstOnes(d, n) == {d.queue[i]: i \in 1..n}
DelFirst(d, n) == Forget([d EXCEPT !.queue = SubSeq(@, n + 1, Len(@))], FirstOnes(d, n))

\* rtc_timer_remove.
Remove(d, t, fails) ==
    LET q == Del(d, t)
    IN  IF t = Head(d.queue) THEN Reprogram(q, fails) ELSE q

\* The same for a timer that need not be in the queue.
Drop(d, t, fails) == IF t \in Queued(d) THEN Remove(d, t, fails) ELSE d
SetExpires(d, t, e) == [d EXCEPT !.expires[t] = e]

-----------------------------------------------------------------------------
\* rtc_initialize_alarm: an alarm that is set in the hardware and still to come
\* goes into the queue.
Registered(t, on) ==
    [queue |-> IF on /\ now < t THEN <<"aie">> ELSE <<>>,
     expires |-> [x \in Timers |-> IF x = "aie" THEN t ELSE 0],
     at |-> t, en |-> on, work |-> FALSE, muted |-> FALSE]

\* __rtc_register_device, with any alarm in the hardware.
RtcInit ==
    /\ now = 0
    /\ \E t \in AlarmTimes, on \in BOOLEAN: dev = Registered(t, on)
    /\ flag = FALSE /\ opened = FALSE
    /\ setPc = "idle" /\ sets = 0 /\ raced = FALSE

\* Most operations change the queue only.
rest == <<now, flag, opened, setPc, sets, raced>>

\* rtc_set_alarm (RTC_ALM_SET and RTC_WKALM_SET).
SetAlarm(e, enabled, fails) ==
    /\ LET d == SetExpires(Drop(dev, "aie", fails), "aie", e)
       IN  dev' = IF enabled THEN Enqueue(d, "aie", fails) ELSE d
    /\ UNCHANGED rest

\* rtc_timer_start and rtc_timer_cancel of a kernel timer without a period.
TimerStart(e, fails) ==
    /\ dev' = Enqueue(SetExpires(Drop(dev, "kern", fails), "kern", e), "kern", fails)
    /\ UNCHANGED rest

TimerCancel(fails) ==
    /\ "kern" \in Queued(dev)
    /\ dev' = Remove(dev, "kern", fails)
    /\ UNCHANGED rest

\* rtc_alarm_irq_enable (RTC_AIE_ON, RTC_AIE_OFF): the queue, and then the
\* interrupt of the hardware, unless the queue has returned an error.
AlarmIrqEnable(on, fails) ==
    /\ LET d == IF ("aie" \in Queued(dev)) = on THEN dev
                ELSE IF on THEN Enqueue(dev, "aie", fails)
                ELSE Remove(dev, "aie", fails)
       IN  dev' = IF on /\ "aie" \notin Queued(d) THEN d
                  ELSE [HwEnable(d, on) EXCEPT !.muted = @ \/ (~on /\ d.queue # <<>>)]
    /\ UNCHANGED rest

\* rtc_update_irq_enable (RTC_UIE_ON, RTC_UIE_OFF) on the device d.
UpdateIrqEnable(d, on, fails) ==
    IF ("uie" \in Queued(d)) = on THEN d
    ELSE IF on THEN Enqueue(SetExpires(d, "uie", now + 1), "uie", fails)
    ELSE Remove(d, "uie", fails)

UieIoctl(on, fails) ==
    /\ opened
    /\ dev' = UpdateIrqEnable(dev, on, fails)
    /\ UNCHANGED rest

-----------------------------------------------------------------------------
\* rtc_set_time: uie is read without the lock.
SetTimeStart ==
    /\ setPc = "idle" /\ sets < MaxSets
    /\ sets' = sets + 1
    /\ setPc' = IF "uie" \in Queued(dev) THEN "uieoff" ELSE "set"
    /\ UNCHANGED <<now, dev, flag, opened, raced>>

SetTimeUieOff(fails) ==
    /\ setPc = "uieoff"
    /\ dev' = UpdateIrqEnable(dev, FALSE, fails)
    /\ setPc' = "set_uie"
    /\ UNCHANGED <<now, flag, opened, sets, raced>>

\* A timer might have just expired.
TimeWasSet(d) == Schedule(d)

\* The driver's set_time; t is now if that fails, and the rest is the same.
SetTimeWrite(t) ==
    /\ setPc \in {"set", "set_uie"}
    /\ now' = t
    /\ dev' = TimeWasSet(dev)
    /\ setPc' = IF setPc = "set_uie" THEN "uieon" ELSE "idle"
    /\ UNCHANGED <<flag, opened, sets, raced>>

\* A signal ends one of the waits for the lock, whatever was done before it.
SetTimeInterrupted ==
    /\ setPc # "idle"
    /\ setPc' = "idle"
    /\ UNCHANGED <<now, dev, flag, opened, sets, raced>>

SetTimeUieOn(fails) ==
    /\ setPc = "uieon"
    /\ dev' = UpdateIrqEnable(dev, TRUE, fails)
    /\ setPc' = "idle"
    /\ UNCHANGED <<now, flag, opened, sets, raced>>

-----------------------------------------------------------------------------
\* A second passes: the alarm matches.
Tick ==
    /\ now < MaxTime
    /\ now' = now + 1
    /\ flag' = (flag \/ (dev.en /\ dev.at = now'))
    /\ UNCHANGED <<dev, opened, setPc, sets, raced>>

\* The interrupt handler: rts_rtc_interrupt clears the flag and evaluates the
\* arguments of a call without a function; rtc_update_irq schedules the work.
Interrupt ==
    /\ flag
    /\ flag' = FALSE
    /\ dev' = IF Rts THEN dev ELSE Schedule(dev)
    /\ UNCHANGED <<now, opened, setPc, sets, raced>>

(* Mutated form: a timer fires a second late. *)
Expired_Late(d) == IF now = 0 THEN 0 ELSE Place(d, now - 1) - 1
\* How many timers rtc_timer_do_work takes out of the queue, from its head on.
Expired(d) == Place(d, now) - 1

(* Mutated form: the update timer skips a second. *)
Again_Twice(d, gone) ==
    IF "uie" \in gone THEN Add(SetExpires(d, "uie", now + 2), "uie") ELSE d
\* The update timer, which has a period, goes in again for the next second.
Again(d, gone) ==
    IF "uie" \in gone THEN Add(SetExpires(d, "uie", now + 1), "uie") ELSE d

\* rtc_timer_do_work: what has expired is run, and the alarm is set for the first
\* timer that is left; the timers for which the driver fails even when asked
\* again, the first k, are given up.
DoWork ==
    /\ dev.work
    /\ LET n == Expired(dev)
           d == [Again(DelFirst(dev, n), FirstOnes(dev, n)) EXCEPT !.work = FALSE, !.muted = FALSE]
       IN  \E k \in IF Rts THEN {0} ELSE 0..Len(d.queue):
              dev' = Reprogram(DelFirst(d, k), FALSE)
    /\ UNCHANGED <<now, flag, opened, setPc, sets, raced>>

-----------------------------------------------------------------------------
\* rtc_dev_open and rtc_dev_release.
Open ==
    /\ ~opened
    /\ opened' = TRUE
    /\ raced' = FALSE
    /\ UNCHANGED <<now, dev, flag, setPc, sets>>

(* Mutated form: closing leaves the update timer. *)
ReleaseUie_Not(d) == d
ReleaseUie(d) == UpdateIrqEnable(d, FALSE, FALSE)

\* The wait for the lock may be interrupted here too, and the result is ignored.
Release(interrupted) ==
    /\ opened
    /\ opened' = FALSE
    /\ dev' = IF interrupted THEN dev ELSE ReleaseUie(dev)
    /\ raced' = (interrupted \/ setPc # "idle")
    /\ UNCHANGED <<now, flag, setPc, sets>>

RtcNext ==
    \/ \E fails \in IF Rts THEN {FALSE} ELSE BOOLEAN:
         \/ \E e \in AlarmTimes: SetAlarm(e, TRUE, fails) \/ SetAlarm(e, FALSE, fails)
         \/ \E e \in KernTimes: TimerStart(e, fails)
         \/ TimerCancel(fails)
         \/ \E on \in BOOLEAN: AlarmIrqEnable(on, fails) \/ UieIoctl(on, fails)
         \/ SetTimeUieOff(fails) \/ SetTimeUieOn(fails)
    \/ SetTimeStart \/ SetTimeInterrupted
    \/ \E t \in 0..MaxTime: SetTimeWrite(t)
    \/ Tick \/ Interrupt \/ DoWork
    \/ Open \/ Release(TRUE) \/ Release(FALSE)

RtcSpec == RtcInit /\ [][RtcNext]_rtcVars

-----------------------------------------------------------------------------
\* The queue holds every timer at most once, and no timer expires later than one
\* second after the bound of the counter (rtc_timer_do_work adds one period).
RtcTypeOK ==
    /\ now \in 0..MaxTime
    /\ dev \in Device
    /\ flag \in BOOLEAN /\ opened \in BOOLEAN
    /\ setPc \in {"idle", "uieoff", "set", "set_uie", "uieon"}
    /\ sets \in 0..MaxSets /\ raced \in BOOLEAN

\* A timer in the queue is never forgotten: the work is scheduled, or the
\* interrupt is pending, or the alarm is set for a second that is still to come
\* and not later than the first timer.  This is for a driver that does what the
\* class asks; RTC_AIE_OFF breaks it for the timers that stay in the queue.
Armed ==
    ~Rts /\ dev.queue # <<>> =>
        \/ dev.work \/ flag \/ dev.muted
        \/ dev.en /\ now < dev.at /\ dev.at <= FirstOf(dev)

\* The device is closed: its update timer is off, unless it was closed while
\* rtc_set_time, which turns the timer on again, was running, or a signal kept
\* rtc_dev_release from the lock.
ClosedIsQuiet == ~opened => "uie" \notin Queued(dev) \/ raced

\* A timer in the queue is never forgotten, and a closed device leaves no update
\* timer behind (rtc_timer_enqueue, rtc_timer_do_work, rtc_dev_release).
TimersArmed == Armed /\ ClosedIsQuiet

\* Once its second has come an alarm does not stay in the queue: rtc_aie_update_irq
\* runs for it, or somebody has turned it off or moved it.
Due == "aie" \in Queued(dev) /\ dev.expires["aie"] <= now
AlarmDelivered == Due ~> (~Due \/ dev.muted)
=============================================================================
