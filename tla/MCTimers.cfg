CONSTANTS
    MaxTime = 2
    MaxSets = 1
    AlarmTimes = {1, 2}
    KernTimes = {2}
    Rts = FALSE
    Ranges <- MCRanges
    Starts <- MCStarts
    Moments <- MCTimes
    MaxClock = 16
    Minute = 3
    MaxSecs = 3
    MaxOther = 1
    Freqs = {1, 4}
    MaxUser = 2
    ReadFails = FALSE
    Parts = {"timers", "time", "alarm", "sleep", "periodic", "update"}
SPECIFICATION MCSpec
INVARIANTS
    TypesOK
    TimersArmed
    ClockExact
    TimesKept
    EventsExact
PROPERTY AlarmDelivered
\* The counters and the calls are bounded, and nobody need call.
CHECK_DEADLOCK FALSE
