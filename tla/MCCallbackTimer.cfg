SPECIFICATION CbFairSpec
CONSTANTS
    Timers = {a, b, c}
    Null = null
    MaxTick = 3
    Delays = {1, 2}
    IsrTimers = {a, b}
    MaxMsgs = 1
INVARIANT TimersAreKept
PROPERTIES FiresWhenWanted TimerFires
