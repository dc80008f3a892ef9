SPECIFICATION FairSpec
CONSTANTS
    Tedas = {t1, t2}
    Kernel = kernel
    NoCtx = none
    MaxTick = 4
    Delays = {1, 2}
    MaxMsgs = 1
    Builds <- AllBuilds
INVARIANTS TimqIsSound KernelIsTold
PROPERTY TimerExpires
CHECK_DEADLOCK FALSE
