SPECIFICATION Spec
CONSTANTS
    Tasks = {t1, t2, t3}
    Kernel = kernel
    MaxCount = 1
    Modes <- SemaphoreAndEvent
    Timeouts <- TimedOrForever
    Cancellers = {t1}
    Resetters = {t1}
    MaxMsgs = 1
    KernelHighest = TRUE
INVARIANTS TypeOK NoIdleCount CountsConserved NoStaleWakeup WakeupsAreExact EventReachesAll
SYMMETRY Symmetry
