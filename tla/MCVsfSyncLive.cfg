SPECIFICATION FairSpec
CONSTANTS
    Tasks = {t1, t2, t3}
    Kernel = kernel
    MaxCount = 1
    Modes <- OnlySemaphore
    Timeouts <- OneTimed
    Cancellers = {t2}
    Resetters = {}
    MaxMsgs = 0
    KernelHighest = TRUE
PROPERTIES TimedWaitEnds WaiterIsServed
