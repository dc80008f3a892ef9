SPECIFICATION Spec
CONSTANTS
    Sender = sender
    Receiver = receiver
    Thief = thief
    Canceller = canceller
    Kernel = kernel
    Capacity = 2
    MaxMsgs = 1
    SendTimeouts = {"timed"}
    RecvTimeouts = {"timed", "forever"}
    Prios <- BothPrios
CONSTRAINT NoLeftOverWakeups
INVARIANTS QueueIsSound ReceiverIsWoken WaitEndsOnce
CHECK_DEADLOCK FALSE
