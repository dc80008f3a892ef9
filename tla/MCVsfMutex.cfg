SPECIFICATION Spec
CONSTANTS
    lo = lo
    mid = mid
    hi = hi
    top = top
    Tasks = {lo, mid, hi, top}
    Prio <- PrioQuad
    Levels = 4
    Timeouts <- MidTimed
    Cancellers = {mid}
    NoTask = null
INVARIANTS MutexIsSound OwnerInherits LoanEnds MostUrgentFirst NoInversion
