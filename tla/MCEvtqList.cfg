SPECIFICATION FairSpec
CONSTANTS
    lo = lo
    also = also
    hi = hi
    Edas = {lo, also, hi}
    Prio <- PrioTrio
    Levels = 2
    Isrs = {isr}
    PoolSize = 2
    Boosted = {lo}
    Killed = {lo}
    Cleaners = {lo}
    NoEda = null
    Limited = {lo}
INVARIANTS ListsAreSound NodesConserved NoLostWakeup LoanIsSound
PROPERTY ReadyIsServed
