SPECIFICATION FairSpec
CONSTANTS
    Edas = {a1, a2}
    Evts = {v1}
    Ctxs = {isr}
    Self = self
    Size = 4
    CntMod = 8
    Killers = {}
    CleanEvts = {}
    CleanBound = 2
    AnyEvt = any
    NoEda = null
    NoEvt = noevt
INVARIANTS TypeOK CountExact NoLostWakeup ExitIsExact
PROPERTIES PoppedNodeStable RefusedOnlyWhilePending Served
