SPECIFICATION Spec
CONSTANTS
    Edas = {a1, a2}
    Evts = {v1}
    Ctxs = {isr}
    Self = self
    Size = 4
    CntMod = 8
    Killers = {isr}
    CleanEvts = {any}
    CleanBound = 2
    AnyEvt = any
    NoEvt = noevt
    NoEda = null
PROPERTIES ImplementsEventQueue
CHECK_DEADLOCK FALSE
SYMMETRY Symmetry
