SPECIFICATION Spec
CONSTANTS
    low1 = low1
    low2 = low2
    high = high
    Tasks = {low1, low2, high}
    Null = null
    Bits = {1, 2}
    AutoReset = {2}
    Pender <- ThreePenders
    Masks = {{1}, {2}}
    CancelMasks = {{2}}
    Timeouts <- TwoTimed
    Prios <- BothPrios
INVARIANTS PollIsSound OverlookedWasPassed
CHECK_DEADLOCK FALSE
