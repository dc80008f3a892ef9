SPECIFICATION PipeFairSpec
CONSTANTS
    MaxBufferSize = 2
    WriteSizes = {1, 5}
    ReadSizes = {1, 2}
    ThreadPrios = {"tx", "rx", "none"}
    ClosePrios = {"none"}
    MaxFails = 1
INVARIANT BlockedIsWoken
PROPERTIES WriteReturns ReadReturnsAfterClose
CHECK_DEADLOCK FALSE
