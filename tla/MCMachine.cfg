SPECIFICATION FairSpec
CONSTANTS
    Data = {d}
    ZeroData = d
    Handler <- MCHandler
    Programs <- MCPrograms
    Entry = 1
    Devices = {2}
INVARIANTS TypeOK FrameIsOrigin HandlerIsolated FaultingIsPending
PROPERTIES StrayReturnRefused HandlersReturn
CHECK_DEADLOCK FALSE
