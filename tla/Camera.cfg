SPECIFICATION FairSpec
CONSTANTS
    NaN = NaN
    Inf = Inf
    NegZero = NegZero
    Modes = {"camera", "two"}
    Conns = {r, x}
    Own = r
    NoConn = NoConn
    Frames <- MCFrames
    Lines <- MCLines
    DriverFrames = 4
    StaleFrames = 3
    MaxCalls = 2
INVARIANTS
    CurrentFrame
    RightDetections
    ProtocolAgrees
    CloseWaits
PROPERTIES
    SocketRemoved
    DetectReturns
    DetectorEnds
CHECK_DEADLOCK FALSE
