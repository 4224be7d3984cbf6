SPECIFICATION Spec
CONSTANTS
    RingSize = 4
    IdxMod = 8
    HdrLen = 2
    PayloadMax = 3
    PathLens = {1}
    Replies <- MCErrorReplies
    StrayHdrs <- MCStray
    MaxCalls = 2
    Ports = {"valid"}
    Statuses = {"interdomain"}
INVARIANTS
    ReadReturnsReply
CHECK_DEADLOCK FALSE
