SPECIFICATION FairSpec
CONSTANTS
    RingSize = 4
    IdxMod = 8
    HdrLen = 2
    PayloadMax = 3
    PathLens = {0, 4}
    Replies <- MCReplies
    StrayHdrs <- MCStray
    MaxCalls = 2
    Ports = {"none", "valid", "huge"}
    Statuses = {"closed", "unbound", "interdomain"}
INVARIANTS
    RingBounds
    RequestInOrder
    PayloadBounded
    NoLostWakeup
PROPERTIES
    CallsReturn
    ImplementsRpc
