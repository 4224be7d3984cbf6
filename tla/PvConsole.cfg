SPECIFICATION FairSpec
CONSTANTS
    OutSize = 4
    InSize = 2
    IdxMod = 16
    Starts = {15}
    MsgLens = {1, 4}
    ReadLens = {1, 2}
    MaxMsgs = 2
    MaxTyped = 3
    MaxLog = 8
    MaxCrash = 1
INVARIANTS
    StreamsInOrder
    WriteIsSynchronous
    SleepsOnlyWithoutNews
PROPERTIES
    ImplementsStream
