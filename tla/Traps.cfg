SPECIFICATION Spec
CONSTANTS
    Builds = {"hvm32", "hvm64", "pv32", "pv64"}
    PageWords = 44
    Values = {1, 2}
    MaxNest = 2
INVARIANTS
    FramesAreTrue
PROPERTIES
    ResumesAsInterrupted
    ExecUserIsACall
