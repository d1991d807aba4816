CONSTANTS
    DefaultMaxFrame = 3
    DefaultMaxChunk = 2
    DefaultMaxReorderBuffer = 2
    Overhead = 1
    StreamCapacity = 1
    Setups <- MCSetups
SPECIFICATION Spec
INVARIANTS
    LimitsAgree
    CollectedStreamsAreWhole
    NothingIsLost
    AnnouncementsPrecedeFrames
PROPERTIES
    RunReturns
CHECK_DEADLOCK FALSE
