CONSTANTS
    MaxSegments = 6
    Subjects = {"timeline"}
    MaxLines = 5
    MaxMasterLines = 5
    MaxKindLines = 4
    MaxEntries = 3
    MaxDashPieces = 4
    MaxPackets = 4
    MaxChunks = 3
    MaxPending = 8
    MaxFrame = 10
    DefaultFrame = 1
    MaxFragments = 3
    U32Max = 24
    MovieTimescale = 4
    MaxMessage = 2097152
    MaxFrames = 4
    MaxDepth = 2
    MaxNodes = 3
    MaxItems = 5
SPECIFICATION Spec
INVARIANT RepeatsUntilPeriodEnds
CHECK_DEADLOCK FALSE
