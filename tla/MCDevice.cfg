SPECIFICATION Spec
CONSTANTS
    Systems = {"linux", "darwin", "windows"}
    None = None
    MaxRuns = 2
    Granularity = 2
    Threshold = 2
    Word = 16
    Parts = {"v4", "v5", "v6", "a", "b"}
    Packets <- MCPackets
    BufferSize = 3
    MaxPackets = 2
    MaxClock = 3
INVARIANTS
    OwnInterface
    OneAdapter
    OneChanger
    RateBounded
    FewLateCalls
    Framed
PROPERTIES
    OthersKept
    PacketsRead
CHECK_DEADLOCK FALSE
