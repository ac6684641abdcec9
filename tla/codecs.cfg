CONSTANTS
    kMaxMultibulkLength = 2
    kMaxBulkLength = 8
    kMaxInlineLength = 6
    kMaxHeaderLength = 4
    MaxInt = 127
    MaxIntText = 4
    kReclaimThreshold = 4
    ReadSize = 8
    MsPerSecond = 10
    ArgBytes = {10, 13, 36, 42, 97}
    MaxArg = 2
    IntBytes = {43, 45, 48, 49, 50, 55, 56, 97}
    MaxIntProbe = 5
    GlobBytes = {42, 45, 63, 91, 92, 93, 94, 97, 99}
    MaxPattern = 4
    GlobChars = {45, 97, 98}
    MaxGlobText = 3
    MaxOptions = 4
    Streams <- MCStreams
    Amounts <- MCAmounts
    Clocks <- MCClocks
    Snapshots <- MCSnapshots
    Lengths <- MCLengths

SPECIFICATION Spec

INVARIANTS
    ReadBoundariesInvisible
    EncodingIsSelfDelimiting
    IntegersExact
    GlobExact
    
    
    SnapshotsReadBack
    DamagedSnapshotsRefused

CHECK_DEADLOCK FALSE
