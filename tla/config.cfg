SPECIFICATION FairSpec
CONSTANTS
    flags = flags
    NoFlags = NoFlags
    NoDevice = NoDevice
    NoStd = NoStd
    Invalid = Invalid
    Absent = Absent
    NoResult = NoResult
    Devices <- MCDevices
    OptionLists <- MCOptionLists
    IntBits = 4
    SizeBits = 6
    DefaultLimit = 3
    Platforms <- OnePlatform
    Settings <- Complete
    InitialSettings <- CompleteOrAbsent
    Capabilities <- AllCapabilities
    InOrderReplies = TRUE
    MaxChanges = 3
    MaxFailures = 1
    MaxDuplicates = 1
CHECK_DEADLOCK FALSE
INVARIANTS TypeOK NoRequestIsStuck QuietMeansCurrent BuildFollowsDevice
PROPERTIES Convergence
