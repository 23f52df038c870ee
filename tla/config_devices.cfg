SPECIFICATION Spec
CONSTANTS
    flags = flags
    NoFlags = NoFlags
    NoDevice = NoDevice
    NoStd = NoStd
    Invalid = Invalid
    Absent = Absent
    NoResult = NoResult
    Devices <- MCDevices
    OptionLists <- MCOptionLists
    IntBits = 4
    SizeBits = 6
    DefaultLimit = 3
    Platforms <- ChangingPlatforms
    Settings <- Partial
    InitialSettings <- PartialInitially
    Capabilities <- StaticClient
    InOrderReplies = FALSE
    MaxChanges = 3
    MaxFailures = 1
    MaxDuplicates = 1
CHECK_DEADLOCK FALSE
INVARIANTS StoreFollowsDevice AppliedInOrder
PROPERTIES SelectionContract
