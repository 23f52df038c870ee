SPECIFICATION FairSpec
CONSTANTS
    flags = flags
    NoFlags = NoFlags
    NoDevice = NoDevice
    NoStd = NoStd
    Invalid = Invalid
    Absent = Absent
    NoResult = NoResult
    Devices <- MCDevices
    OptionLists <- MCOptionLists
    IntBits = 4
    SizeBits = 6
    DefaultLimit = 3
    Platforms <- OnePlatform
    Settings <- TwoDevices
    InitialSettings <- TwoDevices
    Capabilities <- StaticClient
    InOrderReplies = FALSE
    MaxChanges = 3
    MaxFailures = 0
    MaxDuplicates = 0
CHECK_DEADLOCK FALSE
PROPERTIES ConfiguredDeviceIsUsed
