SPECIFICATION Spec
CONSTANTS
    f1 = f1
    f2 = f2
    o1 = o1
    Files <- TwoFiles
    MaxEdits = 1
    MaxRequests = 2
    MaxInFlight = 2
    MaxUnread = 0
    Options <- MCOptions
    Suggestions <- EqualKeys
    NoContent = NoContent
    NoParse = NoParse
    NoItem = NoItem
SYMMETRY FileSymmetry
INVARIANTS ResolvedItemIsTheOneShown
