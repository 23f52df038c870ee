SPECIFICATION Spec
CONSTANTS
    f1 = f1
    f2 = f2
    o1 = o1
    Files <- TwoFiles
    MaxEdits = 2
    MaxRequests = 3
    MaxInFlight = 2
    MaxUnread = 0
    Options <- MCOptions
    Suggestions <- OneItem
    NoContent = NoContent
    NoParse = NoParse
    NoItem = NoItem
SYMMETRY FileSymmetry
INVARIANTS TypeOK AnsweredOnce AnswersSeeTheText DiagnosticsCatchUp ResolvedItemIsTheOneShown
