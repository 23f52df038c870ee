SPECIFICATION Spec
CONSTANTS
    flags = flags
    NoFlags = NoFlags
    NoDevice = NoDevice
    NoStd = NoStd
    NoText = NoText
    Nothing = Nothing
    MaxLong = 8
    DefaultLimit = 7
    MaxChanges = 1
    Machines <- MCMachines
    Requests <- MCRequests
    BuildLogs <- MCBuildLogs
    Unit <- MCUnit
    Names <- MCNames
    Members <- MCMembers
INVARIANTS TypeOK UsedIsListed SelectedIsListed BuiltForItsDevice ProblemsAreTheFirst
INVARIANTS CompletionsMatch TabStops DefinitionIsFound DeclarationIsFirst TypeDefinitionIsTheTag
