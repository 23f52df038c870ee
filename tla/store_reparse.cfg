SPECIFICATION Spec
CONSTANTS
    f1 = f1
    f2 = f2
    c1 = c1
    c2 = c2
    t1 = t1
    t2 = t2
    i1 = i1
    i2 = i2
    Files <- MCFiles
    Contents <- MCContents
    OptionLists <- MCOptionLists
    UnitHandles <- TwoUnits
    IndexHandles <- TwoIndexes
    ParseResults <- OnlySuccess
    EditorReopens = FALSE
    NoContent = NoContent
    NoUnit = NoUnit
    Disposed = Disposed
PROPERTIES ReparsedWithNewOptions
