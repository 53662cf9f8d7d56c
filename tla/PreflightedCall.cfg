CONSTANTS
    Calls = {c1}
    Ids = {"i1", "i2"}
    Fields <- PreflightFields
    Values <- PreflightValues
    Blanks <- MCBlanks
    DefaultRow <- PreflightDefaultRow
    OutsideRows <- PreflightRows
    Operations <- NamedOperations
SPECIFICATION SpecCaller
CHECK_DEADLOCK FALSE
INVARIANTS
    ChangesWhatWasJudged
