CONSTANTS
    Ids = {i1, i2}
    Fields <- MCFields
    Values <- MCValues
    DefaultRow <- MCDefaultRow
    OutsideRows <- MCOutsideRows
CHECK_DEADLOCK FALSE
CONSTANTS
    Calls = {c1}
    Operations <- EveryOperation
SPECIFICATION FairSpec
INVARIANTS
    Consistent
    OkMeansDone
    ReadRiskIsReadOnly
PROPERTIES
    KeepsPromise
    EveryCallReturns
