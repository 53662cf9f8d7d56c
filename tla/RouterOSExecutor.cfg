CONSTANTS
    Calls = {c1, c2}
    Ids = {i1, i2}
    Fields <- MCFields
    Values <- MCValues
    DefaultRow <- MCDefaultRow
    OutsideRows <- MCOutsideRows
    Operations <- FallbackOperations
SPECIFICATION Spec
SYMMETRY Symmetry
CHECK_DEADLOCK FALSE
INVARIANTS
    TypeOK
    ChangesTheRightRow
PROPERTIES
    AnswerIsFinal
    PatchKeepsTheRest
