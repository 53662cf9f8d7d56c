CONSTANTS
    Programs <- MCPrograms
    Comments <- MCComments
    MaxLines = 2
SPECIFICATION Spec
CHECK_DEADLOCK FALSE
INVARIANTS
    AcceptsInAnyLayout
