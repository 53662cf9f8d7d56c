CONSTANTS
    Programs <- MCPrograms
    Comments <- MCComments
    MaxLines = 3
SPECIFICATION Spec
CHECK_DEADLOCK FALSE
INVARIANTS
    ReadsWhatIsWritten
    RefusedForOneReason
