CONSTANTS
    Null = Null
    Texts <- MCTexts
    ether1 = ether1
    ether2 = ether2
    Spellings <- MCSpellings
    Names <- MCNames
    RateFields <- MCRateFields
    CounterFields <- MCCounterFields
    Resources = {"r1", "r2"}
    Name <- MCName
    Listings <- MCListings
    Requests <- MCRequests
    MaxTraffic = 2
    MaxResets = 1
    MaxClock = 2
    MaxSetBacks = 1
SPECIFICATION Spec
CHECK_DEADLOCK FALSE
INVARIANTS
    TypeOK
    RateNeverOverstates
    RatesResume
    NothingHidden
PROPERTIES
    CallReturns
