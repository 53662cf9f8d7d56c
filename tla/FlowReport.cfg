CONSTANTS
    Hosts <- MCHosts
    AddressKind <- MCAddressKind
    NoInterface = NoInterface
    Null = Null
    Text = Text
    Aliases <- MCAliases
    Flows <- MCFlows
    Endpoint = "both"
    Callers <- MCCallers
    MaxFlows = 3
SPECIFICATION Spec
CHECK_DEADLOCK FALSE
INVARIANTS
    TypeOK
    ExitCodeHonest
    MissingExplained
    OrderDoesNotMatter
    SafeIsEarned
PROPERTIES
    FindingsStay
    VerdictMovesToStronger
