CONSTANTS
    Hosts <- MCHosts
    AddressKind <- MCAddressKind
    NoInterface = NoInterface
    Null = Null
    Text = Text
    Aliases <- MCAliases
    Flows <- MCFlows
    Endpoint = "both"
    Callers <- DefaultCallers
    MaxFlows = 3
SPECIFICATION Spec
CHECK_DEADLOCK FALSE
INVARIANTS
    ExportersDoNotPollute
