CONSTANTS
    Neighbors <- MCNeighbors
    KeysOf <- MCKeysOf
    Interfaces = {"ether1", "ether2"}
    Ports = {"ether1"}
    Target = "edge"
    PortRows <- MCPortRows
    Inventories <- MCInventories
    Requests <- MCRequests
    MaxChanges = 1
SPECIFICATION Spec
CHECK_DEADLOCK FALSE
INVARIANTS
    TypeOK
    ClearMeansClear
    NoFalseAlarm
    OrderDoesNotMatter
