CONSTANTS
    Datagrams <- FewDatagrams
    Buffer = 9000
    Mode = "src"
    StatusEvery = 0
    QueueLimit = 2
    MaxPackets = 2
    MaxRuns = 2
    MaxFaults = 1
SPECIFICATION Spec
CHECK_DEADLOCK FALSE
INVARIANTS
    EachLineIsARecord
