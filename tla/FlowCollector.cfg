CONSTANTS
    Datagrams <- MCDatagrams
    Buffer = 9000
    Mode = "both"
    StatusEvery = 10
    QueueLimit = 1
    MaxPackets = 2
    MaxRuns = 2
    MaxFaults = 2
SPECIFICATION FairSpec
CHECK_DEADLOCK FALSE
INVARIANTS
    TypeOK
    RecordsAccounted
    TornEndsTheRun
    WrittenInOrder
    BatchFits
    StatusHonest
PROPERTIES
    LinesSurvive
    SocketDrains
