SPECIFICATION Spec
CONSTANTS
    RingNum = 2
    QueueNum = 2
    ThreadNum = 2
    RingSize = 2
    Burst = 2
    Num = 2
    NicSize = 2
    NumMbufs = 3
    MaxPackets = 4
    Word = 8
    Header <- TwoFlows
    RssQueue <- ByVersion
    SaveSettings <- AnySave
INVARIANTS
    TypeOK
    MbufConservation
    RingAccounting
    FlowOrder
    DumpWellFormed
    ClosedDumpComplete
    CountRxCovers
