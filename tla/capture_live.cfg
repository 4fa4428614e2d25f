SPECIFICATION FairSpec
CONSTANTS
    RingNum = 2
    QueueNum = 2
    ThreadNum = 2
    RingSize = 1
    Burst = 2
    Num = 2
    NicSize = 2
    NumMbufs = 2
    MaxPackets = 2
    Word = 8
    Header <- OneFlowAndArp
    RssQueue <- ByVersion
    SaveSettings <- AnySave
PROPERTIES
    FinishEnds
    ReceivedIsHandled
