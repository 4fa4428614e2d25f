SPECIFICATION FairRingSpec
CONSTANTS
    Producer = {p1}
    Size = 4
    Wrap = 8
    Num = 2
    MaxSend = 10
INVARIANT IndexOrder
PROPERTIES ImplementsQueue EveryPacketArrives
