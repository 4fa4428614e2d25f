SPECIFICATION FairSpec
CONSTANTS
    NIC_Num = 2
    SaveConfs = {"0", "1"}
    MaxPackets = 2
    RecordSize <- ShortThenLong
    BufferSize = 2
INVARIANTS TotalIsSum SavedTail
PROPERTY StopEnds
