SPECIFICATION Spec
CONSTANTS
    NbPorts = {2}
    RingNums = {4}
    Speeds <- SlowSpeeds
    Unsteady = {}
    Weight <- FileWeight
    QueueNum <- FileQueueNum
    Args <- TwoTwo
    SlaveLcores = {1, 2, 3, 4, 5, 6, 7, 8, 9, 10, 11, 12, 13, 14, 15}
    MAX_CORE_SIZE = 80
    CORE_SIZE = 1024
    HalfWord = 65536
    MaxQueues = 16
INVARIANT QueuePolledOnce
