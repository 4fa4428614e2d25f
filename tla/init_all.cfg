SPECIFICATION Spec
CONSTANTS
    NbPorts = {0, 1, 2, 3}
    RingNums = {1, 2, 3, 5, 80}
    Speeds <- AllSpeeds
    Unsteady = {0}
    Weight <- FileWeight
    QueueNum <- WideQueueNum
    Args <- AllArgs
    SlaveLcores = {1, 2, 3, 4, 5, 6, 7, 8, 9, 10, 11, 12, 13, 14, 15}
    MAX_CORE_SIZE = 80
    CORE_SIZE = 1024
    HalfWord = 65536
    MaxQueues = 16
INVARIANTS ThreadsOwnRing PortServedOnce
