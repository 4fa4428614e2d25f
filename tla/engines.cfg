SPECIFICATION Spec
CONSTANTS
    Stream = {1, 2}
    Mbufs <- MCMbufs
    Engine = {"io", "mac", "macswap", "rxonly", "txonly", "flowgen", "csum", "icmpecho"}
    Kinds <- MCKinds
    CsumConfigs <- MCConfigs
    TxPkts <- MCTxPkts
    BurstSizes = {1, 2, 3}
    RetryNums = {0, 1}
    MAX_PKT_BURST = 2
    UINT8 = 2
    HDR_LEN = 42
    mbuf_data_size = 70
    tailroom = 64
    nb_txd = 4
    cfg_n_flows = 2
    MaxBursts <- MCMaxBursts
    MaxChanges <- MCMaxChanges
INVARIANTS
    MbufConservation
    CountersAgree
    SentAsMade
    LcoresSurvive
PROPERTY BurstsEnd
CHECK_DEADLOCK FALSE
