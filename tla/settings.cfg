SPECIFICATION Spec
CONSTANTS
    Port = {0, 1}
    Probed = {0}
    QueueNums = {0, 2, 5}
    RxModes = {"plain", "extended"}
    ExtendModes = {"extended"}
    Threshes = {"default", "user"}
    dev_info <- MCDevInfo
    num_tcs = 4
    nb_fwd_lcores = 4
    McAddrs = {a1, a2, a3}
    a1 = a1
    a2 = a2
    a3 = a3
    MCAST_POOL_INC = 2
    MaxChanges = 3
INVARIANTS
    FlagsCover
    SettingsInForce
    TablesConsistent
SYMMETRY McSymmetry
CHECK_DEADLOCK FALSE
