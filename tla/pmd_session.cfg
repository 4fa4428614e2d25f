SPECIFICATION FairSpec
CONSTANTS
    Port = {0, 1}
    ProbedPorts = {{0}, {0, 1}}
    nb_lcores = 2
    Topologies = {"paired"}
    Engines = {"io", "icmpecho"}
    PortLists <- MCLists
    QueueNums = {0, 3, 4}
    MaxQueues = 3
    Sockets = {0, 1}
    MaxChanges = 3
INVARIANTS
    ConfiguredWithinProbed
    StreamsDivided
    StartedPortsReady
    StreamsUsable
PROPERTIES
    CommandsReturn
