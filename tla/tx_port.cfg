SPECIFICATION FairSpec
CONSTANTS
    Shapes <- MCShapes
    Burst = 2
    RingSize = 2
    NumMbufs = 6
    Traffic = 4
    Times = {4}
    MaxClones <- MCMaxClones
    MaxFailures = 1
INVARIANT
    EachPacketOnce
PROPERTIES
    TestedRingsDrain
    CallsReturn
