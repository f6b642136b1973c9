SPECIFICATION FairTile
CONSTANTS
    Size = 4
    NumRegs = 3
    Programs <- MCPrograms
    Hosts <- SafeHosts
    MaxSof = 2
    K = 3
    P = 8
    Loads <- MCLoads
    Uniform <- Latches
    PowerUps <- MCPowerUps
    Planes <- EveryPlane
INVARIANTS FramesHold InferenceIsWhole
PROPERTIES AbsSpec RetiresForever
