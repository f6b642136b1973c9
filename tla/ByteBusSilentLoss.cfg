SPECIFICATION TileSpec
CONSTANTS
    Size = 4
    NumRegs = 3
    Programs <- BenchPrograms
    Hosts <- HostAsWritten
    MaxSof = 1
    K = 3
    P = 8
    Loads <- MCLoads
    Uniform <- Latches
    PowerUps <- MCPowerUps
    Planes <- CoreAlone
PROPERTIES LostFrameIsSaid
