\* Serial reception by DMA.
SPECIFICATION DevicesSpec
CONSTANTS
    BusOrder <- Bus
    Keyboards = {"kbd"}
    CudaCommands <- Commands
    InBufSize = 3
    OpenReads = 1
    MaxKeys = 2
    MaxSeconds = 2
    Irqs1 = {"via", "dma"}
    Irqs2 = {}
    DmaIrqs = {"dma"}
    ViaFlags = {"T1", "T2", "SR"}
    ViaIrq = "via"
    Backend <- MCBackend
    Burst = 3
    Silence = 6
    MaxSent = 3
    MaxWrites = 3
    DmaLengths = {1}
    Connected = {1, 2}
    NumTracks = 4
    SectorsPerTrack = 2
    NumberMod = 4
    GapSector <- MCGapSector
    Steps = {1, 2}
    MaxOps = 5
    MaxTime     = 6
    MaxTimers   = 3
    IdleSlice   = 2
    MaxSleep    = 2
    IdleCpuSave = TRUE
INVARIANTS
    DmaWithinRequest
CHECK_DEADLOCK FALSE
