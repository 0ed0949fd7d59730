\* Address translation, the address map and PCI bus numbers.
SPECIFICATION MemorySpec
CONSTANTS
    Segments = {0, 1}
    Indexes = {0}
    Region <- MCRegion
    Ways = {1}
    Cpus = {TRUE, FALSE}
    Vsids = {0}
    Tables = {0, 1}
    SrValues <- MCSrValues
    PteValues <- MCPteValues
    BatValues <- MCBatValues
    IoOverBlocks = FALSE
    MsrValues <- MCMsrValues
    MaxChanges = 2
    MaxMisses = 2
    Top = 6
    RamSize = 2
    Bars = {"a0", "a2", "brom", "gc"}
    SizeOf <- MCSizeOf
    DevOf <- MCDevOf
    Roms = {"brom"}
    Fixed = {"gc"}
    Bridges = {"p", "q", "r", "s", "t", "u"}
    Host = "host"
    BridgeDevs <- MCBridgeDevs
    MaxBus = 9
INVARIANTS
    Coherent
    ReferencesRecorded
    RegionsFollowBars
    BusesReached
CHECK_DEADLOCK FALSE
