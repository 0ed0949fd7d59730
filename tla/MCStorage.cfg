\* The storage controllers, their devices and their drivers.
SPECIFICATION StorageSpec
CONSTANTS
    Ids = {0, 1, 2}
    HostId = 2
    Targets = {1}
    CmdLen = 2
    CacheLen = 2
    RespLen = 3
    FifoDepth = 2
    Commands <- MCCommands
    Messages <- MCMessages
    CurioFifo = 2
    MaxCurio = 3
    CurioCommands <- MCCurioCommands
    SecWords = 2
    CacheSecs = 2
    PktWords = 2
    RespWords = 2
    NoData = NoData
    HdCommands <- MCHdCommands
    Packets <- MCPackets
    ByteLimits = {2, 4}
    Splits = {0, 1}
INVARIANTS
    BusConsistent
    DataIntact
    CurioDataIntact
    MediumIntact
    NothingPending
PROPERTIES
    StorageCommandsEnd
CHECK_DEADLOCK FALSE
