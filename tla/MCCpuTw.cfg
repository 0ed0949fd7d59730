\* The conditions of the tw instruction.
SPECIFICATION CpuSpec
CONSTANTS
    AddrMod  = 4
    Targets <- MCTargets
    GuestMsr <- MCGuestMsr
    TimerIds <- MCTimerIds
    W = 4
    Edges <- MCEdges
    TrapNames = {"tw"}
    NumRegs = 4
    PageSize = 8
    NumPages = 3
    Instructions <- MCInstructions
    InitGpr <- MCGpr
    InitMem <- MCMem
    Counts = {0, 3, 7, 8}
    Matches = {1, 12}
    MaxFaults = 3
INVARIANTS
    TrapsAsNamed
CHECK_DEADLOCK FALSE
