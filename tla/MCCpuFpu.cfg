\* The opcode table while MSR.FP is clear.
SPECIFICATION CpuSpec
CONSTANTS
    AddrMod  = 4
    Targets <- MCTargets
    GuestMsr <- MCGuestMsr
    TimerIds <- MCTimerIds
    W = 4
    Edges <- MCEdges
    TrapNames = {"twi"}
    NumRegs = 4
    PageSize = 8
    NumPages = 3
    Instructions <- MCInstructions
    InitGpr <- MCGpr
    InitMem <- MCMem
    Counts = {0, 3, 7, 8}
    Matches = {1, 12}
    MaxFaults = 3
INVARIANTS
    NoFpuTableWhenDisabled
CHECK_DEADLOCK FALSE
