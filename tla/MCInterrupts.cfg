\* The CPU with the Mac I/O interrupt controller, and AMIC.
SPECIFICATION InterruptsSpec
CONSTANTS
    scsiDma = scsiDma
    ethernet = ethernet
    AddrMod = 4
    Targets <- MCTargets
    GuestMsr <- MCGuestMsr
    TimerIds <- MCTimerIds
    Irqs1 <- MCIrqs1
    Irqs2 <- MCIrqs2
    DmaIrqs <- MCDmaIrqs
    SlotInts = {"VBL", "SLOT_0"}
    Via2Ints = {"ALL_SLOT", "SCSI_IRQ"}
    DmaInts = {"SOUND"}
    CpuInts = {"VIA1", "VIA2", "ALL_DMA"}
    BufLen = 2
    MaxSndTimers = 2
INVARIANTS
    PendingIsSignalled
    InterruptsDelivered
    CascadeReachesCpu
    SoundLevelReported
PROPERTIES
    EmulatedEdgesRecorded
CHECK_DEADLOCK FALSE
