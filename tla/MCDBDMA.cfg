\* Channels of devices, polled or not, and the sound output channel.
SPECIFICATION FairSpec
CONSTANTS
    Threaded  = {FALSE, TRUE}
    Programs  <- MCPrograms
    Requests  <- MCRequests
    Selects   <- MCSelects
    Polling   <- MCPolling
    MaxTimers = 2
INVARIANTS
    BufferAccounted
    InterruptNotLost
    OneLoopTimer
    NoStall
PROPERTIES
    SoundGoesOn
CHECK_DEADLOCK FALSE
