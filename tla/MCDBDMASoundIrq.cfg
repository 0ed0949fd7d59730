\* Interrupts of the sound output channel.
SPECIFICATION Spec
CONSTANTS
    Threaded  = {TRUE}
    Programs  <- MCPrograms
    Requests  <- MCRequests
    Selects   <- MCSelects
    Polling   <- MCPolling
    MaxTimers = 2
INVARIANTS
    SoundInterruptNotLost
CHECK_DEADLOCK FALSE
