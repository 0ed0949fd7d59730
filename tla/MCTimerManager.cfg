\* Interleavings of the emulation thread, the audio thread and the clock, and the
\* progress of due timers under the fairness of the two threads.
SPECIFICATION FairSpec
CONSTANTS
    IdMod     = 8
    MaxAdds   = 3
    MaxTime   = 2
    Delays    <- MCDelays
    IdleSlice = 2
INVARIANTS
    UniqueIds
    NoLostWakeup
PROPERTIES
    ImplementsService
    DueTimersFire
CHECK_DEADLOCK FALSE
