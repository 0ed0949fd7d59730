----------------------------- MODULE MCDevices -----------------------------
(* Instances for TLC of the event loop and of devices that live by its     *)
(* timers: Cuda with the ADB, the VIA with the interrupt controller, the   *)
(* serial and the floppy controller.  They are independent of each other:  *)
(* part says which moves.                                                  *)
EXTENDS Cuda, ViaInterrupt, Escc, Swim3, EventLoop
VARIABLE part

Bus == <<"mouse", "kbd">>

TalkKeyboard == [op |-> "talk", addr |-> KeyboardAddr, reg |-> 0]

Commands == {<<"pseudo", "autopoll", 1>>, <<"pseudo", "one_sec", 3>>,
             <<"pseudo", "read_pram", 0>>, <<"adb", TalkKeyboard>>}

\* As on a disk with 9 sectors a track: the sector asked for comes when its
\* number has eight bits (of three here), and the one after it never.
MCGapSector == -6

MCBackend == [A |-> "stdio", B |-> "socket"]

DevicesInit ==
    /\ part \in {"cuda", "via", "serial", "floppy", "loop"}
    /\ CudaInit /\ ViaInit /\ SerialInit /\ FloppyInit /\ Init
    /\ part # "loop" => queue = {} /\ ~g_realtime

allVars == <<part, cudaVars, viaAllVars, serialVars, floppyVars, vars>>

OnlyCuda   == part = "cuda"   /\ UNCHANGED <<part, viaAllVars, serialVars, floppyVars, vars>>
OnlyVia    == part = "via"    /\ UNCHANGED <<part, cudaVars, serialVars, floppyVars, vars>>
OnlySerial == part = "serial" /\ UNCHANGED <<part, cudaVars, viaAllVars, floppyVars, vars>>
OnlyFloppy == part = "floppy" /\ UNCHANGED <<part, cudaVars, viaAllVars, serialVars, vars>>
OnlyLoop   == part = "loop"   /\ UNCHANGED <<part, cudaVars, viaAllVars, serialVars, floppyVars>>

DevicesNext ==
    \/ OnlyCuda /\ CudaNext
    \/ OnlyVia /\ ViaNext
    \/ OnlySerial /\ SerialNext
    \/ OnlyFloppy /\ FloppyNext
    \/ OnlyLoop /\ Next

\* The fairness of the part that moves (CudaFairness, SerialFairness,
\* FloppyFairness, Fairness), the n-th conjuncts of the four together.
Fair1 == \/ OnlyCuda /\ TreqTimer
         \/ OnlySerial /\ ReadRr0("A")
         \/ OnlyFloppy /\ StepTimer
         \/ OnlyLoop /\ (Instruction \/ InnerLoop)
Fair2 == \/ OnlyCuda /\ SrTimer
         \/ OnlySerial /\ ReadData("A")
         \/ OnlyFloppy /\ AccessTimer
         \/ OnlyLoop /\ RealtimeThread
Fair3 == \/ OnlyCuda /\ Driver
         \/ OnlySerial /\ ReadRr0("B")
         \/ OnlyFloppy /\ FdInterrupt
         \/ OnlyLoop /\ HostClock
Fair4 == \/ OnlySerial /\ ReadData("B")
         \/ OnlyFloppy /\ FdStop

DevicesFairness ==
    WF_allVars(Fair1) /\ WF_allVars(Fair2) /\ WF_allVars(Fair3) /\ WF_allVars(Fair4)

DevicesSpec == DevicesInit /\ [][DevicesNext]_allVars /\ DevicesFairness

\* Every part goes on (DueTimersProcessed, HandshakeAnswered, SerialReceived,
\* FloppyEnds): again and again no due timer is left unless the throttle is
\* active, Cuda's driver has its interrupt, the guest has received all that was
\* sent, and the floppy driver has nothing outstanding but a read whose sector
\* is lost (SectorLost).
DevicesGoOn ==
    []<>(/\ throttle \/ \A d \in queue : d > now
         /\ drv.phase \in {"idle", "armed"} \/ cuda.sr_int
         /\ \A ch \in Channel : Len(taken[ch]) = sent[ch]
         /\ fd.pc = "idle" \/ SectorLost)
=============================================================================
