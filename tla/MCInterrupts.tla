---------------------------- MODULE MCInterrupts ----------------------------
(* Instances for TLC of the two ways interrupts reach the CPU.  MacIoCpu:  *)
(* a DMA interrupt in bank 1 and a device interrupt in bank 2, one         *)
(* decrementer timer, and one address besides the vectors.  Amic: every    *)
(* level of its cascade, and its sound output.  They are independent of    *)
(* each other: part says which moves.                                      *)
EXTENDS MacIoCpu, Amic
CONSTANTS scsiDma, ethernet
VARIABLE part

MCTimerIds == {1}
MCIrqs1    == {scsiDma}
MCIrqs2    == {ethernet}
MCDmaIrqs  == {scsiDma}
MCTargets  == {3}
MCGuestMsr == {"EE"}

InterruptsInit == Init /\ AmicInit /\ part \in {"macio", "cascade", "sound"}

InterruptsNext ==
    \/ part = "macio" /\ Next /\ UNCHANGED <<part, amicVars>>
    \/ part = "cascade" /\ CascadeNext /\ UNCHANGED <<part, vars>>
    \/ part = "sound" /\ SoundNext /\ UNCHANGED <<part, vars>>

InterruptsSpec == InterruptsInit /\ [][InterruptsNext]_<<part, vars, amicVars>>
=============================================================================
