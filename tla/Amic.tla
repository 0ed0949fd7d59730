-------------------------------- MODULE Amic --------------------------------
(***************************************************************************)
(* The I/O controller of the first Power Macintoshes (devices/ioctrl/      *)
(* amic.cpp): its cascade of interrupts, slots into a pseudo VIA2 and VIA2 *)
(* and DMA into the CPU's lines, and the double-buffered sound output,     *)
(* whose buffers are emptied by the host's audio thread.                   *)
(*                                                                         *)
(* amic holds the interrupt registers, each a set of sources; a slot is in *)
(* slot_ifr when its bit is 0, as the register has reverse logic.  seen is *)
(* a ghost: dev_irq_lines at the guest's last clear of the CPU interrupt.  *)
(* snd is the AmicSndOutDma object.  Both threads change its control       *)
(* register and its level without a lock: every read and every write of    *)
(* them is a step, of the emulation thread at emu.pc, of the audio thread  *)
(* at aud.pc.                                                              *)
(***************************************************************************)
EXTENDS Naturals

CONSTANTS
    SlotInts,   \* interrupts of the slots, "VBL" among them
    Via2Ints,   \* interrupts of the pseudo VIA2, "ALL_SLOT" among them
    DmaInts,    \* DMA channels that report interrupts, "SOUND" among them
    CpuInts,    \* lines of the CPU, "VIA2" and "ALL_DMA" among them
    BufLen,     \* out_buf_len
    MaxSndTimers \* bound: immediate timers of the sound channel in the queue

ASSUME AmicAssumption ==
    /\ "VBL" \in SlotInts /\ "ALL_SLOT" \in Via2Ints /\ "SOUND" \in DmaInts
    /\ {"VIA2", "ALL_DMA"} \subseteq CpuInts
    /\ BufLen \in Nat \ {0} /\ MaxSndTimers \in Nat \ {0}

VARIABLES amic, snd, emu, aud
amicVars == <<amic, snd, emu, aud>>

Buffers == {0, 1}
Idle == [pc |-> "idle", ctrl |-> [flags |-> {}, enables |-> {}], level |-> FALSE,
         clear |-> {}, set |-> {}]

AmicInit ==
    /\ amic = [slot_ifr |-> {}, slot_ier |-> {}, slot_irq |-> FALSE,
               via2_ifr |-> {}, via2_ier |-> {}, via2_irq |-> FALSE,
               dma_ifr |-> {}, dma_irq |-> FALSE,
               mode |-> FALSE, lines |-> {}, flag |-> FALSE, pin |-> FALSE,
               aborted |-> FALSE, seen |-> {}]
    /\ snd = [ctrl |-> [flags |-> {}, enables |-> {}], irq_level |-> FALSE, timers |-> 0,
              enabled |-> FALSE, streaming |-> FALSE, buf_num |-> 0, buf_pos |-> 0]
    /\ emu = Idle
    /\ aud = Idle

-----------------------------------------------------------------------------
(* The cascade, as operators from one state of amic to the next.           *)

With(set, x, state) == IF state THEN set \cup {x} ELSE set \ {x}

\* Any report, of a falling line too, latches the CPU interrupt.  Native mode
\* is not implemented: ABORT_F ends the emulator.
AckCpuInt(a, int, state) ==
    IF ~a.mode THEN [a EXCEPT !.aborted = TRUE]
    ELSE [a EXCEPT !.lines = With(@, int, state), !.flag = TRUE, !.pin = TRUE]

\* Only a change of the VIA2's own interrupt is reported to the CPU.
UpdateVia2Irq(a) ==
    LET new_irq == a.via2_ifr \cap a.via2_ier # {}
    IN  IF new_irq = a.via2_irq THEN a
        ELSE AckCpuInt([a EXCEPT !.via2_irq = new_irq], "VIA2", new_irq)

AckVia2Int(a, int, state) == UpdateVia2Irq([a EXCEPT !.via2_ifr = With(@, int, state)])

AckSlotInt(a, int, state) ==
    LET b == [a EXCEPT !.slot_ifr = With(@, int, state)]
        new_irq == b.slot_ifr \cap b.slot_ier # {}
    IN  IF new_irq = b.slot_irq THEN b
        ELSE AckVia2Int([b EXCEPT !.slot_irq = new_irq], "ALL_SLOT", new_irq)

\* The flags of the DMA channels; the code has only sound report any.
AckDmaInt(a, int, state) ==
    LET b == [a EXCEPT !.dma_ifr = With(@, int, state)]
        new_irq == b.dma_ifr # {}
    IN  IF new_irq = b.dma_irq THEN b
        ELSE AckCpuInt([b EXCEPT !.dma_irq = new_irq], "ALL_DMA", new_irq)

\* Mutant: the flags are changed and the interrupt is not.
WriteVia2IerSilent(a, ints, set) ==
    [a EXCEPT !.via2_ier = IF set THEN @ \cup ints ELSE @ \ ints]

WriteVia2Ier(a, ints, set) ==
    UpdateVia2Irq([a EXCEPT !.via2_ier = IF set THEN @ \cup ints ELSE @ \ ints])

WriteVia2Ifr(a, ints) == UpdateVia2Irq([a EXCEPT !.via2_ifr = @ \ ints])

\* The slots' enable register is only stored.
WriteSlotIer(a, ints, set) == [a EXCEPT !.slot_ier = IF set THEN @ \cup ints ELSE @ \ ints]

WriteSlotIfr(a) == AckSlotInt(a, "VBL", FALSE)

\* Int_Ctrl: CPU_INT_CLEAR, and CPU_INT_MODE, which can only be set.
WriteIntCtrl(a, clear, mode) ==
    LET b == IF clear THEN [a EXCEPT !.flag = FALSE, !.seen = a.lines,
                                     !.pin = IF a.flag THEN FALSE ELSE @]
                      ELSE a
    IN  [b EXCEPT !.mode = @ \/ mode]

Step(a) == amic' = a /\ UNCHANGED <<snd, emu, aud>>

\* ack_int and ack_dma_int: the cascade level of a device's interrupt is part of
\* its id; the SCSI controller's DRQ callback reports as a VIA2 interrupt does.
DeviceReport ==
    \E state \in BOOLEAN :
        \/ \E int \in SlotInts : Step(AckSlotInt(amic, int, state))
        \/ \E int \in Via2Ints \ {"ALL_SLOT"} : Step(AckVia2Int(amic, int, state))
        \/ \E int \in CpuInts \ {"VIA2", "ALL_DMA"} : Step(AckCpuInt(amic, int, state))
        \/ \E int \in DmaInts : Step(AckDmaInt(amic, int, state))

RegisterWrite ==
    \/ \E ints \in SUBSET Via2Ints, set \in BOOLEAN : Step(WriteVia2Ier(amic, ints, set))
    \/ \E ints \in SUBSET Via2Ints : Step(WriteVia2Ifr(amic, ints))
    \/ \E ints \in SUBSET SlotInts, set \in BOOLEAN : Step(WriteSlotIer(amic, ints, set))
    \/ Step(WriteSlotIfr(amic))
    \/ \E clear, mode \in BOOLEAN : Step(WriteIntCtrl(amic, clear, mode))

\* The cascade with any devices and DMA channels.
CascadeNext == ~amic.aborted /\ (DeviceReport \/ RegisterWrite)

-----------------------------------------------------------------------------
(* AmicSndOutDma.  A flag of a buffer has the number of the buffer, and so *)
(* has its enable.                                                         *)

Level(ctrl) == ctrl.flags \cap ctrl.enables # {}

\* The four steps of update_irq: the read of the register, that of the level,
\* the store of the new level, the timer.  th is the thread's record and done
\* what it has to do when there is no change.
Compute(th) == [th EXCEPT !.pc = "compare", !.level = Level(snd.ctrl)]

Compare(th, done) == IF th.level = snd.irq_level THEN [th EXCEPT !.pc = done, !.level = FALSE]
                     ELSE [th EXCEPT !.pc = "store"]

\* Mutant: the timer is added before the level is stored.
StoreLevelLate(th) ==
    \/ th.pc = "store" /\ snd' = [snd EXCEPT !.timers = @ + 1]
    \/ th.pc = "notify" /\ snd' = [snd EXCEPT !.irq_level = th.level]

StoreLevel(th) ==
    \/ th.pc = "store" /\ snd' = [snd EXCEPT !.irq_level = th.level]
    \/ th.pc = "notify" /\ snd' = [snd EXCEPT !.timers = @ + 1]

Stored(th, done) == IF th.pc = "store" THEN [th EXCEPT !.pc = "notify"]
                    ELSE [th EXCEPT !.pc = done, !.level = FALSE]

\* The guest writes Snd_Out_DMA: flags to clear (err: the error flag, which is
\* never set), and new enables.
WriteSndOutDma ==
    /\ emu.pc = "idle"
    /\ \E clear, set \in SUBSET Buffers, err \in BOOLEAN :
           emu' = [emu EXCEPT !.pc = IF clear # {} \/ err THEN "clear" ELSE "enables",
                              !.ctrl = snd.ctrl, !.clear = clear, !.set = set]
    /\ UNCHANGED <<amic, snd, aud>>

ClearFlags ==
    /\ emu.pc = "clear"
    /\ snd' = [snd EXCEPT !.ctrl = [emu.ctrl EXCEPT !.flags = @ \ emu.clear]]
    /\ emu' = [emu EXCEPT !.pc = "compute", !.ctrl = Idle.ctrl, !.clear = {}]
    /\ UNCHANGED <<amic, aud>>

EmuUpdateIrq ==
    \/ emu.pc = "compute" /\ emu' = Compute(emu) /\ UNCHANGED <<amic, snd, aud>>
    \/ emu.pc = "compare" /\ emu' = Compare(emu, "read") /\ UNCHANGED <<amic, snd, aud>>
    \/ snd.timers < MaxSndTimers /\ StoreLevel(emu) /\ emu' = Stored(emu, "read")
       /\ UNCHANGED <<amic, aud>>

\* The enables change after the level was computed, and change no level.
ReadEnables ==
    /\ emu.pc = "read"
    /\ emu' = [emu EXCEPT !.pc = "enables", !.ctrl = snd.ctrl]
    /\ UNCHANGED <<amic, snd, aud>>

WriteEnables ==
    /\ emu.pc = "enables"
    /\ snd' = [snd EXCEPT !.ctrl = [flags |-> emu.ctrl.flags, enables |-> emu.set]]
    /\ emu' = Idle
    /\ UNCHANGED <<amic, aud>>

\* Snd_Out_Ctrl: init forgets a level that is up and reports nothing; the
\* stream is started.  Switched off, the stream goes on to the end of buffer 1;
\* if it still does, the position may be one the audio thread is just adding to.
StartSound ==
    /\ emu.pc = "idle" /\ ~snd.enabled
    /\ \E pos \in IF snd.streaming THEN {0, snd.buf_pos} ELSE {0} :
           snd' = [snd EXCEPT !.buf_num = 0, !.buf_pos = pos, !.irq_level = FALSE,
                              !.enabled = TRUE, !.streaming = TRUE]
    /\ UNCHANGED <<amic, emu, aud>>

StopSound ==
    /\ emu.pc = "idle" /\ snd.enabled
    /\ snd' = [snd EXCEPT !.enabled = FALSE]
    /\ UNCHANGED <<amic, emu, aud>>

\* The immediate timer reads the level when it fires.
SoundTimer ==
    /\ emu.pc = "idle" /\ snd.timers > 0
    /\ amic' = AckDmaInt(amic, "SOUND", snd.irq_level)
    /\ snd' = [snd EXCEPT !.timers = @ - 1]
    /\ UNCHANGED <<emu, aud>>

\* pull_data on the audio thread, with data left in the buffer.
PullSome ==
    /\ aud.pc = "idle" /\ snd.streaming /\ snd.buf_pos < BufLen
    /\ \E n \in 1 .. BufLen - snd.buf_pos : snd' = [snd EXCEPT !.buf_pos = @ + n]
    /\ UNCHANGED <<amic, emu, aud>>

\* The buffer is drained.
Drained ==
    /\ aud.pc = "idle" /\ snd.streaming /\ snd.buf_pos >= BufLen
    /\ aud' = [aud EXCEPT !.pc = "flag", !.ctrl = snd.ctrl]
    /\ UNCHANGED <<amic, snd, emu>>

RaiseFlag ==
    /\ aud.pc = "flag"
    /\ snd' = [snd EXCEPT !.ctrl = [aud.ctrl EXCEPT !.flags = @ \cup {snd.buf_num}]]
    /\ aud' = [aud EXCEPT !.pc = "compute", !.ctrl = Idle.ctrl]
    /\ UNCHANGED <<amic, emu>>

AudUpdateIrq ==
    \/ aud.pc = "compute" /\ aud' = Compute(aud) /\ UNCHANGED <<amic, snd, emu>>
    \/ aud.pc = "compare" /\ aud' = Compare(aud, "toggle") /\ UNCHANGED <<amic, snd, emu>>
    \/ snd.timers < MaxSndTimers /\ StoreLevel(aud) /\ aud' = Stored(aud, "toggle")
       /\ UNCHANGED <<amic, emu>>

\* Playback ends behind buffer 1, or the other buffer is played from its start.
ToggleBuffer ==
    /\ aud.pc = "toggle"
    /\ snd' = IF snd.buf_num = 1 /\ ~snd.enabled THEN [snd EXCEPT !.streaming = FALSE]
              ELSE [snd EXCEPT !.buf_pos = 0, !.buf_num = 1 - @]
    /\ aud' = Idle
    /\ UNCHANGED <<amic, emu>>

AudioThread == PullSome \/ Drained \/ RaiseFlag \/ AudUpdateIrq \/ ToggleBuffer

\* What the emulation thread does next, once the guest has begun it.
InWrite == ClearFlags \/ EmuUpdateIrq \/ ReadEnables \/ WriteEnables

\* The sound output and the CPU's interrupt register; of the cascade it only
\* uses what CascadeNext has for every DMA channel.
SoundNext ==
    /\ ~amic.aborted
    /\ \/ emu.pc = "idle" /\ \E clear, mode \in BOOLEAN : Step(WriteIntCtrl(amic, clear, mode))
       \/ WriteSndOutDma \/ InWrite \/ StartSound \/ StopSound \/ SoundTimer
       \/ AudioThread

\* The whole chip, with DMA channels that report anything, and with sound as
\* the only one to report the sound interrupt.
AnyDmaSpec == AmicInit /\ [][CascadeNext \/ SoundNext]_amicVars

SoundFlagKept == "SOUND" \in amic'.dma_ifr <=> "SOUND" \in amic.dma_ifr
AmicSpec == AmicInit /\ [][(CascadeNext /\ SoundFlagKept) \/ SoundNext]_amicVars

-----------------------------------------------------------------------------
\* Whatever is raised and enabled at the VIA2 or flagged by a DMA channel is on
\* a line of the CPU, and the guest, which is interrupted for a change of the
\* lines only, has seen the lines as they are or has its interrupt pending: no
\* order of reports, flag clears, enables and clears of the CPU's latch loses a
\* change (ack_slot_int, update_via2_irq, ack_dma_int, ack_cpu_int).
CascadeReachesCpu ==
    ~amic.aborted =>
        /\ "VIA2" \in amic.lines <=> amic.via2_ifr \cap amic.via2_ier # {}
        /\ "ALL_DMA" \in amic.lines <=> amic.dma_ifr # {}
        /\ amic.lines # amic.seen => amic.flag
        /\ amic.flag = amic.pin

\* The level of the sound interrupt never stays behind: if it is up and no
\* timer is on its way to report it, the DMA interrupt is flagged, though the
\* level is raised and lowered by two threads (AmicSndOutDma::update_irq).
SoundLevelReported ==
    snd.irq_level /\ snd.timers = 0 /\ "notify" \notin {emu.pc, aud.pc} /\ ~amic.aborted
        => "SOUND" \in amic.dma_ifr
=============================================================================
