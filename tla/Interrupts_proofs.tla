-------------------------- MODULE Interrupts_proofs --------------------------
(***************************************************************************)
(* The two ways interrupts reach the CPU.  Mac I/O: CPU and controller are *)
(* each shown to behave as its own specification says, so that what is     *)
(* proved of them separately meets at the interrupt pin they share.  AMIC: *)
(* the levels of its cascade agree after every report and register write,  *)
(* and the sound interrupt's level never stays behind.                     *)
(***************************************************************************)
EXTENDS MacIoCpu, Amic, PpcExec_proofs, MacIoInterrupt_proofs


\* Every step of the composition is a step of the CPU's specification.
LEMMA CpuRefined == Spec => ExecSpec
<1>1. Init => ExecInit
  BY DEF Init
<1>2. [Next]_vars => [ExecNext]_execVars
  BY DEF Next, vars, Instruction, Callback, ExecNext, DeviceSteps
<1> QED
  BY <1>1, <1>2, PTL DEF Spec, ExecSpec

\* The steps of the CPU proper leave the interrupt pin alone.
LEMMA CpuStepsKeepPin == CpuSteps => int_pin' = int_pin
  BY DEF CpuSteps, FloatingPoint, Branch, Mtmsr, Rfi, WriteDecrementer, WriteSrr,
         SyncException, DecrementerCallback, HostSwitch, EventsDone, Wake, Commit,
         ExecSwitch

\* The controller, driven by the CPU, behaves as it is specified on its own.
THEOREM ControllerRefined == Spec => IntSpec
<1>1. Init => IntInit
  BY DEF Init
<1>2. Instruction => [IntNext]_intVars
  BY DEF Instruction, intVars, ctrlVars
<1>3. Callback => [IntNext]_intVars
  BY DEF Callback, IntNext
<1>4. CpuSteps /\ UNCHANGED ctrlVars => UNCHANGED intVars
  BY CpuStepsKeepPin DEF ctrlVars, intVars
<1>5. UNCHANGED vars => UNCHANGED intVars
  BY DEF vars, execVars, ctrlVars, intVars
<1>6. [Next]_vars => [IntNext]_intVars
  BY <1>2, <1>3, <1>4, <1>5 DEF Next
<1> QED
  BY <1>1, <1>6, PTL DEF Spec, IntSpec

\* End to end: while the guest runs with MSR.EE set, no enabled interrupt is
\* pending in the controller.
THEOREM EnabledInterruptsDelivered == Spec => []InterruptsDelivered
<1>1. PendingIsSignalled /\ NoInterruptMissed => InterruptsDelivered
  BY DEF PendingIsSignalled, NoInterruptMissed, InterruptsDelivered
<1> QED
  BY <1>1, CpuRefined, ControllerRefined, PendingSignalled, InterruptsNotMissed, PTL

-----------------------------------------------------------------------------
(* AMIC. *)

AmicType ==
    [slot_ifr: SUBSET SlotInts, slot_ier: SUBSET SlotInts, slot_irq: BOOLEAN,
     via2_ifr: SUBSET Via2Ints, via2_ier: SUBSET Via2Ints, via2_irq: BOOLEAN,
     dma_ifr: SUBSET DmaInts, dma_irq: BOOLEAN,
     mode: BOOLEAN, lines: SUBSET CpuInts, flag: BOOLEAN, pin: BOOLEAN,
     aborted: BOOLEAN, seen: SUBSET CpuInts]

\* The CPU's latch covers every change of the lines the guest has not seen.
LatchOk(a) == (a.lines # a.seen => a.flag) /\ a.flag = a.pin

\* Each of the two cascades into the CPU's lines: the line shows the stored
\* level (LineOk), and the stored level is that of the flags (Ok).
Via2LineOk(a) == "VIA2" \in a.lines <=> a.via2_irq
Via2Ok(a) == Via2LineOk(a) /\ (a.via2_irq <=> a.via2_ifr \cap a.via2_ier # {})
DmaLineOk(a) == "ALL_DMA" \in a.lines <=> a.dma_irq
DmaOk(a) == DmaLineOk(a) /\ (a.dma_irq <=> a.dma_ifr # {})

CascadeOk(a) == a \in AmicType /\ (~a.aborted => LatchOk(a) /\ Via2Ok(a) /\ DmaOk(a))

\* From a to b a line was moved and the interrupt latched.
LineMoved(a, int, state, b) ==
  /\ b \in AmicType
  /\ \/ b.aborted
     \/ /\ LatchOk(b)
        /\ b.lines = With(a.lines, int, state)
        /\ b.via2_ifr = a.via2_ifr /\ b.via2_ier = a.via2_ier
        /\ b.via2_irq = a.via2_irq
        /\ b.dma_ifr = a.dma_ifr /\ b.dma_irq = a.dma_irq

\* ack_cpu_int aborts, or moves one line and latches the interrupt.
LEMMA AckCpuIntFacts ==
  ASSUME NEW a \in AmicType, NEW int \in CpuInts, NEW state \in BOOLEAN
  PROVE  LineMoved(a, int, state, AckCpuInt(a, int, state))
  BY DEF AmicType, AckCpuInt, With, LatchOk, LineMoved

\* update_via2_irq makes the line follow the flags again, whatever happened to
\* the flags and the enables before it.
LEMMA UpdateVia2IrqOk ==
  ASSUME NEW a \in AmicType, LatchOk(a), Via2LineOk(a), DmaOk(a)
  PROVE  CascadeOk(UpdateVia2Irq(a))
<1> DEFINE new_irq == a.via2_ifr \cap a.via2_ier # {}
           b == [a EXCEPT !.via2_irq = new_irq]
<1>1. CASE new_irq = a.via2_irq
  <2>1. UpdateVia2Irq(a) = a
    BY <1>1 DEF UpdateVia2Irq
  <2>2. Via2Ok(a)
    BY <1>1 DEF Via2Ok
  <2> QED BY <2>1, <2>2 DEF CascadeOk
<1>2. CASE new_irq # a.via2_irq
  <2>1. /\ b \in AmicType /\ b.lines = a.lines /\ b.via2_irq = new_irq
        /\ b.via2_ifr = a.via2_ifr /\ b.via2_ier = a.via2_ier
        /\ b.dma_ifr = a.dma_ifr /\ b.dma_irq = a.dma_irq
    BY DEF AmicType
  <2>2. UpdateVia2Irq(a) = AckCpuInt(b, "VIA2", new_irq)
    BY <1>2 DEF UpdateVia2Irq
  <2>3. "VIA2" \in CpuInts /\ new_irq \in BOOLEAN
    BY AmicAssumption
  <2> DEFINE c == AckCpuInt(b, "VIA2", new_irq)
  <2> HIDE DEF b
  <2>4. LineMoved(b, "VIA2", new_irq, c)
    BY <2>1, <2>3, AckCpuIntFacts
  <2> HIDE DEF c
  <2>5. ASSUME ~c.aborted PROVE Via2Ok(c) /\ DmaOk(c)
    <3>1. "VIA2" \in c.lines <=> new_irq
      BY <2>4, <2>5 DEF LineMoved, With
    <3>2. "ALL_DMA" \in c.lines <=> "ALL_DMA" \in a.lines
      BY <2>1, <2>4, <2>5 DEF LineMoved, With
    <3> QED BY <2>1, <2>4, <2>5, <3>1, <3>2 DEF LineMoved, Via2Ok, Via2LineOk, DmaOk, DmaLineOk
  <2> QED BY <2>2, <2>4, <2>5 DEF LineMoved, CascadeOk, c
<1> QED BY <1>1, <1>2

\* ack_via2_int, and the writes of the VIA2's two registers, change flags or
\* enables and then update the line.
LEMMA Via2StepsOk ==
  ASSUME NEW a, CascadeOk(a), ~a.aborted
  PROVE  /\ \A int \in Via2Ints, state \in BOOLEAN : CascadeOk(AckVia2Int(a, int, state))
         /\ \A ints \in SUBSET Via2Ints, set \in BOOLEAN : CascadeOk(WriteVia2Ier(a, ints, set))
         /\ \A ints \in SUBSET Via2Ints : CascadeOk(WriteVia2Ifr(a, ints))
<1>1. a \in AmicType /\ LatchOk(a) /\ Via2LineOk(a) /\ DmaOk(a)
  BY DEF CascadeOk, Via2Ok
<1>2. ASSUME NEW ifr \in SUBSET Via2Ints
      PROVE  CascadeOk(UpdateVia2Irq([a EXCEPT !.via2_ifr = ifr]))
  <2> DEFINE b == [a EXCEPT !.via2_ifr = ifr]
  <2>1. b \in AmicType /\ LatchOk(b) /\ Via2LineOk(b) /\ DmaOk(b)
    BY <1>1 DEF AmicType, LatchOk, Via2LineOk, DmaOk, DmaLineOk
  <2> HIDE DEF b
  <2>2. CascadeOk(UpdateVia2Irq(b))
    BY <2>1, UpdateVia2IrqOk
  <2> QED BY <2>2 DEF b
<1>3. ASSUME NEW ier \in SUBSET Via2Ints
      PROVE  CascadeOk(UpdateVia2Irq([a EXCEPT !.via2_ier = ier]))
  <2> DEFINE b == [a EXCEPT !.via2_ier = ier]
  <2>1. b \in AmicType /\ LatchOk(b) /\ Via2LineOk(b) /\ DmaOk(b)
    BY <1>1 DEF AmicType, LatchOk, Via2LineOk, DmaOk, DmaLineOk
  <2> HIDE DEF b
  <2>2. CascadeOk(UpdateVia2Irq(b))
    BY <2>1, UpdateVia2IrqOk
  <2> QED BY <2>2 DEF b
<1>4. a.via2_ifr \in SUBSET Via2Ints /\ a.via2_ier \in SUBSET Via2Ints
  BY <1>1 DEF AmicType
<1>5. ASSUME NEW int \in Via2Ints, NEW state \in BOOLEAN
      PROVE  CascadeOk(AckVia2Int(a, int, state))
  <2>1. With(a.via2_ifr, int, state) \in SUBSET Via2Ints
    BY <1>4 DEF With
  <2> QED BY <1>2, <2>1 DEF AckVia2Int
<1>6. ASSUME NEW ints \in SUBSET Via2Ints, NEW set \in BOOLEAN
      PROVE  CascadeOk(WriteVia2Ier(a, ints, set))
  <2>1. (IF set THEN a.via2_ier \cup ints ELSE a.via2_ier \ ints) \in SUBSET Via2Ints
    BY <1>4
  <2> QED BY <1>3, <2>1 DEF WriteVia2Ier
<1>7. ASSUME NEW ints \in SUBSET Via2Ints
      PROVE  CascadeOk(WriteVia2Ifr(a, ints))
  BY <1>2, <1>4 DEF WriteVia2Ifr
<1> QED BY <1>5, <1>6, <1>7

\* The registers of the slots are not part of what reaches the CPU: a change
\* of them alone keeps the cascade as it was.
SameButSlots(a, b) ==
    /\ b.aborted = a.aborted /\ b.lines = a.lines /\ b.seen = a.seen
    /\ b.flag = a.flag /\ b.pin = a.pin /\ b.via2_irq = a.via2_irq
    /\ b.via2_ifr = a.via2_ifr /\ b.via2_ier = a.via2_ier
    /\ b.dma_ifr = a.dma_ifr /\ b.dma_irq = a.dma_irq

\* A change of the slots' registers keeps the rest of the cascade in order.
LEMMA SlotRegistersOk ==
  ASSUME NEW a, NEW b \in AmicType, CascadeOk(a), SameButSlots(a, b)
  PROVE  CascadeOk(b) /\ (~a.aborted => ~b.aborted)
  BY DEF SameButSlots, CascadeOk, LatchOk, Via2Ok, Via2LineOk, DmaOk, DmaLineOk

\* ack_slot_int stores the flag, and reports a change of the slots' level to
\* the VIA2.
LEMMA AckSlotIntOk ==
  ASSUME NEW a, CascadeOk(a), ~a.aborted, NEW int \in SlotInts, NEW state \in BOOLEAN
  PROVE  CascadeOk(AckSlotInt(a, int, state))
<1> DEFINE ifr == With(a.slot_ifr, int, state)
           irq == ifr \cap a.slot_ier # {}
           b == [a EXCEPT !.slot_ifr = ifr]
           c == [b EXCEPT !.slot_irq = irq]
<1>1. a \in AmicType
  BY DEF CascadeOk
<1>2. ifr \in SUBSET SlotInts /\ irq \in BOOLEAN
  BY <1>1 DEF AmicType, With
<1>3. /\ b \in AmicType /\ SameButSlots(a, b)
      /\ c \in AmicType /\ SameButSlots(a, c)
      /\ b.slot_ifr = ifr /\ b.slot_ier = a.slot_ier /\ b.slot_irq = a.slot_irq
  BY <1>1, <1>2 DEF AmicType, SameButSlots
<1>4. AckSlotInt(a, int, state) = IF irq = a.slot_irq THEN b
                                  ELSE AckVia2Int(c, "ALL_SLOT", irq)
  BY <1>3 DEF AckSlotInt
<1> HIDE DEF b, c, ifr, irq
<1>5. CascadeOk(b) /\ CascadeOk(c) /\ ~c.aborted
  BY <1>3, SlotRegistersOk
<1>6. CascadeOk(AckVia2Int(c, "ALL_SLOT", irq))
  BY <1>2, <1>5, Via2StepsOk, AmicAssumption
<1> QED BY <1>4, <1>5, <1>6

\* ack_dma_int makes its line of the CPU follow the DMA flags.
LEMMA AckDmaIntOk ==
  ASSUME NEW a, CascadeOk(a), ~a.aborted, NEW int \in DmaInts, NEW state
  PROVE  LET c == AckDmaInt(a, int, state)
         IN  CascadeOk(c) /\ (c.aborted \/ c.dma_ifr = With(a.dma_ifr, int, state))
<1> DEFINE ifr == With(a.dma_ifr, int, state)
           irq == ifr # {}
           b == [a EXCEPT !.dma_ifr = ifr]
           d == [b EXCEPT !.dma_irq = irq]
           c == AckCpuInt(d, "ALL_DMA", irq)
<1>1. a \in AmicType /\ LatchOk(a) /\ Via2Ok(a) /\ DmaOk(a)
  BY DEF CascadeOk
<1>2. ifr \in SUBSET DmaInts /\ irq \in BOOLEAN /\ "ALL_DMA" \in CpuInts
  BY <1>1, AmicAssumption DEF AmicType, With
<1>3. AckDmaInt(a, int, state) = IF irq = a.dma_irq THEN b ELSE c
  <2>1. b.dma_ifr = ifr /\ b.dma_irq = a.dma_irq
    BY <1>1 DEF AmicType
  <2> QED BY <2>1 DEF AckDmaInt
<1>4. /\ b \in AmicType /\ b.aborted = a.aborted /\ b.lines = a.lines /\ b.seen = a.seen
      /\ b.flag = a.flag /\ b.pin = a.pin /\ b.via2_irq = a.via2_irq
      /\ b.via2_ifr = a.via2_ifr /\ b.via2_ier = a.via2_ier
      /\ b.dma_ifr = ifr /\ b.dma_irq = a.dma_irq
  BY <1>1, <1>2 DEF AmicType
<1>5. /\ d \in AmicType /\ d.lines = a.lines /\ d.via2_irq = a.via2_irq
      /\ d.via2_ifr = a.via2_ifr /\ d.via2_ier = a.via2_ier
      /\ d.dma_ifr = ifr /\ d.dma_irq = irq
  BY <1>1, <1>2 DEF AmicType
<1> HIDE DEF b, d, ifr
<1>6. ASSUME irq = a.dma_irq
      PROVE  CascadeOk(b) /\ b.dma_ifr = ifr
  BY <1>1, <1>4, <1>6 DEF CascadeOk, LatchOk, Via2Ok, Via2LineOk, DmaOk, DmaLineOk
<1>7. CascadeOk(c) /\ (c.aborted \/ c.dma_ifr = ifr)
  <2>1. LineMoved(d, "ALL_DMA", irq, c)
    BY <1>2, <1>5, AckCpuIntFacts
  <2> HIDE DEF c
  <2>2. ASSUME ~c.aborted PROVE Via2Ok(c) /\ DmaOk(c) /\ c.dma_ifr = ifr
    <3>1. "ALL_DMA" \in c.lines <=> irq
      BY <2>1, <2>2 DEF LineMoved, With
    <3>2. "VIA2" \in c.lines <=> "VIA2" \in a.lines
      BY <1>5, <2>1, <2>2 DEF LineMoved, With
    <3> QED BY <1>1, <1>5, <2>1, <2>2, <3>1, <3>2 DEF LineMoved, Via2Ok, Via2LineOk, DmaOk, DmaLineOk
  <2> QED BY <2>1, <2>2 DEF LineMoved, CascadeOk
<1> HIDE DEF c
<1>8. LET e == AckDmaInt(a, int, state) IN CascadeOk(e) /\ (e.aborted \/ e.dma_ifr = ifr)
  BY <1>3, <1>6, <1>7
<1> QED BY <1>8 DEF ifr

\* A device's own line of the CPU.
LEMMA AckCpuIntOk ==
  ASSUME NEW a, CascadeOk(a), ~a.aborted,
         NEW int \in CpuInts \ {"VIA2", "ALL_DMA"}, NEW state \in BOOLEAN
  PROVE  CascadeOk(AckCpuInt(a, int, state))
<1> DEFINE c == AckCpuInt(a, int, state)
<1>1. a \in AmicType /\ Via2Ok(a) /\ DmaOk(a)
  BY DEF CascadeOk
<1>2. LineMoved(a, int, state, c)
  BY <1>1, AckCpuIntFacts
<1> HIDE DEF c
<1>3. ASSUME ~c.aborted PROVE Via2Ok(c) /\ DmaOk(c)
  <2>1. "VIA2" \in c.lines <=> "VIA2" \in a.lines
    BY <1>2, <1>3 DEF LineMoved, With
  <2>2. "ALL_DMA" \in c.lines <=> "ALL_DMA" \in a.lines
    BY <1>2, <1>3 DEF LineMoved, With
  <2> QED BY <1>1, <1>2, <1>3, <2>1, <2>2 DEF LineMoved, Via2Ok, Via2LineOk, DmaOk, DmaLineOk
<1> QED BY <1>2, <1>3 DEF LineMoved, CascadeOk, c

\* A write of Int_Ctrl clears the latch only with the lines seen as they are.
LEMMA WriteIntCtrlOk ==
  ASSUME NEW a, CascadeOk(a), ~a.aborted, NEW clear \in BOOLEAN, NEW mode \in BOOLEAN
  PROVE  LET c == WriteIntCtrl(a, clear, mode) IN CascadeOk(c) /\ c.dma_ifr = a.dma_ifr
<1> DEFINE c == WriteIntCtrl(a, clear, mode)
<1>1. a \in AmicType /\ LatchOk(a) /\ Via2Ok(a) /\ DmaOk(a)
  BY DEF CascadeOk
<1>2. /\ c \in AmicType /\ c.aborted = a.aborted /\ c.lines = a.lines
      /\ c.seen = (IF clear THEN a.lines ELSE a.seen)
      /\ c.flag = (IF clear THEN FALSE ELSE a.flag)
      /\ c.pin = (IF clear /\ a.flag THEN FALSE ELSE a.pin)
      /\ c.via2_irq = a.via2_irq
      /\ c.via2_ifr = a.via2_ifr /\ c.via2_ier = a.via2_ier
      /\ c.dma_ifr = a.dma_ifr /\ c.dma_irq = a.dma_irq
  <2>1. CASE clear
    BY <1>1, <2>1, ZenonT(40) DEF AmicType, WriteIntCtrl
  <2>2. CASE ~clear
    BY <1>1, <2>2 DEF AmicType, WriteIntCtrl
  <2> QED BY <2>1, <2>2
<1> HIDE DEF c
<1>3. LatchOk(c)
  BY <1>1, <1>2 DEF LatchOk, AmicType
<1>4. CascadeOk(c) /\ c.dma_ifr = a.dma_ifr
  BY <1>1, <1>2, <1>3 DEF CascadeOk, Via2Ok, Via2LineOk, DmaOk, DmaLineOk
<1> QED BY <1>4 DEF c

\* Every step of the chip keeps its cascade in order.
LEMMA CascadeOkInductive ==
  CascadeOk(amic) /\ [CascadeNext \/ SoundNext]_amicVars => CascadeOk(amic')
<1> SUFFICES ASSUME CascadeOk(amic), [CascadeNext \/ SoundNext]_amicVars
             PROVE  CascadeOk(amic')
  OBVIOUS
<1>1. CASE ~amic.aborted /\ DeviceReport
  <2>1. PICK state \in BOOLEAN :
          \/ \E int \in SlotInts : Step(AckSlotInt(amic, int, state))
          \/ \E int \in Via2Ints \ {"ALL_SLOT"} : Step(AckVia2Int(amic, int, state))
          \/ \E int \in CpuInts \ {"VIA2", "ALL_DMA"} : Step(AckCpuInt(amic, int, state))
          \/ \E int \in DmaInts : Step(AckDmaInt(amic, int, state))
    BY <1>1 DEF DeviceReport
  <2>2. CASE \E int \in SlotInts : Step(AckSlotInt(amic, int, state))
    BY <1>1, <2>2, AckSlotIntOk DEF Step
  <2>3. CASE \E int \in Via2Ints \ {"ALL_SLOT"} : Step(AckVia2Int(amic, int, state))
    BY <1>1, <2>3, Via2StepsOk DEF Step
  <2>4. CASE \E int \in CpuInts \ {"VIA2", "ALL_DMA"} : Step(AckCpuInt(amic, int, state))
    BY <1>1, <2>4, AckCpuIntOk DEF Step
  <2>5. CASE \E int \in DmaInts : Step(AckDmaInt(amic, int, state))
    BY <1>1, <2>5, AckDmaIntOk DEF Step
  <2> QED BY <2>1, <2>2, <2>3, <2>4, <2>5
<1>2. CASE ~amic.aborted /\ \E clear, mode \in BOOLEAN : Step(WriteIntCtrl(amic, clear, mode))
  BY <1>2, WriteIntCtrlOk DEF Step
<1>3. CASE ~amic.aborted /\ RegisterWrite
  <2>1. CASE \E ints \in SUBSET Via2Ints, set \in BOOLEAN : Step(WriteVia2Ier(amic, ints, set))
    BY <1>3, <2>1, Via2StepsOk DEF Step
  <2>2. CASE \E ints \in SUBSET Via2Ints : Step(WriteVia2Ifr(amic, ints))
    BY <1>3, <2>2, Via2StepsOk DEF Step
  <2>3. CASE \E ints \in SUBSET SlotInts, set \in BOOLEAN : Step(WriteSlotIer(amic, ints, set))
    <3>1. PICK ints \in SUBSET SlotInts, set \in BOOLEAN : Step(WriteSlotIer(amic, ints, set))
      BY <2>3
    <3> DEFINE ier == IF set THEN amic.slot_ier \cup ints ELSE amic.slot_ier \ ints
    <3>2. amic \in AmicType /\ amic.slot_ifr \in SUBSET SlotInts /\ amic.slot_irq \in BOOLEAN
          /\ ier \in SUBSET SlotInts
      BY DEF CascadeOk, AmicType
    <3>3. amic' \in AmicType /\ SameButSlots(amic, amic')
      BY <3>1, <3>2 DEF Step, WriteSlotIer, AmicType, SameButSlots
    <3> QED BY <3>3, SlotRegistersOk
  <2>4. CASE Step(WriteSlotIfr(amic))
    BY <1>3, <2>4, AckSlotIntOk, AmicAssumption DEF Step, WriteSlotIfr
  <2>5. CASE \E clear, mode \in BOOLEAN : Step(WriteIntCtrl(amic, clear, mode))
    BY <1>2, <1>3, <2>5
  <2> QED BY <1>3, <2>1, <2>2, <2>3, <2>4, <2>5 DEF RegisterWrite
<1>4. CASE ~amic.aborted /\ SoundTimer
  <2>1. amic' = AckDmaInt(amic, "SOUND", snd.irq_level)
    BY <1>4 DEF SoundTimer
  <2> QED BY <1>4, <2>1, AckDmaIntOk, AmicAssumption
<1>5. CASE amic' = amic
  BY <1>5
<1>6. WriteSndOutDma \/ InWrite \/ StartSound \/ StopSound \/ AudioThread => amic' = amic
  BY DEF WriteSndOutDma, InWrite, ClearFlags, EmuUpdateIrq, ReadEnables, WriteEnables,
         StartSound, StopSound, AudioThread, PullSome, Drained, RaiseFlag, AudUpdateIrq,
         ToggleBuffer
<1> QED BY <1>1, <1>2, <1>3, <1>4, <1>5, <1>6 DEF CascadeNext, SoundNext, amicVars

\* The AMIC's cascade loses no change of a line, in any order of reports and
\* register writes, and whatever the DMA channels report.
THEOREM CascadeDelivered == AnyDmaSpec => []CascadeReachesCpu
<1> DEFINE Inv == CascadeOk(amic)
<1>1. AmicInit => Inv
  BY DEF AmicInit, CascadeOk, AmicType, LatchOk, Via2Ok, Via2LineOk, DmaOk, DmaLineOk
<1>2. Inv => CascadeReachesCpu
  BY DEF CascadeOk, LatchOk, Via2Ok, Via2LineOk, DmaOk, DmaLineOk, CascadeReachesCpu
<1>3. Inv /\ [CascadeNext \/ SoundNext]_amicVars => Inv'
  BY CascadeOkInductive
<1> QED BY <1>1, <1>2, <1>3, PTL DEF AnyDmaSpec

\* The sound channel and its two threads.
CtrlType == [flags: SUBSET Buffers, enables: SUBSET Buffers]
ThreadType == [pc: {"idle", "clear", "compute", "compare", "store", "notify", "read", "enables", "flag", "toggle"},
               ctrl: CtrlType, level: BOOLEAN, clear: SUBSET Buffers, set: SUBSET Buffers]
SndType == [ctrl: CtrlType, irq_level: BOOLEAN, timers: Nat, enabled: BOOLEAN,
            streaming: BOOLEAN, buf_num: Buffers, buf_pos: Nat]
SoundTypeOK == snd \in SndType /\ emu \in ThreadType /\ aud \in ThreadType

\* The steps of update_irq, of either thread: types, and what they do to the
\* level and the timers.
LEMMA CompareType ==
  ASSUME SoundTypeOK, NEW th \in ThreadType, th.pc = "compare", NEW done \in {"read", "toggle"}
  PROVE  Compare(th, done) \in ThreadType /\ Compare(th, done).pc # "notify"
BY DEF Compare, ThreadType

LEMMA ComputeType ==
  ASSUME SoundTypeOK, NEW th \in ThreadType
  PROVE  Compute(th) \in ThreadType /\ Compute(th).pc = "compare"
<1>1. Level(snd.ctrl) \in BOOLEAN
  BY DEF Level
<1> QED BY <1>1 DEF Compute, ThreadType

\* The store of the level is followed by the timer: in between the thread is
\* about to notify, and afterwards a timer is in the queue.
LEMMA StoreLevelFacts ==
  ASSUME SoundTypeOK, NEW th \in ThreadType, StoreLevel(th), NEW done \in {"read", "toggle"}
  PROVE  /\ Stored(th, done) \in ThreadType /\ snd' \in SndType
         /\ Stored(th, done).pc = "notify" \/ snd'.timers # 0
<1>1. CASE th.pc = "store"
  <2>1. snd' = [snd EXCEPT !.irq_level = th.level]
    BY <1>1 DEF StoreLevel
  <2> QED BY <1>1, <2>1 DEF Stored, ThreadType, SoundTypeOK, SndType
<1>2. CASE th.pc = "notify"
  <2>1. snd' = [snd EXCEPT !.timers = @ + 1]
    BY <1>2 DEF StoreLevel
  <2>2. snd' \in SndType /\ snd'.timers # 0
    BY <2>1 DEF SoundTypeOK, SndType
  <2>3. Stored(th, done) = [th EXCEPT !.pc = done, !.level = FALSE]
    BY <1>2 DEF Stored
  <2>4. Stored(th, done) \in ThreadType
    BY <2>3 DEF ThreadType
  <2> QED BY <2>2, <2>4
<1> QED BY <1>1, <1>2 DEF StoreLevel

\* What a step of the sound channel does to the four facts the level's
\* invariant is about.
LEMMA SoundStep ==
  ASSUME SoundTypeOK, BufLen \in Nat,
         InWrite \/ WriteSndOutDma \/ StartSound \/ StopSound \/ AudioThread
  PROVE  /\ SoundTypeOK' /\ amic' = amic
         /\ \/ "notify" \in {emu'.pc, aud'.pc}
            \/ snd'.timers # 0
            \/ ~snd'.irq_level
            \/ snd'.timers = snd.timers /\ snd'.irq_level = snd.irq_level
               /\ "notify" \notin {emu.pc, aud.pc}
<1> USE DEF SoundTypeOK
<1>0. Idle \in ThreadType /\ Idle.pc = "idle" /\ Idle.ctrl \in CtrlType
  BY DEF Idle, ThreadType, CtrlType
<1>1. CASE WriteSndOutDma
  <2>1. PICK clear \in SUBSET Buffers, set \in SUBSET Buffers, err \in BOOLEAN :
          emu' = [emu EXCEPT !.pc = IF clear # {} \/ err THEN "clear" ELSE "enables",
                             !.ctrl = snd.ctrl, !.clear = clear, !.set = set]
    BY <1>1 DEF WriteSndOutDma
  <2>2. emu' \in ThreadType
    BY <2>1 DEF ThreadType, SndType
  <2> QED BY <1>1, <2>2 DEF WriteSndOutDma
<1>2. CASE ClearFlags
  <2>1. snd' = [snd EXCEPT !.ctrl = [emu.ctrl EXCEPT !.flags = @ \ emu.clear]]
    BY <1>2 DEF ClearFlags
  <2>2. [emu.ctrl EXCEPT !.flags = @ \ emu.clear] \in CtrlType
    BY DEF ThreadType, CtrlType
  <2>3. snd' \in SndType /\ snd'.timers = snd.timers /\ snd'.irq_level = snd.irq_level
    BY <2>1, <2>2 DEF SndType
  <2>4. emu' \in ThreadType /\ emu'.pc = "compute"
    BY <1>0, <1>2 DEF ClearFlags, ThreadType
  <2> QED BY <1>2, <2>3, <2>4 DEF ClearFlags
<1>3. CASE EmuUpdateIrq
  <2>1. CASE emu.pc = "compare" /\ emu' = Compare(emu, "read") /\ UNCHANGED <<amic, snd, aud>>
    BY <2>1, CompareType
  <2>3. CASE emu.pc = "compute" /\ emu' = Compute(emu) /\ UNCHANGED <<amic, snd, aud>>
    BY <2>3, ComputeType
  <2>2. CASE StoreLevel(emu) /\ emu' = Stored(emu, "read") /\ UNCHANGED <<amic, aud>>
    BY <2>2, StoreLevelFacts
  <2> QED BY <1>3, <2>1, <2>2, <2>3 DEF EmuUpdateIrq
<1>4. CASE ReadEnables
  <2>1. emu' \in ThreadType
    BY <1>4 DEF ReadEnables, ThreadType, SndType
  <2> QED BY <1>4, <2>1 DEF ReadEnables
<1>5. CASE WriteEnables
  <2>1. [flags |-> emu.ctrl.flags, enables |-> emu.set] \in CtrlType
    BY DEF ThreadType, CtrlType
  <2>2. snd' \in SndType /\ snd'.timers = snd.timers /\ snd'.irq_level = snd.irq_level
    BY <1>5, <2>1 DEF WriteEnables, SndType
  <2> QED BY <1>0, <1>5, <2>2 DEF WriteEnables
<1>6. CASE StartSound
  <2>1. PICK pos \in IF snd.streaming THEN {0, snd.buf_pos} ELSE {0} :
           snd' = [snd EXCEPT !.buf_num = 0, !.buf_pos = pos, !.irq_level = FALSE,
                              !.enabled = TRUE, !.streaming = TRUE]
    BY <1>6 DEF StartSound
  <2>2. pos \in Nat /\ 0 \in Buffers
    BY <2>1 DEF SndType, Buffers
  <2>3. snd' \in SndType /\ ~snd'.irq_level
    BY <2>1, <2>2 DEF SndType
  <2> QED BY <1>6, <2>3 DEF StartSound
<1>7. CASE StopSound
  <2>1. snd' \in SndType /\ snd'.timers = snd.timers /\ snd'.irq_level = snd.irq_level
    BY <1>7 DEF StopSound, SndType
  <2> QED BY <1>7, <2>1 DEF StopSound
<1>8. CASE PullSome
  <2>1. PICK n \in 1 .. BufLen - snd.buf_pos : snd' = [snd EXCEPT !.buf_pos = @ + n]
    BY <1>8 DEF PullSome
  <2>2. snd.buf_pos + n \in Nat
    BY <2>1 DEF SndType
  <2>3. snd' \in SndType /\ snd'.timers = snd.timers /\ snd'.irq_level = snd.irq_level
    BY <2>1, <2>2 DEF SndType
  <2> QED BY <1>8, <2>3 DEF PullSome
<1>9. CASE Drained
  <2>1. aud' \in ThreadType
    BY <1>9 DEF Drained, ThreadType, SndType
  <2> QED BY <1>9, <2>1 DEF Drained
<1>10. CASE RaiseFlag
  <2>1. [aud.ctrl EXCEPT !.flags = @ \cup {snd.buf_num}] \in CtrlType
    BY DEF ThreadType, CtrlType, SndType
  <2>2. snd' \in SndType /\ snd'.timers = snd.timers /\ snd'.irq_level = snd.irq_level
    BY <1>10, <2>1 DEF RaiseFlag, SndType
  <2>3. aud' \in ThreadType /\ aud'.pc = "compute"
    BY <1>0, <1>10 DEF RaiseFlag, ThreadType
  <2> QED BY <1>10, <2>2, <2>3 DEF RaiseFlag
<1>11. CASE AudUpdateIrq
  <2>1. CASE aud.pc = "compare" /\ aud' = Compare(aud, "toggle") /\ UNCHANGED <<amic, snd, emu>>
    BY <2>1, CompareType
  <2>3. CASE aud.pc = "compute" /\ aud' = Compute(aud) /\ UNCHANGED <<amic, snd, emu>>
    BY <2>3, ComputeType
  <2>2. CASE StoreLevel(aud) /\ aud' = Stored(aud, "toggle") /\ UNCHANGED <<amic, emu>>
    BY <2>2, StoreLevelFacts
  <2> QED BY <1>11, <2>1, <2>2, <2>3 DEF AudUpdateIrq
<1>12. CASE ToggleBuffer
  <2>1. 1 - snd.buf_num \in Buffers
    BY DEF SndType, Buffers
  <2>2. snd' \in SndType /\ snd'.timers = snd.timers /\ snd'.irq_level = snd.irq_level
    BY <1>12, <2>1 DEF ToggleBuffer, SndType
  <2> QED BY <1>0, <1>12, <2>2 DEF ToggleBuffer
<1> QED BY <1>1, <1>2, <1>3, <1>4, <1>5, <1>6, <1>7, <1>8, <1>9, <1>10, <1>11, <1>12
        DEF InWrite, AudioThread

\* A raised level of the sound interrupt is flagged at the DMA cascade, or
\* somebody is on the way to report it, for every interleaving of the guest's
\* writes, the audio thread and the timers.
THEOREM SoundLevelKept == AmicSpec => []SoundLevelReported
<1> DEFINE Inv == CascadeOk(amic) /\ SoundTypeOK /\ SoundLevelReported
           Next1 == (CascadeNext /\ SoundFlagKept) \/ SoundNext
<1>1. AmicInit => Inv
  <2> SUFFICES ASSUME AmicInit PROVE Inv
    OBVIOUS
  <2>1. CascadeOk(amic)
    BY DEF AmicInit, CascadeOk, AmicType, LatchOk, Via2Ok, Via2LineOk, DmaOk, DmaLineOk
  <2>2. Idle \in ThreadType
    BY DEF Idle, ThreadType, CtrlType
  <2>3. snd \in SndType
    BY DEF AmicInit, SndType, CtrlType, Buffers
  <2>4. SoundLevelReported
    BY DEF AmicInit, SoundLevelReported
  <2> QED BY <2>1, <2>2, <2>3, <2>4 DEF AmicInit, SoundTypeOK
<1>2. Inv /\ [Next1]_amicVars => Inv'
  <2> SUFFICES ASSUME Inv, [Next1]_amicVars PROVE Inv'
    OBVIOUS
  <2>1. CascadeOk(amic')
    BY CascadeOkInductive
  <2>2. CASE CascadeNext /\ SoundFlagKept
    <3>1. UNCHANGED <<snd, emu, aud>>
      BY <2>2 DEF CascadeNext, DeviceReport, RegisterWrite, Step
    <3> QED BY <2>1, <2>2, <3>1 DEF CascadeNext, SoundFlagKept, SoundLevelReported, SoundTypeOK
  <2>3. CASE ~amic.aborted /\ \E clear, mode \in BOOLEAN : Step(WriteIntCtrl(amic, clear, mode))
    <3>1. UNCHANGED <<snd, emu, aud>> /\ amic'.dma_ifr = amic.dma_ifr
      BY <2>3, WriteIntCtrlOk DEF Step
    <3> QED BY <2>1, <2>3, <3>1 DEF SoundLevelReported, SoundTypeOK
  <2>4. CASE ~amic.aborted /\ SoundTimer
    <3>1. amic'.aborted \/ amic'.dma_ifr = With(amic.dma_ifr, "SOUND", snd.irq_level)
      BY <2>4, AckDmaIntOk, AmicAssumption DEF SoundTimer
    <3>2. snd' \in SndType /\ snd'.irq_level = snd.irq_level
      BY <2>4 DEF SoundTimer, SoundTypeOK, SndType
    <3>3. SoundTypeOK'
      BY <2>4, <3>2 DEF SoundTimer, SoundTypeOK
    <3>4. SoundLevelReported'
      BY <3>1, <3>2 DEF SoundLevelReported, With
    <3> QED BY <2>1, <3>3, <3>4
  <2>5. CASE ~amic.aborted
             /\ (InWrite \/ WriteSndOutDma \/ StartSound \/ StopSound \/ AudioThread)
    <3>1. /\ SoundTypeOK' /\ amic' = amic
          /\ \/ "notify" \in {emu'.pc, aud'.pc}
             \/ snd'.timers # 0
             \/ ~snd'.irq_level
             \/ snd'.timers = snd.timers /\ snd'.irq_level = snd.irq_level
                /\ "notify" \notin {emu.pc, aud.pc}
      BY <2>5, SoundStep, AmicAssumption
    <3> QED BY <2>1, <2>5, <3>1 DEF SoundLevelReported
  <2>6. CASE UNCHANGED amicVars
    BY <2>1, <2>6 DEF amicVars, SoundLevelReported, SoundTypeOK
  <2> QED BY <2>2, <2>3, <2>4, <2>5, <2>6 DEF SoundNext
<1> QED BY <1>1, <1>2, PTL DEF AmicSpec
=============================================================================
