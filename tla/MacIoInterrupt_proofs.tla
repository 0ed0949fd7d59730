------------------------ MODULE MacIoInterrupt_proofs ------------------------
(***************************************************************************)
(* Proofs about the Mac I/O interrupt controller for every set of          *)
(* interrupts: nothing pending and enabled is ever hidden from the CPU.    *)
(***************************************************************************)
EXTENDS MacIoInterrupt, TLAPS

IntInv == IntTypeOK /\ PendingIsSignalled

\* signal_cpu_int from consistent line states keeps the pin equal to the latch
\* and requests what is pending.
LEMMA SignalledFacts ==
  ASSUME NEW events, NEW mask, NEW line \in [latch: BOOLEAN, pin: BOOLEAN],
         line.latch = line.pin
  PROVE  LET l == Signalled(events, mask, line)
         IN  /\ l.latch \in BOOLEAN /\ l.pin \in BOOLEAN /\ l.latch = l.pin
             /\ events \intersect mask # {} => l.latch
  BY DEF Signalled

\* clear_cpu_int never drops the request while something enabled is pending.
LEMMA ReleasedFacts ==
  ASSUME NEW events, NEW mask, NEW line \in [latch: BOOLEAN, pin: BOOLEAN],
         line.latch = line.pin
  PROVE  LET l == Released(events, mask, line)
         IN  /\ l \in [latch: BOOLEAN, pin: BOOLEAN] /\ l.latch = l.pin
             /\ line.latch /\ events \intersect mask # {} => l.latch
  BY DEF Released

LEMMA NextIntInv == IntInv /\ [IntNext]_intVars => IntInv'
<1> SUFFICES ASSUME IntInv, [IntNext]_intVars PROVE IntInv'
  OBVIOUS
<1>0. Line \in [latch: BOOLEAN, pin: BOOLEAN] /\ Line.latch = Line.pin
  BY DEF Line, IntInv, IntTypeOK, PendingIsSignalled
<1> USE DEF IntInv, IntTypeOK, PendingIsSignalled, SetLine
<1>1. CASE DeviceReports
  <2>1. PICK irq \in Irqs, state \in BOOLEAN : AckInt(irq, state)
    BY <1>1 DEF DeviceReports
  <2>2. /\ int_events' \subseteq Irqs /\ int_levels' \subseteq Irqs
        /\ int_mask' = int_mask /\ int_mode' = int_mode
        /\ SetLine(Signalled(int_events', int_mask, Line))
    BY <2>1 DEF AckInt
  <2> QED BY <1>0, <2>2, SignalledFacts
<1>2. ASSUME NEW value \in SUBSET Irqs1, NEW mode \in BOOLEAN,
             WriteMask1(value, mode)
      PROVE  IntInv'
  <2>1. /\ int_mask' \subseteq Irqs /\ int_mode' \in BOOLEAN
        /\ int_events' = int_events /\ int_levels' = int_levels
        /\ SetLine(Signalled(int_events', int_mask', Line))
    BY <1>2 DEF WriteMask1, Irqs
  <2> QED BY <1>0, <2>1, SignalledFacts
<1>3. ASSUME NEW value \in SUBSET Irqs2, WriteMask2(value)
      PROVE  IntInv'
  <2>1. /\ int_mask' \subseteq Irqs /\ int_mode' = int_mode
        /\ int_events' = int_events /\ int_levels' = int_levels
        /\ SetLine(Signalled(int_events', int_mask', Line))
    BY <1>3 DEF WriteMask2, Irqs
  <2> QED BY <1>0, <2>1, SignalledFacts
<1>4. ASSUME NEW value \in SUBSET Irqs2, WriteClear2(value)
      PROVE  IntInv'
  <2>1. /\ int_events' \subseteq int_events
        /\ int_levels' = int_levels /\ int_mask' = int_mask
        /\ int_mode' = int_mode
        /\ SetLine(Released(int_events', int_mask, Line))
    BY <1>4 DEF WriteClear2
  <2>2. int_events' \intersect int_mask # {} => Line.latch
    BY <2>1 DEF Line
  <2> QED BY <1>0, <2>1, <2>2, ReleasedFacts
<1>5. CASE ClearAll
  <2>1. SetLine(Released({}, int_mask, Line)) /\ int_events' = {}
        /\ UNCHANGED <<int_levels, int_mask, int_mode>>
    BY <1>5 DEF ClearAll
  <2> QED BY <1>0, <2>1, ReleasedFacts
<1>6. ASSUME NEW value \in SUBSET Irqs1, WriteClear1(value)
      PROVE  IntInv'
  <2> DEFINE dma     == value \intersect DmaIrqs
             cleared == int_events \ value
             falling == IF int_mode THEN int_levels \intersect dma ELSE {}
             line    == Released(cleared, int_mask, Line)
  <2>1. /\ int_events' = cleared \union falling
        /\ int_levels' = int_levels \ dma
        /\ int_mask' = int_mask /\ int_mode' = int_mode
        /\ SetLine(IF int_mode /\ dma # {}
                   THEN Signalled(int_events', int_mask, line) ELSE line)
    BY <1>6 DEF WriteClear1
  <2>2. /\ line \in [latch: BOOLEAN, pin: BOOLEAN] /\ line.latch = line.pin
        /\ Line.latch /\ cleared \intersect int_mask # {} => line.latch
    BY <1>0, ReleasedFacts
  <2>3. cleared \intersect int_mask # {} => Line.latch
    BY DEF Line
  <2>4. int_events' \subseteq Irqs /\ int_levels' \subseteq Irqs
    BY <2>1
  <2> HIDE DEF line
  <2>5. CASE int_mode /\ dma # {}
    BY <2>1, <2>2, <2>4, <2>5, SignalledFacts
  <2>6. CASE ~(int_mode /\ dma # {})
    <3>1. falling = {} /\ int_events' = cleared
      BY <2>1, <2>6
    <3> QED BY <2>1, <2>2, <2>3, <2>4, <2>6, <3>1
  <2> QED BY <2>5, <2>6
<1>7. CASE UNCHANGED intVars
  BY <1>7 DEF intVars
<1> QED
  BY <1>1, <1>2, <1>3, <1>4, <1>5, <1>6, <1>7 DEF IntNext, GuestWrites

\* Every enabled pending interrupt is requested from the CPU, for every set of
\* interrupts and every sequence of reports and register writes.
THEOREM PendingSignalled == IntSpec => []PendingIsSignalled
<1>1. IntInit => IntInv
  BY DEF IntInit, IntInv, IntTypeOK, PendingIsSignalled
<1> QED
  BY <1>1, NextIntInv, PTL DEF IntSpec, IntInv

\* In 68k mode no line changes its level without an event.
THEOREM EdgesRecorded == IntSpec => EmulatedEdgesRecorded
<1> DEFINE Recorded ==
      int_mode /\ int_mode' =>
          (int_levels \ int_levels') \union (int_levels' \ int_levels)
              \subseteq int_events'
<1>1. IntNext => Recorded
  <2>1. DeviceReports => Recorded
    BY DEF DeviceReports, AckInt
  <2>2. GuestWrites => Recorded
    BY DEF GuestWrites, WriteMask1, WriteMask2, WriteClear1, WriteClear2,
           ClearAll
  <2> QED BY <2>1, <2>2 DEF IntNext
<1> QED
  BY <1>1, PTL DEF IntSpec, EmulatedEdgesRecorded
=============================================================================
