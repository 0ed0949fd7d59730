--------------------------- MODULE MacIoInterrupt ---------------------------
(***************************************************************************)
(* The interrupt controller of the Mac I/O chips: MacIoBase (maciobase.cpp)*)
(* with the registers of MacIoTwo (O'Hare, Heathrow, Paddington), or with  *)
(* Irqs2 = {} the same logic as GrandCentral has it.                       *)
(*                                                                         *)
(* Devices report the level of their line (ack_int) and DBDMA channels     *)
(* their completions (ack_dma_int); the guest reads and writes the         *)
(* Events, Mask, Clear and Levels registers.                               *)
(***************************************************************************)
EXTENDS FiniteSets, InterruptPin

CONSTANTS
    Irqs1,      \* interrupts of register bank 1
    Irqs2,      \* interrupts of register bank 2 (32...63)
    DmaIrqs     \* the DMA interrupts among Irqs1 (mask 0x7FF)

ASSUME IrqAssumption == DmaIrqs \subseteq Irqs1 /\ Irqs1 \intersect Irqs2 = {}

Irqs == Irqs1 \union Irqs2

VARIABLES
    int_events, \* pending interrupts
    int_levels, \* last reported level of each line
    int_mask,   \* enabled interrupts
    int_mode,   \* MACIO_INT_MODE in the mask: TRUE for 68k-style interrupts
    cpu_int_latch

intVars == <<int_events, int_levels, int_mask, int_mode, cpu_int_latch, int_pin>>

IntInit ==
    /\ int_events = {}
    /\ int_levels = {}
    /\ int_mask = {}
    /\ int_mode = FALSE
    /\ cpu_int_latch = FALSE
    /\ int_pin = FALSE

\* The latch and the pin after signal_cpu_int; ppc_assert_int raises the pin.
Signalled(events, mask, line) ==
    [latch |-> line.latch \/ events \intersect mask # {},
     pin   |-> IF ~line.latch /\ events \intersect mask # {} THEN TRUE
               ELSE line.pin]

\* The same after clear_cpu_int; ppc_release_int lowers the pin.
Released(events, mask, line) ==
    IF events \intersect mask = {} /\ line.latch
    THEN [latch |-> FALSE, pin |-> FALSE]
    ELSE line

Line == [latch |-> cpu_int_latch, pin |-> int_pin]

SetLine(line) == cpu_int_latch' = line.latch /\ int_pin' = line.pin

\* ack_int_common: in 68k mode every report is an event; in native mode only a
\* rising line is, and any other report of the line withdraws its event.
AckInt(irq, state) ==
    /\ int_events' = IF int_mode \/ (state /\ irq \notin int_levels)
                     THEN int_events \union {irq}
                     ELSE int_events \ {irq}
    /\ int_levels' = IF state THEN int_levels \union {irq}
                              ELSE int_levels \ {irq}
    /\ SetLine(Signalled(int_events', int_mask, Line))
    /\ UNCHANGED <<int_mask, int_mode>>

\* Mutant: enabling a pending interrupt does not signal the CPU.
WriteMask1Silent(value, mode) ==
    /\ int_mask' = (int_mask \intersect Irqs2) \union value
    /\ int_mode' = mode
    /\ UNCHANGED <<int_events, int_levels, cpu_int_latch, int_pin>>

\* Writes to the mask registers assert, but never release, the CPU interrupt.
WriteMask1(value, mode) ==
    /\ int_mask' = (int_mask \intersect Irqs2) \union value
    /\ int_mode' = mode
    /\ SetLine(Signalled(int_events, int_mask', Line))
    /\ UNCHANGED <<int_events, int_levels>>

\* Mutant: the same for the second bank.
WriteMask2Silent(value) ==
    /\ int_mask' = int_mask \union value
    /\ UNCHANGED <<int_events, int_levels, int_mode, cpu_int_latch, int_pin>>

WriteMask2(value) ==
    /\ int_mask' = int_mask \union value
    /\ SetLine(Signalled(int_events, int_mask', Line))
    /\ UNCHANGED <<int_events, int_levels, int_mode>>

WriteClear2(value) ==
    /\ int_events' = int_events \ value
    /\ SetLine(Released(int_events', int_mask, Line))
    /\ UNCHANGED <<int_levels, int_mask, int_mode>>

\* InterruptClear1 with MACIO_INT_CLR in 68k mode.
ClearAll ==
    /\ int_mode
    /\ int_events' = {}
    /\ SetLine(Released({}, int_mask, Line))
    /\ UNCHANGED <<int_levels, int_mask, int_mode>>

\* Mutant: the DMA lines are lowered without events.
WriteClear1NoEdges(value) ==
    /\ int_events' = int_events \ value
    /\ int_levels' = int_levels \ (value \intersect DmaIrqs)
    /\ SetLine(Released(int_events', int_mask, Line))
    /\ UNCHANGED <<int_mask, int_mode>>

\* Otherwise the given events go, and clear_dma_int lowers the DMA lines: in
\* 68k mode the falling lines are events again, and may signal the CPU.
WriteClear1(value) ==
    LET dma     == value \intersect DmaIrqs
        cleared == int_events \ value
        falling == IF int_mode THEN int_levels \intersect dma ELSE {}
        line    == Released(cleared, int_mask, Line)
    IN  /\ int_events' = cleared \union falling
        /\ int_levels' = int_levels \ dma
        /\ SetLine(IF int_mode /\ dma # {}
                   THEN Signalled(int_events', int_mask, line) ELSE line)
        /\ UNCHANGED <<int_mask, int_mode>>

\* What devices do (in a timer callback or a register access), and what the
\* guest does to the controller's registers.
DeviceReports == \E irq \in Irqs, state \in BOOLEAN : AckInt(irq, state)

GuestWrites ==
    \/ \E value \in SUBSET Irqs1, mode \in BOOLEAN : WriteMask1(value, mode)
    \/ \E value \in SUBSET Irqs1 : WriteClear1(value)
    \/ \E value \in SUBSET Irqs2 : WriteMask2(value) \/ WriteClear2(value)
    \/ ClearAll

IntNext == DeviceReports \/ GuestWrites

IntSpec == IntInit /\ [][IntNext]_intVars

-----------------------------------------------------------------------------
IntTypeOK ==
    /\ int_events \subseteq Irqs
    /\ int_levels \subseteq Irqs
    /\ int_mask \subseteq Irqs
    /\ int_mode \in BOOLEAN
    /\ cpu_int_latch \in BOOLEAN
    /\ int_pin \in BOOLEAN

\* Every enabled pending interrupt is requested from the CPU, on every path
\* that adds an event or enables one; the latch never hides a request the CPU
\* pin does not show.
PendingIsSignalled ==
    /\ int_events \intersect int_mask # {} => cpu_int_latch
    /\ cpu_int_latch = int_pin

\* "emulated mode: set IRQ bits in int_events on all transitions": a line never
\* changes its level in 68k mode without an event for the 68k emulator, the
\* DMA lines lowered by a write to InterruptClear1 included.
EmulatedEdgesRecorded ==
    [][int_mode /\ int_mode' =>
          (int_levels \ int_levels') \union (int_levels' \ int_levels)
              \subseteq int_events']_intVars
=============================================================================
