---------------------------- MODULE ViaInterrupt ----------------------------
(***************************************************************************)
(* The 6522 half of ViaCuda (devices/common/viacuda.cpp): the interrupt    *)
(* flag and enable registers, the timers T1 and T2, the control lines, and *)
(* update_irq, which reports the VIA's interrupt to the controller of      *)
(* MacIoInterrupt, where it is one line among others.                      *)
(*                                                                         *)
(* Every handler calls update_irq at most once.  The counters themselves   *)
(* are functions of the clock and are left out: a timer is running or not. *)
(***************************************************************************)
EXTENDS MacIoInterrupt

CONSTANTS
    ViaFlags,   \* interrupt flags of the VIA; "T1", "T2" and "SR" among them
    ViaIrq   \* the VIA's line at the interrupt controller

ASSUME ViaAssumption == {"T1", "T2", "SR"} \subseteq ViaFlags /\ ViaIrq \in Irqs \ DmaIrqs

VARIABLES
    via_ifr,     \* flags set in _via_ifr
    via_ier,     \* _via_ier
    via_irq,     \* bit 7 of _via_ifr
    t1_timer,    \* t1_timer_id # 0
    t2_timer,    \* t2_timer_id # 0
    t1_free_run  \* ACR bit 6

viaVars == <<via_ifr, via_ier, via_irq, t1_timer, t2_timer, t1_free_run>>

ViaInit ==
    /\ via_ifr = {} /\ via_ier = {} /\ via_irq = FALSE
    /\ t1_timer = FALSE /\ t2_timer = FALSE /\ t1_free_run = FALSE
    /\ IntInit

-----------------------------------------------------------------------------

\* Mutant: the old bit 7 decides whether there is something to report.
UpdateIrqStale(ifr, ier) ==
    LET irq_state == ifr \intersect ier # {}
    IN  /\ via_ifr' = ifr /\ via_ier' = ier /\ via_irq' = irq_state
        /\ IF via_irq THEN AckInt(ViaIrq, irq_state) ELSE UNCHANGED intVars

\* "let CPU know when irq_state is 1 or it changes from 1 to 0": the level is
\* reported again at every update while it is high.
UpdateIrq(ifr, ier) ==
    LET irq_state == ifr \intersect ier # {}
    IN  /\ via_ifr' = ifr /\ via_ier' = ier /\ via_irq' = irq_state
        /\ IF irq_state \/ via_irq THEN AckInt(ViaIrq, irq_state)
                                   ELSE UNCHANGED intVars

\* Reads of T1CL, T2CL and SR, writes of SR, T1LH and IFR clear flags.
ClearFlags ==
    \E flags \in SUBSET ViaFlags :
        /\ UpdateIrq(via_ifr \ flags, via_ier)
        /\ UNCHANGED <<t1_timer, t2_timer, t1_free_run>>

\* A write to IER sets or clears the bits that are 1 in the value.
WriteIer ==
    \E flags \in SUBSET ViaFlags, set \in BOOLEAN :
        /\ UpdateIrq(via_ifr, IF set THEN via_ier \union flags ELSE via_ier \ flags)
        /\ UNCHANGED <<t1_timer, t2_timer, t1_free_run>>

\* T1CH: cancel, clear the flag, load the counter and start the timer.
WriteT1Ch ==
    /\ t1_timer' = TRUE
    /\ UpdateIrq(via_ifr \ {"T1"}, via_ier)
    /\ UNCHANGED <<t2_timer, t1_free_run>>

WriteT2Ch ==
    /\ t2_timer' = TRUE
    /\ UpdateIrq(via_ifr \ {"T2"}, via_ier)
    /\ UNCHANGED <<t1_timer, t1_free_run>>

WriteAcr ==
    /\ t1_free_run' \in BOOLEAN
    /\ UNCHANGED <<via_ifr, via_ier, via_irq, t1_timer, t2_timer, intVars>>

\* The timers' callbacks; T1 goes on by itself in free-run mode.
T1Fires ==
    /\ t1_timer
    /\ t1_timer' = t1_free_run
    /\ UpdateIrq(via_ifr \union {"T1"}, via_ier)
    /\ UNCHANGED <<t2_timer, t1_free_run>>

T2Fires ==
    /\ t2_timer
    /\ t2_timer' = FALSE
    /\ UpdateIrq(via_ifr \union {"T2"}, via_ier)
    /\ UNCHANGED <<t1_timer, t1_free_run>>

\* assert_sr_int, the end of a shift, and assert_ctrl_line (CA1...CB2).
AssertFlag ==
    \E flag \in ViaFlags \ {"T1", "T2"} :
        /\ UpdateIrq(via_ifr \union {flag}, via_ier)
        /\ UNCHANGED <<t1_timer, t2_timer, t1_free_run>>

\* The rest of the machine uses the interrupt controller too.
OtherInterrupts ==
    /\ \/ GuestWrites
       \/ \E irq \in Irqs \ {ViaIrq}, state \in BOOLEAN : AckInt(irq, state)
    /\ UNCHANGED viaVars

ViaNext ==
    \/ ClearFlags \/ WriteIer \/ WriteT1Ch \/ WriteT2Ch \/ WriteAcr
    \/ T1Fires \/ T2Fires \/ AssertFlag \/ OtherInterrupts

viaAllVars == <<viaVars, intVars>>

ViaSpec == ViaInit /\ [][ViaNext]_viaAllVars

-----------------------------------------------------------------------------

\* A rise of the line is an event, in native and in 68k mode, and the CPU is
\* asked to look at it if the guest enabled it.
RiseIsEvent(irq) ==
    ~via_irq /\ via_irq' => irq \in int_events' /\ (irq \in int_mask' => int_pin')

RiseReachesCpu == [][RiseIsEvent(ViaIrq)]_viaAllVars
=============================================================================
