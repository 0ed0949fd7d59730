------------------------------ MODULE MacIoCpu ------------------------------
(***************************************************************************)
(* The CPU and the Mac I/O interrupt controller together.  They share the  *)
(* interrupt pin: the controller's registers are accessed by instructions  *)
(* of the guest, and devices report to the controller from instructions    *)
(* and from timer callbacks; ppc_assert_int enters the exception handler   *)
(* inside that very access.                                                *)
(***************************************************************************)
EXTENDS PpcExec, MacIoInterrupt

ctrlVars == <<int_events, int_levels, int_mask, int_mode, cpu_int_latch>>
vars     == <<execVars, ctrlVars>>

Init == ExecInit /\ IntInit

\* An instruction that accesses a device or the controller, or neither.
Instruction ==
    /\ IntNext \/ UNCHANGED <<ctrlVars, int_pin>>
    /\ Plain

Callback ==
    /\ DeviceReports
    /\ DeviceCallback

Next == Instruction \/ Callback \/ (CpuSteps /\ UNCHANGED ctrlVars)

Spec == Init /\ [][Next]_vars

-----------------------------------------------------------------------------
\* End to end: while the guest runs with interrupts enabled, no enabled
\* interrupt is pending in the controller.  Every path by which one becomes
\* both (a device, a DMA completion, a mask write, a clear that re-raises a
\* DMA line, mtmsr, rfi) ends in the external interrupt handler at once.
InterruptsDelivered == "EE" \in msr => int_events \intersect int_mask = {}
=============================================================================
