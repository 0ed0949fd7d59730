------------------------------- MODULE PpcExec -------------------------------
(***************************************************************************)
(* The interpreter loop of cpu/ppc/ppcexec.cpp with everything that can    *)
(* divert it: taken branches, mtmsr and rfi, the external interrupt pin,   *)
(* the decrementer, synchronous exceptions (which longjmp out of the       *)
(* loop), power-saving sleep and the switch of the opcode table on MSR.FP. *)
(*                                                                         *)
(* A loop iteration is: execute one instruction, process due timers, then  *)
(* commit the next address.  Interrupts may arrive in the first two parts  *)
(* (a device register access, a timer callback) and while sleeping.        *)
(***************************************************************************)
EXTENDS Naturals, FiniteSets, InterruptPin

CONSTANTS
    AddrMod,     \* size of the address space, in instructions
    Targets,     \* bound: addresses the guest branches or returns to
    GuestMsr,    \* bound: the MSR bits the guest uses
    TimerIds     \* bound: names of decrementer timers

\* One address per exception vector (0x500, 0x900, and one that stands for the
\* vectors of the synchronous exceptions), below the guest program.
ExtVector  == 0
DecVector  == 1
SyncVector == 2

ASSUME ExecAssumption ==
    /\ AddrMod \in Nat /\ AddrMod > 3
    /\ Targets \subseteq 0 .. AddrMod - 1
    /\ GuestMsr \subseteq {"EE", "FP", "POW", "PR"}
    /\ 0 \notin TimerIds

Addr == 0 .. AddrMod - 1

VARIABLES
    pc,                 \* ppc_state.pc
    nia,                \* ppc_next_instruction_address
    exec_flags,         \* set of EXEF_ flags
    msr,                \* set of MSR bits that are 1
    srr0, srr1,         \* SPR SRR0 and SRR1
    dec_exception_pending,
    dec_timer_id,       \* decrementer_timer_id
    dec_timers,         \* decrementer timers in the timer queue
    ppc_opcode_grabber, \* the opcode table MSR.FP calls for
    opcode_grabber,     \* the inner loop's copy of it
    power_on,           \* FALSE: leave the inner loop (po_exec_switch)
    step,               \* part of the loop iteration that comes next
    resume              \* history: where the guest program goes on

execVars == <<pc, nia, exec_flags, msr, srr0, srr1, int_pin,
              dec_exception_pending, dec_timer_id, dec_timers,
              ppc_opcode_grabber, opcode_grabber, power_on, step, resume>>

decVars == <<dec_timer_id, dec_timers>>

Flags   == {"BRANCH", "EXCEPTION", "RFI", "OPC_DECODER", "SLEEP"}
Tables  == {"FPU", "NoFPU"}

Following(a) == (a + 1) % AddrMod
TableFor(m)  == IF "FP" \in m THEN "FPU" ELSE "NoFPU"

\* Reset state: ppc_cpu_init.
ExecInit ==
    /\ pc = SyncVector /\ nia = SyncVector
    /\ exec_flags = {}
    /\ msr = {}
    /\ srr0 = SyncVector /\ srr1 = {}
    /\ int_pin = FALSE
    /\ dec_exception_pending = FALSE
    /\ dec_timer_id = 0 /\ dec_timers = {}
    /\ ppc_opcode_grabber = "NoFPU" /\ opcode_grabber = "NoFPU"
    /\ power_on = TRUE
    /\ step = "execute"
    /\ resume = SyncVector

-----------------------------------------------------------------------------
\* The CPU state that exceptions and the instructions below compute.  A record
\* is used because they are applied one after another within one step:
\* mtmsr changes MSR and then takes the interrupt that MSR.EE enables.
Cpu == [nia |-> nia, flags |-> exec_flags, msr |-> msr, srr0 |-> srr0,
        srr1 |-> srr1, table |-> ppc_opcode_grabber,
        pending |-> dec_exception_pending]

SetCpu(c) ==
    /\ nia' = c.nia
    /\ exec_flags' = c.flags
    /\ msr' = c.msr
    /\ srr0' = c.srr0
    /\ srr1' = c.srr1
    /\ ppc_opcode_grabber' = c.table
    /\ dec_exception_pending' = c.pending

\* Mutant: the next address is not set along with the flag.
MsrDidChangeKeepsNia(c, new, setNia) ==
    LET changed == ("FP" \in c.msr) # ("FP" \in new)
    IN  [c EXCEPT
            !.msr   = new,
            !.table = IF changed THEN TableFor(new) ELSE @,
            !.flags = IF changed THEN @ \union {"OPC_DECODER"} ELSE @]

\* ppc_msr_did_change: a change of MSR.FP selects the other opcode table and
\* asks the loop to reload its copy.
MsrDidChange(c, new, setNia) ==
    LET changed == ("FP" \in c.msr) # ("FP" \in new)
    IN  [c EXCEPT
            !.msr   = new,
            !.table = IF changed THEN TableFor(new) ELSE @,
            !.flags = IF changed THEN @ \union {"OPC_DECODER"} ELSE @,
            !.nia   = IF changed /\ setNia THEN Following(pc) ELSE @]

\* Mutant: always returns to the following instruction.
TakeInterruptAfterPc(c, vector) ==
    LET saved == [c EXCEPT !.srr0 = Following(pc), !.srr1 = c.msr \ {"POW"}]
    IN  [MsrDidChange([saved EXCEPT !.nia = vector], {}, FALSE)
         EXCEPT !.flags = {"EXCEPTION"}]

\* ppc_exception_handler for EXC_EXT_INT and EXC_DECR: return address, MSR
\* saved to SRR1 without POW, then EE, FP, POW and PR cleared; exec_flags is
\* assigned last and replaces every other flag.
TakeInterrupt(c, vector) ==
    LET saved  == [c EXCEPT
                     !.srr0 = IF c.flags \ {"OPC_DECODER"} # {}
                              THEN c.nia ELSE Following(pc),
                     !.srr1 = c.msr \ {"POW"}]
        inside == MsrDidChange([saved EXCEPT !.nia = vector], {}, FALSE)
    IN  [inside EXCEPT !.flags = {"EXCEPTION"}]

\* ppc_assert_int
AssertInt(c) == IF "EE" \in c.msr THEN TakeInterrupt(c, ExtVector) ELSE c

\* trigger_decrementer_exception
TriggerDecrementer(c) ==
    IF "EE" \in c.msr
    THEN TakeInterrupt([c EXCEPT !.pending = FALSE], DecVector)
    ELSE [c EXCEPT !.pending = TRUE]

\* The device side of a step: the interrupt controller may assert the pin
\* (ppc_assert_int, called on the rising edge only), release it, or neither.
Pin(c) == IF int_pin' /\ ~int_pin THEN AssertInt(c) ELSE c

\* Mutant: the old timer is not cancelled.
UpdateDecrementerKeepsOld(kind) ==
    \E i \in TimerIds :
        /\ i # dec_timer_id /\ \A t \in dec_timers : t.id # i
        /\ dec_timer_id' = i
        /\ dec_timers' = dec_timers \union {[id |-> i, kind |-> kind]}

\* update_decrementer: forget a pending exception, replace the armed timer.
\* The old timer is cancelled by its id; ids are never reused.
UpdateDecrementer(kind) ==
    \E i \in TimerIds :
        /\ i # dec_timer_id /\ \A t \in dec_timers : t.id # i
        /\ dec_timer_id' = i
        /\ dec_timers' = {t \in dec_timers : t.id # dec_timer_id}
                            \union {[id |-> i, kind |-> kind]}

-----------------------------------------------------------------------------
(* Instructions.                                                           *)

AtInstruction == power_on /\ step = "execute"
Executed(a)   == step' = "events" /\ resume' = a

\* Any instruction that falls through, loads and stores to device registers
\* included: those may move the interrupt pin.
Plain ==
    /\ AtInstruction
    /\ int_pin' \in BOOLEAN
    /\ SetCpu(Pin(Cpu))
    /\ Executed(Following(pc))
    /\ UNCHANGED <<pc, opcode_grabber, power_on, decVars>>

\* A floating-point instruction executes when the table has it.
FloatingPoint ==
    /\ AtInstruction /\ opcode_grabber = "FPU"
    /\ Executed(Following(pc))
    /\ UNCHANGED <<pc, opcode_grabber, power_on, int_pin, decVars>>
    /\ SetCpu(Cpu)

\* b, bc, bclr, bcctr taken.
Branch ==
    /\ AtInstruction
    /\ \E target \in Targets :
          /\ SetCpu([Cpu EXCEPT !.nia = target, !.flags = {"BRANCH"}])
          /\ Executed(target)
    /\ UNCHANGED <<pc, opcode_grabber, power_on, int_pin, decVars>>

\* mtmsr: a pending external interrupt first, then a pending decrementer
\* exception, then power-saving sleep (where the model supports it).
AfterMtmsr(c, sleeps) ==
    IF "EE" \in c.msr /\ int_pin THEN TakeInterrupt(c, ExtVector)
    ELSE IF "EE" \in c.msr /\ c.pending
    THEN TakeInterrupt([c EXCEPT !.pending = FALSE], DecVector)
    ELSE IF "POW" \in c.msr /\ sleeps
    THEN [c EXCEPT !.flags = @ \union {"SLEEP"}, !.nia = Following(pc)]
    ELSE c

Mtmsr ==
    /\ AtInstruction /\ "PR" \notin msr
    /\ \E new \in SUBSET GuestMsr, sleeps \in BOOLEAN :
          SetCpu(AfterMtmsr(MsrDidChange(Cpu, new, TRUE), sleeps))
    /\ Executed(Following(pc))
    /\ UNCHANGED <<pc, opcode_grabber, power_on, int_pin, decVars>>

\* Mutant: the decrementer exception left pending is forgotten.
AfterRfiPinOnly(c) ==
    IF "EE" \in c.msr /\ int_pin
    THEN [TakeInterrupt(c, ExtVector) EXCEPT !.srr0 = c.srr0]
    ELSE [c EXCEPT !.nia = c.srr0, !.flags = @ \union {"RFI"}]

\* rfi: SRR1 replaces MSR (POW cleared).  An interrupt that MSR.EE enables is
\* taken at once and returns to where this rfi would have gone.
AfterRfi(c) ==
    IF "EE" \in c.msr /\ (int_pin \/ c.pending)
    THEN [(IF int_pin THEN TakeInterrupt(c, ExtVector)
           ELSE TakeInterrupt([c EXCEPT !.pending = FALSE], DecVector))
          EXCEPT !.srr0 = c.srr0]
    ELSE [c EXCEPT !.nia = c.srr0, !.flags = @ \union {"RFI"}]

Rfi ==
    /\ AtInstruction /\ "PR" \notin msr
    /\ SetCpu(AfterRfi(MsrDidChange(Cpu, srr1 \ {"POW"}, TRUE)))
    /\ Executed(srr0)
    /\ UNCHANGED <<pc, opcode_grabber, power_on, int_pin, decVars>>

\* mtspr DEC: the timer is immediate when bit 31 goes from 0 to 1.
WriteDecrementer ==
    /\ AtInstruction /\ "PR" \notin msr
    /\ \E kind \in {"immediate", "timed"} : UpdateDecrementer(kind)
    /\ SetCpu([Cpu EXCEPT !.pending = FALSE])
    /\ Executed(Following(pc))
    /\ UNCHANGED <<pc, opcode_grabber, power_on, int_pin>>

\* mtspr SRR0 / SRR1 (mtspr is where handlers restore an interrupted context).
WriteSrr ==
    /\ AtInstruction /\ "PR" \notin msr
    /\ \E a \in Targets, m \in SUBSET (GuestMsr \ {"POW"}) :
          SetCpu([Cpu EXCEPT !.srr0 = a, !.srr1 = m])
    /\ Executed(Following(pc))
    /\ UNCHANGED <<pc, opcode_grabber, power_on, int_pin, decVars>>

\* DSI, ISI, alignment, program, sc, and a floating-point instruction the table
\* maps to ppc_fpu_off: ppc_exception_handler ends in longjmp to ppc_exec,
\* which sets pc, powers on again if an exec switch was asked for, and enters a
\* new inner loop; that loop clears exec_flags and reloads the opcode table.
SyncException ==
    /\ AtInstruction
    /\ \E back \in {pc, Following(pc)} :
          LET c == MsrDidChange([Cpu EXCEPT !.srr0 = back,
                                            !.srr1 = msr \ {"POW"},
                                            !.nia  = SyncVector], {}, FALSE)
          IN  /\ SetCpu([c EXCEPT !.flags = {}])
              /\ opcode_grabber' = c.table
    /\ pc' = SyncVector
    /\ UNCHANGED <<int_pin, power_on, step, resume, decVars>>

-----------------------------------------------------------------------------
(* Timer callbacks, run by process_events after an instruction or while    *)
(* the CPU sleeps.                                                         *)

InCallback == step \in {"events", "sleep"}

\* A device's timer callback may assert the interrupt pin; the pin is released
\* only by writes to the interrupt controller's registers.
DeviceCallback ==
    /\ InCallback
    /\ int_pin' \in {int_pin, TRUE}
    /\ SetCpu(Pin(Cpu))
    /\ UNCHANGED <<pc, opcode_grabber, power_on, step, resume, decVars>>

\* trigger_immediate_ and trigger_timed_decrementer_exception: the fired
\* timer's id is forgotten first, the next timer is armed, then the exception
\* is raised or left pending.
DecrementerCallback ==
    /\ InCallback
    /\ \E t \in dec_timers, i \in TimerIds :
          /\ \A u \in dec_timers : u.id # i
          /\ dec_timer_id' = i
          /\ dec_timers' = (dec_timers \ {t})
                              \union {[id |-> i, kind |-> "timed"]}
    /\ SetCpu(TriggerDecrementer([Cpu EXCEPT !.pending = FALSE]))
    /\ UNCHANGED <<pc, opcode_grabber, power_on, int_pin, step, resume>>

\* A hot key polled by the event timer: toggle_g_realtime and the instruction
\* period keys stop the inner loop with po_exec_switch.
HostSwitch ==
    /\ InCallback /\ power_on
    /\ power_on' = FALSE
    /\ UNCHANGED <<pc, opcode_grabber, int_pin, step, resume, decVars>>
    /\ SetCpu(Cpu)

-----------------------------------------------------------------------------
(* The rest of the loop iteration.                                         *)

EventsDone ==
    /\ step = "events"
    /\ step' = IF "SLEEP" \in exec_flags /\ "EXCEPTION" \notin exec_flags
               THEN "sleep" ELSE "commit"
    /\ SetCpu(Cpu)
    /\ UNCHANGED <<pc, opcode_grabber, power_on, int_pin, resume, decVars>>

\* The sleep loop ends when an exception has replaced the flag.
Wake ==
    /\ step = "sleep"
    /\ ~power_on \/ "SLEEP" \notin exec_flags
    /\ step' = "commit"
    /\ SetCpu(Cpu)
    /\ UNCHANGED <<pc, opcode_grabber, power_on, int_pin, resume, decVars>>

\* With any flag set the loop goes on at ppc_next_instruction_address, and it
\* reloads its opcode table if EXEF_OPC_DECODER is among the flags.
Commit ==
    /\ step = "commit"
    /\ pc' = IF exec_flags # {} THEN nia ELSE Following(pc)
    /\ opcode_grabber' = IF "OPC_DECODER" \in exec_flags
                         THEN ppc_opcode_grabber ELSE opcode_grabber
    /\ SetCpu([Cpu EXCEPT !.flags = {}])
    /\ step' = "execute"
    /\ UNCHANGED <<power_on, int_pin, resume, decVars>>

\* ppc_exec: power_on again, and a new inner loop.
ExecSwitch ==
    /\ step = "execute" /\ ~power_on
    /\ power_on' = TRUE
    /\ opcode_grabber' = ppc_opcode_grabber
    /\ SetCpu([Cpu EXCEPT !.flags = {}])
    /\ UNCHANGED <<pc, int_pin, step, resume, decVars>>

-----------------------------------------------------------------------------
\* The actions in which the interrupt controller may be called.
DeviceSteps == Plain \/ DeviceCallback

CpuSteps ==
    \/ FloatingPoint \/ Branch \/ Mtmsr \/ Rfi
    \/ WriteDecrementer \/ WriteSrr \/ SyncException
    \/ DecrementerCallback \/ HostSwitch
    \/ EventsDone \/ Wake \/ Commit \/ ExecSwitch

ExecNext == DeviceSteps \/ CpuSteps

ExecSpec == ExecInit /\ [][ExecNext]_execVars

-----------------------------------------------------------------------------
ExecTypeOK ==
    /\ pc \in Addr /\ nia \in Addr /\ srr0 \in Addr /\ resume \in Addr
    /\ exec_flags \subseteq Flags
    /\ msr \subseteq GuestMsr /\ srr1 \subseteq GuestMsr
    /\ int_pin \in BOOLEAN /\ dec_exception_pending \in BOOLEAN
    /\ dec_timer_id \in TimerIds \union {0}
    /\ dec_timers \subseteq [id: TimerIds, kind: {"immediate", "timed"}]
    /\ ppc_opcode_grabber \in Tables /\ opcode_grabber \in Tables
    /\ power_on \in BOOLEAN
    /\ step \in {"execute", "events", "sleep", "commit"}

\* An interrupt that MSR.EE allows has been taken: whichever of mtmsr, rfi, a
\* register access and a timer callback made the second of the two conditions
\* true raised the exception in the same step, so no request can sit at the
\* CPU while interrupts are enabled.
NoInterruptMissed == "EE" \in msr => ~int_pin /\ ~dec_exception_pending

\* An interrupt returns exactly to the instruction the program had reached:
\* after a fall-through, a taken branch, an mtmsr, an rfi or a sleep, and
\* whether it arrived during the instruction or after it.
ResumeExact == "EXCEPTION" \in exec_flags => srr0 = resume

\* Without an interrupt the loop goes on where the instruction says: no flag
\* (BRANCH, RFI, OPC_DECODER, SLEEP) takes it to a stale next address.
NextIsResume ==
    [][Commit /\ "EXCEPTION" \notin exec_flags => pc' = resume]_execVars

\* There is never more than one decrementer timer in the queue, and it is the
\* one decrementer_timer_id names: a rewritten decrementer cannot fire twice,
\* and once started it always has a timer.
OneDecrementerTimer ==
    /\ Cardinality(dec_timers) <= 1
    /\ dec_timer_id # 0 => \E t \in dec_timers : t.id = dec_timer_id

\* The comment on OpcodeGrabberNoFPU: while floating point is disabled, the
\* loop decodes floating-point instructions to ppc_fpu_off.
NoFpuTableWhenDisabled ==
    step = "execute" /\ power_on /\ "FP" \notin msr => opcode_grabber = "NoFPU"
=============================================================================
