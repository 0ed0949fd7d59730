--------------------------- MODULE PpcExec_proofs ---------------------------
(***************************************************************************)
(* Proofs about PpcExec for every size of the address space and every set  *)
(* of branch targets: no enabled interrupt is missed, interrupts return to *)
(* exactly the instruction the program had reached, and the loop never     *)
(* goes on at a stale address.                                             *)
(***************************************************************************)
EXTENDS PpcExec, FiniteSetTheorems, TLAPS

\* The type of the CPU state that one step computes.
CpuType ==
    [nia: Addr, flags: SUBSET Flags, msr: SUBSET GuestMsr, srr0: Addr,
     srr1: SUBSET GuestMsr, table: Tables, pending: BOOLEAN]

\* A flag other than OPC_DECODER says that nia was set by this instruction.
Diverts(flags) == flags \ {"OPC_DECODER"} # {}

\* What ties nia and the flags to the program's continuation between the
\* instruction and the commit: TakeInterrupt and Commit choose between nia and
\* the following address by looking at the flags only.
NextAddress ==
    /\ step = "execute" => exec_flags = {}
    /\ "EXCEPTION" \in exec_flags => "EE" \notin msr
    /\ step # "execute" /\ "EXCEPTION" \notin exec_flags =>
          /\ exec_flags # {} => nia = resume
          /\ ~Diverts(exec_flags) => resume = Following(pc)

ExecIInv == ExecTypeOK /\ NoInterruptMissed /\ ResumeExact /\ NextAddress

-----------------------------------------------------------------------------
LEMMA FollowingInAddr == ASSUME NEW a \in Addr PROVE Following(a) \in Addr
  BY ExecAssumption DEF Following, Addr

LEMMA VectorsInAddr == {ExtVector, DecVector, SyncVector} \subseteq Addr
  BY ExecAssumption DEF ExtVector, DecVector, SyncVector, Addr

\* ppc_msr_did_change, field by field.
LEMMA MsrDidChangeFields ==
  ASSUME pc \in Addr, NEW c \in CpuType, NEW new \in SUBSET GuestMsr,
         NEW setNia \in BOOLEAN
  PROVE  LET d == MsrDidChange(c, new, setNia)
         IN  /\ d \in CpuType
             /\ d.msr = new
             /\ d.srr0 = c.srr0 /\ d.srr1 = c.srr1 /\ d.pending = c.pending
             /\ \/ d.flags = c.flags /\ d.nia = c.nia
                \/ /\ d.flags = c.flags \union {"OPC_DECODER"}
                   /\ d.nia = IF setNia THEN Following(pc) ELSE c.nia
<1>1. Following(pc) \in Addr
  BY FollowingInAddr
<1>2. TableFor(new) \in Tables
  BY DEF TableFor, Tables
<1> QED
  BY <1>1, <1>2 DEF MsrDidChange, CpuType, Flags

\* ppc_exception_handler for an interrupt, field by field.
LEMMA TakeInterruptFields ==
  ASSUME pc \in Addr, NEW c \in CpuType, NEW vector \in Addr
  PROVE  LET d == TakeInterrupt(c, vector)
         IN  /\ d \in CpuType
             /\ d.msr = {} /\ d.flags = {"EXCEPTION"}
             /\ d.pending = c.pending
             /\ d.srr0 = IF Diverts(c.flags) THEN c.nia ELSE Following(pc)
<1> DEFINE back  == IF Diverts(c.flags) THEN c.nia ELSE Following(pc)
           saved == [[c EXCEPT !.srr0 = back, !.srr1 = c.msr \ {"POW"}]
                        EXCEPT !.nia = vector]
<1>1. back \in Addr
  BY FollowingInAddr DEF CpuType
<1>2. saved \in CpuType /\ saved.srr0 = back /\ saved.pending = c.pending
  BY <1>1 DEF CpuType
<1> DEFINE inside == MsrDidChange(saved, {}, FALSE)
<1>3. /\ inside \in CpuType /\ inside.msr = {}
      /\ inside.srr0 = back /\ inside.pending = c.pending
  <2> HIDE DEF saved
  <2>1. {} \in SUBSET GuestMsr /\ FALSE \in BOOLEAN
    OBVIOUS
  <2>2. saved \in CpuType
    BY <1>2
  <2>3. /\ MsrDidChange(saved, {}, FALSE) \in CpuType
        /\ MsrDidChange(saved, {}, FALSE).msr = {}
        /\ MsrDidChange(saved, {}, FALSE).srr0 = saved.srr0
        /\ MsrDidChange(saved, {}, FALSE).pending = saved.pending
    BY <2>1, <2>2, MsrDidChangeFields, Zenon
  <2> QED BY <1>2, <2>3
<1>4. TakeInterrupt(c, vector) = [inside EXCEPT !.flags = {"EXCEPTION"}]
  BY DEF TakeInterrupt, Diverts
<1> QED
  <2> HIDE DEF inside
  <2>1. [inside EXCEPT !.flags = {"EXCEPTION"}] \in CpuType
    BY <1>3 DEF CpuType, Flags
  <2> QED BY <1>3, <1>4, <2>1 DEF CpuType

LEMMA CpuInType == ExecTypeOK => Cpu \in CpuType
  BY DEF ExecTypeOK, Cpu, CpuType

-----------------------------------------------------------------------------
\* The invariant after a step that leaves the CPU in state d.
GoodStep(d) ==
    /\ d \in CpuType
    /\ "EE" \in d.msr => ~int_pin' /\ ~d.pending
    /\ "EXCEPTION" \in d.flags => d.srr0 = resume' /\ "EE" \notin d.msr
    /\ step' = "execute" => d.flags = {}
    /\ step' # "execute" /\ "EXCEPTION" \notin d.flags =>
          /\ d.flags # {} => d.nia = resume'
          /\ ~Diverts(d.flags) => resume' = Following(pc')

\* The variables outside the CPU record keep their types.
OthersTyped ==
    /\ pc \in Addr /\ resume \in Addr
    /\ int_pin \in BOOLEAN /\ power_on \in BOOLEAN
    /\ dec_timer_id \in TimerIds \union {0}
    /\ dec_timers \subseteq [id: TimerIds, kind: {"immediate", "timed"}]
    /\ opcode_grabber \in Tables
    /\ step \in {"execute", "events", "sleep", "commit"}

LEMMA StepIInv ==
  ASSUME NEW d, SetCpu(d), GoodStep(d), OthersTyped'
  PROVE  ExecIInv'
<1>1. ExecTypeOK'
  BY DEF SetCpu, GoodStep, OthersTyped, ExecTypeOK, CpuType
<1>2. NoInterruptMissed'
  BY DEF SetCpu, GoodStep, NoInterruptMissed
<1>3. ResumeExact' /\ NextAddress'
  BY DEF SetCpu, GoodStep, ResumeExact, NextAddress
<1> QED
  BY <1>1, <1>2, <1>3 DEF ExecIInv

\* Taking an interrupt, from a state whose return address is right, is a good
\* step whatever becomes of the pin: interrupts are disabled afterwards.
LEMMA TakeInterruptGood ==
  ASSUME pc \in Addr, pc' = pc, NEW c \in CpuType, NEW vector \in Addr,
         step' # "execute",
         Diverts(c.flags) => c.nia = resume',
         ~Diverts(c.flags) => resume' = Following(pc)
  PROVE  GoodStep(TakeInterrupt(c, vector))
<1> DEFINE d == TakeInterrupt(c, vector)
<1>1. /\ d \in CpuType /\ d.msr = {} /\ d.flags = {"EXCEPTION"}
      /\ d.srr0 = IF Diverts(c.flags) THEN c.nia ELSE Following(pc)
  BY TakeInterruptFields
<1> HIDE DEF d
<1>2. d.srr0 = resume'
  BY <1>1
<1>3. GoodStep(d)
  BY <1>1, <1>2 DEF GoodStep
<1> QED
  BY <1>3 DEF d

LEMMA InitExecIInv == ExecInit => ExecIInv
<1> SUFFICES ASSUME ExecInit PROVE ExecIInv
  OBVIOUS
<1>1. ExecTypeOK
  <2>1. pc \in Addr /\ nia \in Addr /\ srr0 \in Addr /\ resume \in Addr
    BY VectorsInAddr DEF ExecInit
  <2>2. /\ exec_flags \subseteq Flags /\ msr \subseteq GuestMsr
        /\ srr1 \subseteq GuestMsr /\ dec_timer_id \in TimerIds \union {0}
        /\ dec_timers \subseteq [id: TimerIds, kind: {"immediate", "timed"}]
    BY DEF ExecInit
  <2>3. /\ ppc_opcode_grabber \in Tables /\ opcode_grabber \in Tables
        /\ step \in {"execute", "events", "sleep", "commit"}
    BY DEF ExecInit, Tables
  <2>4. /\ int_pin \in BOOLEAN /\ dec_exception_pending \in BOOLEAN
        /\ power_on \in BOOLEAN
    BY DEF ExecInit
  <2> QED BY <2>1, <2>2, <2>3, <2>4 DEF ExecTypeOK
<1>2. NoInterruptMissed /\ ResumeExact /\ NextAddress
  <2>1. msr = {} /\ exec_flags = {} /\ step = "execute"
    BY DEF ExecInit
  <2> QED BY <2>1 DEF NoInterruptMissed, ResumeExact, NextAddress
<1> QED
  BY <1>1, <1>2 DEF ExecIInv

\* A step of the device side: the rising pin enters the handler at once when
\* interrupts are enabled.
LEMMA PinGood ==
  ASSUME ExecIInv, pc' = pc, step' # "execute", int_pin' \in BOOLEAN,
         "EXCEPTION" \in exec_flags => resume' = resume,
         "EXCEPTION" \notin exec_flags =>
            /\ exec_flags # {} => nia = resume'
            /\ ~Diverts(exec_flags) => resume' = Following(pc)
  PROVE  GoodStep(Pin(Cpu))
<1>0. Cpu \in CpuType /\ pc \in Addr
  BY CpuInType DEF ExecIInv, ExecTypeOK
<1>1. CASE int_pin' /\ ~int_pin /\ "EE" \in msr
  <2>1. "EXCEPTION" \notin exec_flags
    BY <1>1 DEF ExecIInv, NextAddress
  <2>2. Pin(Cpu) = TakeInterrupt(Cpu, ExtVector)
    BY <1>1 DEF Pin, AssertInt, Cpu
  <2>3. /\ Diverts(Cpu.flags) => Cpu.nia = resume'
        /\ ~Diverts(Cpu.flags) => resume' = Following(pc)
    BY <2>1 DEF Cpu, Diverts
  <2>4. ExtVector \in Addr
    BY VectorsInAddr
  <2> QED
    BY <1>0, <2>2, <2>3, <2>4, TakeInterruptGood
<1>2. CASE ~(int_pin' /\ ~int_pin /\ "EE" \in msr)
  <2>1. Pin(Cpu) = Cpu
    BY <1>2 DEF Pin, AssertInt, Cpu
  <2>2. "EE" \in msr => ~int_pin' /\ ~dec_exception_pending
    BY <1>2 DEF ExecIInv, NoInterruptMissed
  <2>3. "EXCEPTION" \in exec_flags => srr0 = resume' /\ "EE" \notin msr
    BY DEF ExecIInv, ResumeExact, NextAddress
  <2>4. GoodStep(Cpu)
    BY <1>0, <2>2, <2>3 DEF GoodStep, Cpu
  <2> QED
    BY <2>1, <2>4
<1> QED
  BY <1>1, <1>2

\* mtmsr takes the interrupt it enables, external before decrementer.
LEMMA MtmsrGood ==
  ASSUME ExecIInv, AtInstruction, pc' = pc, step' # "execute",
         int_pin' = int_pin, resume' = Following(pc),
         NEW new \in SUBSET GuestMsr, NEW sleeps \in BOOLEAN
  PROVE  GoodStep(AfterMtmsr(MsrDidChange(Cpu, new, TRUE), sleeps))
<1> DEFINE c == MsrDidChange(Cpu, new, TRUE)
<1>0. Cpu \in CpuType /\ pc \in Addr /\ Cpu.flags = {}
  BY CpuInType DEF ExecIInv, ExecTypeOK, NextAddress, AtInstruction, Cpu
<1>1. /\ c \in CpuType /\ c.msr = new
      /\ c.flags = {} \/ (c.flags = {"OPC_DECODER"} /\ c.nia = Following(pc))
  <2>1. /\ c \in CpuType /\ c.msr = new
        /\ \/ c.flags = Cpu.flags
           \/ /\ c.flags = Cpu.flags \union {"OPC_DECODER"}
              /\ c.nia = IF TRUE THEN Following(pc) ELSE Cpu.nia
    BY <1>0, MsrDidChangeFields, Zenon
  <2> HIDE DEF c
  <2> QED BY <1>0, <2>1
<1> HIDE DEF c
<1>2. ~Diverts(c.flags) /\ "EXCEPTION" \notin c.flags
  BY <1>1 DEF Diverts
<1>3. Following(pc) \in Addr /\ ExtVector \in Addr /\ DecVector \in Addr
  BY <1>0, FollowingInAddr, VectorsInAddr
<1>4. CASE "EE" \in c.msr /\ int_pin
  <2>1. AfterMtmsr(c, sleeps) = TakeInterrupt(c, ExtVector)
    BY <1>4 DEF AfterMtmsr
  <2> QED BY <1>0, <1>1, <1>2, <1>3, <2>1, TakeInterruptGood DEF c
<1>5. CASE "EE" \in c.msr /\ ~int_pin /\ c.pending
  <2> DEFINE e == [c EXCEPT !.pending = FALSE]
  <2>1. AfterMtmsr(c, sleeps) = TakeInterrupt(e, DecVector)
    BY <1>5 DEF AfterMtmsr
  <2>2. e \in CpuType /\ e.flags = c.flags
    BY <1>1 DEF CpuType
  <2> HIDE DEF e
  <2> QED BY <1>0, <1>2, <1>3, <2>1, <2>2, TakeInterruptGood DEF c
<1>6. CASE ~("EE" \in c.msr /\ (int_pin \/ c.pending))
  <2>1. c.pending \in BOOLEAN /\ c.flags \subseteq Flags
    BY <1>1 DEF CpuType
  <2>2. CASE "POW" \in c.msr /\ sleeps
    <3> DEFINE e == [c EXCEPT !.flags = @ \union {"SLEEP"}, !.nia = Following(pc)]
    <3>1. AfterMtmsr(c, sleeps) = e
      BY <1>6, <2>2 DEF AfterMtmsr
    <3>2. /\ e \in CpuType /\ e.flags = c.flags \union {"SLEEP"}
          /\ e.nia = Following(pc) /\ e.msr = c.msr /\ e.pending = c.pending
      BY <1>1, <1>3 DEF CpuType, Flags
    <3> HIDE DEF e
    <3>3. GoodStep(e)
      BY <1>2, <1>6, <3>2 DEF GoodStep, Diverts
    <3> QED BY <3>1, <3>3 DEF c
  <2>3. CASE ~("POW" \in c.msr /\ sleeps)
    <3>1. AfterMtmsr(c, sleeps) = c
      BY <1>6, <2>3 DEF AfterMtmsr
    <3>2. GoodStep(c)
      BY <1>1, <1>2, <1>6 DEF GoodStep
    <3> QED BY <3>1, <3>2 DEF c
  <2> QED BY <2>2, <2>3
<1> QED
  BY <1>4, <1>5, <1>6

\* rfi: an interrupt taken inside it returns to the address the rfi goes to.
LEMMA RfiGood ==
  ASSUME ExecIInv, AtInstruction, pc' = pc, step' # "execute",
         int_pin' = int_pin, resume' = srr0
  PROVE  GoodStep(AfterRfi(MsrDidChange(Cpu, srr1 \ {"POW"}, TRUE)))
<1> DEFINE c == MsrDidChange(Cpu, srr1 \ {"POW"}, TRUE)
<1>0. /\ Cpu \in CpuType /\ pc \in Addr /\ Cpu.flags = {} /\ Cpu.srr0 = srr0
      /\ srr1 \ {"POW"} \in SUBSET GuestMsr
  BY CpuInType DEF ExecIInv, ExecTypeOK, NextAddress, AtInstruction, Cpu
<1>1. /\ c \in CpuType /\ c.srr0 = srr0
      /\ c.flags = {} \/ c.flags = {"OPC_DECODER"}
  <2>1. /\ c \in CpuType /\ c.srr0 = Cpu.srr0
        /\ \/ c.flags = Cpu.flags
           \/ c.flags = Cpu.flags \union {"OPC_DECODER"}
    BY <1>0, MsrDidChangeFields, Zenon
  <2> HIDE DEF c
  <2> QED BY <1>0, <2>1
<1> HIDE DEF c
<1>2. ExtVector \in Addr /\ DecVector \in Addr
  BY VectorsInAddr
<1>3. ASSUME NEW e \in CpuType, NEW v \in Addr,
             AfterRfi(c) = [TakeInterrupt(e, v) EXCEPT !.srr0 = c.srr0]
      PROVE  GoodStep(AfterRfi(c))
  <2> DEFINE t == TakeInterrupt(e, v)
             d == [t EXCEPT !.srr0 = c.srr0]
  <2>1. t \in CpuType /\ t.msr = {} /\ t.flags = {"EXCEPTION"}
    BY <1>0, TakeInterruptFields
  <2> HIDE DEF t
  <2>2. /\ d \in CpuType /\ d.msr = {} /\ d.flags = {"EXCEPTION"}
        /\ d.srr0 = srr0
    BY <1>1, <2>1 DEF CpuType
  <2> HIDE DEF d
  <2>3. GoodStep(d)
    BY <2>2 DEF GoodStep
  <2> QED BY <1>3, <2>3 DEF t, d
<1>4. CASE "EE" \in c.msr /\ int_pin
  <2>1. AfterRfi(c) = [TakeInterrupt(c, ExtVector) EXCEPT !.srr0 = c.srr0]
    BY <1>4 DEF AfterRfi
  <2> QED BY <1>1, <1>2, <1>3, <2>1 DEF c
<1>5. CASE "EE" \in c.msr /\ ~int_pin /\ c.pending
  <2> DEFINE e == [c EXCEPT !.pending = FALSE]
  <2>1. AfterRfi(c) = [TakeInterrupt(e, DecVector) EXCEPT !.srr0 = c.srr0]
    BY <1>5 DEF AfterRfi
  <2>2. e \in CpuType
    BY <1>1 DEF CpuType
  <2> HIDE DEF e
  <2> QED BY <1>2, <1>3, <2>1, <2>2 DEF c
<1>6. CASE ~("EE" \in c.msr /\ (int_pin \/ c.pending))
  <2> DEFINE d == [c EXCEPT !.nia = c.srr0, !.flags = @ \union {"RFI"}]
  <2>1. AfterRfi(c) = d
    BY <1>6 DEF AfterRfi
  <2>2. /\ d \in CpuType /\ d.flags = c.flags \union {"RFI"}
        /\ d.nia = srr0 /\ d.msr = c.msr /\ d.pending = c.pending
    BY <1>1 DEF CpuType, Flags
  <2> HIDE DEF d
  <2>3. GoodStep(d)
    BY <1>1, <1>6, <2>2 DEF GoodStep, Diverts
  <2> QED BY <2>1, <2>3 DEF c
<1> QED
  BY <1>4, <1>5, <1>6

\* A step that only clears or keeps the flags of the record Cpu.
LEMMA PlainCpuFacts ==
  ASSUME ExecIInv
  PROVE  /\ Cpu \in CpuType /\ pc \in Addr /\ OthersTyped
         /\ Following(pc) \in Addr
         /\ Cpu.msr = msr /\ Cpu.flags = exec_flags /\ Cpu.nia = nia
         /\ Cpu.srr0 = srr0 /\ Cpu.pending = dec_exception_pending
         /\ "EE" \in msr => ~int_pin /\ ~dec_exception_pending
  BY CpuInType, FollowingInAddr
     DEF ExecIInv, ExecTypeOK, OthersTyped, Cpu, NoInterruptMissed

LEMMA NextExecIInv == ExecIInv /\ [ExecNext]_execVars => ExecIInv'
<1> SUFFICES ASSUME ExecIInv, [ExecNext]_execVars PROVE ExecIInv'
  OBVIOUS
<1>0. /\ Cpu \in CpuType /\ pc \in Addr /\ OthersTyped
      /\ Following(pc) \in Addr
      /\ Cpu.msr = msr /\ Cpu.flags = exec_flags /\ Cpu.nia = nia
      /\ Cpu.srr0 = srr0 /\ Cpu.pending = dec_exception_pending
      /\ "EE" \in msr => ~int_pin /\ ~dec_exception_pending
  BY PlainCpuFacts
<1>a. step = "execute" => exec_flags = {}
  BY DEF ExecIInv, NextAddress
<1>b. /\ Targets \subseteq Addr /\ ExtVector \in Addr /\ DecVector \in Addr
      /\ SyncVector \in Addr
  BY ExecAssumption, VectorsInAddr DEF Addr
<1>1. CASE Plain
  <2>1. /\ pc' = pc /\ step' = "events" /\ int_pin' \in BOOLEAN
        /\ resume' = Following(pc) /\ step = "execute" /\ SetCpu(Pin(Cpu))
    BY <1>1 DEF Plain, AtInstruction, Executed
  <2>2. GoodStep(Pin(Cpu))
    BY <1>a, <2>1, PinGood
  <2>3. OthersTyped'
    BY <1>0, <1>1, <2>1 DEF Plain, OthersTyped, decVars
  <2> QED BY <2>1, <2>2, <2>3, StepIInv
<1>2. CASE FloatingPoint
  <2>1. /\ pc' = pc /\ step' = "events" /\ int_pin' = int_pin
        /\ resume' = Following(pc) /\ exec_flags = {} /\ SetCpu(Cpu)
    BY <1>2, <1>a DEF FloatingPoint, AtInstruction, Executed
  <2>2. GoodStep(Cpu)
    BY <1>0, <2>1 DEF GoodStep
  <2>3. OthersTyped'
    BY <1>0, <1>2, <2>1 DEF FloatingPoint, OthersTyped, decVars
  <2> QED BY <2>1, <2>2, <2>3, StepIInv
<1>3. CASE Branch
  <2>1. PICK target \in Targets :
           /\ SetCpu([Cpu EXCEPT !.nia = target, !.flags = {"BRANCH"}])
           /\ Executed(target)
    BY <1>3 DEF Branch
  <2> DEFINE d == [Cpu EXCEPT !.nia = target, !.flags = {"BRANCH"}]
  <2>2. /\ d \in CpuType /\ d.nia = target /\ d.flags = {"BRANCH"}
        /\ d.msr = msr /\ d.pending = dec_exception_pending
    BY <1>0, <1>b DEF CpuType, Flags
  <2> HIDE DEF d
  <2>3. pc' = pc /\ int_pin' = int_pin /\ step' = "events" /\ resume' = target
    BY <1>3, <2>1 DEF Branch, Executed
  <2>4. GoodStep(d)
    BY <1>0, <2>2, <2>3 DEF GoodStep, Diverts
  <2>5. OthersTyped'
    BY <1>0, <1>b, <1>3, <2>3 DEF Branch, OthersTyped, decVars
  <2> QED BY <2>1, <2>4, <2>5, StepIInv DEF d
<1>4. CASE Mtmsr
  <2>1. PICK new \in SUBSET GuestMsr, sleeps \in BOOLEAN :
           SetCpu(AfterMtmsr(MsrDidChange(Cpu, new, TRUE), sleeps))
    BY <1>4 DEF Mtmsr
  <2>2. /\ AtInstruction /\ pc' = pc /\ int_pin' = int_pin
        /\ step' = "events" /\ resume' = Following(pc)
    BY <1>4 DEF Mtmsr, Executed
  <2>3. GoodStep(AfterMtmsr(MsrDidChange(Cpu, new, TRUE), sleeps))
    BY <2>2, MtmsrGood
  <2>4. OthersTyped'
    BY <1>0, <1>4, <2>2 DEF Mtmsr, OthersTyped, decVars
  <2> QED BY <2>1, <2>3, <2>4, StepIInv
<1>5. CASE Rfi
  <2>1. /\ SetCpu(AfterRfi(MsrDidChange(Cpu, srr1 \ {"POW"}, TRUE)))
        /\ AtInstruction /\ pc' = pc /\ int_pin' = int_pin
        /\ step' = "events" /\ resume' = srr0
    BY <1>5 DEF Rfi, Executed
  <2>2. GoodStep(AfterRfi(MsrDidChange(Cpu, srr1 \ {"POW"}, TRUE)))
    BY <2>1, RfiGood
  <2>3. srr0 \in Addr
    BY DEF ExecIInv, ExecTypeOK
  <2>4. OthersTyped'
    BY <1>0, <1>5, <2>1, <2>3 DEF Rfi, OthersTyped, decVars
  <2> QED BY <2>1, <2>2, <2>4, StepIInv
<1>6. CASE WriteDecrementer
  <2> DEFINE d == [Cpu EXCEPT !.pending = FALSE]
  <2>1. /\ SetCpu(d) /\ pc' = pc /\ int_pin' = int_pin /\ exec_flags = {}
        /\ step' = "events" /\ resume' = Following(pc)
    BY <1>6, <1>a DEF WriteDecrementer, AtInstruction, Executed
  <2>2. /\ d \in CpuType /\ d.flags = exec_flags /\ d.msr = msr
        /\ d.pending = FALSE
    BY <1>0 DEF CpuType
  <2> HIDE DEF d
  <2>3. GoodStep(d)
    BY <1>0, <2>1, <2>2 DEF GoodStep
  <2>4. PICK i \in TimerIds, kind \in {"immediate", "timed"} :
           /\ dec_timer_id' = i
           /\ dec_timers' = {t \in dec_timers : t.id # dec_timer_id}
                               \union {[id |-> i, kind |-> kind]}
    BY <1>6 DEF WriteDecrementer, UpdateDecrementer
  <2>5. /\ dec_timer_id' \in TimerIds \union {0}
        /\ dec_timers' \subseteq [id: TimerIds, kind: {"immediate", "timed"}]
    BY <1>0, <2>4 DEF OthersTyped
  <2>6. OthersTyped'
    BY <1>0, <1>6, <2>1, <2>5 DEF WriteDecrementer, OthersTyped
  <2> QED BY <2>1, <2>3, <2>6, StepIInv
<1>7. CASE WriteSrr
  <2>1. PICK a \in Targets, m \in SUBSET (GuestMsr \ {"POW"}) :
           SetCpu([Cpu EXCEPT !.srr0 = a, !.srr1 = m])
    BY <1>7 DEF WriteSrr
  <2> DEFINE d == [Cpu EXCEPT !.srr0 = a, !.srr1 = m]
  <2>2. /\ d \in CpuType /\ d.flags = exec_flags /\ d.msr = msr
        /\ d.pending = dec_exception_pending
    BY <1>0, <1>b DEF CpuType
  <2> HIDE DEF d
  <2>3. /\ pc' = pc /\ int_pin' = int_pin /\ exec_flags = {}
        /\ step' = "events" /\ resume' = Following(pc)
    BY <1>7, <1>a DEF WriteSrr, AtInstruction, Executed
  <2>4. GoodStep(d)
    BY <1>0, <2>2, <2>3 DEF GoodStep
  <2>5. OthersTyped'
    BY <1>0, <1>7, <2>3 DEF WriteSrr, OthersTyped, decVars
  <2> QED BY <2>1, <2>4, <2>5, StepIInv DEF d
<1>8. CASE SyncException
  <2>1. PICK back \in {pc, Following(pc)} :
          LET c == MsrDidChange([Cpu EXCEPT !.srr0 = back,
                                            !.srr1 = msr \ {"POW"},
                                            !.nia  = SyncVector], {}, FALSE)
          IN  /\ SetCpu([c EXCEPT !.flags = {}])
              /\ opcode_grabber' = c.table
    BY <1>8 DEF SyncException
  <2> DEFINE b == [Cpu EXCEPT !.srr0 = back, !.srr1 = msr \ {"POW"},
                              !.nia  = SyncVector]
             c == MsrDidChange(b, {}, FALSE)
             d == [c EXCEPT !.flags = {}]
  <2>2. b \in CpuType
    BY <1>0, <1>b DEF CpuType, ExecIInv, ExecTypeOK
  <2> HIDE DEF b
  <2>3. c \in CpuType /\ c.msr = {}
    <3>1. {} \in SUBSET GuestMsr /\ FALSE \in BOOLEAN
      OBVIOUS
    <3> QED BY <1>0, <2>2, <3>1, MsrDidChangeFields, Zenon
  <2> HIDE DEF c
  <2>4. d \in CpuType /\ d.msr = {} /\ d.flags = {} /\ c.table \in Tables
    BY <2>3 DEF CpuType
  <2> HIDE DEF d
  <2>5. SetCpu(d) /\ opcode_grabber' = c.table
    BY <2>1 DEF b, c, d
  <2>6. step' = "execute" /\ pc' = SyncVector
    BY <1>8 DEF SyncException, AtInstruction
  <2>7. GoodStep(d)
    BY <2>4, <2>6 DEF GoodStep
  <2>8. OthersTyped'
    BY <1>0, <1>b, <1>8, <2>4, <2>5, <2>6 DEF SyncException, OthersTyped, decVars
  <2> QED BY <2>5, <2>7, <2>8, StepIInv
<1> DEFINE Settled(r) ==
             /\ "EXCEPTION" \in exec_flags => srr0 = r /\ "EE" \notin msr
             /\ "EXCEPTION" \notin exec_flags =>
                   /\ exec_flags # {} => nia = r
                   /\ ~Diverts(exec_flags) => r = Following(pc)
<1>c. step # "execute" => Settled(resume)
  BY DEF ExecIInv, ResumeExact, NextAddress
<1>9. CASE DeviceCallback
  <2>1. /\ pc' = pc /\ step' = step /\ step # "execute" /\ resume' = resume
        /\ SetCpu(Pin(Cpu)) /\ int_pin' \in BOOLEAN
    BY <1>0, <1>9 DEF DeviceCallback, InCallback, OthersTyped
  <2>2. GoodStep(Pin(Cpu))
    BY <1>c, <2>1, PinGood
  <2>3. OthersTyped'
    BY <1>0, <1>9, <2>1 DEF DeviceCallback, OthersTyped, decVars
  <2> QED BY <2>1, <2>2, <2>3, StepIInv
<1>10. CASE DecrementerCallback
  <2> DEFINE e == [Cpu EXCEPT !.pending = FALSE]
             d == TriggerDecrementer(e)
  <2>1. /\ pc' = pc /\ step' = step /\ step # "execute" /\ resume' = resume
        /\ SetCpu(d) /\ int_pin' = int_pin
    BY <1>10 DEF DecrementerCallback, InCallback
  <2>2. /\ e \in CpuType /\ e.flags = exec_flags /\ e.nia = nia
        /\ e.msr = msr /\ e.srr0 = srr0
    BY <1>0 DEF CpuType
  <2> HIDE DEF e
  <2>3. GoodStep(d)
    <3>1. CASE "EE" \in msr
      <4> DEFINE f == [e EXCEPT !.pending = FALSE]
      <4>1. f \in CpuType /\ f.flags = exec_flags /\ f.nia = nia
        BY <2>2 DEF CpuType
      <4> HIDE DEF f
      <4>2. d = TakeInterrupt(f, DecVector)
        BY <2>2, <3>1 DEF TriggerDecrementer, f
      <4>3. /\ Diverts(f.flags) => f.nia = resume'
            /\ ~Diverts(f.flags) => resume' = Following(pc)
        BY <1>c, <2>1, <3>1, <4>1 DEF Diverts
      <4> HIDE DEF d
      <4> QED BY <1>0, <1>b, <2>1, <4>1, <4>2, <4>3, TakeInterruptGood
    <3>2. CASE "EE" \notin msr
      <4> DEFINE f == [e EXCEPT !.pending = TRUE]
      <4>1. /\ f \in CpuType /\ f.flags = exec_flags /\ f.nia = nia
            /\ f.msr = msr /\ f.srr0 = srr0
        BY <2>2 DEF CpuType
      <4> HIDE DEF f
      <4>2. d = f
        BY <2>2, <3>2 DEF TriggerDecrementer, f
      <4>3. GoodStep(f)
        BY <1>c, <2>1, <3>2, <4>1 DEF GoodStep
      <4> QED BY <4>2, <4>3
    <3> QED BY <3>1, <3>2
  <2> HIDE DEF d
  <2>4. PICK t \in dec_timers, i \in TimerIds :
           /\ dec_timer_id' = i
           /\ dec_timers' = (dec_timers \ {t})
                              \union {[id |-> i, kind |-> "timed"]}
    BY <1>10 DEF DecrementerCallback
  <2>5. /\ dec_timer_id' \in TimerIds \union {0}
        /\ dec_timers' \subseteq [id: TimerIds, kind: {"immediate", "timed"}]
    BY <1>0, <2>4 DEF OthersTyped
  <2>6. OthersTyped'
    BY <1>0, <1>10, <2>1, <2>5 DEF DecrementerCallback, OthersTyped
  <2> QED BY <2>1, <2>3, <2>6, StepIInv
<1>11. CASE HostSwitch \/ EventsDone \/ Wake
  <2>1. /\ pc' = pc /\ step' \in {"events", "sleep", "commit"}
        /\ step # "execute" /\ resume' = resume
        /\ SetCpu(Cpu) /\ int_pin' = int_pin
    BY <1>11 DEF HostSwitch, EventsDone, Wake, InCallback
  <2>2. GoodStep(Cpu)
    BY <1>0, <1>c, <2>1 DEF GoodStep
  <2>3. power_on' \in BOOLEAN
    BY <1>0, <1>11 DEF HostSwitch, EventsDone, Wake, OthersTyped
  <2>4. OthersTyped'
    BY <1>0, <1>11, <2>1, <2>3 DEF HostSwitch, EventsDone, Wake, OthersTyped,
                                  decVars
  <2> QED BY <2>1, <2>2, <2>4, StepIInv
<1>12. CASE Commit \/ ExecSwitch
  <2> DEFINE d == [Cpu EXCEPT !.flags = {}]
  <2>1. /\ SetCpu(d) /\ int_pin' = int_pin /\ step' = "execute"
    BY <1>12 DEF Commit, ExecSwitch
  <2>2. /\ d \in CpuType /\ d.flags = {} /\ d.msr = msr
        /\ d.pending = dec_exception_pending
    BY <1>0 DEF CpuType
  <2> HIDE DEF d
  <2>3. GoodStep(d)
    BY <1>0, <2>1, <2>2 DEF GoodStep
  <2>4. pc' \in Addr /\ opcode_grabber' \in Tables
    BY <1>0, <1>12 DEF Commit, ExecSwitch, ExecIInv, ExecTypeOK
  <2>5. power_on' \in BOOLEAN
    BY <1>0, <1>12 DEF Commit, ExecSwitch, OthersTyped
  <2>6. OthersTyped'
    BY <1>0, <1>12, <2>1, <2>4, <2>5 DEF Commit, ExecSwitch, OthersTyped, decVars
  <2> QED BY <2>1, <2>3, <2>6, StepIInv
<1>13. CASE UNCHANGED execVars
  BY <1>13 DEF execVars, ExecIInv, ExecTypeOK, NoInterruptMissed, ResumeExact,
               NextAddress
<1> QED
  BY <1>1, <1>2, <1>3, <1>4, <1>5, <1>6, <1>7, <1>8, <1>9, <1>10, <1>11, <1>12,
     <1>13 DEF ExecNext, DeviceSteps, CpuSteps

THEOREM ExecInvariant == ExecSpec => []ExecIInv
  BY InitExecIInv, NextExecIInv, PTL DEF ExecSpec

\* No external interrupt and no decrementer exception waits at the CPU while
\* MSR.EE is set, whatever the guest, the devices and the host do.
THEOREM InterruptsNotMissed == ExecSpec => []NoInterruptMissed
  BY ExecInvariant, PTL DEF ExecIInv

\* Every interrupt returns exactly to the instruction the program had reached.
THEOREM InterruptsResumeExactly == ExecSpec => []ResumeExact
  BY ExecInvariant, PTL DEF ExecIInv

\* Without an interrupt the loop goes on exactly where the instruction says.
THEOREM LoopGoesOnExactly == ExecSpec => NextIsResume
<1>1. ExecIInv /\ [ExecNext]_execVars
        => [Commit /\ "EXCEPTION" \notin exec_flags => pc' = resume]_execVars
  <2> SUFFICES ASSUME ExecIInv, Commit, "EXCEPTION" \notin exec_flags
               PROVE  pc' = resume
    OBVIOUS
  <2> QED
    BY DEF ExecIInv, NextAddress, Commit, Diverts
<1> QED
  BY <1>1, ExecInvariant, PTL DEF ExecSpec, NextIsResume

-----------------------------------------------------------------------------
\* The decrementer has not been written yet, or has the one timer whose id the
\* CPU keeps.  Cardinality alone would let an old timer outlive its id.
DecInv ==
    \/ dec_timers = {} /\ dec_timer_id = 0
    \/ \E kind : dec_timers = {[id |-> dec_timer_id, kind |-> kind]}

\* A rewritten decrementer never has a second timer, and one that was started
\* always has the timer its id names.
THEOREM DecrementerHasOneTimer == ExecSpec => []OneDecrementerTimer
<1>1. ExecInit => DecInv
  BY DEF ExecInit, DecInv
<1>2. DecInv /\ [ExecNext]_execVars => DecInv'
  <2> SUFFICES ASSUME DecInv, [ExecNext]_execVars PROVE DecInv'
    OBVIOUS
  <2>1. CASE WriteDecrementer
    <3>0. PICK kind \in {"immediate", "timed"} : UpdateDecrementer(kind)
      BY <2>1 DEF WriteDecrementer
    <3>1. PICK i \in TimerIds :
            /\ dec_timer_id' = i
            /\ dec_timers' = {t \in dec_timers : t.id # dec_timer_id}
                                \union {[id |-> i, kind |-> kind]}
      BY <3>0 DEF UpdateDecrementer
    <3>2. {t \in dec_timers : t.id # dec_timer_id} = {}
      BY DEF DecInv
    <3> QED BY <3>1, <3>2 DEF DecInv
  <2>2. CASE DecrementerCallback
    <3>1. PICK t \in dec_timers, i \in TimerIds :
            /\ dec_timer_id' = i
            /\ dec_timers' = (dec_timers \ {t}) \union {[id |-> i, kind |-> "timed"]}
      BY <2>2 DEF DecrementerCallback
    <3>2. dec_timers \ {t} = {}
      BY <3>1 DEF DecInv
    <3> QED BY <3>1, <3>2 DEF DecInv
  <2>3. ASSUME UNCHANGED decVars PROVE DecInv'
    BY <2>3 DEF DecInv, decVars
  <2>4. \/ WriteDecrementer \/ DecrementerCallback \/ UNCHANGED decVars
    BY DEF ExecNext, DeviceSteps, CpuSteps, Plain, FloatingPoint, Branch, Mtmsr, Rfi,
           WriteSrr, SyncException, DeviceCallback, HostSwitch, EventsDone, Wake,
           Commit, ExecSwitch, execVars, decVars
  <2> QED BY <2>1, <2>2, <2>3, <2>4
<1>3. DecInv => OneDecrementerTimer
  <2>1. ASSUME NEW t PROVE Cardinality({t}) = 1
    BY FS_Singleton
  <2>2. Cardinality({}) = 0
    BY FS_EmptySet
  <2>3. CASE dec_timers = {} /\ dec_timer_id = 0
    BY <2>2, <2>3 DEF OneDecrementerTimer
  <2>4. ASSUME NEW kind, dec_timers = {[id |-> dec_timer_id, kind |-> kind]}
        PROVE  OneDecrementerTimer
    <3>1. Cardinality(dec_timers) = 1
      BY <2>1, <2>4
    <3>2. [id |-> dec_timer_id, kind |-> kind] \in dec_timers
      BY <2>4
    <3> QED BY <3>1, <3>2 DEF OneDecrementerTimer
  <2> QED BY <2>3, <2>4 DEF DecInv
<1> QED
  BY <1>1, <1>2, <1>3, PTL DEF ExecSpec
=============================================================================
