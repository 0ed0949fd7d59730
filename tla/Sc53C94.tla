------------------------------- MODULE Sc53C94 -------------------------------
(***************************************************************************)
(* The 53C94 host adapter (devices/common/scsi/sc53c94.cpp) on the bus and *)
(* the disks of ScsiTarget.  Its commands are programs: a selection goes   *)
(* through the message and the command by itself, each phase change of the *)
(* target moving cmd_steps on.  s.ctl has                                  *)
(*   cur_state, next_state, timer (of seq_timer_id), steps (cmd_steps),    *)
(*   cmd (cmd_fifo, one command), cur_cmd, is_dma_cmd, is_dma_xfer, fifo,  *)
(*   xfer_count, target_id, cur_bus_phase, int_status, irq, seq_step,      *)
(*   on_reset, enf (CFG2_ENF), latch and closed (phase_latch).             *)
(* The driver (external) gives a command when the last one is done: the    *)
(* second place of the command FIFO is not used.                           *)
(***************************************************************************)
EXTENDS ScsiTarget

CONSTANTS CurioFifo,      \* DATA_FIFO_MAX
          CurioCommands,  \* the commands [op, n] the driver sends
          MaxCurio        \* bound: transactions of the driver

VARIABLES curio, cdrv
curioVars == <<curio, cdrv>>

Step(num, phase, st) == [num |-> num, expected |-> phase, next |-> st]
SelNoAtn == <<Step(2, "COMMAND", "SEND_CMD"), Step(4, "none", "CMD_COMPLETE")>>
SelWithAtn == <<Step(0, "MESSAGE_OUT", "SEND_MSG")>> \o SelNoAtn

CurioIrq(s) == [s EXCEPT !.ctl.irq = s.ctl.int_status # {}]
Report(s, bits) == CurioIrq([s EXCEPT !.ctl.int_status = bits])

\* seq_defer_state cancels the timer before it adds one.
DeferTo(s, st, delay) == [s EXCEPT !.ctl.next_state = st, !.ctl.timer = delay]

\* exec_next_command.
NextCommand(s) == [s EXCEPT !.ctl.cmd = "none"]

PhaseOnBus(s) == OnBus(s) \cap {"CD", "IO", "MSG"}
UpdateLatch(s) == IF ~s.ctl.enf \/ s.ctl.closed THEN s
                  ELSE [s EXCEPT !.ctl.latch = PhaseOnBus(s), !.ctl.closed = TRUE]

\* Sc53C94Dev::notify, BUS_PHASE_CHANGE.
PhaseChanged(s) ==
    LET s1 == IF s.phase # "BUS_FREE" THEN s
              ELSE [Report(s, {"DIS"}) EXCEPT !.ctl.cur_state = "IDLE"]
        step == Head(s.ctl.steps)
        s2 == Report([s1 EXCEPT !.ctl.seq_step = step.num], {"SR", "SO"})
    IN  IF s.ctl.steps = <<>> THEN s1
        ELSE IF s.phase = step.expected
        THEN DeferTo([s1 EXCEPT !.ctl.steps = Tail(@)], step.next, "now")
        ELSE IF step.next = "CMD_COMPLETE" THEN NextCommand(UpdateLatch(s2)) ELSE s2

\* The target may have changed the phase in s1, in answer to what was done in s.
Notified(s, s1) == IF s1.phase = s.phase THEN s1 ELSE PhaseChanged(s1)
StepTarget(s) == Notified(s, TargetNextStep(s))
FeedTarget(s) == Notified(s, TargetXferData(s))

\* rcv_data: a FIFO full for DMA, else one byte.
Receive(s) ==
    LET n == IF s.ctl.is_dma_cmd /\ s.ctl.cur_bus_phase = "DATA_IN"
             THEN Least(s.ctl.xfer_count, CurioFifo - Len(s.ctl.fifo)) ELSE 1
        out == SendData(s.tgt[s.ctl.target_id], n)
    IN  IF "REQ" \notin OnBus(s) THEN s
        ELSE [s EXCEPT !.tgt[s.ctl.target_id] = out.d, !.ctl.fifo = @ \o out.bytes]

EndTransfer(s) ==
    LET s1 == UpdateLatch([StepTarget([s EXCEPT !.ctl.is_dma_xfer = FALSE]) EXCEPT !.ctl.cur_state = "IDLE"])
    IN  NextCommand(Report(s1, {"SR"}))

CommandComplete(s) ==
    NextCommand(CurioIrq(UpdateLatch([s EXCEPT !.ctl.is_dma_xfer = FALSE, !.ctl.cur_state = "IDLE"])))

\* sequencer, RCV_MESSAGE and RCV_STATUS: the adapter itself asserts REQ for
\* the message, and leaves it asserted.
ReceiveMessage(s) ==
    LET s1 == AssertLine(Receive([s EXCEPT !.ctl.is_dma_xfer = s.ctl.is_dma_cmd]), HostId, {"ACK"})
    IN  IF s.ctl.cur_cmd # "COMPLETE_STEPS" THEN s1
        ELSE CommandComplete([s1 EXCEPT !.ctl.int_status = {"SO"}])

ReceiveStatus(s) ==
    LET message(s1) ==
            IF s1.ctl.cur_bus_phase # "MESSAGE_IN" THEN s1
            ELSE ReceiveMessage([AssertLine(s1, HostId, {"REQ"}) EXCEPT !.ctl.cur_state = "RCV_MESSAGE"])
    IN  message(StepTarget(Receive([s EXCEPT !.ctl.is_dma_xfer = s.ctl.is_dma_cmd])))

SendMessage(s) ==
    LET next(s1) == IF s.ctl.steps = <<>> THEN s1 ELSE StepTarget(s1)
    IN  IF s.ctl.fifo = <<>> /\ s.ctl.is_dma_cmd THEN s
        ELSE next(ReleaseLine(FeedTarget(s), HostId, {"ATN"}))

BeginTransfer(s0, ready) ==
    LET s == [s0 EXCEPT !.ctl.is_dma_xfer = s0.ctl.is_dma_cmd, !.ctl.cur_bus_phase = s0.phase]
        dma == s.ctl.is_dma_cmd
    IN  CASE s.phase = "DATA_OUT" ->
               IF dma THEN s
               ELSE EndTransfer([s EXCEPT !.tgt[s.ctl.target_id] = RcvData(@, s.ctl.fifo), !.ctl.fifo = <<>>])
          [] s.phase = "DATA_IN" ->
               IF dma /\ ready THEN s
               ELSE LET s1 == Receive([s EXCEPT !.ctl.cur_state = "RCV_DATA"])
                    IN  IF dma THEN s1 ELSE EndTransfer(s1)
          [] s.phase = "MESSAGE_OUT" -> EndTransfer(SendMessage(s))
          [] s.phase = "MESSAGE_IN" -> EndTransfer(ReceiveMessage(s))
          [] OTHER -> [s EXCEPT !.abort = TRUE]

\* sequencer, entered from a timer.
CurioSequencer(s) ==
    LET st == s.ctl.cur_state
    IN  CASE st = "BUS_FREE" ->
               IF s.phase = "BUS_FREE" THEN DeferTo(s, "ARB_BEGIN", "settled")
               ELSE DeferTo(s, "BUS_FREE", "free")
          [] st = "ARB_BEGIN" ->
               IF CanArbitrate(s) THEN DeferTo(BeginArbitration(s, HostId), "ARB_END", "arb")
               ELSE DeferTo(ReleaseLine(s, HostId, Lines), "BUS_FREE", "clear")
          [] st = "ARB_END" ->
               LET s1 == EndArbitration(s)
               IN  IF Highest(s) = HostId THEN DeferTo(s1, "SEL_BEGIN", "settled")
                   ELSE DeferTo(ReleaseLine(s1, HostId, Lines), "BUS_FREE", "clear")
          [] st = "SEL_BEGIN" ->
               DeferTo(BeginSelection(s, HostId, s.ctl.target_id, s.ctl.cur_cmd # "SELECT_NO_ATN"),
                       "SEL_END", "select")
          [] st = "SEL_END" ->
               IF Confirmed(s, s.ctl.target_id) THEN ReleaseLine(s, HostId, {"SEL"})
               ELSE LET s1 == Disconnect([s EXCEPT !.ctl.seq_step = 0], HostId)
                    IN  NextCommand(Report([s1 EXCEPT !.ctl.cur_state = "IDLE"], {"DIS"}))
          [] st = "SEND_MSG" -> SendMessage([s EXCEPT !.ctl.is_dma_xfer = s.ctl.is_dma_cmd])
          [] st = "SEND_CMD" ->
               LET s1 == [s EXCEPT !.ctl.is_dma_xfer = s.ctl.is_dma_cmd]
               IN  IF s.ctl.fifo = <<>> /\ s.ctl.is_dma_cmd THEN s1 ELSE FeedTarget(s1)
          [] st = "CMD_COMPLETE" -> CommandComplete(s)

\* update_command_reg and exec_command, with ready the state of the DMA
\* channel and count what the transfer count was set to.
CurioCommand(s0, c, dma, count, ready) ==
    LET s == [s0 EXCEPT !.ctl.cmd = c, !.ctl.cur_cmd = c, !.ctl.is_dma_cmd = dma, !.ctl.steps = <<>>,
                        !.ctl.xfer_count = IF dma THEN count ELSE @]
        select(steps) == CurioSequencer([s EXCEPT !.ctl.seq_step = 0, !.ctl.steps = steps,
                                                  !.ctl.cur_state = "BUS_FREE"])
    IN  IF s0.ctl.on_reset /\ c \notin {"NOP", "CLEAR_FIFO"} THEN s0
        ELSE CASE c = "NOP" -> NextCommand([s EXCEPT !.ctl.on_reset = FALSE])
               [] c = "CLEAR_FIFO" -> NextCommand([s EXCEPT !.ctl.on_reset = FALSE, !.ctl.fifo = <<>>])
               [] c = "RESET_DEVICE" ->
                    [s EXCEPT !.ctl.on_reset = TRUE, !.ctl.cmd = "none", !.ctl.fifo = <<>>,
                              !.ctl.seq_step = 0, !.ctl.int_status = {}]
               [] c = "XFER" -> BeginTransfer(s, ready)
               [] c = "COMPLETE_STEPS" ->
                    IF s.phase # "STATUS" THEN [s EXCEPT !.abort = TRUE]
                    ELSE ReceiveStatus([s EXCEPT !.ctl.cur_state = "RCV_STATUS"])
               [] c = "MSG_ACCEPTED" ->
                    NextCommand(StepTarget(IF "ATN" \in OnBus(s) THEN s ELSE ReleaseLine(s, HostId, {"ACK"})))
               [] OTHER -> select(IF c = "SELECT_NO_ATN" THEN SelNoAtn ELSE SelWithAtn)

\* Int_Status, read.
ReadIntStatus(s) ==
    CurioIrq([s EXCEPT !.ctl.int_status = IF s.ctl.irq THEN {} ELSE @,
                       !.ctl.seq_step = IF s.ctl.irq THEN 0 ELSE @, !.ctl.closed = FALSE])

\* xfer_from and xfer_to, for a DMA segment of len bytes.  What is left of the
\* FIFO is not moved to its front.
CurioTakes(s, len) == Least(Len(s.ctl.fifo), len)
CurioBytes(s, len) ==
    Prefix(s.ctl.fifo, CurioTakes(s, len)) \o SendData(s.tgt[s.ctl.target_id], len - CurioTakes(s, len)).bytes

\* Mutant: the bytes taken from the FIFO stay in it.
FifoUnspent(s, k) == s.ctl.fifo

FifoLeft(s, k) == Prefix(s.ctl.fifo, Len(s.ctl.fifo) - k)

CurioXferFrom(s, len) ==
    LET k == CurioTakes(s, len)
        s1 == [s EXCEPT !.ctl.fifo = FifoLeft(s, k), !.ctl.xfer_count = @ - k]
        out == SendData(s.tgt[s.ctl.target_id], len - k)
        s2 == [s1 EXCEPT !.tgt[s.ctl.target_id] = out.d, !.ctl.xfer_count = @ - (len - k)]
    IN  IF k > 0 /\ s1.ctl.xfer_count = 0 THEN EndTransfer(s1)
        ELSE IF out.bytes = <<>> THEN s1
        ELSE IF s2.ctl.xfer_count = 0 THEN EndTransfer(s2) ELSE s2

CurioXferTo(s, bytes) ==
    LET s1 == [s EXCEPT !.tgt[s.ctl.target_id] = RcvData(@, bytes), !.ctl.xfer_count = @ - Len(bytes)]
    IN  IF s1.ctl.xfer_count = 0 THEN EndTransfer(s1) ELSE s1

-----------------------------------------------------------------------------
(* Timers. *)

CurioTimer ==
    /\ curio.ctl.timer # "none"
    /\ curio.ctl.timer = "select" => \A t \in Targets : curio.tgt[t].settle = 0
    /\ curio' = CurioSequencer([curio EXCEPT !.ctl.timer = "none", !.ctl.cur_state = curio.ctl.next_state])
    /\ UNCHANGED cdrv

\* CONFIRM_SEL cancels the timeout and ends the selection.
CurioConfirmed(s, t) ==
    LET s1 == [s EXCEPT !.target = t]
    IN  IF s.initiator # HostId \/ s.ctl.target_id # t THEN s1
        ELSE CurioSequencer([s1 EXCEPT !.ctl.timer = "none", !.ctl.cur_state = "SEL_END"])

CurioSettled(s, t) ==
    LET phase(s1) == IF s1.tgt[t].atn THEN "MESSAGE_OUT" ELSE "COMMAND"
        selected(s1) == [s1 EXCEPT !.tgt[t].steps = <<>>, !.tgt[t].atn = "ATN" \in OnBus(s1)]
        begun(s1) == Notified(s1, TSwitchPhase(s1, t, phase(s1)))
    IN  IF {"BSY", "IO"} \cap OnBus(s) # {} THEN s
        ELSE begun(selected(CurioConfirmed(AssertLine(s, t, {"BSY"}), t)))

CurioSettle(t) ==
    /\ curio.tgt[t].settle > 0
    /\ curio' = CurioSettled([curio EXCEPT !.tgt[t].settle = @ - 1], t)
    /\ UNCHANGED cdrv

-----------------------------------------------------------------------------
(* The driver: external. *)

CdrvIdle == [pc |-> "idle", cmd |-> [op |-> "test", n |-> 0], dst |-> HostId, want |-> 0, got |-> <<>>,
             status |-> GOOD, message |-> Complete, result |-> "none", runs |-> 0]

SeenPhase == CHOOSE p \in InfoPhases :
                PhaseLines(p) = IF curio.ctl.enf THEN curio.ctl.latch ELSE PhaseOnBus(curio)

\* The message and the command are put into the FIFO first.
CdrvStart(t, c, atn) ==
    /\ cdrv.pc = "idle" /\ cdrv.runs < MaxCurio /\ curio.ctl.cmd = "none"
    /\ LET fifo == (IF atn THEN <<Identify(0)>> ELSE <<>>) \o [i \in 1 .. CmdLen |-> c]
           s == CurioCommand(curio, "CLEAR_FIFO", FALSE, 0, FALSE)
       IN  curio' = CurioCommand([s EXCEPT !.ctl.target_id = t, !.ctl.fifo = fifo],
                                 IF atn THEN "SELECT_WITH_ATN" ELSE "SELECT_NO_ATN", FALSE, 0, FALSE)
    /\ cdrv' = [cdrv EXCEPT !.pc = "select", !.cmd = c, !.dst = t, !.got = <<>>, !.result = "none",
                            !.runs = @ + 1,
                            !.want = CASE c.op \in {"read", "write", "mode_select"} -> c.n
                                       [] OTHER -> 0]

CdrvReset ==
    /\ cdrv.pc = "idle" /\ cdrv.runs < MaxCurio
    /\ curio' = CurioCommand(CurioCommand(curio, "RESET_DEVICE", FALSE, 0, FALSE), "NOP", FALSE, 0, FALSE)
    /\ cdrv' = [cdrv EXCEPT !.runs = @ + 1]

CdrvInterrupt ==
    /\ curio.ctl.irq
    /\ curio' = ReadIntStatus(curio)
    /\ cdrv' = CASE "DIS" \in curio.ctl.int_status ->
                      [cdrv EXCEPT !.pc = "idle", !.result = IF cdrv.pc = "select" THEN "timeout" ELSE "done"]
                 [] "DIS" \notin curio.ctl.int_status /\ cdrv.pc = "status" -> [cdrv EXCEPT !.pc = "message"]
                 [] "DIS" \notin curio.ctl.int_status /\ cdrv.pc = "byte" -> [cdrv EXCEPT !.pc = "pop"]
                 [] OTHER -> [cdrv EXCEPT !.pc = "phase"]

CdrvPhase(p) == /\ cdrv.pc = "phase" /\ curio.ctl.cmd = "none"
                /\ SeenPhase = p

\* With DMA, the channel started before or after the command.
CdrvDma(ready) ==
    /\ CdrvPhase("DATA_IN") \/ CdrvPhase("DATA_OUT")
    /\ cdrv.want > 0
    /\ curio' = CurioCommand(curio, "XFER", TRUE, cdrv.want, ready)
    /\ cdrv' = [cdrv EXCEPT !.pc = "dma"]

CdrvByte ==
    /\ CdrvPhase("DATA_IN")
    /\ curio' = CurioCommand(curio, "XFER", FALSE, 0, FALSE)
    /\ cdrv' = [cdrv EXCEPT !.pc = "byte"]

CdrvPop ==
    /\ cdrv.pc = "pop" /\ curio.ctl.fifo # <<>>
    /\ curio' = [curio EXCEPT !.ctl.fifo = Tail(@)]
    /\ cdrv' = [cdrv EXCEPT !.pc = "phase", !.got = Append(@, Head(curio.ctl.fifo)), !.want = @ - 1]

CdrvWrite ==
    LET n == Least(cdrv.want, CurioFifo)
    IN  /\ CdrvPhase("DATA_OUT")
        /\ cdrv.want > 0
        /\ curio' = CurioCommand([curio EXCEPT !.ctl.fifo = [i \in 1 .. n |-> cdrv.cmd.n - cdrv.want + i]],
                                 "XFER", FALSE, 0, FALSE)
        /\ cdrv' = [cdrv EXCEPT !.pc = "wait", !.want = @ - n]

\* A DMA segment is no shorter than what the FIFO holds: a shorter one would be
\* given the FIFO's first bytes twice.
CdrvSegment(len) ==
    /\ cdrv.pc = "dma" /\ len \in 1 .. cdrv.want
    /\ len >= Len(curio.ctl.fifo)
    /\ \/ /\ curio.ctl.cur_bus_phase = "DATA_IN"
          /\ curio' = CurioXferFrom(curio, len)
          /\ cdrv' = [cdrv EXCEPT !.got = @ \o CurioBytes(curio, len), !.want = @ - len,
                                  !.pc = IF cdrv.want = len THEN "wait" ELSE @]
       \/ /\ curio.ctl.cur_bus_phase = "DATA_OUT"
          /\ curio' = CurioXferTo(curio, [i \in 1 .. len |-> cdrv.cmd.n - cdrv.want + i])
          /\ cdrv' = [cdrv EXCEPT !.want = @ - len, !.pc = IF cdrv.want = len THEN "wait" ELSE @]

CdrvStatus ==
    /\ CdrvPhase("STATUS")
    /\ curio' = CurioCommand([curio EXCEPT !.ctl.fifo = <<>>], "COMPLETE_STEPS", FALSE, 0, FALSE)
    /\ cdrv' = [cdrv EXCEPT !.pc = "status"]

CdrvAccept ==
    /\ cdrv.pc = "message" /\ Len(curio.ctl.fifo) = 2 /\ curio.ctl.cmd = "none"
    /\ curio' = CurioCommand([curio EXCEPT !.ctl.fifo = <<>>], "MSG_ACCEPTED", FALSE, 0, FALSE)
    /\ cdrv' = [cdrv EXCEPT !.pc = "wait", !.status = curio.ctl.fifo[1], !.message = curio.ctl.fifo[2]]

-----------------------------------------------------------------------------
CurioInit ==
    /\ \E enf \in BOOLEAN :
         curio = [phase |-> "BUS_FREE", lines |-> [i \in Ids |-> {}], ctrl |-> {}, data |-> {},
                  winner |-> NoId, initiator |-> NoId, target |-> NoId, abort |-> FALSE,
                  tgt |-> [t \in Targets |-> TargetInit],
                  ctl |-> [cur_state |-> "IDLE", next_state |-> "IDLE", timer |-> "none", steps |-> <<>>,
                           cmd |-> "none", cur_cmd |-> "none", is_dma_cmd |-> FALSE, is_dma_xfer |-> FALSE,
                           fifo |-> <<>>, xfer_count |-> 0, target_id |-> HostId,
                           cur_bus_phase |-> "BUS_FREE", int_status |-> {}, irq |-> FALSE, seq_step |-> 0,
                           on_reset |-> FALSE, enf |-> enf, latch |-> {}, closed |-> FALSE]]
    /\ cdrv = CdrvIdle

CurioTimers == CurioTimer \/ \E t \in Targets : CurioSettle(t)
CurioDriver == \/ CdrvInterrupt \/ CdrvByte \/ CdrvPop \/ CdrvWrite \/ CdrvStatus \/ CdrvAccept
               \/ \E ready \in BOOLEAN : CdrvDma(ready)
               \/ \E len \in 1 .. cdrv.want : CdrvSegment(len)

CurioNext == ~curio.abort /\
    \/ CurioTimers \/ CurioDriver \/ CdrvReset
    \/ \E t \in Ids \ {HostId}, c \in CurioCommands, atn \in BOOLEAN : CdrvStart(t, c, atn)

CurioSpec == CurioInit /\ [][CurioNext]_curioVars

\* Weak fairness of the timers and of the driver, with ENABLED written out.
CurioTimerPending == curio.ctl.timer # "none" \/ \E t \in Targets : curio.tgt[t].settle > 0
CurioDriverReady == \/ curio.ctl.irq
                    \/ cdrv.pc = "phase" /\ curio.ctl.cmd = "none"
                    \/ cdrv.pc = "dma"
                    \/ cdrv.pc = "pop" /\ curio.ctl.fifo # <<>>
                    \/ cdrv.pc = "message" /\ Len(curio.ctl.fifo) = 2 /\ curio.ctl.cmd = "none"
CurioFairness == /\ []<>(~CurioTimerPending) \/ []<><<CurioTimers>>_curioVars
                 /\ []<>(~CurioDriverReady) \/ []<><<CurioDriver>>_curioVars
CurioFairSpec == CurioSpec /\ CurioFairness

-----------------------------------------------------------------------------
(* Properties. *)

\* A transaction that is done has moved the data of its own command, in order
\* and once, by the FIFO, by DMA and by a FIFO that was filled before the DMA
\* channel was ready, and ended with COMMAND COMPLETE; the adapter did not meet
\* a phase it aborts in.
CurioDataIntact ==
    /\ ~curio.abort
    /\ cdrv.result = "done" =>
          /\ cdrv.message = Complete
          /\ cdrv.cmd.op = "read" => cdrv.got = [i \in 1 .. cdrv.cmd.n |-> i]
          /\ cdrv.cmd.op = "write" => curio.tgt[cdrv.dst].disk = [i \in 1 .. cdrv.cmd.n |-> i]

\* Every transaction ends: each command of the adapter raises its interrupt
\* and leaves the command register free for the next, also when nobody answers.
CurioEnds == (cdrv.pc # "idle") ~> (cdrv.pc = "idle")
=============================================================================
