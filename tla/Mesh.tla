--------------------------------- MODULE Mesh ---------------------------------
(***************************************************************************)
(* The MESH host adapter (devices/common/scsi/mesh.cpp on top of the       *)
(* sequencer of scsibusctrl.cpp), the bus and its disks, and the driver in *)
(* the guest that uses them.  The adapter's fields, s.ctl, are             *)
(*   cur_state, next_state, timers and named (the pending sequencer timers *)
(*   and the index of the one seq_timer_id names, 0 when it has fired),    *)
(*   dst_id, is_dma_cmd, assert_atn, fifo, to_xfer, xfer_count,            *)
(*   cur_bus_phase, int_stat, int_mask, irq, exception.                    *)
(* A register access runs to its end before a timer callback does, so each *)
(* is one step.  The driver is external: it takes the phase from the bus   *)
(* lines, as drivers do, and waits for the interrupt of each command.      *)
(***************************************************************************)
EXTENDS ScsiTarget

CONSTANTS FifoDepth,    \* DATA_FIFO_DEPTH
          Commands,     \* the commands [op, n] the driver sends
          Messages      \* the messages it sends when it selects with ATN

VARIABLES scsi, drv

meshVars == <<scsi, drv>>

AllInts == {"CMD_DONE", "EXCEPTION"}

UpdateIrq(s) == [s EXCEPT !.ctl.irq = s.ctl.int_stat \cap s.ctl.int_mask # {}]

StepCompleted(s) == UpdateIrq([s EXCEPT !.ctl.int_stat = @ \cup {"CMD_DONE"}])

ReportError(s, e) == UpdateIrq([s EXCEPT !.ctl.exception = @ \cup {e}, !.ctl.int_stat = AllInts])

-----------------------------------------------------------------------------
\* seq_defer_state: a new timer; an older one is forgotten, not cancelled.
Defer(s, next, delay) ==
    [s EXCEPT !.ctl.next_state = next, !.ctl.timers = Append(@, delay),
              !.ctl.named = Len(s.ctl.timers) + 1]

\* bus_rcv_data: fill the FIFO from the target while REQ is asserted.  The
\* count is taken off to_xfer whatever the target had to give.
Receives(s) == "REQ" \in OnBus(s) /\ s.ctl.to_xfer # 0

BusRcvData(s) ==
    LET n == Least(s.ctl.to_xfer, FifoDepth - Len(s.ctl.fifo))
        out == SendData(s.tgt[s.ctl.dst_id], n)
    IN  IF ~Receives(s) THEN s
        ELSE [s EXCEPT !.tgt[s.ctl.dst_id] = out.d, !.ctl.fifo = @ \o out.bytes,
                       !.ctl.to_xfer = @ - n]

XferEnd(s) == StepCompleted(TargetNextStep([s EXCEPT !.ctl.cur_state = "XFER_END"]))

\* Mutant: SEL is held after the selection.
SelEndHoldsSel(s) ==
    IF Confirmed(s, s.ctl.dst_id) THEN StepCompleted(s)
    ELSE ReportError([Disconnect(s, HostId) EXCEPT !.ctl.cur_state = "IDLE"], "SEL_TIMEOUT")

SelEnd(s) ==
    IF Confirmed(s, s.ctl.dst_id) THEN StepCompleted(ReleaseLine(s, HostId, {"SEL"}))
    ELSE ReportError([Disconnect(s, HostId) EXCEPT !.ctl.cur_state = "IDLE"], "SEL_TIMEOUT")

\* What the target takes from the FIFO is taken off to_xfer.
XferToTarget(s) ==
    LET taken(s1) == Len(s.ctl.fifo) - Len(s1.ctl.fifo)
        counted(s1) == [s1 EXCEPT !.ctl.to_xfer = @ - taken(s1)]
    IN  counted(TargetXferData(s))

MessageSent(s) == IF s.ctl.to_xfer > 0 THEN s ELSE StepCompleted(TargetNextStep(s))
CommandSent(s) == IF s.ctl.fifo = <<>> THEN StepCompleted(s) ELSE s
DataSent(s)    == IF s.ctl.to_xfer > 0 THEN s ELSE XferEnd(s)

\* The sequencer, run in the state cur_state.
Sequencer(s) ==
    LET st == s.ctl.cur_state
    IN  CASE st = "BUS_FREE" ->
               IF s.phase = "BUS_FREE" THEN Defer(s, "ARB_BEGIN", "settled")
               ELSE Defer(s, "BUS_FREE", "free")
          [] st = "ARB_BEGIN" ->
               IF CanArbitrate(s) THEN Defer(BeginArbitration(s, HostId), "ARB_END", "arb")
               ELSE Defer(ReleaseLine(s, HostId, Lines), "BUS_FREE", "clear")
          [] st = "ARB_END" ->
               LET s1 == EndArbitration(s)
               IN  IF Highest(s) = HostId /\ "SEL" \notin OnBus(s)
                   THEN StepCompleted(AssertLine(s1, HostId, {"SEL"}))
                   ELSE ReportError(ReleaseLine(s1, HostId, Lines), "ARB_LOST")
          [] st = "SEL_BEGIN" ->
               Defer(BeginSelection(s, HostId, s.ctl.dst_id, s.ctl.assert_atn), "SEL_END", "select")
          [] st = "SEL_END" -> SelEnd(s)
          [] st = "SEND_MSG" ->
               IF s.ctl.fifo = <<>> THEN s
               ELSE MessageSent(ReleaseLine(XferToTarget(s), HostId, {"ATN"}))
          [] st = "SEND_CMD" -> CommandSent(XferToTarget(s))
          [] st = "XFER_BEGIN" ->
               LET s1 == [s EXCEPT !.ctl.cur_bus_phase = s.phase]
               IN  CASE s.phase = "DATA_OUT" -> [s1 EXCEPT !.ctl.cur_state = "SEND_DATA"]
                     [] s.phase = "DATA_IN" ->
                          LET s2 == BusRcvData([s1 EXCEPT !.ctl.cur_state = "RCV_DATA"])
                          IN  IF s.ctl.is_dma_cmd THEN s2 ELSE StepCompleted(s2)
                     [] OTHER -> s1
          [] st = "XFER_END" -> XferEnd(s)
          [] st = "SEND_DATA" ->
               DataSent([s EXCEPT !.tgt[s.ctl.dst_id] = RcvData(@, s.ctl.fifo),
                                  !.ctl.to_xfer = @ - Len(s.ctl.fifo), !.ctl.fifo = <<>>])
          [] st = "RCV_DATA" ->
               IF s.phase # s.ctl.cur_bus_phase THEN s
               ELSE IF Receives(s) THEN BusRcvData(s) ELSE XferEnd(s)
          [] st \in {"RCV_STATUS", "RCV_MESSAGE"} ->
               LET s1 == BusRcvData(IF s.ctl.cur_bus_phase = "MESSAGE_IN"
                                    THEN AssertLine(s, HostId, {"REQ"}) ELSE s)
                   s2 == IF st = "RCV_STATUS" THEN TargetNextStep(s1)
                         ELSE AssertLine(ReleaseLine(s1, HostId, {"REQ"}), HostId, {"ACK"})
               IN  [StepCompleted(s2) EXCEPT !.ctl.cur_state = "IDLE"]
          [] OTHER -> s

InState(s, st) == Sequencer([s EXCEPT !.ctl.cur_state = st])

\* confirm_selection: the target is remembered, and the adapter it answers
\* cancels its timeout and ends the selection.
ConfirmSelection(s, t) ==
    LET s1 == [s EXCEPT !.target = t]
        k == s.ctl.named
        s2 == IF k = 0 THEN s1 ELSE [s1 EXCEPT !.ctl.timers = RemoveAt(@, k), !.ctl.named = 0]
    IN  IF s.initiator # HostId \/ s.ctl.dst_id # t THEN s1 ELSE InState(s2, "SEL_END")

-----------------------------------------------------------------------------
\* The FIFO register.  A byte that finds the FIFO full is dropped.
FifoPush(s, b) ==
    LET full == Len(s.ctl.fifo) >= FifoDepth
        s1 == IF full THEN s
              ELSE [s EXCEPT !.ctl.fifo = Append(@, b), !.ctl.xfer_count = @ - 1]
    IN  IF full \/ s1.ctl.xfer_count = 0 THEN Sequencer(s1) ELSE s1

FifoPop(s) ==
    LET s1 == [s EXCEPT !.ctl.fifo = IF @ = <<>> THEN @ ELSE Tail(@)]
    IN  IF s1.ctl.fifo = <<>> THEN Sequencer(s1) ELSE s1

\* xfer_from: what a DMA segment of len bytes takes, from the FIFO first.  The
\* transfer ends only if this call pulled its last byte from the target.
FromFifo(s, len) == Least(Len(s.ctl.fifo), len)

XferBytes(s, len) ==
    LET n == Least(s.ctl.to_xfer, len - FromFifo(s, len))
    IN  Prefix(s.ctl.fifo, FromFifo(s, len)) \o SendData(s.tgt[s.ctl.dst_id], n).bytes

XferFrom(s, len) ==
    LET n == Least(s.ctl.to_xfer, len - FromFifo(s, len))
        out == SendData(s.tgt[s.ctl.dst_id], n)
        \* what is left of the FIFO is not moved to its front
        s1 == [s EXCEPT !.ctl.fifo = Prefix(@, Len(@) - FromFifo(s, len))]
        s2 == [s1 EXCEPT !.tgt[s.ctl.dst_id] = out.d, !.ctl.to_xfer = @ - n]
    IN  IF out.bytes = <<>> THEN s1
        ELSE IF s2.ctl.to_xfer > 0 THEN s2
        ELSE XferEnd([s2 EXCEPT !.ctl.xfer_count = 0])

\* perform_command.  Note that Arbitrate keeps only ARB_LOST of the exceptions
\* and Select only SEL_TIMEOUT.
SequencerState ==
    [Arbitrate |-> "BUS_FREE", Select |-> "SEL_BEGIN", Command |-> "SEND_CMD",
     Status |-> "RCV_STATUS", DataOut |-> "XFER_BEGIN", DataIn |-> "XFER_BEGIN",
     MessageOut |-> "SEND_MSG", MessageIn |-> "RCV_MESSAGE"]

Prepared(s, c, atn) ==
    CASE c = "Arbitrate" ->
           ReleaseLine([s EXCEPT !.ctl.exception = @ \cap {"ARB_LOST"}], HostId, Lines)
      [] c = "Select" ->
           [s EXCEPT !.ctl.assert_atn = atn, !.ctl.exception = @ \cap {"SEL_TIMEOUT"}]
      [] c = "Command" -> s
      [] OTHER -> [s EXCEPT !.ctl.to_xfer = s.ctl.xfer_count]

\* Whether the target that was let go has left the bus.
BusLeft(s) ==
    UpdateIrq(IF "BSY" \in OnBus(s)
              THEN [s EXCEPT !.ctl.exception = @ \cup {"PHASE_MM"},
                             !.ctl.int_stat = @ \cup {"EXCEPTION"}]
              ELSE [s EXCEPT !.ctl.int_stat = @ \cup {"CMD_DONE"}])

BusFree(s) ==
    BusLeft(IF "ATN" \in OnBus(s) THEN TargetNextStep(s)
            ELSE IF s.phase = "MESSAGE_IN" THEN TargetNextStep(ReleaseLine(s, HostId, {"ACK"}))
            ELSE ReleaseLine(s, HostId, {"ACK"}))

PerformCommand(s0, c, dma, atn) ==
    LET s == [s0 EXCEPT !.ctl.int_stat = @ \ {"CMD_DONE"}, !.ctl.is_dma_cmd = dma]
    IN  CASE c = "BusFree" -> BusFree(s)
          [] c = "ResetMesh" ->
               UpdateIrq([s EXCEPT !.ctl.fifo = <<>>, !.ctl.int_mask = {}, !.ctl.exception = {},
                                   !.ctl.xfer_count = 0, !.ctl.int_stat = @ \cup {"CMD_DONE"}])
          [] c = "FlushFIFO" -> [s EXCEPT !.ctl.fifo = <<>>]
          [] c = "Command" /\ s.ctl.fifo = <<>> -> [s EXCEPT !.ctl.cur_state = "SEND_CMD"]
          [] OTHER -> InState(Prepared(s, c, atn), SequencerState[c])

\* The registers a driver writes before it gives a command.
AckInts(s) == UpdateIrq([s EXCEPT !.ctl.int_stat = {}])
Count(s, n) == [s EXCEPT !.ctl.xfer_count = n]

-----------------------------------------------------------------------------
(***************************************************************************)
(* Timer callbacks.                                                        *)
(***************************************************************************)
\* The callback of seq_defer_state.  Time orders the timers as far as it
\* matters: a disk settles 400 ns after it was selected, long before the
\* selection times out (250 ms).
SeqTimer(i) ==
    /\ i \in DOMAIN scsi.ctl.timers
    /\ scsi.ctl.timers[i] = "select" => \A t \in Targets : scsi.tgt[t].settle = 0
    /\ scsi' = InState([scsi EXCEPT !.ctl.timers = RemoveAt(@, i),
                                    !.ctl.named = IF @ = i THEN 0 ELSE IF @ > i THEN @ - 1 ELSE @],
                       scsi.ctl.next_state)
    /\ UNCHANGED drv

\* The settle callback of a selected disk.
Settled(s, t) ==
    LET phase(s1) == IF s1.tgt[t].atn THEN "MESSAGE_OUT" ELSE "COMMAND"
        selected(s1) == [s1 EXCEPT !.tgt[t].steps = <<>>, !.tgt[t].atn = "ATN" \in OnBus(s1)]
        begun(s1) == TSwitchPhase(s1, t, phase(s1))
    IN  IF {"BSY", "IO"} \cap OnBus(s) # {} THEN s
        ELSE begun(selected(ConfirmSelection(AssertLine(s, t, {"BSY"}), t)))

SettleTimer(t) ==
    /\ scsi.tgt[t].settle > 0
    /\ scsi' = Settled([scsi EXCEPT !.tgt[t].settle = @ - 1], t)
    /\ UNCHANGED drv

-----------------------------------------------------------------------------
(***************************************************************************)
(* The driver (external).  drv.pc is where it is in a transaction, drv.run *)
(* the sequencer command it waits for, drv.out what it still has to write  *)
(* to the FIFO, drv.want the data bytes still to move, drv.got those read, *)
(* drv.status and drv.message the bytes the target ended with, drv.sense   *)
(* what the disk should report when asked why the last command failed.     *)
(***************************************************************************)
DrvInit == [pc |-> "idle", run |-> "none", dma |-> FALSE, dst |-> HostId, out |-> <<>>, msg |-> <<>>,
            cmd |-> [op |-> "test", n |-> 0], want |-> 0, got |-> <<>>, status |-> GOOD,
            message |-> Complete, result |-> "none", sense |-> NO_SENSE]

DrvStart(t, c, m) ==
    /\ drv.pc = "idle"
    /\ scsi' = PerformCommand([AckInts(scsi) EXCEPT !.ctl.dst_id = t], "Arbitrate", FALSE, FALSE)
    /\ drv' = [drv EXCEPT !.pc = "arb", !.run = "Arbitrate", !.dst = t, !.cmd = c, !.msg = m,
                          !.got = <<>>, !.result = "none",
                          !.want = CASE c.op \in {"read", "write", "mode_select"} -> c.n
                                     [] c.op = "inquiry" -> Least(c.n, RespLen)
                                     [] c.op = "sense" -> Least(c.n, 1)
                                     [] OTHER -> 0]

DrvArbitrated ==
    /\ drv.pc = "arb" /\ scsi.ctl.irq
    /\ IF "EXCEPTION" \in scsi.ctl.int_stat
       THEN /\ scsi' = AckInts(scsi)
            /\ drv' = [drv EXCEPT !.pc = "idle", !.result = "lost"]
       ELSE /\ scsi' = PerformCommand(AckInts(scsi), "Select", FALSE, drv.msg # <<>>)
            /\ drv' = [drv EXCEPT !.pc = "sel", !.run = "Select"]

DrvSelected ==
    /\ drv.pc = "sel" /\ scsi.ctl.irq
    /\ scsi' = AckInts(scsi)
    /\ drv' = IF "EXCEPTION" \in scsi.ctl.int_stat
              THEN [drv EXCEPT !.pc = "idle", !.result = "timeout"]
              ELSE [drv EXCEPT !.pc = "phase"]

\* The phase as BusStatus0 shows it.
BusPhase(s) == CHOOSE p \in InfoPhases : PhaseLines(p) = OnBus(s) \cap {"CD", "IO", "MSG"}

Give(c, n, dma) == scsi' = PerformCommand(Count(scsi, n), c, dma, FALSE)

DrvSendMessage ==
    /\ drv.pc = "phase" /\ BusPhase(scsi) = "MESSAGE_OUT"
    /\ Give("MessageOut", Len(drv.msg), FALSE)
    /\ drv' = [drv EXCEPT !.pc = "push", !.run = "MessageOut", !.out = drv.msg]

DrvSendCommand ==
    /\ drv.pc = "phase" /\ BusPhase(scsi) = "COMMAND"
    /\ Give("Command", CmdLen, FALSE)
    /\ drv' = [drv EXCEPT !.pc = "push", !.run = "Command", !.out = [i \in 1 .. CmdLen |-> drv.cmd]]

\* Data is written through the FIFO, never more than fits.
DrvDataOut ==
    LET n == Least(drv.want, FifoDepth)
    IN  /\ drv.pc = "phase" /\ BusPhase(scsi) = "DATA_OUT"
        /\ Give("DataOut", n, FALSE)
        /\ drv' = [drv EXCEPT !.pc = "push", !.run = "DataOut", !.want = @ - n,
                              !.out = [i \in 1 .. n |-> drv.cmd.n - drv.want + i]]

DrvPush ==
    /\ drv.pc = "push"
    /\ scsi' = FifoPush(scsi, Head(drv.out))
    /\ drv' = [drv EXCEPT !.out = Tail(@), !.pc = IF Len(drv.out) = 1 THEN "wait" ELSE "push"]

\* Data is read through the FIFO, or by DMA when there is more than the FIFO holds.
DrvDataIn(dma) ==
    /\ drv.pc = "phase" /\ BusPhase(scsi) = "DATA_IN"
    /\ dma => drv.want > FifoDepth
    /\ Give("DataIn", drv.want, dma)
    /\ drv' = [drv EXCEPT !.run = "DataIn", !.dma = dma, !.pc = IF dma THEN "dma" ELSE "wait"]

DrvRead ==
    /\ drv.pc = "read" /\ scsi.ctl.fifo # <<>>
    /\ scsi' = LET acked(s) == IF drv.want = 1 THEN AckInts(s) ELSE s
               IN  acked(FifoPop(scsi))
    /\ drv' = [drv EXCEPT !.got = Append(@, Head(scsi.ctl.fifo)), !.want = @ - 1,
                          !.pc = IF drv.want = 1 THEN "phase" ELSE "read"]

\* A DMA segment is no shorter than the FIFO, the last one excepted.
DrvDma(len) ==
    /\ drv.pc = "dma" /\ len \in Least(FifoDepth, drv.want) .. drv.want
    /\ scsi' = XferFrom(scsi, len)
    /\ drv' = [drv EXCEPT !.got = @ \o XferBytes(scsi, len), !.want = @ - len,
                          !.pc = IF drv.want = len THEN "wait" ELSE "dma"]

DrvStatus ==
    /\ drv.pc = "phase" /\ BusPhase(scsi) = "STATUS"
    /\ Give("Status", 1, FALSE)
    /\ drv' = [drv EXCEPT !.pc = "wait", !.run = "Status"]

DrvMessageIn ==
    /\ drv.pc = "phase" /\ BusPhase(scsi) = "MESSAGE_IN"
    /\ Give("MessageIn", 1, FALSE)
    /\ drv' = [drv EXCEPT !.pc = "wait", !.run = "MessageIn"]

\* The interrupt of a command the driver waits for.
DrvDone ==
    /\ drv.pc = "wait" /\ scsi.ctl.irq
    /\ CASE drv.run = "DataIn" /\ ~drv.dma ->
              /\ scsi' = AckInts(scsi)
              /\ drv' = [drv EXCEPT !.pc = "read"]
         [] drv.run = "Status" /\ scsi.ctl.fifo # <<>> ->
              /\ scsi' = AckInts(FifoPop(scsi))
              /\ drv' = [drv EXCEPT !.pc = "phase", !.status = Head(scsi.ctl.fifo)]
         [] drv.run = "MessageIn" /\ scsi.ctl.fifo # <<>> ->
              /\ scsi' = PerformCommand(AckInts(FifoPop(scsi)), "BusFree", FALSE, FALSE)
              /\ drv' = [drv EXCEPT !.run = "BusFree", !.message = Head(scsi.ctl.fifo)]
         [] drv.run = "BusFree" /\ "EXCEPTION" \notin scsi.ctl.int_stat ->
              /\ scsi' = AckInts(scsi)
              /\ drv' = [drv EXCEPT !.pc = "idle", !.result = "done",
                                    !.sense = IF drv.status = CHECK_CONDITION THEN ILLEGAL_REQ
                                              ELSE IF drv.cmd.op = "sense" THEN NO_SENSE ELSE @]
         [] OTHER ->
              /\ scsi' = AckInts(scsi)
              /\ drv' = [drv EXCEPT !.pc = "phase"]

-----------------------------------------------------------------------------
MeshInit ==
    /\ scsi = [phase |-> "BUS_FREE", lines |-> [i \in Ids |-> {}], ctrl |-> {}, data |-> {},
               winner |-> NoId, initiator |-> NoId, target |-> NoId, abort |-> FALSE,
               tgt |-> [t \in Targets |-> TargetInit],
               ctl |-> [cur_state |-> "IDLE", next_state |-> "IDLE", timers |-> <<>>, named |-> 0,
                        dst_id |-> HostId, is_dma_cmd |-> FALSE, assert_atn |-> FALSE, fifo |-> <<>>,
                        to_xfer |-> 0, xfer_count |-> 0, cur_bus_phase |-> "BUS_FREE",
                        int_stat |-> {}, int_mask |-> AllInts, irq |-> FALSE, exception |-> {}]]
    /\ drv = DrvInit

Timers == \/ \E i \in DOMAIN scsi.ctl.timers : SeqTimer(i)
          \/ \E t \in Targets : SettleTimer(t)

Driver == \/ DrvArbitrated \/ DrvSelected
          \/ DrvSendMessage \/ DrvSendCommand \/ DrvDataOut \/ DrvPush
          \/ \E dma \in BOOLEAN : DrvDataIn(dma)
          \/ DrvRead
          \/ \E len \in 1 .. drv.want : DrvDma(len)
          \/ DrvStatus \/ DrvMessageIn \/ DrvDone

MeshNext == ~scsi.abort /\
    \/ Timers \/ Driver
    \/ \E t \in Ids \ {HostId}, c \in Commands, m \in Messages : DrvStart(t, c, m)

MeshSpec == MeshInit /\ [][MeshNext]_meshVars

\* When a timer callback, and when the driver, can change something.  Polling
\* a bus that is not free changes nothing.
Polling == scsi.phase # "BUS_FREE" /\ scsi.ctl.cur_state = "BUS_FREE" /\ scsi.ctl.next_state = "BUS_FREE"
TimerPending == \/ scsi.ctl.timers # <<>> /\ ~Polling
                \/ \E t \in Targets : scsi.tgt[t].settle > 0
DriverReady == \/ drv.pc \in {"phase", "push", "dma"}
               \/ drv.pc \in {"arb", "sel", "wait"} /\ scsi.ctl.irq
               \/ drv.pc = "read" /\ scsi.ctl.fifo # <<>>

\* Weak fairness, with ENABLED written out: timers that are due fire (the timer
\* manager runs them) and the driver goes on when it can; it need not start a
\* transaction.
MeshFairSpec == /\ MeshSpec
                /\ []<>(~TimerPending) \/ []<><<Timers>>_meshVars
                /\ []<>(~DriverReady) \/ []<><<Driver>>_meshVars

-----------------------------------------------------------------------------
(***************************************************************************)
(* Properties.                                                             *)
(***************************************************************************)
\* In an information phase the confirmed target alone drives BSY and the three
\* phase lines, and they spell the phase the bus object believes in: the guest
\* reads the lines (BusStatus0), the emulated devices read cur_phase.  Between
\* transactions nothing is left over: the bus is free with every line released,
\* no sequencer or settle timer is pending, and the interrupt line is down.
BusConsistent ==
    LET by(l) == {i \in Ids : l \in scsi.lines[i]}
    IN  /\ scsi.phase \in InfoPhases =>
              /\ by("BSY") = {scsi.target}
              /\ OnBus(scsi) \cap {"CD", "IO", "MSG"} = PhaseLines(scsi.phase)
              /\ \A l \in PhaseLines(scsi.phase) : by(l) = {scsi.target}
        /\ drv.pc = "idle" =>
              /\ scsi.phase = "BUS_FREE" /\ OnBus(scsi) = {}
              /\ scsi.ctl.timers = <<>> /\ \A t \in Targets : scsi.tgt[t].settle = 0
              /\ ~scsi.ctl.irq /\ scsi.ctl.fifo = <<>>

\* A finished transaction moved the data of its own command, once and in
\* order, across the FIFO, the DMA path and the refills of the disk's cache,
\* and ended with COMMAND COMPLETE; the sense data of a refused command is what
\* the next REQUEST SENSE returns, whatever was transferred in between.
DataIntact ==
    LET d == scsi.tgt[drv.dst]
        all == [i \in 1 .. drv.cmd.n |-> i]
    IN  drv.run = "BusFree" /\ scsi.ctl.irq /\ "EXCEPTION" \notin scsi.ctl.int_stat
            /\ drv.status = GOOD =>
          /\ drv.message = Complete
          /\ drv.cmd.op = "read" => drv.got = all
          /\ drv.cmd.op = "write" => d.disk = all
          /\ drv.cmd.op = "sense" => drv.got = <<IF Lun(d) # 0 THEN ILLEGAL_REQ ELSE drv.sense>>

\* Every transaction ends: each sequencer command the driver waits for
\* raises its interrupt, also when nobody answers the selection.
TransactionEnds == (drv.pc # "idle") ~> (drv.pc = "idle")
=============================================================================
