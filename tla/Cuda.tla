-------------------------------- MODULE Cuda --------------------------------
(***************************************************************************)
(* The Cuda half of ViaCuda (devices/common/viacuda.cpp): the handshake on *)
(* TIP, BYTEACK and TREQ, the shift register and its interrupt timer, the  *)
(* command packets and their responses, autopoll and one-second packets    *)
(* and the sync state; with the ADB bus below it and above it the guest's  *)
(* driver, which is external and follows the handshake: it waits for the   *)
(* shift register's interrupt before it goes on, but may resynchronise at  *)
(* any time.                                                               *)
(*                                                                         *)
(* Signals are active low in the code and booleans here: tip, byteack and  *)
(* treq mean asserted.  A handler is an operator from the state of Cuda to *)
(* its next state.  Bytes are symbols; a response is a header (packet type *)
(* and command) and its data.                                              *)
(***************************************************************************)
EXTENDS AdbBus

CONSTANTS
    CudaCommands, \* command packets the driver sends: sequences of bytes
    InBufSize,    \* CUDA_IN_BUF_SIZE
    OpenReads,    \* bound: bytes the driver takes from an open-ended response
    MaxKeys,      \* bound: key events
    MaxSeconds    \* bound: seconds of the real-time clock

\* The driver's packets fit, its ADB commands are ones the bus knows, and it
\* selects a mode of the one-second packets that there is.
ASSUME CudaAssumption ==
    /\ {InBufSize, OpenReads, MaxKeys, MaxSeconds} \subseteq Nat
    /\ \A c \in CudaCommands :
          /\ Len(c) \in 1 .. InBufSize
          /\ Len(c) > 1 /\ c[1] = "adb" => c[2].op \in {"reset", "flush", "talk", "listen"}
          /\ Len(c) > 1 /\ c[1] = "pseudo" => (c[2] = "one_sec" => Len(c) > 2 /\ c[3] \in 0 .. 3)

VARIABLES
    cuda,     \* the state of Cuda and of the shift register
    drv,      \* the driver
    real_time \* calc_real_time()

cudaVars == <<cuda, drv, real_time, adbVars>>

CudaInit ==
    /\ cuda = [tip |-> FALSE, byteack |-> FALSE, treq |-> FALSE, sync |-> FALSE,
               shift_out |-> FALSE, sr |-> "none", sr_int |-> FALSE,
               sr_timer |-> FALSE, treq_timer |-> FALSE,
               in_buf |-> <<>>,
               out_buf |-> <<>>, out_pos |-> 0, open_ended |-> FALSE,
               autopoll |-> FALSE, one_sec_mode |-> 0, first_pkt |-> TRUE,
               missed |-> FALSE, last_time |-> 0]
    /\ drv = [phase |-> "idle", cmd |-> <<>>, sent |-> 0, got |-> <<>>,
              keys |-> <<>>]
    /\ real_time = 1
    /\ AdbInit

-----------------------------------------------------------------------------
(* The packets.                                                            *)

\* response_header and append_data; error_response; one_byte_header.
Respond(c, packet) ==
    [c EXCEPT !.out_buf = packet, !.out_pos = 0, !.open_ended = FALSE]

Open(c) == [c EXCEPT !.open_ended = TRUE]

\* disable_async_packets.
DisableAsync(c) ==
    [c EXCEPT !.autopoll = FALSE, !.one_sec_mode = 0, !.first_pkt = TRUE,
              !.missed = FALSE]

\* pseudo_command.  The commands without an effect on later packets answer
\* with the header alone.  (The code takes the parameter from in_buf[2] even if
\* the packet was too short to have one; the driver's packets are complete.)
PseudoCommand(c) ==
    LET cmd    == c.in_buf[2]
        param  == c.in_buf[3]
        header == <<"pseudo", cmd>>
    IN  CASE cmd = "autopoll" ->
                Respond([c EXCEPT !.autopoll = param = 1], header)
          [] cmd = "one_sec" ->
                Respond([c EXCEPT !.one_sec_mode = param, !.first_pkt = TRUE], header)
          [] cmd = "warm_start" -> Respond(DisableAsync(c), header)
          [] cmd = "get_time" -> Respond(c, Append(header, "time"))
          [] cmd = "read_pram" -> Open(Respond(c, header))
          [] cmd = "set_param" -> Respond(c, header)
          [] OTHER -> Respond(c, <<"error", cmd>>)

\* process_packet: the state of Cuda and of the bus after it.
ProcessPacket(c) ==
    CASE Len(c.in_buf) < 2 -> [cuda |-> Respond(c, <<"error", "size">>), bus |-> adb]
      [] Len(c.in_buf) >= 2 /\ c.in_buf[1] = "adb" ->
            LET r == ProcessCommand(adb, c.in_buf[2])
            IN  [cuda |-> Respond(c, <<"adb", c.in_buf[2].op>> \o r.out), bus |-> r.bus]
      [] Len(c.in_buf) >= 2 /\ c.in_buf[1] = "pseudo" ->
            [cuda |-> PseudoCommand(c), bus |-> adb]
      [] OTHER -> [cuda |-> Respond(c, <<"error", "type">>), bus |-> adb]

-----------------------------------------------------------------------------
(* The handshake.                                                          *)

\* schedule_sr_int replaces the timer of an earlier shift.
ScheduleSrInt(c) == [c EXCEPT !.sr_timer = TRUE]

\* out_buf_handler, and for open-ended responses the handler that follows it.
OutBufHandler(c) ==
    IF c.out_pos < Len(c.out_buf)
    THEN [c EXCEPT !.sr = c.out_buf[c.out_pos + 1], !.out_pos = @ + 1,
                   !.treq = @ /\ (c.open_ended \/ c.out_pos + 1 < Len(c.out_buf))]
    ELSE IF c.open_ended THEN [c EXCEPT !.sr = "data"]
    ELSE [c EXCEPT !.out_buf = <<>>, !.treq = FALSE]

Unsynced(c) == IF c.sync THEN [DisableAsync(c) EXCEPT !.sync = FALSE] ELSE c

\* Mutant: a packet that came in is answered without a request to the host.
EndTransactionNoTreq(c0) ==
    LET c == Unsynced([c0 EXCEPT !.treq = FALSE])
        p == ProcessPacket(c)
    IN  IF c.in_buf = <<>> THEN [cuda |-> ScheduleSrInt(c), bus |-> adb]
        ELSE [cuda |-> ScheduleSrInt([p.cuda EXCEPT !.in_buf = <<>>]), bus |-> p.bus]

\* Both signals negated: the end of a transaction.  A packet that came in is
\* processed, and its response requested 13 us later.
EndTransaction(c0) ==
    LET c == Unsynced([c0 EXCEPT !.treq = FALSE])
        p == ProcessPacket(c)
    IN  IF c.in_buf = <<>> THEN [cuda |-> ScheduleSrInt(c), bus |-> adb]
        ELSE [cuda |-> ScheduleSrInt([p.cuda EXCEPT !.treq_timer = TRUE, !.in_buf = <<>>]),
              bus  |-> p.bus]

EnterSync(c) ==
    ScheduleSrInt([c EXCEPT !.treq = TRUE, !.in_buf = <<>>, !.out_buf = <<>>, !.sync = TRUE])

\* A byte from the host; one that does not fit gets no interrupt.
TakeByte(c) ==
    IF Len(c.in_buf) < InBufSize
    THEN ScheduleSrInt([c EXCEPT !.in_buf = Append(@, c.sr)])
    ELSE c

\* ViaCuda::write(new_state), on a write to port B of a VIA whose direction
\* register is set up for Cuda.
WriteB(c0, tip, byteack) ==
    LET c == [c0 EXCEPT !.tip = tip, !.byteack = byteack]
        noBus(d) == [cuda |-> d, bus |-> adb]
    IN  IF tip = c0.tip /\ byteack = c0.byteack THEN noBus(c0)
        ELSE IF ~tip /\ ~byteack THEN EndTransaction(c)
        ELSE IF ~tip THEN noBus(EnterSync(c))
        ELSE IF c.shift_out THEN noBus(TakeByte(c))
        ELSE noBus(ScheduleSrInt(OutBufHandler(c)))

-----------------------------------------------------------------------------
(* Timers and events of the emulator.                                      *)

\* The request for the response; at 13 us it precedes the interrupt that was
\* scheduled with it or after it (30 us and more).
TreqTimer ==
    /\ cuda.treq_timer
    /\ cuda' = [cuda EXCEPT !.treq = TRUE, !.treq_timer = FALSE]
    /\ UNCHANGED <<drv, real_time, adbVars>>

SrTimer ==
    /\ cuda.sr_timer /\ ~cuda.treq_timer
    /\ cuda' = [cuda EXCEPT !.sr_timer = FALSE, !.sr_int = TRUE]
    /\ UNCHANGED <<drv, real_time, adbVars>>

\* The one-second packet; the full form follows a change of mode, a missed
\* packet and every fourth second.
OneSecPacket(c) ==
    LET full == c.first_pkt \/ c.missed \/ c.last_time % 4 = 0
    IN  CASE full \/ c.one_sec_mode = 1 -> <<"pseudo", "second", "time">>
          [] ~full /\ c.one_sec_mode = 2 -> <<"pseudo", "second">>
          [] ~full /\ c.one_sec_mode = 3 -> <<"tick">>

Attention(c) == ScheduleSrInt([c EXCEPT !.treq = TRUE])

\* Mutant: packets are prepared during a transfer as well.
AutopollHandlerAlways ==
    /\ LET poll == IF cuda.autopoll THEN PollBus(adb) ELSE NoAnswer(adb)
       IN  /\ poll.ok
           /\ cuda' = Attention(Respond(cuda, <<"adb", "polled">> \o poll.out))
           /\ adb' = poll.bus
    /\ UNCHANGED <<drv, real_time, typed>>

\* autopoll_handler, which the event manager calls after it has polled the
\* host's events: not while TIP is asserted, but also while a packet waits
\* for the host to fetch it.
AutopollHandler ==
    /\ ~cuda.tip
    /\ LET poll == IF cuda.autopoll THEN PollBus(adb) ELSE NoAnswer(adb)
           c    == cuda
       IN  \/ /\ poll.ok
              /\ cuda' = Attention(Respond(c, <<"adb", "polled">> \o poll.out))
              /\ adb' = poll.bus
           \/ /\ ~poll.ok /\ c.one_sec_mode # 0 /\ real_time # c.last_time
              /\ cuda' = IF c.treq \/ c.treq_timer \/ c.sr_timer
                         THEN [c EXCEPT !.missed = TRUE]
                         ELSE Attention([Respond(c, OneSecPacket(c)) EXCEPT
                                  !.first_pkt = FALSE, !.missed = FALSE,
                                  !.last_time = real_time])
              /\ UNCHANGED adb
    /\ UNCHANGED <<drv, real_time, typed>>

Clock ==
    /\ real_time < MaxSeconds
    /\ real_time' = real_time + 1
    /\ UNCHANGED <<cuda, drv, adbVars>>

KeyPress ==
    /\ typed < MaxKeys
    /\ typed' = typed + 1
    /\ \E d \in Keyboards : adb' = KeyEvent(adb, d, typed + 1)
    /\ UNCHANGED <<cuda, drv, real_time>>

MouseMove ==
    /\ \E d \in AdbDevs \ Keyboards : adb' = MouseEvent(adb, d)
    /\ UNCHANGED <<cuda, drv, real_time, typed>>

-----------------------------------------------------------------------------
(* The guest's driver (external).                                          *)

\* Reading or writing the shift register clears its interrupt flag.
Write(sr)  == [cuda EXCEPT !.sr = sr, !.shift_out = TRUE, !.sr_int = FALSE]
ReadSr     == [cuda EXCEPT !.shift_out = FALSE, !.sr_int = FALSE]

Set(c, tip, byteack) ==
    LET r == WriteB(c, tip, byteack)
    IN  cuda' = r.cuda /\ adb' = r.bus

\* The driver starts a command when Cuda does not request a transaction; in
\* between, before TIP is asserted, Cuda may.
DrvPrepare ==
    /\ drv.phase = "idle" /\ ~cuda.treq /\ ~cuda.sr_int
    /\ \E cmd \in CudaCommands :
          /\ cuda' = Write(cmd[1])
          /\ drv' = [drv EXCEPT !.phase = "armed", !.cmd = cmd]
    /\ UNCHANGED <<real_time, adbVars>>

DrvFirstByte ==
    /\ drv.phase = "armed"
    /\ Set(cuda, TRUE, FALSE)
    /\ drv' = [drv EXCEPT !.phase = "sending", !.sent = 1]
    /\ UNCHANGED <<real_time, typed>>

\* At the interrupt: the next byte, or the end of the packet.  If Cuda has
\* requested a transaction of its own the driver gives way.
DrvSend ==
    /\ drv.phase = "sending" /\ cuda.sr_int
    /\ IF cuda.treq /\ drv.sent = 1
       THEN /\ Set(ReadSr, FALSE, FALSE)
            /\ drv' = [drv EXCEPT !.phase = "ending", !.cmd = <<>>, !.sent = 0]
       ELSE IF drv.sent < Len(drv.cmd)
       THEN /\ Set(Write(drv.cmd[drv.sent + 1]), TRUE, ~cuda.byteack)
            /\ drv' = [drv EXCEPT !.sent = @ + 1]
       ELSE /\ Set(ReadSr, FALSE, FALSE)
            /\ drv' = [drv EXCEPT !.phase = "awaiting", !.sent = 0]
    /\ UNCHANGED <<real_time, typed>>

\* An interrupt between transactions: the driver fetches a packet if Cuda
\* requests it, and is idle otherwise.
DrvAttention ==
    /\ drv.phase \in {"idle", "awaiting", "ending"} /\ cuda.sr_int
    /\ IF cuda.treq
       THEN /\ Set(ReadSr, TRUE, FALSE)
            /\ drv' = [drv EXCEPT !.phase = "reading"]
       ELSE /\ cuda' = ReadSr /\ UNCHANGED adb
            /\ drv' = [drv EXCEPT !.phase = "idle", !.cmd = <<>>]
    /\ UNCHANGED <<real_time, typed>>

\* The key events in an ADB packet: its data, but for the report of a mouse and
\* the content of a register.
KeysOf(packet) ==
    LET data == SubSeq(packet, 3, Len(packet))
    IN  IF packet[1] = "adb" /\ data # <<0>> THEN data ELSE <<>>

DrvReceive ==
    /\ drv.phase = "reading" /\ cuda.sr_int
    /\ LET got == Append(drv.got, cuda.sr)
       IN  IF cuda.treq /\ ~(cuda.open_ended /\ Len(got) >= 2 + OpenReads)
           THEN /\ Set(ReadSr, TRUE, ~cuda.byteack)
                /\ drv' = [drv EXCEPT !.got = got]
           ELSE /\ Set(ReadSr, FALSE, FALSE)
                /\ drv' = [drv EXCEPT !.phase = "ending", !.got = <<>>, !.cmd = <<>>,
                             !.keys = @ \o KeysOf(got)]
    /\ UNCHANGED <<real_time, typed>>

\* The driver, or a guest that restarts, resynchronises at any time, and
\* leaves the sync state at the interrupt.
DrvSync ==
    /\ drv.phase # "syncing"
    /\ Set(ReadSr, FALSE, TRUE)
    /\ drv' = [drv EXCEPT !.phase = "syncing", !.cmd = <<>>, !.sent = 0, !.got = <<>>]
    /\ UNCHANGED <<real_time, typed>>

DrvSynced ==
    /\ drv.phase = "syncing" /\ cuda.sr_int
    /\ Set(ReadSr, FALSE, FALSE)
    /\ drv' = [drv EXCEPT !.phase = "ending"]
    /\ UNCHANGED <<real_time, typed>>

Driver ==
    DrvFirstByte \/ DrvSend \/ DrvAttention \/ DrvReceive \/ DrvSynced

CudaNext ==
    \/ TreqTimer \/ SrTimer \/ AutopollHandler \/ Clock \/ KeyPress \/ MouseMove
    \/ DrvPrepare \/ Driver \/ DrvSync

CudaSpec == CudaInit /\ [][CudaNext]_cudaVars

\* Timers expire and the guest's driver handles its interrupts.
CudaFairness ==
    WF_cudaVars(TreqTimer) /\ WF_cudaVars(SrTimer) /\ WF_cudaVars(Driver)
CudaFairSpec == CudaSpec /\ CudaFairness
-----------------------------------------------------------------------------
\* While the driver fetches a packet it has read exactly the bytes of that one
\* packet up to the byte in the shift register, and TREQ is negated with the
\* last one: no response, autopoll or one-second packet is mixed into another,
\* whatever timers and events come in between.
WholePacket ==
    drv.phase = "reading" /\ ~cuda.open_ended =>
        /\ Append(drv.got, cuda.sr) = SubSeq(cuda.out_buf, 1, cuda.out_pos)
        /\ ~cuda.treq <=> cuda.out_pos = Len(cuda.out_buf)

\* The key events that reach the guest are in the order they were typed, and
\* none is seen twice: by autopoll, by a Talk command or by both.
KeysInOrder ==
    \A i, j \in 1 .. Len(drv.keys) : i < j => drv.keys[i] < drv.keys[j]

\* The interrupt that ends a command announces its response: TREQ is asserted
\* when the driver looks, so no command is taken for finished unanswered.
CommandAnswered == drv.phase = "awaiting" /\ cuda.sr_int => cuda.treq

\* The driver never waits in vain for the interrupt of the shift register.
HandshakeAnswered == []<>(drv.phase \in {"idle", "armed"} \/ cuda.sr_int)
=============================================================================
