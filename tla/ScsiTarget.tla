------------------------------ MODULE ScsiTarget ------------------------------
(***************************************************************************)
(* A SCSI disk as a bus target: the phase machine and the data pointers of *)
(* ScsiPhysDevice (scsiphysdevice.cpp), the commands of scsihd.cpp,        *)
(* scsicommoncmds.cpp and scsiblockcmds.cpp, and the block cache of        *)
(* blockstoragedevice.cpp.  s.tgt[t] has the fields                        *)
(*   phase (cur_phase), settle (pending settle timers), steps (seq_steps), *)
(*   atn (last_selection_has_attention), sel_msg (last_selection_message), *)
(*   msg (msg_buf), cmd (cmd_buf), status, sense (sense_key),              *)
(*   data (the data_size bytes at data_ptr), buf (the xfer_len bytes at    *)
(*   buf_ptr), incoming (incoming_size), remain (what the block device has *)
(*   not moved yet), wsize (write_size), post (post_xfer_action writes the *)
(*   cache), disk (what has reached the image since a WRITE set its place).   *)
(* A message is a record [k, lun]; a command is a record [op, n]: its      *)
(* operation and its transfer length.  A data byte is an integer.          *)
(***************************************************************************)
EXTENDS ScsiBus

CONSTANTS CmdLen,    \* bytes of a command block
          CacheLen,  \* bytes the block device caches (cache_blocks * block_size)
          RespLen    \* bytes of a standard INQUIRY response

ASSUME TargetAssumption == CmdLen \in Nat \ {0, 1} /\ CacheLen \in Nat \ {0} /\ RespLen \in Nat

Identify(l) == [k |-> "identify", lun |-> l]
Complete == [k |-> "complete", lun |-> 0]
Sdtr == <<[k |-> "ext", lun |-> 0], [k |-> "sdtr", lun |-> 0]>>

GOOD == 0
CHECK_CONDITION == 2
NO_SENSE == 0
ILLEGAL_REQ == 5

TargetInit == [phase |-> "BUS_FREE", settle |-> 0, steps |-> <<>>, atn |-> FALSE,
               sel_msg |-> Complete, msg |-> <<Complete>>, cmd |-> [op |-> "test", n |-> 0],
               status |-> GOOD, sense |-> NO_SENSE, data |-> <<>>, buf |-> <<>>,
               incoming |-> 0, remain |-> <<>>, wsize |-> 0, post |-> FALSE, disk |-> <<>>]

Least(a, b) == IF a < b THEN a ELSE b
Prefix(q, n) == SubSeq(q, 1, Least(n, Len(q)))
Rest(q, n) == SubSeq(q, n + 1, Len(q))

-----------------------------------------------------------------------------
\* Data leaving the target (send_data), byte by byte: an empty buffer is
\* refilled from the block device before and after the byte is taken.
ReadMore(d) == IF d.data # <<>> \/ d.remain = <<>> THEN d
               ELSE [d EXCEPT !.data = Prefix(d.remain, CacheLen),
                              !.remain = Rest(d.remain, CacheLen)]

SendByte(out, i) ==
    LET d == ReadMore(out.d)
    IN  IF d.data = <<>> THEN [out EXCEPT !.d = d]
        ELSE [d |-> ReadMore([d EXCEPT !.data = Tail(@)]),
              bytes |-> Append(out.bytes, Head(d.data))]

SendData(d, n) == FoldLeft(SendByte, [d |-> d, bytes |-> <<>>], [i \in 1 .. n |-> i])

\* Data entering the target in the DATA OUT phase (rcv_data): a full cache is
\* written to the image when the block device expects more, and kept for
\* post_xfer_action otherwise; bytes past the end are dropped.
WriteCache(d) == [d EXCEPT !.disk = @ \o Prefix(d.data, d.wsize), !.wsize = 0]

\* Mutant: the cache is reused before it has been written out.
WriteMoreUnflushed(d) ==
    IF Len(d.data) < d.incoming \/ d.remain = <<>> THEN d
    ELSE LET n == Least(CacheLen, Len(d.remain))
         IN  [d EXCEPT !.wsize = n, !.incoming = n, !.data = <<>>, !.remain = Rest(d.remain, n)]

\* write_more: remain counts what the block device still expects.
WriteMore(d) ==
    IF Len(d.data) < d.incoming \/ d.remain = <<>> THEN d
    ELSE LET n == Least(CacheLen, Len(d.remain))
         IN  [WriteCache(d) EXCEPT !.wsize = n, !.incoming = n, !.data = <<>>,
                                   !.remain = Rest(d.remain, n)]

RcvByte(d, b) == IF Len(d.data) >= d.incoming THEN d
                 ELSE WriteMore([d EXCEPT !.data = Append(@, b)])

RcvData(d, bytes) == FoldLeft(RcvByte, d, bytes)

-----------------------------------------------------------------------------
\* prepare_xfer: where the data pointer stands when a phase begins.
PrepareXfer(d, p) ==
    LET d1 == [d EXCEPT !.phase = p]
    IN  CASE p = "COMMAND"    -> [d1 EXCEPT !.data = <<>>]
          [] p = "STATUS"     -> [d1 EXCEPT !.data = <<d.status>>]
          [] p = "DATA_IN"    -> [d1 EXCEPT !.data = d.buf]
          [] p = "DATA_OUT"   -> [d1 EXCEPT !.data = <<>>, !.incoming = Len(d.buf)]
          [] p = "MESSAGE_IN" -> [d1 EXCEPT !.data = Prefix(d.msg, Len(@))]
          [] OTHER            -> d1

TSwitchPhase(s, t, p) == [SwitchPhase(s, t, p) EXCEPT !.tgt[t] = PrepareXfer(@, p)]

\* The logical unit a command is for, when the initiator identified one.
Lun(d) == IF d.atn /\ d.sel_msg.k = "identify" THEN d.sel_msg.lun ELSE 0

\* process_command with the commands it dispatches to.  A rejected CDB goes
\* to STATUS before msg_buf is made COMMAND COMPLETE.
Execute(d) ==
    LET c == d.cmd
        ok == [d EXCEPT !.status = GOOD, !.msg[1] = Complete]
        bytes(base) == [i \in 1 .. c.n |-> base + i]
        first == [i \in 1 .. Least(c.n, CacheLen) |-> i]
        to(p, e) == [p |-> p, d |-> e]
    IN  IF Lun(d) # 0 /\ c.op \notin {"inquiry", "sense"}
        THEN to("STATUS", [d EXCEPT !.status = CHECK_CONDITION, !.sense = ILLEGAL_REQ])
        ELSE IF c.op \in {"read", "write", "inquiry", "sense", "mode_select"} /\ c.n = 0
        THEN to("STATUS", ok)
        ELSE CASE c.op = "test" -> to("STATUS", ok)
               [] c.op = "read" ->
                    to("DATA_IN", [ok EXCEPT !.buf = first, !.remain = Rest(bytes(0), CacheLen)])
               [] c.op = "write" ->
                    to("DATA_OUT", [ok EXCEPT !.buf = first, !.remain = Rest(bytes(0), CacheLen),
                                              !.wsize = Len(first), !.post = TRUE, !.disk = <<>>])
               [] c.op = "mode_select" ->
                    to("DATA_OUT", [ok EXCEPT !.buf = bytes(0), !.post = FALSE])
               [] c.op = "inquiry" -> to("DATA_IN", [ok EXCEPT !.buf = Prefix(bytes(100), RespLen)])
               [] c.op = "sense" ->
                    LET key == IF Lun(d) # 0 THEN ILLEGAL_REQ ELSE d.sense
                    IN  to("DATA_IN", [ok EXCEPT !.buf = <<key>>, !.sense = NO_SENSE])
               [] OTHER -> to("STATUS", [ok EXCEPT !.status = CHECK_CONDITION, !.sense = ILLEGAL_REQ])

\* The default step out of each phase: the phase that follows ("stay" if none
\* does yet), and the lines released before it and asserted after it.
StepOut(d) ==
    LET to(p, e) == [p |-> p, d |-> e, release |-> {}, assert |-> {}]
    IN  CASE d.phase = "DATA_OUT" ->
               IF Len(d.data) < d.incoming THEN to("stay", d)
               ELSE to("STATUS", IF d.post THEN WriteCache(d) ELSE d)
          [] d.phase = "DATA_IN" -> to(IF d.data # <<>> THEN "stay" ELSE "STATUS", d)
          [] d.phase = "COMMAND" -> Execute(d) @@ [release |-> {}, assert |-> {"REQ"}]
          [] d.phase = "STATUS" ->
               [to("MESSAGE_IN", [d EXCEPT !.data = <<0>>]) EXCEPT !.release = {"REQ"}]
          [] d.phase = "MESSAGE_OUT" -> to("COMMAND", d)
          [] d.phase \in {"MESSAGE_IN", "BUS_FREE"} ->
               [to("BUS_FREE", [d EXCEPT !.steps = <<>>]) EXCEPT !.release = Lines]
          [] OTHER -> to("stay", d)

\* A pluggable sequence of phases overrides the default step.
PluggedStep(d) ==
    IF d.steps = <<>> \/ Head(d.steps) # d.phase THEN StepOut(d)
    ELSE IF Len(d.steps) = 1 THEN StepOut([d EXCEPT !.steps = <<>>])
    ELSE [p |-> d.steps[2], d |-> [d EXCEPT !.steps = Tail(@)], release |-> {}, assert |-> {}]

Stepped(s, t, x) ==
    LET s1 == [IF x.release = {} THEN s ELSE ReleaseLine(s, t, x.release) EXCEPT !.tgt[t] = x.d]
    IN  IF x.p = "stay" THEN s1 ELSE AssertLine(TSwitchPhase(s1, t, x.p), t, x.assert)

\* next_step: a message is not left before it has been taken and acknowledged.
NextStep(s, t) ==
    IF s.phase = "MESSAGE_IN" /\ {"ATN", "ACK"} \subseteq OnBus(s) THEN [s EXCEPT !.abort = TRUE]
    ELSE IF s.phase = "MESSAGE_IN" /\ (s.tgt[t].data # <<>> \/ "ACK" \in OnBus(s)) THEN s
    ELSE Stepped(s, t, PluggedStep(s.tgt[t]))

\* target_next_step.
TargetNextStep(s) == IF s.target = NoId THEN s ELSE NextStep(s, s.target)

-----------------------------------------------------------------------------
\* Bytes the target pulls from the host adapter's FIFO
\* (ScsiBusControllerDev::send_data, Sc53C94Dev::send_data).
HostSent(s, n) == [s EXCEPT !.ctl.fifo = Rest(@, Least(Len(@), n))]

\* process_message: the answer to SDTR is the message itself, sent back in a
\* MESSAGE IN phase before the command is asked for.
ProcessMessage(s, t) ==
    LET m == <<Head(s.ctl.fifo)>>
        s1 == HostSent(s, 1)
        extended == Head(m).k = "ext"
        s2 == IF extended THEN HostSent(s1, 1) ELSE s1
        sdtr == extended /\ s1.ctl.fifo # <<>> /\ Head(s1.ctl.fifo).k = "sdtr"
        d == s.tgt[t]
    IN  [s2 EXCEPT !.abort = @ \/ (extended /\ s1.ctl.fifo = <<>>),
                   !.tgt[t] = [d EXCEPT
                        !.msg = IF sdtr THEN Sdtr ELSE m,
                        !.steps = IF sdtr THEN <<"MESSAGE_OUT", "MESSAGE_IN", "COMMAND">> ELSE @,
                        !.data = IF sdtr THEN Sdtr ELSE @,
                        !.sel_msg = IF d.atn THEN m[1] ELSE @]]

\* xfer_data: the target fetches a message or a command from the initiator and
\* gives up in any other phase.
TargetXferData(s) ==
    LET t == s.target
        s1 == [s EXCEPT !.tgt[t].phase = s.phase]
        s2 == HostSent(HostSent(s1, 1), CmdLen - 1)
    IN  IF t = NoId THEN [s EXCEPT !.abort = TRUE]
        ELSE CASE s.phase = "MESSAGE_OUT" -> IF s.ctl.fifo = <<>> THEN s1 ELSE ProcessMessage(s1, t)
               [] s.phase = "COMMAND" ->
                    IF s.ctl.fifo = <<>> THEN s1
                    ELSE IF Len(s.ctl.fifo) = 1 THEN s2
                    ELSE NextStep([s2 EXCEPT !.tgt[t].cmd = Head(s.ctl.fifo)], t)
               [] OTHER -> [s1 EXCEPT !.abort = TRUE]
=============================================================================
