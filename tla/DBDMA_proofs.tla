---------------------------- MODULE DBDMA_proofs ----------------------------
(***************************************************************************)
(* The DBDMA channel of a device, that is one the audio thread does not    *)
(* share: the bytes of a command are accounted for, interrupts are not     *)
(* lost, one chain of timers runs the program, and it does not stall.      *)
(* DmaInv is the inductive invariant; its parts are about the program, the *)
(* channel, the two kinds of timers, and what may still take the channel   *)
(* on.                                                                     *)
(***************************************************************************)
EXTENDS DBDMA, TLAPS

Addresses == 0 .. Length - 1

ProgramOk ==
    /\ Length \in Nat \ {0}
    /\ prog \in [Addresses -> Command]
    /\ \A a \in Addresses : prog[a].arg \in Addresses

ChType ==
    [stat: SUBSET Bits, cmd_ptr: Addresses, cur: Addresses \cup {Null},
     op: Ops \cup {None}, queue_len: Nat, res_count: Int, offset: Nat,
     in_progress: BOOLEAN, paused: BOOLEAN, flushing: BOOLEAN]

\* A command in progress has been fetched, and its bytes are accounted for.
ProgressOk(c) ==
    c.in_progress =>
        /\ c.cur \in Addresses
        /\ IsTransfer(c.op) => /\ c.offset + c.queue_len = prog[c.cur].req
                               /\ c.res_count = c.queue_len

ChannelOk(c) == c \in ChType /\ ProgressOk(c)

\* What one thread of control means: the interpreter's lock is held between its
\* two steps only, and no audio thread is there.
OneThread ==
    /\ apc = "idle" /\ epc \in {"guest", "looped"}
    /\ loop_mtx = IF epc = "looped" THEN "emulation" ELSE None

LoopTimerOk ==
    /\ loop_timers \in {0, 1}
    /\ epc = "guest" => (interpret_timer_id <=> loop_timers = 1)
    /\ epc = "looped" => interpret_timer_id /\ loop_timers = 0

IrqTimerOk ==
    /\ irq_timers \in {0, 1}
    /\ interrupt_timer_id <=> irq_timers = 1
    /\ irq_due => irq_timers = 1

\* The channel could be taken on, and has neither its device nor a w condition
\* to wait for.
Live(c) == IsActive(c) /\ ~c.paused /\ "PAUSE" \notin c.stat
Ready(c) ==
    /\ Live(c)
    /\ ~(c.in_progress /\ c.queue_len > 0 /\ ~is_polled_transfer)
    /\ ~(c.in_progress /\ prog[c.cur].w # "never")

\* ACTIVE excludes PAUSE and is_paused until the driver sets RUN or WAKE on a
\* paused channel; a ready channel has a timer, or the interpreter is about to
\* start one.
ActiveOrPaused(c) ==
    /\ ~({"ACTIVE", "PAUSE"} \subseteq c.stat)
    /\ c.paused => "PAUSE" \in c.stat
StallOk ==
    ~driven_paused =>
        /\ ActiveOrPaused(ch)
        /\ Ready(ch) => crashed \/ loop_timers = 1 \/ (epc = "looped" /\ more)

DeviceChannel == /\ ProgramOk /\ ChannelOk(ch) /\ OneThread
                 /\ LoopTimerOk /\ IrqTimerOk /\ StallOk

DmaInv == ~is_threaded => DeviceChannel

-----------------------------------------------------------------------------
(* The interpreter. *)

\* The interpreter sets no bit but DEAD, and leaves PAUSE and is_paused alone.
StatusKept(c, d) ==
    /\ d.stat \subseteq c.stat \cup {"DEAD"}
    /\ "PAUSE" \in c.stat => "PAUSE" \in d.stat
    /\ d.paused = c.paused

\* init_cmd and interpret_cmd start a command with all of its bytes accounted
\* for, whatever the device moves at once.
LEMMA InterpretCmdOk ==
  ASSUME ProgramOk, NEW c, ChannelOk(c),
         NEW n \in IF IsTransfer(prog[c.cmd_ptr].op) THEN 0 .. prog[c.cmd_ptr].req ELSE {0}
  PROVE  /\ ChannelOk(InterpretCmd(c, n))
         /\ StatusKept(c, InterpretCmd(c, n))
<1> DEFINE cmd == prog[c.cmd_ptr]
           new == [InitCmd(c) EXCEPT !.cur = c.cmd_ptr, !.op = cmd.op]
           d == InterpretCmd(c, n)
<1>1. c \in ChType
  BY DEF ChannelOk
<1>2. cmd \in Command /\ cmd.op \in Ops /\ cmd.req \in Nat
  BY <1>1 DEF ProgramOk, ChType, Command
<1> DEFINE init == InitCmd(c)
<1>a. /\ init \in ChType /\ StatusKept(c, init) /\ init.in_progress
      /\ init.queue_len = 0 /\ init.offset = 0
  <2>1. 0 \in Nat /\ 0 \in Int /\ c.stat \ {"FLUSH"} \in SUBSET Bits
    BY <1>1 DEF ChType
  <2> QED BY <1>1, <2>1 DEF ChType, InitCmd, StatusKept
<1>b. c.cmd_ptr \in Addresses
  BY <1>1 DEF ChType
<1>3. /\ new \in ChType /\ StatusKept(c, new)
      /\ new.cur = c.cmd_ptr /\ new.op = cmd.op /\ new.in_progress
      /\ new.queue_len = 0 /\ new.offset = 0 /\ new.cur \in Addresses
  <2> HIDE DEF init, cmd
  <2> QED BY <1>a, <1>b, <1>2 DEF ChType, init, StatusKept
<1>4. CASE IsTransfer(cmd.op)
  <2>1. n \in Nat /\ cmd.req - n \in Nat
    BY <1>2, <1>4
  <2>2. d = Moved([new EXCEPT !.queue_len = cmd.req, !.res_count = cmd.req], n)
    BY <1>4 DEF InterpretCmd, IsTransfer
  <2> HIDE DEF new, d, cmd
  <2> DEFINE e == [new EXCEPT !.queue_len = cmd.req, !.res_count = cmd.req]
  <2>3. /\ e \in ChType /\ e.stat = new.stat /\ e.paused = new.paused /\ e.cur = new.cur /\ e.op = new.op
        /\ e.queue_len = cmd.req /\ e.res_count = cmd.req /\ e.offset = 0
    <3>1. cmd.req \in Nat /\ cmd.req \in Int
      BY <1>2
    <3> QED BY <1>3, <3>1 DEF ChType
  <2> HIDE DEF e
  <2>4. d = [e EXCEPT !.queue_len = @ - n, !.res_count = @ - n, !.offset = @ + n]
    BY <2>2 DEF Moved, e
  <2>5. /\ d \in ChType /\ d.stat = new.stat /\ d.paused = new.paused /\ d.cur = new.cur
        /\ d.queue_len = cmd.req - n /\ d.res_count = cmd.req - n /\ d.offset = n
    <3>1. /\ cmd.req - n \in Nat /\ cmd.req - n \in Int /\ 0 + n = n
          /\ n \in Nat
      BY <1>2, <2>1
    <3>2. d = [e EXCEPT !.queue_len = cmd.req - n, !.res_count = cmd.req - n, !.offset = n]
      BY <2>3, <2>4, <3>1
    <3> QED BY <2>3, <3>1, <3>2 DEF ChType
  <2>6. prog[d.cur].req = cmd.req /\ d.cur \in Addresses
    BY <1>3, <2>5 DEF cmd
  <2>7. StatusKept(c, d)
    BY <1>3, <2>5 DEF StatusKept
  <2> QED BY <1>2, <1>3, <2>1, <2>5, <2>6, <2>7 DEF d, ChannelOk, ProgressOk
<1>5. CASE ~IsTransfer(cmd.op)
  <2>1. d \in {[new EXCEPT !.res_count = cmd.req], new,
               [new EXCEPT !.stat = @ \ {"ACTIVE"}],
               [new EXCEPT !.stat = (@ \union {"DEAD"}) \ {"ACTIVE"}]}
    BY <1>2, <1>5 DEF InterpretCmd, Ops, IsTransfer
  <2> HIDE DEF new, d, cmd
  <2>2. /\ d \in ChType /\ StatusKept(c, d)
        /\ d.cur = new.cur /\ d.op = new.op
    BY <1>2, <1>3, <2>1 DEF ChType, Bits, StatusKept
  <2> QED BY <1>3, <1>5, <2>2 DEF d, ChannelOk, ProgressOk
<1> QED BY <1>4, <1>5

\* finish_cmd leaves the command pointer within the program.
LEMMA FinishCmdOk ==
  ASSUME ProgramOk, NEW c, ChannelOk(c), c.in_progress
  PROVE  ChannelOk(FinishCmd(c)) /\ StatusKept(c, FinishCmd(c))
<1>1. c \in ChType /\ c.cur \in Addresses
  BY DEF ChannelOk, ProgressOk
<1>2. prog[c.cur] \in Command /\ prog[c.cur].arg \in Addresses
  BY <1>1 DEF ProgramOk, Command
<1>3. (c.cmd_ptr + 1) % Length \in Addresses
  BY <1>1 DEF ProgramOk, ChType, Addresses
<1>4. PICK next \in Addresses :
        FinishCmd(c) = [UpdateCmd(c) EXCEPT !.cmd_ptr = next, !.in_progress = FALSE]
  BY <1>1, <1>2, <1>3 DEF FinishCmd, ChType
<1>5. FinishCmd(c) \in ChType /\ ~FinishCmd(c).in_progress /\ StatusKept(c, FinishCmd(c))
  BY <1>1, <1>4, ZenonT(40) DEF ChType, UpdateCmd, StatusKept
<1> QED BY <1>5 DEF ChannelOk, ProgressOk

\* Bytes moved are taken from what is left and from the residual count, and
\* put behind those in the buffer.
LEMMA MovedOk ==
  ASSUME ProgramOk, NEW c, ChannelOk(c), NEW n \in 0 .. c.queue_len
  PROVE  LET d == Moved(c, n)
         IN  /\ ChannelOk(d) /\ d.queue_len = c.queue_len - n
             /\ d.stat = c.stat /\ d.cur = c.cur /\ d.op = c.op /\ d.paused = c.paused
             /\ d.in_progress = c.in_progress /\ d.flushing = c.flushing
<1> DEFINE d == Moved(c, n)
           q == c.queue_len - n
           r == c.res_count - n
           o == c.offset + n
<1>1. /\ c \in ChType /\ c.queue_len \in Nat /\ c.res_count \in Int /\ c.offset \in Nat
  BY DEF ChannelOk, ChType
<1>2. q \in Nat /\ r \in Int /\ o \in Nat
  BY <1>1
<1>3. d = [c EXCEPT !.queue_len = q, !.res_count = r, !.offset = o]
  BY DEF Moved
<1> HIDE DEF q, r, o, d
<1>4. /\ d \in ChType /\ d.queue_len = q /\ d.res_count = r /\ d.offset = o
      /\ d.stat = c.stat /\ d.cur = c.cur /\ d.op = c.op /\ d.paused = c.paused
      /\ d.in_progress = c.in_progress /\ d.flushing = c.flushing
  BY <1>1, <1>2, <1>3 DEF ChType
<1>5. o + q = c.offset + c.queue_len /\ (c.res_count = c.queue_len => r = q)
  BY <1>1 DEF o, q, r
<1>6. ProgressOk(d)
  BY <1>4, <1>5 DEF ChannelOk, ProgressOk
<1> QED BY <1>4, <1>6 DEF ChannelOk, q, d

\* update_cmd changes no byte counts.
LEMMA UpdateCmdOk ==
  ASSUME ProgramOk, NEW c, ChannelOk(c)
  PROVE  LET d == UpdateCmd(c)
         IN  /\ ChannelOk(d) /\ StatusKept(c, d) /\ d.queue_len = c.queue_len
             /\ d.in_progress = c.in_progress
<1> DEFINE d == UpdateCmd(c)
<1>1. c \in ChType
  BY DEF ChannelOk
<1>2. /\ d \in ChType /\ d.queue_len = c.queue_len /\ d.res_count = c.res_count
      /\ d.offset = c.offset /\ StatusKept(c, d) /\ d.cur = c.cur /\ d.op = c.op
      /\ d.in_progress = c.in_progress
  BY <1>1 DEF ChType, UpdateCmd, StatusKept
<1> HIDE DEF d
<1>3. ChannelOk(d)
  BY <1>2 DEF ChannelOk, ProgressOk
<1> QED BY <1>2, <1>3 DEF d

\* The end of an iteration, for a channel of a device: the next command is
\* fetched or there is a reason not to go on.
LEMMA EndedOk ==
  ASSUME ProgramOk, ~is_threaded, NEW c, ChannelOk(c), NEW it \in Ended(c)
  PROVE  /\ ChannelOk(it.c) /\ StatusKept(c, it.c)
         /\ Continues(it.state) \/ ~Ready(it.c)
<1> DEFINE f == IF c.in_progress THEN FinishCmd(c) ELSE c
           irq == c.in_progress /\ Interrupts(c)
<1>1. ChannelOk(f) /\ StatusKept(c, f)
  BY FinishCmdOk DEF StatusKept
<1>2. CASE c.in_progress /\ Waits(c)
  <2>1. it = [c |-> c, state |-> "WAITING", irq |-> FALSE]
    BY <1>2 DEF Ended
  <2>2. prog[c.cur].w # "never"
    BY <1>2 DEF Waits, Holds
  <2> QED BY <1>2, <2>1, <2>2 DEF Ready, Live, StatusKept
<1> HIDE DEF f, irq
<1>3. CASE ~(c.in_progress /\ Waits(c)) /\ ~IsActive(f)
  <2>1. it = [c |-> f, state |-> "STOPPED", irq |-> irq]
    BY <1>3 DEF Ended, f, irq
  <2> QED BY <1>1, <1>3, <2>1 DEF Ready, Live
<1>4. CASE ~(c.in_progress /\ Waits(c)) /\ IsActive(f) /\ f.paused
  <2>1. it = [c |-> f, state |-> "PAUSED", irq |-> irq]
    BY <1>4 DEF Ended, f, irq
  <2> QED BY <1>1, <1>4, <2>1 DEF Ready, Live
<1>5. CASE ~(c.in_progress /\ Waits(c)) /\ IsActive(f) /\ ~f.paused
  <2>1. it \in {[c |-> g, state |-> "FETCH", irq |-> irq] : g \in Fetched(f)}
    BY <1>5 DEF Ended, f, irq
  <2>2. PICK g \in Fetched(f) : it = [c |-> g, state |-> "FETCH", irq |-> irq]
    BY <2>1
  <2>3. PICK n \in IF IsTransfer(prog[f.cmd_ptr].op) THEN 0 .. prog[f.cmd_ptr].req ELSE {0} :
          g = InterpretCmd(f, n)
    BY <2>2 DEF Fetched
  <2>4. ChannelOk(g) /\ StatusKept(f, g)
    BY <1>1, <2>3, InterpretCmdOk
  <2> QED BY <1>1, <2>2, <2>4 DEF Continues, StatusKept
<1> QED BY <1>2, <1>3, <1>4, <1>5

\* dbdma_loop_iteration as a whole.
LEMMA IterationOk ==
  ASSUME ProgramOk, ~is_threaded, NEW c, ChannelOk(c), NEW it \in Iterations(c)
  PROVE  /\ ChannelOk(it.c) /\ StatusKept(c, it.c)
         /\ Continues(it.state) \/ ~Ready(it.c)
<1> DEFINE moving == IsActive(c) /\ ~c.paused /\ c.in_progress /\ c.queue_len > 0
           polled == IF moving /\ is_polled_transfer
                     THEN {Moved(c, n) : n \in 0 .. c.queue_len} ELSE {c}
           Outcome(p) == IF moving /\ p.queue_len > 0
                         THEN {[c |-> IF p.flushing THEN UpdateCmd(p) ELSE p,
                                state |-> "TRANSFER", irq |-> FALSE]}
                         ELSE Ended(p)
<1>1. it \in UNION {Outcome(p) : p \in polled}
  BY DEF Iterations
<1>2. PICK p \in polled : it \in Outcome(p)
  BY <1>1
<1>3. /\ ChannelOk(p) /\ p.stat = c.stat /\ p.paused = c.paused
      /\ moving => p.in_progress
  BY <1>2, MovedOk
<1>4. CASE moving /\ p.queue_len > 0
  <2> DEFINE d == IF p.flushing THEN UpdateCmd(p) ELSE p
  <2>1. it = [c |-> d, state |-> "TRANSFER", irq |-> FALSE]
    BY <1>2, <1>4
  <2>2. ChannelOk(d) /\ StatusKept(p, d) /\ d.queue_len > 0 /\ d.in_progress
    BY <1>3, <1>4, UpdateCmdOk DEF StatusKept
  <2> HIDE DEF d
  <2> QED BY <1>3, <2>1, <2>2 DEF Continues, Ready, Live, StatusKept
<1>5. CASE ~(moving /\ p.queue_len > 0)
  <2>1. it \in Ended(p)
    BY <1>2, <1>5
  <2> QED BY <1>3, <2>1, EndedOk DEF StatusKept
<1> QED BY <1>4, <1>5

-----------------------------------------------------------------------------
(* ChannelControl. *)

\* A register write leaves the command in progress alone.
SameCommand(c, d) ==
    /\ d.cur = c.cur /\ d.op = c.op /\ d.queue_len = c.queue_len
    /\ d.res_count = c.res_count /\ d.offset = c.offset /\ d.in_progress = c.in_progress

\* What is known of a write w to a channel c: nothing becomes live that is not
\* scheduled, unless it drives a paused channel.
WriteOk(c, w, drives) ==
    /\ w.c \in ChType /\ SameCommand(c, w.c) /\ w.crash \in BOOLEAN
    /\ ActiveOrPaused(c) /\ ~drives =>
          /\ ActiveOrPaused(w.c)
          /\ Live(w.c) => w.crash \/ w.sched \/ Live(c)

\* set_stat bits: only the statuses change.
LEMMA WithStatType ==
  ASSUME NEW c \in ChType, NEW st \in SUBSET Bits
  PROVE  LET d == WithStat(c, st)
         IN  /\ d \in ChType /\ d.stat = st /\ d.paused = c.paused /\ SameCommand(c, d)
  BY DEF ChType, WithStat, SameCommand

\* The s bits and FLUSH, written first, make nothing live.
LEMMA WriteStatusOk ==
  ASSUME NEW c \in ChType, NEW r, r.set \subseteq CtrlBits, r.clear \subseteq CtrlBits
  PROVE  LET d == WriteStatus(c, r)
         IN  /\ d \in ChType /\ SameCommand(c, d) /\ d.paused = c.paused
             /\ \A b \in {"ACTIVE", "DEAD", "PAUSE"} : b \in d.stat <=> b \in c.stat
<1> DEFINE s == (c.stat \ (r.clear \intersect {"S"})) \union (r.set \intersect {"S"})
           flush == "FLUSH" \in r.set /\ IsActive(c)
           st == IF flush THEN s \union {"FLUSH"} ELSE s
           fl == c.flushing \/ (flush /\ c.op = "INPUT")
           d == [c EXCEPT !.stat = st, !.flushing = fl]
<1>1. st \in SUBSET Bits /\ fl \in BOOLEAN
  BY DEF ChType, Bits
<1>2. \A b \in {"ACTIVE", "DEAD", "PAUSE"} : b \in st <=> b \in c.stat
  BY DEF ChType
<1>3. WriteStatus(c, r) = d
  BY DEF WriteStatus
<1> HIDE DEF st, fl
<1>4. d \in ChType /\ SameCommand(c, d) /\ d.paused = c.paused /\ d.stat = st
  BY <1>1 DEF ChType, SameCommand
<1> HIDE DEF d
<1> QED BY <1>2, <1>3, <1>4

\* RUN set.
LEMMA WriteRunOk ==
  ASSUME NEW c \in ChType, NEW r
  PROVE  WriteOk(c, WriteRun(c, r), c.paused)
<1> DEFINE stat == c.stat \ (r.clear \intersect {"PAUSE"})
           w == WriteRun(c, r)
<1>1. stat \in SUBSET Bits /\ stat \union {"RUN"} \in SUBSET Bits
      /\ stat \union {"RUN", "ACTIVE"} \in SUBSET Bits
  BY DEF ChType, Bits
<1>2. CASE "ACTIVE" \in stat
  <2>1. w = Write(WithStat(c, stat))
    BY <1>2 DEF WriteRun
  <2>2. w.c = WithStat(c, stat) /\ w.crash = FALSE /\ w.sched = FALSE
    BY <2>1 DEF Write
  <2>3. /\ w.c \in ChType /\ w.c.stat = stat /\ w.c.paused = c.paused /\ SameCommand(c, w.c)
    BY <1>1, <2>2, WithStatType
  <2> HIDE DEF w
  <2>4. WriteOk(c, w, c.paused)
    BY <1>2, <2>2, <2>3 DEF WriteOk, ActiveOrPaused, Live, IsActive
  <2> QED BY <2>4 DEF w
<1>3. CASE "ACTIVE" \notin stat /\ "PAUSE" \in stat
  <2>1. w = Write(WithStat(c, stat \union {"RUN"}))
    BY <1>3 DEF WriteRun
  <2>2. w.c = WithStat(c, stat \union {"RUN"}) /\ w.crash = FALSE /\ w.sched = FALSE
    BY <2>1 DEF Write
  <2>3. /\ w.c \in ChType /\ w.c.stat = stat \union {"RUN"} /\ w.c.paused = c.paused
        /\ SameCommand(c, w.c)
    BY <1>1, <2>2, WithStatType
  <2> HIDE DEF w
  <2>4. WriteOk(c, w, c.paused)
    BY <1>3, <2>2, <2>3 DEF WriteOk, ActiveOrPaused, Live, IsActive
  <2> QED BY <2>4 DEF w
<1>4. CASE "ACTIVE" \notin stat /\ "PAUSE" \notin stat
  <2>1. w = [Write(WithStat(c, stat \union {"RUN", "ACTIVE"})) EXCEPT !.sched = TRUE, !.start = TRUE]
    BY <1>4 DEF WriteRun
  <2>2. w.c = WithStat(c, stat \union {"RUN", "ACTIVE"}) /\ w.crash = FALSE /\ w.sched = TRUE
    BY <2>1 DEF Write
  <2>3. /\ w.c \in ChType /\ w.c.stat = stat \union {"RUN", "ACTIVE"} /\ w.c.paused = c.paused
        /\ SameCommand(c, w.c)
    BY <1>1, <2>2, WithStatType
  <2> HIDE DEF w
  <2>4. WriteOk(c, w, c.paused)
    BY <1>4, <2>2, <2>3 DEF WriteOk, ActiveOrPaused
  <2> QED BY <2>4 DEF w
<1> QED BY <1>2, <1>3, <1>4

\* RUN cleared.
LEMMA ClearRunOk ==
  ASSUME NEW c \in ChType
  PROVE  WriteOk(c, ClearRun(c), FALSE)
<1> DEFINE stat == c.stat \ {"RUN", "ACTIVE", "DEAD", "FLUSH"}
           new == WithStat(c, stat)
           w == ClearRun(c)
<1>1. stat \in SUBSET Bits
  BY DEF ChType
<1>2. /\ new \in ChType /\ new.stat = stat /\ new.paused = c.paused /\ SameCommand(c, new)
  BY <1>1, WithStatType
<1> HIDE DEF new
<1>3. CASE "ACTIVE" \in c.stat /\ c.cur = Null
  <2>1. w = [Write(c) EXCEPT !.crash = TRUE]
    BY <1>3 DEF ClearRun
  <2>2. w.c = c /\ w.crash = TRUE
    BY <2>1 DEF Write
  <2> HIDE DEF w
  <2>4. WriteOk(c, w, FALSE)
    BY <2>2 DEF WriteOk, SameCommand
  <2> QED BY <2>4 DEF w
<1>4. CASE ~("ACTIVE" \in c.stat /\ c.cur = Null)
  <2>1. w = Write(new) \/ w = [Write(new) EXCEPT !.stop = TRUE, !.irq = Interrupts(c)]
    BY <1>4 DEF ClearRun, new
  <2>2. w.c = new /\ w.crash = FALSE
    <3>1. CASE w = Write(new)
      BY <3>1 DEF Write
    <3>2. CASE w = [Write(new) EXCEPT !.stop = TRUE, !.irq = Interrupts(c)]
      BY <3>2 DEF Write
    <3> QED BY <2>1, <3>1, <3>2
  <2> HIDE DEF w
  <2>4. WriteOk(c, w, FALSE)
    BY <1>2, <2>2 DEF WriteOk, ActiveOrPaused, Live, IsActive
  <2> QED BY <2>4 DEF w
<1> QED BY <1>3, <1>4

\* PAUSE set and cleared.
LEMMA WritePauseOk ==
  ASSUME NEW c \in ChType
  PROVE  WriteOk(c, WritePause(c), FALSE) /\ WriteOk(c, ClearPause(c), FALSE)
<1> DEFINE p == (c.stat \union {"PAUSE"}) \ {"ACTIVE"}
           q == c.stat \ {"PAUSE"}
           a == q \union {"ACTIVE"}
<1>1. p \in SUBSET Bits /\ q \in SUBSET Bits /\ a \in SUBSET Bits
  BY DEF ChType, Bits
<1>2. /\ WithStat(c, p) \in ChType /\ WithStat(c, p).stat = p /\ SameCommand(c, WithStat(c, p))
      /\ WithStat(c, q) \in ChType /\ WithStat(c, q).stat = q /\ SameCommand(c, WithStat(c, q))
      /\ WithStat(c, q).paused = c.paused
      /\ WithStat(c, a) \in ChType /\ WithStat(c, a).stat = a /\ SameCommand(c, WithStat(c, a))
  BY <1>1, WithStatType
<1>3. ASSUME NEW d \in ChType, SameCommand(c, d), NEW b \in BOOLEAN
      PROVE  LET e == [d EXCEPT !.paused = b]
             IN  e \in ChType /\ e.stat = d.stat /\ SameCommand(c, e) /\ e.paused = b
  BY <1>3 DEF ChType, SameCommand
<1>4. WriteOk(c, WritePause(c), FALSE)
  <2> DEFINE w == WritePause(c)
  <2>1. /\ w.c = WithStat(c, p) \/ w.c = [WithStat(c, p) EXCEPT !.paused = TRUE]
        /\ w.crash = FALSE
    BY DEF WritePause, Write
  <2> HIDE DEF w
  <2>2. w.c \in ChType /\ SameCommand(c, w.c) /\ w.c.stat = p
    BY <1>2, <1>3, <2>1
  <2>3. WriteOk(c, w, FALSE)
    BY <2>1, <2>2 DEF WriteOk, ActiveOrPaused, Live, IsActive
  <2> QED BY <2>3 DEF w
<1>5. WriteOk(c, ClearPause(c), FALSE)
  <2> DEFINE w == ClearPause(c)
  <2>1. CASE "ACTIVE" \notin q /\ c.paused
    <3>1. w = [Write([WithStat(c, a) EXCEPT !.paused = FALSE]) EXCEPT !.sched = TRUE]
      BY <2>1 DEF ClearPause
    <3>2. w.c = [WithStat(c, a) EXCEPT !.paused = FALSE] /\ w.crash = FALSE /\ w.sched = TRUE
      BY <3>1 DEF Write
    <3> HIDE DEF w
    <3>3. w.c \in ChType /\ SameCommand(c, w.c) /\ w.c.stat = a /\ w.c.paused = FALSE
      BY <1>2, <1>3, <3>2
    <3>4. WriteOk(c, w, FALSE)
      BY <3>2, <3>3 DEF WriteOk, ActiveOrPaused
    <3> QED BY <3>4 DEF w
  <2>2. CASE ~("ACTIVE" \notin q /\ c.paused)
    <3>1. w.c = WithStat(c, q) /\ w.crash = FALSE
      BY <2>2 DEF ClearPause, Write
    <3> HIDE DEF w
    <3>2. WriteOk(c, w, FALSE)
      BY <1>2, <2>2, <3>1 DEF WriteOk, ActiveOrPaused, Live, IsActive
    <3> QED BY <3>2 DEF w
  <2> QED BY <2>1, <2>2
<1> QED BY <1>4, <1>5

\* WAKE, and nothing.
LEMMA WriteWakeOk ==
  ASSUME NEW c \in ChType
  PROVE  WriteOk(c, WriteWake(c), "PAUSE" \in c.stat) /\ WriteOk(c, Write(c), FALSE)
<1> DEFINE a == c.stat \union {"ACTIVE"}
           w == WriteWake(c)
           v == Write(c)
<1>0. v.c = c /\ v.crash = FALSE /\ v.sched = FALSE
  BY DEF Write
<1>1. WriteOk(c, v, FALSE) /\ WriteOk(c, v, "PAUSE" \in c.stat)
  <2> HIDE DEF v
  <2> QED BY <1>0 DEF WriteOk, SameCommand
<1>2. CASE "ACTIVE" \in c.stat
  BY <1>1, <1>2 DEF WriteWake
<1>3. CASE "ACTIVE" \notin c.stat
  <2>1. a \in SUBSET Bits
    BY DEF ChType, Bits
  <2>2. /\ WithStat(c, a) \in ChType /\ WithStat(c, a).stat = a /\ SameCommand(c, WithStat(c, a))
        /\ WithStat(c, a).paused = c.paused
    BY <2>1, WithStatType
  <2>3. w = [Write(WithStat(c, a)) EXCEPT !.sched = "PAUSE" \notin c.stat]
    BY <1>3 DEF WriteWake
  <2>4. w.c = WithStat(c, a) /\ w.crash = FALSE /\ (w.sched <=> "PAUSE" \notin c.stat)
    BY <2>3 DEF Write
  <2> HIDE DEF w
  <2>5. WriteOk(c, w, "PAUSE" \in c.stat)
    BY <2>2, <2>4 DEF WriteOk, ActiveOrPaused, Live, IsActive
  <2> QED BY <1>1, <2>5 DEF w
<1> QED BY <1>2, <1>3

\* reg_write(CH_CTRL) as a whole: no write makes a channel ready that it does
\* not schedule, but a RUN or WAKE of a paused one.
LEMMA WriteCtrlOk ==
  ASSUME NEW c, ChannelOk(c), NEW r, r.set \subseteq CtrlBits, r.clear \subseteq CtrlBits
  PROVE  LET w == WriteCtrl(c, r)
         IN  /\ ChannelOk(w.c) /\ w.crash \in BOOLEAN
             /\ ActiveOrPaused(c) /\ ~DrivesPaused(c, r) =>
                   /\ ActiveOrPaused(w.c)
                   /\ Ready(w.c) => w.crash \/ w.sched \/ Ready(c)
<1> DEFINE d == WriteStatus(c, r)
           w == WriteCtrl(c, r)
<1>1. c \in ChType
  BY DEF ChannelOk
<1>2. /\ d \in ChType /\ SameCommand(c, d) /\ d.paused = c.paused
      /\ \A b \in {"ACTIVE", "DEAD", "PAUSE"} : b \in d.stat <=> b \in c.stat
  BY <1>1, WriteStatusOk
<1> HIDE DEF d
<1>3. \/ "RUN" \in r.set /\ w = WriteRun(d, r)
      \/ w = ClearRun(d) \/ w = WritePause(d) \/ w = ClearPause(d)
      \/ "WAKE" \in r.set /\ w = WriteWake(d)
      \/ w = Write(d)
  BY DEF WriteCtrl, d
<1> HIDE DEF w
<1>4. \/ WriteOk(d, w, FALSE)
      \/ "RUN" \in r.set /\ WriteOk(d, w, d.paused)
      \/ "WAKE" \in r.set /\ WriteOk(d, w, "PAUSE" \in d.stat)
  BY <1>2, <1>3, WriteRunOk, ClearRunOk, WritePauseOk, WriteWakeOk
<1>5. w.c \in ChType /\ SameCommand(d, w.c) /\ w.crash \in BOOLEAN
  BY <1>4 DEF WriteOk
<1>6. SameCommand(c, w.c)
  BY <1>2, <1>5 DEF SameCommand
<1>7. ChannelOk(w.c)
  BY <1>5, <1>6 DEF ChannelOk, ProgressOk, SameCommand
<1>8. ASSUME ActiveOrPaused(c), ~DrivesPaused(c, r)
      PROVE  ActiveOrPaused(w.c) /\ (Ready(w.c) => w.crash \/ w.sched \/ Ready(c))
  <2>1. /\ ActiveOrPaused(d) /\ (Live(d) => Live(c))
        /\ ~("WAKE" \in r.set /\ "PAUSE" \in d.stat) /\ ~("RUN" \in r.set /\ d.paused)
    BY <1>2, <1>8 DEF ActiveOrPaused, Live, IsActive, DrivesPaused
  <2>2. ActiveOrPaused(w.c) /\ (Live(w.c) => w.crash \/ w.sched \/ Live(d))
    BY <1>4, <2>1 DEF WriteOk
  <2>3. Ready(w.c) /\ Live(c) => Ready(c)
    BY <1>6 DEF Ready, SameCommand
  <2> QED BY <2>1, <2>2, <2>3 DEF Ready
<1> QED BY <1>5, <1>7, <1>8 DEF w

-----------------------------------------------------------------------------
(* The steps. *)

\* As long as the program is not changed, what is said of the channel's new
\* value is said of the new state.
LEMMA ProgramKept ==
  ASSUME ProgramOk, prog' = prog, is_polled_transfer' = is_polled_transfer, ChannelOk(ch')
  PROVE  /\ ProgramOk' /\ ChannelOk(ch)'
         /\ Ready(ch)' <=> Ready(ch')
         /\ ActiveOrPaused(ch)' <=> ActiveOrPaused(ch')
<1>1. Length' = Length /\ Addresses' = Addresses
  BY DEF Length, Addresses
<1>2. ProgramOk'
  BY <1>1 DEF ProgramOk
<1>3. ChType' = ChType
  BY <1>1 DEF ChType
<1>4. ChannelOk(ch)'
  BY <1>1, <1>3 DEF ChannelOk, ProgressOk
<1> QED BY <1>2, <1>4 DEF Ready, Live, IsActive, ActiveOrPaused

\* schedule_cmd in guest code or a device's callback: one timer afterwards, if
\* one was wanted.
LEMMA ScheduleOk ==
  ASSUME LoopTimerOk, epc = "guest", epc' = "guest", NEW wanted, ScheduleCmd(wanted)
  PROVE  /\ LoopTimerOk'
         /\ wanted => loop_timers' = 1
         /\ loop_timers = 1 => loop_timers' = 1
<1>1. CASE wanted /\ ~interpret_timer_id
  <2>1. loop_timers = 0
    BY <1>1 DEF LoopTimerOk
  <2>2. loop_timers' = 1 /\ interpret_timer_id' = TRUE
    BY <1>1, <2>1, DbdmaAssumption DEF ScheduleCmd, OneMore
  <2> QED BY <2>2 DEF LoopTimerOk
<1>2. CASE ~(wanted /\ ~interpret_timer_id)
  <2>1. loop_timers' = loop_timers /\ interpret_timer_id' = interpret_timer_id
    BY <1>2 DEF ScheduleCmd, loopVars
  <2> QED BY <1>2, <2>1 DEF LoopTimerOk
<1> QED BY <1>1, <1>2

\* update_irq: a timer is in the queue whenever an interrupt is owed.
LEMMA UpdateIrqOk ==
  ASSUME IrqTimerOk, NEW wanted, UpdateIrq(wanted)
  PROVE  IrqTimerOk'
<1>1. CASE ~wanted
  BY <1>1 DEF UpdateIrq, irqVars, IrqTimerOk
<1>2. CASE wanted /\ interrupt_timer_id
  BY <1>2 DEF UpdateIrq, IrqTimerOk
<1>3. CASE wanted /\ ~interrupt_timer_id
  <2>1. irq_timers = 0
    BY <1>3 DEF IrqTimerOk
  <2>2. irq_timers' = 1 /\ interrupt_timer_id'
    BY <1>3, <2>1, DbdmaAssumption DEF UpdateIrq, OneMore
  <2> QED BY <2>2 DEF IrqTimerOk
<1> QED BY <1>1, <1>2, <1>3

\* The initial states of a device's channel.
LEMMA DmaInitial == Init => DmaInv
<1> SUFFICES ASSUME Init, ~is_threaded PROVE DeviceChannel
  BY DEF DmaInv
<1>1. prog \in UNION {Programs[t] : t \in Threaded}
  BY DEF Init
<1>2. /\ Length \in Nat \ {0} /\ prog \in [0 .. Length - 1 -> Command]
      /\ \A a \in 0 .. Length - 1 : prog[a].arg < Length
  BY <1>1, DbdmaAssumption DEF Length
<1>3. ProgramOk
  <2>1. ASSUME NEW a \in 0 .. Length - 1 PROVE prog[a].arg \in 0 .. Length - 1
    <3>1. prog[a].arg \in Nat
      BY <1>2 DEF Command
    <3> QED BY <1>2, <3>1
  <2> QED BY <1>2, <2>1 DEF ProgramOk, Addresses
<1>4. 0 \in Addresses
  BY <1>2 DEF Addresses
<1>5. ChannelOk(ch)
  <2>1. 0 \in Nat /\ 0 \in Int
    OBVIOUS
  <2> QED BY <1>4, <2>1 DEF Init, ChannelOk, ChType, ProgressOk
<1>6. StallOk
  BY DEF Init, StallOk, ActiveOrPaused, Ready, Live, IsActive
<1>7. OneThread
  BY DEF Init, OneThread
<1>8. LoopTimerOk
  <2>1. loop_timers = 0 /\ loop_timers # 1 /\ interpret_timer_id = FALSE /\ epc = "guest"
    BY DEF Init
  <2> QED BY <2>1 DEF LoopTimerOk
<1>9. IrqTimerOk
  BY DEF Init, IrqTimerOk
<1> QED BY <1>3, <1>5, <1>6, <1>7, <1>8, <1>9 DEF DeviceChannel

\* Guest code.
LEMMA WriteControlStep ==
  ASSUME ~is_threaded, DeviceChannel, WriteControl, is_threaded \in Threaded
  PROVE  DeviceChannel'
<1> USE DEF DeviceChannel
<1>1. PICK r \in Requests[is_threaded] :
        LET w == WriteCtrl(ch, r)
        IN  /\ driven_paused' = (driven_paused \/ DrivesPaused(ch, r))
            /\ ch' = w.c /\ crashed' = w.crash
            /\ ScheduleCmd(w.sched) /\ UpdateIrq(w.irq)
  BY DEF WriteControl
<1> DEFINE w == WriteCtrl(ch, r)
<1>2. r.set \subseteq CtrlBits /\ r.clear \subseteq CtrlBits
  BY DbdmaAssumption
<1>3. /\ ChannelOk(w.c) /\ w.crash \in BOOLEAN
      /\ ActiveOrPaused(ch) /\ ~DrivesPaused(ch, r) =>
            /\ ActiveOrPaused(w.c)
            /\ Ready(w.c) => w.crash \/ w.sched \/ Ready(ch)
  BY <1>2, WriteCtrlOk
<1>4. /\ driven_paused' = (driven_paused \/ DrivesPaused(ch, r))
      /\ ch' = w.c /\ crashed' = w.crash /\ ScheduleCmd(w.sched) /\ UpdateIrq(w.irq)
  BY <1>1
<1> HIDE DEF w
<1>5. /\ epc = "guest" /\ ~crashed /\ epc' = epc /\ apc' = apc /\ loop_mtx' = loop_mtx
      /\ prog' = prog /\ is_polled_transfer' = is_polled_transfer
  BY DEF WriteControl, Running, kindVars, audioVars
<1>6. /\ LoopTimerOk' /\ (w.sched => loop_timers' = 1)
      /\ loop_timers = 1 => loop_timers' = 1
  BY <1>4, <1>5, ScheduleOk
<1>7. IrqTimerOk'
  BY <1>4, UpdateIrqOk
<1>8. OneThread'
  BY <1>5 DEF OneThread
<1>9. /\ ProgramOk' /\ ChannelOk(ch)'
      /\ Ready(ch)' <=> Ready(ch')
      /\ ActiveOrPaused(ch)' <=> ActiveOrPaused(ch')
  BY <1>3, <1>4, <1>5, ProgramKept
<1>10. StallOk'
  BY <1>3, <1>4, <1>5, <1>6, <1>9 DEF StallOk
<1> QED BY <1>6, <1>7, <1>8, <1>9, <1>10

\* A step that only moves bytes, or changes the command pointer or a status
\* bit other than ACTIVE, DEAD and PAUSE.
LEMMA ChannelStep ==
  ASSUME ~is_threaded, DeviceChannel, ChannelOk(ch'), epc = "guest",
         UNCHANGED <<kindVars, prog, driven_paused, epc, apc, loop_mtx, irqVars, crashed>>,
         ch'.paused = ch.paused,
         \A b \in {"ACTIVE", "DEAD", "PAUSE"} : b \in ch'.stat <=> b \in ch.stat,
         \/ UNCHANGED loopVars /\ SameCommand(ch, ch')
         \/ ScheduleCmd(TRUE)
  PROVE  DeviceChannel'
<1> USE DEF DeviceChannel
<1>1. /\ ProgramOk' /\ ChannelOk(ch)'
      /\ Ready(ch)' <=> Ready(ch')
      /\ ActiveOrPaused(ch)' <=> ActiveOrPaused(ch')
  BY ProgramKept DEF kindVars
<1>2. OneThread' /\ IrqTimerOk'
  BY DEF OneThread, IrqTimerOk, irqVars
<1>3. ActiveOrPaused(ch') <=> ActiveOrPaused(ch)
  BY DEF ActiveOrPaused
<1>4. CASE UNCHANGED loopVars /\ SameCommand(ch, ch')
  <2>1. LoopTimerOk'
    BY <1>4 DEF LoopTimerOk, loopVars
  <2>2. Ready(ch') <=> Ready(ch)
    BY <1>4 DEF Ready, Live, IsActive, SameCommand
  <2>3. StallOk'
    BY <1>1, <1>3, <1>4, <2>2 DEF StallOk, loopVars
  <2> QED BY <1>1, <1>2, <2>1, <2>3
<1>5. CASE ScheduleCmd(TRUE)
  <2>1. LoopTimerOk' /\ loop_timers' = 1
    BY <1>5, ScheduleOk
  <2>2. StallOk'
    BY <1>1, <1>3, <2>1 DEF StallOk
  <2> QED BY <1>1, <1>2, <2>1, <2>2
<1> QED BY <1>4, <1>5

\* A driver's patch of a STOP: the byte counts, branches and waits of the
\* command stay.
LEMMA PatchProgramStep ==
  ASSUME ~is_threaded, DeviceChannel, PatchProgram
  PROVE  DeviceChannel'
<1> USE DEF DeviceChannel
<1>1. PICK a \in DOMAIN prog : prog' = [prog EXCEPT ![a].op = "NOP"]
  BY DEF PatchProgram
<1>2. prog \in [Addresses -> Command] /\ a \in Addresses
  BY <1>1 DEF ProgramOk
<1>3. /\ ch' = ch /\ driven_paused' = driven_paused /\ epc' = epc /\ apc' = apc
      /\ loop_mtx' = loop_mtx /\ crashed' = crashed /\ more' = more
      /\ loop_timers' = loop_timers /\ interpret_timer_id' = interpret_timer_id
      /\ irq_timers' = irq_timers /\ interrupt_timer_id' = interrupt_timer_id
      /\ irq_due' = irq_due /\ is_polled_transfer' = is_polled_transfer
  BY DEF PatchProgram, kindVars, loopVars, irqVars, audioVars
<1>4. DOMAIN prog' = DOMAIN prog
  BY <1>1
<1>5. Length' = Length /\ Addresses' = Addresses
  BY <1>4 DEF Length, Addresses
<1>6. prog[a] \in Command /\ [prog[a] EXCEPT !.op = "NOP"] \in Command
  BY <1>2 DEF Command, Ops
<1>7. \A b \in Addresses : prog'[b] = IF b = a THEN [prog[a] EXCEPT !.op = "NOP"] ELSE prog[b]
  BY <1>1, <1>2
<1>8. \A b \in Addresses : /\ prog'[b].req = prog[b].req /\ prog'[b].w = prog[b].w
                           /\ prog'[b].arg = prog[b].arg
  BY <1>2, <1>7 DEF Command
<1>9. prog' \in [Addresses -> Command]
  BY <1>1, <1>2, <1>6
<1>10. ProgramOk'
  BY <1>5, <1>8, <1>9 DEF ProgramOk
<1>11. ChType' = ChType
  BY <1>5 DEF ChType
<1>12. ChannelOk(ch)'
  BY <1>3, <1>5, <1>8, <1>11 DEF ChannelOk, ProgressOk
<1>13. OneThread' /\ LoopTimerOk' /\ IrqTimerOk'
  BY <1>3 DEF OneThread, LoopTimerOk, IrqTimerOk
<1>14. Ready(ch)' <=> Ready(ch)
  BY <1>3, <1>8 DEF ChannelOk, ProgressOk, Ready, Live, IsActive
<1>15. StallOk'
  BY <1>3, <1>14 DEF StallOk, ActiveOrPaused
<1> QED BY <1>10, <1>12, <1>13, <1>15

\* The timers.
LEMMA TimerSteps ==
  ASSUME ~is_threaded, DeviceChannel, Timers
  PROVE  DeviceChannel'
<1> USE DEF DeviceChannel
<1>1. CASE InterruptTimer
  <2>1. /\ ch' = ch /\ prog' = prog /\ is_polled_transfer' = is_polled_transfer
        /\ driven_paused' = driven_paused /\ epc' = epc /\ apc' = apc /\ loop_mtx' = loop_mtx
        /\ crashed' = crashed /\ more' = more
        /\ loop_timers' = loop_timers /\ interpret_timer_id' = interpret_timer_id
    BY <1>1 DEF InterruptTimer, chanVars, kindVars, loopVars, audioVars
  <2>2. irq_timers = 1
    BY <1>1 DEF InterruptTimer, IrqTimerOk
  <2>3. irq_timers' = 0
    BY <1>1, <2>2, DbdmaAssumption DEF InterruptTimer, OneLess
  <2>4. irq_timers' \in {0, 1} /\ irq_timers' # 1 /\ interrupt_timer_id' = FALSE /\ irq_due' = FALSE
    BY <1>1, <2>3 DEF InterruptTimer
  <2>5. IrqTimerOk'
    BY <2>4 DEF IrqTimerOk
  <2>6. ChannelOk(ch')
    BY <2>1
  <2>7. ProgramOk' /\ ChannelOk(ch)' /\ (Ready(ch)' <=> Ready(ch')) /\ (ActiveOrPaused(ch)' <=> ActiveOrPaused(ch'))
    BY <2>1, <2>6, ProgramKept
  <2>8. OneThread' /\ LoopTimerOk' /\ StallOk'
    BY <2>1, <2>7 DEF OneThread, LoopTimerOk, StallOk
  <2> QED BY <2>5, <2>7, <2>8
<1>2. CASE LoopTimerBusy
  BY <1>2 DEF LoopTimerBusy
<1>3. CASE LoopTimer
  <2>1. PICK it \in Iterations(ch) : ch' = it.c /\ UpdateIrq(it.irq) /\ more' = Continues(it.state)
    BY <1>3 DEF LoopTimer
  <2>2. /\ prog' = prog /\ is_polled_transfer' = is_polled_transfer
        /\ driven_paused' = driven_paused /\ apc' = apc /\ crashed' = crashed
        /\ interpret_timer_id' = interpret_timer_id
        /\ loop_mtx' = "emulation" /\ epc' = "looped" /\ epc = "guest"
    BY <1>3 DEF LoopTimer, Running, chanVars, kindVars, audioVars
  <2>3. loop_timers = 1
    BY <1>3 DEF LoopTimer, LoopTimerOk
  <2>4. loop_timers' = 0
    BY <1>3, <2>3, DbdmaAssumption DEF LoopTimer, OneLess
  <2>5. /\ ChannelOk(it.c) /\ StatusKept(ch, it.c)
        /\ Continues(it.state) \/ ~Ready(it.c)
    BY IterationOk
  <2>6. ProgramOk' /\ ChannelOk(ch)' /\ (Ready(ch)' <=> Ready(ch')) /\ (ActiveOrPaused(ch)' <=> ActiveOrPaused(ch'))
    BY <2>1, <2>2, <2>5, ProgramKept
  <2>7. IrqTimerOk'
    BY <2>1, UpdateIrqOk
  <2>8. OneThread'
    BY <2>2 DEF OneThread
  <2>9. LoopTimerOk'
    BY <2>2, <2>3, <2>4 DEF LoopTimerOk
  <2>10. ActiveOrPaused(ch) => ActiveOrPaused(ch')
    BY <2>1, <2>5 DEF ActiveOrPaused, StatusKept
  <2>11. StallOk'
    BY <2>1, <2>2, <2>5, <2>6, <2>10 DEF StallOk
  <2> QED BY <2>6, <2>7, <2>8, <2>9, <2>11
<1>4. CASE Rearm
  <2>1. /\ ch' = ch /\ prog' = prog /\ is_polled_transfer' = is_polled_transfer
        /\ driven_paused' = driven_paused /\ apc' = apc /\ crashed' = crashed
        /\ irq_timers' = irq_timers /\ interrupt_timer_id' = interrupt_timer_id
        /\ irq_due' = irq_due /\ loop_mtx' = None /\ epc' = "guest" /\ epc = "looped"
        /\ interpret_timer_id' = more
    BY <1>4 DEF Rearm, chanVars, kindVars, irqVars, audioVars
  <2>2. loop_timers = 0
    BY <2>1 DEF LoopTimerOk
  <2>3. loop_timers' = IF more THEN 1 ELSE 0
    BY <1>4, <2>2, DbdmaAssumption DEF Rearm, OneMore
  <2>4. LoopTimerOk'
    BY <2>1, <2>3 DEF LoopTimerOk
  <2>5. OneThread' /\ IrqTimerOk'
    BY <2>1 DEF OneThread, IrqTimerOk
  <2>6. ChannelOk(ch')
    BY <2>1
  <2>7. ProgramOk' /\ ChannelOk(ch)' /\ (Ready(ch)' <=> Ready(ch')) /\ (ActiveOrPaused(ch)' <=> ActiveOrPaused(ch'))
    BY <2>1, <2>6, ProgramKept
  <2>8. StallOk'
    BY <2>1, <2>2, <2>3, <2>7 DEF StallOk
  <2> QED BY <2>4, <2>5, <2>7, <2>8
<1> QED BY <1>1, <1>2, <1>3, <1>4 DEF Timers

\* Every step of a device's channel keeps the invariant.
LEMMA DeviceChannelStep ==
  ASSUME ~is_threaded, is_threaded \in Threaded, DeviceChannel, [Next]_vars
  PROVE  DeviceChannel'
<1> USE DEF DeviceChannel
<1>1. CASE WriteControl
  BY <1>1, WriteControlStep
<1>2. CASE WriteSelect \/ UNCHANGED vars
  <2>1. /\ ch' = ch /\ prog' = prog /\ is_polled_transfer' = is_polled_transfer
        /\ driven_paused' = driven_paused /\ epc' = epc /\ apc' = apc /\ loop_mtx' = loop_mtx
        /\ crashed' = crashed /\ more' = more
        /\ loop_timers' = loop_timers /\ interpret_timer_id' = interpret_timer_id
        /\ irq_timers' = irq_timers /\ interrupt_timer_id' = interrupt_timer_id
        /\ irq_due' = irq_due
    BY <1>2 DEF WriteSelect, vars, chanVars, kindVars, loopVars, irqVars, audioVars
  <2>2. ChannelOk(ch')
    BY <2>1
  <2>3. ProgramOk' /\ ChannelOk(ch)' /\ (Ready(ch)' <=> Ready(ch')) /\ (ActiveOrPaused(ch)' <=> ActiveOrPaused(ch'))
    BY <2>1, <2>2, ProgramKept
  <2>4. OneThread' /\ LoopTimerOk' /\ IrqTimerOk' /\ StallOk'
    BY <2>1, <2>3 DEF OneThread, LoopTimerOk, IrqTimerOk, StallOk
  <2> QED BY <2>3, <2>4
<1>3. CASE WriteCmdPtr \/ DeviceStatus
  <2>1. ch' \in ChType /\ SameCommand(ch, ch') /\ ch'.paused = ch.paused
    <3>1. ch \in ChType
      BY DEF ChannelOk
    <3>2. CASE WriteCmdPtr
      <4>1. PICK a \in DOMAIN prog : ch' = [ch EXCEPT !.cmd_ptr = a]
        BY <3>2 DEF WriteCmdPtr
      <4>2. a \in Addresses
        BY DEF ProgramOk
      <4> QED BY <3>1, <4>1, <4>2 DEF ChType, SameCommand
    <3>3. CASE DeviceStatus
      <4>1. ch.stat \union {"S"} \in SUBSET Bits /\ ch.stat \ {"S"} \in SUBSET Bits
        BY <3>1 DEF ChType, Bits
      <4>2. PICK st \in SUBSET Bits : ch' = [ch EXCEPT !.stat = st]
        BY <3>3, <4>1 DEF DeviceStatus
      <4> QED BY <3>1, <4>2 DEF ChType, SameCommand
    <3> QED BY <1>3, <3>2, <3>3
  <2>2. \A b \in {"ACTIVE", "DEAD", "PAUSE"} : b \in ch'.stat <=> b \in ch.stat
    BY <1>3 DEF WriteCmdPtr, DeviceStatus, ChannelOk, ChType
  <2>3. ChannelOk(ch')
    BY <2>1 DEF ChannelOk, ProgressOk, SameCommand
  <2>4. /\ epc = "guest" /\ UNCHANGED loopVars
        /\ UNCHANGED <<kindVars, prog, driven_paused, epc, apc, loop_mtx, irqVars, crashed>>
    BY <1>3 DEF WriteCmdPtr, DeviceStatus, Running, chanVars, audioVars
  <2> QED BY <2>1, <2>2, <2>3, <2>4, ChannelStep
<1>4. CASE PatchProgram
  BY <1>4, PatchProgramStep
<1>5. CASE DeviceMoves \/ XferRetry
  <2>1. ch.queue_len \in Nat
    BY DEF ChannelOk, ChType
  <2>2. PICK n \in 0 .. ch.queue_len : ch' = Moved(ch, n)
    <3>1. CASE DeviceMoves
      BY <3>1 DEF DeviceMoves
    <3>2. CASE XferRetry
      <4>1. PICK n \in 0 .. (IF IsTransfer(ch.op) THEN ch.queue_len ELSE 0) : ch' = Moved(ch, n)
        BY <3>2 DEF XferRetry
      <4>2. n \in 0 .. ch.queue_len
        BY <2>1
      <4> QED BY <4>1, <4>2
    <3> QED BY <1>5, <3>1, <3>2
  <2>3. /\ ChannelOk(ch') /\ ch'.stat = ch.stat /\ ch'.paused = ch.paused
    BY <2>2, MovedOk
  <2>4. /\ epc = "guest" /\ ScheduleCmd(TRUE)
        /\ UNCHANGED <<kindVars, prog, driven_paused, epc, apc, loop_mtx, irqVars, crashed>>
    BY <1>5 DEF DeviceMoves, XferRetry, Running, chanVars, audioVars
  <2> QED BY <2>3, <2>4, ChannelStep
<1>6. CASE Timers
  BY <1>6, TimerSteps
<1>7. CASE AudioPull
  BY <1>7 DEF AudioPull
<1>8. CASE AudioCallback
  BY <1>8 DEF AudioCallback, OneThread, AudioAccount, AudioLoopBusy, AudioLoop,
              AudioIrqAssign, AudioRearm, AudioRearmAssign, AudioSchedule, AudioScheduleAssign
<1> QED BY <1>1, <1>2, <1>3, <1>4, <1>5, <1>6, <1>7, <1>8 DEF Next, Guest, Device

\* No step changes what kind of channel it is.
LEMMA KindKept == [Next]_vars => is_threaded' = is_threaded
  BY DEF Next, Guest, Device, Timers, AudioPull, AudioCallback, vars, chanVars, kindVars,
         WriteControl, WriteSelect, WriteCmdPtr, PatchProgram, DeviceStatus, DeviceMoves,
         XferRetry, InterruptTimer, LoopTimerBusy, LoopTimer, Rearm, AudioAccount,
         AudioLoopBusy, AudioLoop, AudioIrqAssign, AudioRearm, AudioRearmAssign,
         AudioSchedule, AudioScheduleAssign

\* The invariant is one of every behaviour of a channel of either kind.
LEMMA DmaInvariant == Spec => []DmaInv
<1> DEFINE Kind == is_threaded \in Threaded
<1>1. Init => DmaInv /\ Kind
  BY DmaInitial DEF Init
<1>2. DmaInv /\ Kind /\ [Next]_vars => DmaInv' /\ Kind'
  BY DeviceChannelStep, KindKept DEF DmaInv
<1> QED BY <1>1, <1>2, PTL DEF Spec

\* Every byte of a command in progress is accounted for once.
THEOREM BytesAccounted == Spec => []BufferAccounted
<1>1. DmaInv => BufferAccounted
  BY DEF DmaInv, DeviceChannel, ChannelOk, ProgressOk, BufferAccounted
<1> QED BY <1>1, DmaInvariant, PTL

\* An interrupt owed to the guest has its timer in the queue.
THEOREM InterruptsKept == Spec => []InterruptNotLost
<1>1. DmaInv => InterruptNotLost
  BY DEF DmaInv, DeviceChannel, IrqTimerOk, InterruptNotLost
<1> QED BY <1>1, DmaInvariant, PTL

\* The interpreter is run by one chain of timers, known by its id.
THEOREM LoopHasOneTimer == Spec => []OneLoopTimer
<1>1. DmaInv => OneLoopTimer
  BY DEF DmaInv, DeviceChannel, OneThread, LoopTimerOk, OneLoopTimer
<1> QED BY <1>1, DmaInvariant, PTL

\* An active channel that could go on has a timer that takes it on, unless its
\* driver has set RUN or WAKE while it was paused.
THEOREM ChannelDoesNotStall == Spec => []NoStall
<1>1. DmaInv => NoStall
  <2> SUFFICES ASSUME DmaInv, ~is_threaded, ~driven_paused, Running, IsActive(ch),
                      ~(ch.in_progress /\ ch.queue_len > 0 /\ ~is_polled_transfer),
                      ~(ch.in_progress /\ prog[ch.cur].w # "never")
               PROVE  loop_timers > 0
    BY DEF NoStall
  <2>1. ActiveOrPaused(ch) /\ (Ready(ch) => loop_timers = 1)
    BY DEF DmaInv, DeviceChannel, StallOk, Running
  <2>2. Ready(ch)
    BY <2>1 DEF ActiveOrPaused, Ready, Live, IsActive
  <2> QED BY <2>1, <2>2
<1> QED BY <1>1, DmaInvariant, PTL
=============================================================================
