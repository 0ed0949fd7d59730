-------------------------------- MODULE DBDMA --------------------------------
(***************************************************************************)
(* A DBDMA channel (devices/common/dbdma.cpp): the interpreter of channel  *)
(* programs, its registers, its two timers, the device that moves the      *)
(* data, and, for the sound output channel, the audio thread, which takes  *)
(* data and runs the same interpreter from a thread of its own.            *)
(*                                                                         *)
(* ch is the DMAChannel object as far as the interpreter works on it; the  *)
(* handlers below are written as functions of it, in the order the code    *)
(* makes its calls.  Guest memory is the channel program with the status   *)
(* words the channel writes back.                                          *)
(***************************************************************************)
EXTENDS Integers, FiniteSets

CONSTANTS
    Threaded,   \* values of is_threaded (TRUE for the sound output channel)
    \* Of a channel that is threaded or not (functions of is_threaded):
    Programs,   \* channel programs: functions from addresses to commands
    Requests,   \* what the guest writes to ChannelControl: bits set and cleared
    Selects,    \* values of the select registers
    Polling,    \* values of is_polled_transfer (TRUE for the serial channels)
    MaxTimers   \* bound: timers counted, MaxTimers stands for as many or more;
                \* one timer is told from several

Ops  == {"OUTPUT", "INPUT", "QUAD", "NOP", "STOP", "BAD"}
When == {"never", "if", "unless", "always"}

\* A command: operation, when to interrupt, branch and wait, byte count and
\* branch target.  OUTPUT and INPUT stand for the _MORE and _LAST commands.
Command == [op: Ops, i: When, b: When, w: When, req: Nat, arg: Nat]

Bits == {"S", "BT", "ACTIVE", "DEAD", "FLUSH", "PAUSE", "RUN"}
CtrlBits == {"S", "WAKE", "FLUSH", "PAUSE", "RUN"}

\* A program does not run off its end.  LOAD/STORE_QUAD with branch bits, and
\* setting RUN and PAUSE at once, end in ABORT_F and are left out.
ASSUME DbdmaAssumption ==
    /\ Threaded \subseteq BOOLEAN
    /\ \A p \in UNION {Programs[t] : t \in Threaded} :
          LET n == Cardinality(DOMAIN p)
          IN  /\ n \in Nat \ {0} /\ p \in [0 .. n - 1 -> Command]
              /\ \A a \in 0 .. n - 1 : /\ p[a].arg < n
                                       /\ p[a].op = "QUAD" => p[a].b = "never"
              /\ p[n - 1].op = "STOP" \/ p[n - 1].b = "always"
    /\ \A r \in UNION {Requests[t] : t \in Threaded} :
          /\ r.set \subseteq CtrlBits /\ r.clear \subseteq CtrlBits
          /\ r.set \intersect r.clear = {}
          /\ ~({"RUN", "PAUSE"} \subseteq r.set)
    /\ \A t \in Threaded : /\ Selects[t] \subseteq SUBSET BOOLEAN
                            /\ Polling[t] \subseteq BOOLEAN
    /\ MaxTimers \in Nat \ {0, 1}

VARIABLES
    is_threaded,
    is_polled_transfer,
    prog,               \* the channel program
    ch,                 \* the channel
    select,             \* int_select, branch_select, wait_select
    loop_timers,        \* timers in the queue that call dbdma_loop_timed
    interpret_timer_id, \* TRUE: not 0
    irq_timers,         \* timers in the queue that raise the interrupt
    interrupt_timer_id, \* TRUE: not 0
    stream,             \* the sound server's output stream is open
    loop_mtx,           \* holder of dbdma_loop_mtx
    epc,                \* where the emulation thread is
    apc,                \* where the audio thread is
    pulled,             \* bytes the audio thread has taken, not yet accounted
    more,               \* continue_loop of the holder of dbdma_loop_mtx
    irq_due,            \* history: an interrupt is owed to the guest
    driven_paused,      \* history: the driver set RUN or WAKE on a paused channel
    crashed             \* a null pointer was dereferenced

vars == <<is_threaded, is_polled_transfer, prog, ch, select, loop_timers,
          interpret_timer_id, irq_timers, interrupt_timer_id, stream, loop_mtx,
          epc, apc, pulled, more, irq_due, driven_paused, crashed>>

loopVars  == <<loop_timers, interpret_timer_id>>
irqVars   == <<irq_timers, interrupt_timer_id, irq_due>>
audioVars == <<apc, pulled>>
kindVars  == <<is_threaded, is_polled_transfer>>
chanVars  == <<kindVars, prog, driven_paused>>

None   == "none"
Null   == -1           \* cur_host = nullptr
Length == Cardinality(DOMAIN prog)

\* select holds, per register, the states of the s bits for which the
\* condition is true (all of them when the mask is 0).
Holds(when, reg, stat) ==
    CASE when = "never"  -> FALSE
      [] when = "always" -> TRUE
      [] when = "if"     -> ("S" \in stat) \in select[reg]
      [] when = "unless" -> ("S" \in stat) \notin select[reg]

Init ==
    /\ is_threaded \in Threaded
    /\ is_polled_transfer \in Polling[is_threaded]
    /\ prog \in Programs[is_threaded]
    /\ ch = [stat |-> {}, cmd_ptr |-> 0, cur |-> Null, op |-> None,
             queue_len |-> 0, res_count |-> 0, offset |-> 0,
             in_progress |-> FALSE, paused |-> FALSE, flushing |-> FALSE]
    /\ select = [int |-> BOOLEAN, branch |-> BOOLEAN, wait |-> BOOLEAN]
    /\ loop_timers = 0 /\ interpret_timer_id = FALSE
    /\ irq_timers = 0 /\ interrupt_timer_id = FALSE
    /\ stream = FALSE /\ loop_mtx = None
    /\ epc = "guest" /\ apc = "idle"
    /\ pulled = 0 /\ more = FALSE
    /\ irq_due = FALSE /\ driven_paused = FALSE /\ crashed = FALSE

-----------------------------------------------------------------------------
(* The interpreter of channel programs.                                    *)

IsActive(c)   == "ACTIVE" \in c.stat /\ "DEAD" \notin c.stat
IsTransfer(o) == o \in {"OUTPUT", "INPUT"}

\* Mutant: the residual count is forgotten.
MovedUncounted(c, n) == [c EXCEPT !.queue_len = @ - n, !.offset = @ + n]

\* xfer_to_device, xfer_from_device: the device takes or delivers n bytes.
Moved(c, n) == [c EXCEPT !.queue_len = @ - n, !.res_count = @ - n,
                         !.offset = @ + n]

InitCmd(c) ==
    [c EXCEPT !.queue_len = 0, !.res_count = 0, !.offset = 0,
              !.in_progress = TRUE, !.flushing = FALSE, !.stat = @ \ {"FLUSH"}]

\* interpret_cmd; n bytes move at once.
InterpretCmd(c, n) ==
    LET cmd == prog[c.cmd_ptr]
        new == [InitCmd(c) EXCEPT !.cur = c.cmd_ptr, !.op = cmd.op]
    IN  CASE IsTransfer(cmd.op) ->
                Moved([new EXCEPT !.queue_len = cmd.req, !.res_count = cmd.req], n)
          [] cmd.op = "QUAD" -> [new EXCEPT !.res_count = cmd.req]
          [] cmd.op = "NOP"  -> new
          [] cmd.op = "STOP" -> [new EXCEPT !.stat = @ \ {"ACTIVE"}]
          [] cmd.op = "BAD"  -> [new EXCEPT !.stat = (@ \union {"DEAD"}) \ {"ACTIVE"}]

\* The device object moves some of the bytes, or all; the sound output channel
\* has no device object and waits for pull_data.
Fetched(c) ==
    {InterpretCmd(c, n) :
        n \in IF IsTransfer(prog[c.cmd_ptr].op) /\ ~is_threaded
              THEN 0 .. prog[c.cmd_ptr].req ELSE {0}}

UpdateCmd(c) == [c EXCEPT !.stat = @ \ {"FLUSH", "BT"}, !.flushing = FALSE]

Stops(o) == o \in {"STOP", "BAD"}
Waits(c) == ~Stops(c.op) /\ Holds(prog[c.cur].w, "wait", c.stat)

\* The i condition is evaluated after update_cmd; the s bits are the same.
Interrupts(c) == ~Stops(c.op) /\ Holds(prog[c.cur].i, "int", c.stat)

FinishCmd(c) ==
    LET cmd    == prog[c.cur]
        branch == ~Stops(c.op) /\ Holds(cmd.b, "branch", c.stat)
        next   == CASE Stops(c.op) -> c.cmd_ptr
                    [] branch      -> cmd.arg
                    [] OTHER       -> (c.cmd_ptr + 1) % Length
    IN  [UpdateCmd(c) EXCEPT !.cmd_ptr = next, !.in_progress = FALSE]

\* The end of dbdma_loop_iteration, once no data is left to move.
Ended(c) ==
    LET f   == IF c.in_progress THEN FinishCmd(c) ELSE c
        irq == c.in_progress /\ Interrupts(c)
    IN  IF c.in_progress /\ Waits(c)
        THEN {[c |-> c, state |-> "WAITING", irq |-> FALSE]}
        ELSE IF ~IsActive(f) THEN {[c |-> f, state |-> "STOPPED", irq |-> irq]}
        ELSE IF f.paused THEN {[c |-> f, state |-> "PAUSED", irq |-> irq]}
        ELSE {[c |-> g, state |-> "FETCH", irq |-> irq] : g \in Fetched(f)}

\* dbdma_loop_iteration: the possible outcomes, each with the channel, the
\* DBDMA_State returned and whether the guest is owed an interrupt.
Iterations(c) ==
    LET moving == IsActive(c) /\ ~c.paused /\ c.in_progress /\ c.queue_len > 0
        polled == IF moving /\ is_polled_transfer
                  THEN {Moved(c, n) : n \in 0 .. c.queue_len} ELSE {c}
    IN  UNION {IF moving /\ p.queue_len > 0
               THEN {[c |-> IF p.flushing THEN UpdateCmd(p) ELSE p,
                      state |-> "TRANSFER", irq |-> FALSE]}
               ELSE Ended(p) : p \in polled}

\* continue_loop
Continues(state) == state = "FETCH" \/ (state = "TRANSFER" /\ is_polled_transfer)

-----------------------------------------------------------------------------
(* ChannelControl.                                                         *)

Write(c) == [c |-> c, sched |-> FALSE, irq |-> FALSE, start |-> FALSE,
             stop |-> FALSE, crash |-> FALSE]

WithStat(c, stat) == [c EXCEPT !.stat = stat]

\* The s bits, and FLUSH, which is accepted from an active channel only.
WriteStatus(c, r) ==
    LET s     == (c.stat \ (r.clear \intersect {"S"}))
                    \union (r.set \intersect {"S"})
        flush == "FLUSH" \in r.set /\ IsActive(c)
    IN  [c EXCEPT !.stat = IF flush THEN s \union {"FLUSH"} ELSE s,
                  !.flushing = @ \/ (flush /\ c.op = "INPUT")]

\* RUN set: PAUSE is cleared along with it if asked for; start() gives up if
\* PAUSE is still set.
WriteRun(c, r) ==
    LET stat == c.stat \ (r.clear \intersect {"PAUSE"})
    IN  IF "ACTIVE" \in stat THEN Write(WithStat(c, stat))
        ELSE IF "PAUSE" \in stat THEN Write(WithStat(c, stat \union {"RUN"}))
        ELSE [Write(WithStat(c, stat \union {"RUN", "ACTIVE"}))
              EXCEPT !.sched = TRUE, !.start = TRUE]

\* RUN cleared: abort(), then update_irq with the bits of the command that
\* cur_host points to.  A PAUSE in the same write is not looked at.
ClearRun(c) ==
    LET new == WithStat(c, c.stat \ {"RUN", "ACTIVE", "DEAD", "FLUSH"})
    IN  IF "ACTIVE" \notin c.stat THEN Write(new)
        ELSE IF c.cur = Null THEN [Write(c) EXCEPT !.crash = TRUE]
        ELSE [Write(new) EXCEPT !.stop = TRUE, !.irq = Interrupts(c)]

WritePause(c) ==
    LET stat == (c.stat \union {"PAUSE"}) \ {"ACTIVE"}
    IN  IF "ACTIVE" \in c.stat
        THEN [Write([WithStat(c, stat) EXCEPT !.paused = TRUE]) EXCEPT !.stop = TRUE]
        ELSE Write(WithStat(c, stat))

\* Mutant: the channel is active again and nothing is scheduled.
ClearPauseOnly(c) ==
    LET stat == c.stat \ {"PAUSE"}
    IN  IF "ACTIVE" \notin stat /\ c.paused
        THEN Write([WithStat(c, stat \union {"ACTIVE"}) EXCEPT !.paused = FALSE])
        ELSE Write(WithStat(c, stat))

ClearPause(c) ==
    LET stat == c.stat \ {"PAUSE"}
    IN  IF "ACTIVE" \notin stat /\ c.paused
        THEN [Write([WithStat(c, stat \union {"ACTIVE"}) EXCEPT !.paused = FALSE])
              EXCEPT !.sched = TRUE]
        ELSE Write(WithStat(c, stat))

\* resume() leaves a paused channel alone, but ACTIVE is set already.
WriteWake(c) ==
    IF "ACTIVE" \in c.stat THEN Write(c)
    ELSE [Write(WithStat(c, c.stat \union {"ACTIVE"}))
          EXCEPT !.sched = "PAUSE" \notin c.stat]

\* reg_write(CH_CTRL): the first of RUN, PAUSE and WAKE in the mask counts.
WriteCtrl(c0, r) ==
    LET c == WriteStatus(c0, r)
    IN  IF      "RUN" \in r.set     THEN WriteRun(c, r)
        ELSE IF "RUN" \in r.clear   THEN ClearRun(c)
        ELSE IF "PAUSE" \in r.set   THEN WritePause(c)
        ELSE IF "PAUSE" \in r.clear THEN ClearPause(c)
        ELSE IF "WAKE" \in r.set    THEN WriteWake(c)
        ELSE Write(c)

-----------------------------------------------------------------------------
(* The emulation thread: guest code, devices and timer callbacks.          *)

\* Timers of one kind in the queue, after adding and after firing one.
OneMore(n) == IF n < MaxTimers THEN n + 1 ELSE n
OneLess(n) == IF n < MaxTimers THEN {n - 1} ELSE {n - 1, n}

Running == epc = "guest" /\ ~crashed

\* schedule_cmd, unless its timer is running already.  The audio thread may be
\* inside its own schedule_cmd, holding interpret_mtx.
ScheduleCmd(wanted) ==
    IF wanted /\ ~interpret_timer_id
    THEN /\ apc # "assign"
         /\ loop_timers' = OneMore(loop_timers)
         /\ interpret_timer_id' = TRUE
    ELSE UNCHANGED loopVars

\* update_irq: an immediate timer raises the interrupt, unless it is running.
UpdateIrq(wanted) ==
    IF ~wanted THEN UNCHANGED irqVars
    ELSE /\ apc # "irq"
         /\ irq_due' = TRUE
         /\ IF interrupt_timer_id THEN UNCHANGED <<irq_timers, interrupt_timer_id>>
            ELSE /\ irq_timers' = OneMore(irq_timers)
                 /\ interrupt_timer_id' = TRUE

\* A write after which the channel can be active and not go on: WAKE while PAUSE
\* is set, which makes ACTIVE of a channel that resume() leaves alone; and RUN
\* while is_paused, with PAUSE set or cleared along with RUN, as neither the
\* write nor start() clears is_paused and the loop then ends at once.
DrivesPaused(c, r) ==
    \/ "WAKE" \in r.set /\ "PAUSE" \in c.stat
    \/ "RUN" \in r.set /\ c.paused

\* Closing the sound stream waits for the audio thread's callback to return.
WriteControl ==
    /\ Running
    /\ \E r \in Requests[is_threaded] :
          LET w == WriteCtrl(ch, r)
          IN  /\ driven_paused' = (driven_paused \/ DrivesPaused(ch, r))
              /\ is_threaded /\ w.stop => apc = "idle"
              /\ ch' = w.c
              /\ crashed' = w.crash
              /\ stream' = (is_threaded /\ (w.start \/ (stream /\ ~w.stop)))
              /\ ScheduleCmd(w.sched)
              /\ UpdateIrq(w.irq)
    /\ UNCHANGED <<kindVars, prog, select, loop_mtx, epc, audioVars, more>>

WriteSelect ==
    /\ Running
    /\ \E reg \in DOMAIN select, v \in Selects[is_threaded] :
          select' = [select EXCEPT ![reg] = v]
    /\ UNCHANGED <<chanVars, ch, loopVars, irqVars, stream, loop_mtx, epc,
                   audioVars, more, crashed>>

\* The pointer is set even on an active channel (with a warning).
WriteCmdPtr ==
    /\ Running
    /\ \E a \in DOMAIN prog : ch' = [ch EXCEPT !.cmd_ptr = a]
    /\ UNCHANGED <<chanVars, select, loopVars, irqVars, stream, loop_mtx, epc,
                   audioVars, more, crashed>>

\* A driver appends to a running program by turning a STOP into a NOP.
PatchProgram ==
    /\ Running
    /\ \E a \in DOMAIN prog :
          /\ prog[a].op = "STOP" /\ a < Length - 1
          /\ prog' = [prog EXCEPT ![a].op = "NOP"]
    /\ UNCHANGED <<kindVars, driven_paused, ch, select, loopVars, irqVars, stream,
                   loop_mtx, epc, audioVars, more, crashed>>

\* set_stat, update_ch_stat: the device changes its s bit.
DeviceStatus ==
    /\ Running
    /\ ch' \in {[ch EXCEPT !.stat = @ \union {"S"}], [ch EXCEPT !.stat = @ \ {"S"}]}
    /\ UNCHANGED <<chanVars, select, loopVars, irqVars, stream, loop_mtx, epc,
                   audioVars, more, crashed>>

\* push_data, and pull_data of the channels that are not threaded.
DeviceMoves ==
    /\ Running /\ ~is_threaded /\ IsActive(ch)
    /\ \E n \in 0 .. ch.queue_len : ch' = Moved(ch, n)
    /\ ScheduleCmd(TRUE)
    /\ UNCHANGED <<chanVars, select, irqVars, stream, loop_mtx, epc, audioVars, more,
                   crashed>>

\* xfer_retry, called by disk controllers when they have become ready; the IDE
\* channel's request comes from a timer and does not ask if the channel is.
XferRetry ==
    /\ Running /\ ~is_threaded
    /\ \E n \in 0 .. (IF IsTransfer(ch.op) THEN ch.queue_len ELSE 0) :
          ch' = Moved(ch, n)
    /\ ScheduleCmd(TRUE)
    /\ UNCHANGED <<chanVars, select, irqVars, stream, loop_mtx, epc, audioVars, more,
                   crashed>>

\* Mutant: the id of the fired timer is kept.
InterruptTimerKeepsId ==
    /\ Running /\ irq_timers > 0
    /\ irq_timers' \in OneLess(irq_timers)
    /\ irq_due' = FALSE
    /\ UNCHANGED <<chanVars, ch, select, loopVars, interrupt_timer_id, stream,
                   loop_mtx, epc, audioVars, more, crashed>>

InterruptTimer ==
    /\ Running /\ irq_timers > 0
    /\ irq_timers' \in OneLess(irq_timers)
    /\ interrupt_timer_id' = FALSE
    /\ irq_due' = FALSE
    /\ UNCHANGED <<chanVars, ch, select, loopVars, stream, loop_mtx, epc, audioVars,
                   more, crashed>>

\* dbdma_loop_timed in the timer callback; nothing happens if the audio thread
\* is in it.
LoopTimerBusy ==
    /\ Running /\ loop_timers > 0 /\ is_threaded /\ loop_mtx # None
    /\ loop_timers' \in OneLess(loop_timers)
    /\ UNCHANGED <<chanVars, ch, select, interpret_timer_id, irqVars, stream,
                   loop_mtx, epc, audioVars, more, crashed>>

LoopTimer ==
    /\ Running /\ loop_timers > 0 /\ loop_mtx = None
    /\ loop_timers' \in OneLess(loop_timers)
    /\ \E it \in Iterations(ch) :
          /\ ch' = it.c
          /\ UpdateIrq(it.irq)
          /\ more' = Continues(it.state)
    /\ loop_mtx' = "emulation" /\ epc' = "looped"
    /\ UNCHANGED <<chanVars, select, interpret_timer_id, stream, audioVars, crashed>>

\* Mutant: the id of the new timer is not kept.
RearmWithoutId ==
    /\ epc = "looped"
    /\ loop_timers' = IF more THEN OneMore(loop_timers) ELSE loop_timers
    /\ interpret_timer_id' = FALSE
    /\ more' = FALSE
    /\ loop_mtx' = None /\ epc' = "guest"
    /\ UNCHANGED <<chanVars, ch, select, irqVars, stream, audioVars, crashed>>

\* The rest of dbdma_loop_timed, after which the lock is free.
Rearm ==
    /\ epc = "looped"
    /\ loop_timers' = IF more THEN OneMore(loop_timers) ELSE loop_timers
    /\ interpret_timer_id' = more
    /\ more' = FALSE
    /\ loop_mtx' = None /\ epc' = "guest"
    /\ UNCHANGED <<chanVars, ch, select, irqVars, stream, audioVars, crashed>>

-----------------------------------------------------------------------------
(* The audio thread: pull_data with schedule_cmd(is_immediate = true).     *)

\* Mutant: without data the callback returns at once.
AudioPullNoData ==
    /\ apc = "idle" /\ is_threaded /\ stream /\ IsActive(ch) /\ ~crashed
    /\ \E n \in 1 .. ch.queue_len : ch' = [ch EXCEPT !.queue_len = @ - n]
                                    /\ pulled' = n
    /\ apc' = "pulled"
    /\ UNCHANGED <<chanVars, select, loopVars, irqVars, stream, loop_mtx, epc, more,
                   crashed>>

AudioPull ==
    /\ apc = "idle" /\ is_threaded /\ stream /\ IsActive(ch) /\ ~crashed
    /\ IF ch.queue_len > 0
       THEN \E n \in 1 .. ch.queue_len :
               /\ ch' = [ch EXCEPT !.queue_len = @ - n]
               /\ pulled' = n /\ apc' = "pulled"
       ELSE apc' = "schedule" /\ UNCHANGED <<ch, pulled>>
    /\ UNCHANGED <<chanVars, select, loopVars, irqVars, stream, loop_mtx, epc, more,
                   crashed>>

AudioAccount ==
    /\ apc = "pulled"
    /\ ch' = [ch EXCEPT !.res_count = @ - pulled, !.offset = @ + pulled]
    /\ pulled' = 0 /\ apc' = "schedule"
    /\ UNCHANGED <<chanVars, select, loopVars, irqVars, stream, loop_mtx, epc, more,
                   crashed>>

\* try_lock fails while the timer callback is in dbdma_loop_timed.
AudioLoopBusy ==
    /\ apc = "schedule" /\ loop_mtx # None
    /\ apc' = "check"
    /\ UNCHANGED <<chanVars, ch, select, loopVars, irqVars, stream, loop_mtx, epc,
                   pulled, more, crashed>>

\* The interrupt timer is in the queue before its id is assigned.
AudioLoop ==
    /\ apc = "schedule" /\ loop_mtx = None
    /\ loop_mtx' = "audio"
    /\ \E it \in Iterations(ch) :
          /\ ch' = it.c
          /\ more' = Continues(it.state)
          /\ irq_due' = (irq_due \/ it.irq)
          /\ IF it.irq /\ ~interrupt_timer_id
             THEN irq_timers' = OneMore(irq_timers) /\ apc' = "irq"
             ELSE apc' = "rearm" /\ UNCHANGED irq_timers
    /\ UNCHANGED <<chanVars, select, loopVars, interrupt_timer_id, stream, epc,
                   pulled, crashed>>

AudioIrqAssign ==
    /\ apc = "irq"
    /\ interrupt_timer_id' = TRUE
    /\ apc' = "rearm"
    /\ UNCHANGED <<chanVars, ch, select, loopVars, irq_timers, irq_due, stream,
                   loop_mtx, epc, pulled, more, crashed>>

\* So is the timer of the loop.
AudioRearm ==
    /\ apc = "rearm"
    /\ loop_timers' = IF more THEN OneMore(loop_timers) ELSE loop_timers
    /\ apc' = "rearmed"
    /\ UNCHANGED <<chanVars, ch, select, interpret_timer_id, irqVars, stream,
                   loop_mtx, epc, pulled, more, crashed>>

AudioRearmAssign ==
    /\ apc = "rearmed"
    /\ interpret_timer_id' = more
    /\ more' = FALSE /\ loop_mtx' = None
    /\ apc' = "check"
    /\ UNCHANGED <<chanVars, ch, select, loop_timers, irqVars, stream, epc, pulled,
                   crashed>>

AudioSchedule ==
    /\ apc = "check"
    /\ IF interpret_timer_id THEN apc' = "idle" /\ UNCHANGED loop_timers
       ELSE loop_timers' = OneMore(loop_timers) /\ apc' = "assign"
    /\ UNCHANGED <<chanVars, ch, select, interpret_timer_id, irqVars, stream,
                   loop_mtx, epc, pulled, more, crashed>>

AudioScheduleAssign ==
    /\ apc = "assign"
    /\ interpret_timer_id' = TRUE
    /\ apc' = "idle"
    /\ UNCHANGED <<chanVars, ch, select, loop_timers, irqVars, stream, loop_mtx, epc,
                   pulled, more, crashed>>

-----------------------------------------------------------------------------
Guest   == WriteControl \/ WriteSelect \/ WriteCmdPtr \/ PatchProgram
Device  == DeviceStatus \/ DeviceMoves \/ XferRetry
Timers  == InterruptTimer \/ LoopTimerBusy \/ LoopTimer \/ Rearm
AudioCallback ==
    \/ AudioAccount \/ AudioLoopBusy \/ AudioLoop \/ AudioIrqAssign
    \/ AudioRearm \/ AudioRearmAssign \/ AudioSchedule \/ AudioScheduleAssign

Next == Guest \/ Device \/ Timers \/ AudioPull \/ AudioCallback

Spec == Init /\ [][Next]_vars

\* Timers in the queue fire (TimerManager's DueTimersFire), and the audio
\* thread's callback keeps being called and returns: of the sound output
\* channel, the one the liveness property is about.
SoundTimers == is_threaded /\ Timers
SoundThread == is_threaded /\ (AudioPull \/ AudioCallback)
Fairness == WF_vars(SoundTimers) /\ WF_vars(SoundThread)

FairSpec == Spec /\ Fairness

-----------------------------------------------------------------------------
\* Between two steps of the interpreter, what is left to move, what will be
\* reported as the residual count and the place in the guest's buffer agree
\* with the byte count of the command, so every byte is moved to its own place
\* exactly once and none beyond the buffer.
BufferAccounted ==
    ~is_threaded /\ ch.in_progress /\ IsTransfer(ch.op) =>
        /\ ch.offset + ch.queue_len = prog[ch.cur].req
        /\ ch.res_count = ch.queue_len

\* An interrupt that a finished or aborted command owes the guest has its timer
\* in the queue until it is raised; several may share one timer.
InterruptNotLost == ~is_threaded /\ irq_due => irq_timers > 0

\* The same of the sound output channel: "all commands except STOP update
\* cmd.xferStatus and perform actions under control of "i" interrupt", and the
\* audio thread finishes commands as the timer callback does.
SoundInterruptNotLost == is_threaded /\ irq_due => irq_timers > 0

\* One chain of loop timers: a second one would run the program at twice its
\* speed, and an id without a timer would stop it.
OneLoopTimer ==
    ~is_threaded =>
    /\ loop_timers <= 1
    /\ interpret_timer_id <=> loop_timers = 1 \/ epc = "looped"

\* An active channel that neither waits for its device (unless it polls it) nor
\* on a w condition has a timer that will take it on, provided the driver did
\* neither of two things before: set WAKE while PAUSE was set, or set RUN while
\* is_paused, that is, after a PAUSE that stopped the channel and that no write
\* clearing PAUSE without setting RUN has undone.  After either the channel can
\* be left ACTIVE with data to move and no timer: DrivesPaused.
NoStall ==
    /\ ~is_threaded /\ ~driven_paused
    /\ Running /\ IsActive(ch)
    /\ ~(ch.in_progress /\ ch.queue_len > 0 /\ ~is_polled_transfer)
    /\ ~(ch.in_progress /\ prog[ch.cur].w # "never")
    => loop_timers > 0

\* While the stream is open and the channel active, the audio thread is given
\* data again and again: neither a failed try_lock, nor a timer that fired
\* before its id was stored, nor a second chain of timers stops the program.
SoundGoesOn ==
    (stream /\ IsActive(ch))
        ~> (apc = "pulled" \/ ~stream \/ ~IsActive(ch) \/ crashed)

=============================================================================
