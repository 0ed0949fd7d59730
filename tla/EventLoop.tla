------------------------------ MODULE EventLoop ------------------------------
(***************************************************************************)
(* When the interpreter processes timers (cpu/ppc/ppcexec.cpp): the two    *)
(* variants of the inner loop (virtual time and realtime), the realtime    *)
(* timer thread, the idle throttle, the switch between the two modes and   *)
(* the sleeping CPU.                                                       *)
(*                                                                         *)
(* The timer queue is reduced to the expiries in it; TimerManager models   *)
(* the queue, and process_timers is one step here.  Guest time is one      *)
(* clock: set_virt_time_ns carries it over from mode to mode.              *)
(***************************************************************************)
EXTENDS Naturals, FiniteSets

CONSTANTS
    MaxTime,     \* bound: last value of the clock, and last expiry
    MaxTimers,   \* bound: timers in the queue
    IdleSlice,   \* deadline of the virtual-time loop when no timer is pending
    MaxSleep,    \* IDLE_MAX_SLEEP_NS
    IdleCpuSave  \* g_idle_cpu_save: the --idle-cpu-save option

ASSUME LoopAssumption ==
    /\ {MaxTime, MaxTimers, IdleSlice, MaxSleep} \subseteq Nat \ {0}
    /\ IdleCpuSave \in BOOLEAN

VARIABLES
    now,            \* get_virt_time_ns()
    queue,          \* expiries in the timer queue; 0: immediate timer
    exec_timer,
    event_deadline, \* of the virtual-time loop
    g_realtime,
    loop_type,      \* the instance of ppc_exec_inner: "virt" or "real"
    asleep,         \* EXEF_SLEEP
    at,             \* where the emulation thread is
    wake_at,        \* end of the throttle's sleep
    throttle,       \* g_idle_throttle_active
    rt_stop,        \* g_realtime_timer_stop
    rt,             \* where the realtime timer thread is
    rt_target       \* the expiry it sleeps for

vars == <<now, queue, exec_timer, event_deadline, g_realtime, loop_type, asleep,
          at, wake_at, throttle, rt_stop, rt, rt_target>>

rtVars   == <<rt, rt_target>>
modeVars == <<g_realtime, loop_type, rt_stop>>

Earliest(q) == CHOOSE d \in q : \A e \in q : d <= e

\* The machine starts in either mode (--realtime); the periodic timers of the
\* machine are running.
Init ==
    /\ now = 1
    /\ queue \in {{}, {MaxTime}}
    /\ exec_timer = FALSE
    /\ event_deadline = 0
    /\ g_realtime \in BOOLEAN
    /\ loop_type = IF g_realtime THEN "real" ELSE "virt"
    /\ asleep = FALSE
    /\ at = "guest"
    /\ wake_at = 0
    /\ throttle = FALSE
    /\ rt_stop = ~g_realtime
    /\ rt = IF g_realtime THEN "check" ELSE "off"
    /\ rt_target = 0

-----------------------------------------------------------------------------
\* The host's clock; guest time follows it in realtime mode only.
HostClock ==
    /\ g_realtime /\ now < MaxTime
    /\ now' = now + 1
    /\ UNCHANGED <<queue, exec_timer, event_deadline, asleep, at, wake_at,
                   throttle, modeVars, rtVars>>

\* notify_timer_changes: force_cycle_counter_reload.
ForceCycleCounterReload == exec_timer' = (exec_timer \/ ~throttle)

\* The effect on the queue of what guest code or a callback does to timers.
AddedTo(q)     == {q \union {d} : d \in {0} \union now + 1 .. MaxTime}
CancelledIn(q) == {q \ {d} : d \in q}

\* power_off(po_exec_switch) was called: the inner loop is about to end.
Switching == g_realtime # (loop_type = "real")

\* One instruction of the guest; a device register access may add or cancel a
\* timer, mtmsr may put the CPU to sleep.
Instruction ==
    /\ at = "guest" /\ ~Switching
    /\ now' = IF loop_type = "virt" /\ now < MaxTime THEN now + 1 ELSE now
    /\ \/ /\ queue' \in AddedTo(queue) \union CancelledIn(queue)
          /\ Cardinality(queue') <= MaxTimers
          /\ ForceCycleCounterReload
          /\ UNCHANGED asleep
       \/ asleep' \in BOOLEAN /\ UNCHANGED <<queue, exec_timer>>
    /\ at' = "check"
    /\ UNCHANGED <<event_deadline, wake_at, throttle, modeVars, rtVars>>

\* The condition under which the loop body calls process_events(_real); the
\* loop of a sleeping CPU calls it unconditionally.
EventsDue ==
    \/ exec_timer
    \/ asleep
    \/ loop_type = "virt" /\ now >= event_deadline

\* The flag is lowered before the queue is looked at.
EnterProcessEvents ==
    /\ at = "check" /\ ~Switching /\ EventsDue
    /\ exec_timer' = FALSE
    /\ at' = "process"
    /\ UNCHANGED <<now, queue, event_deadline, asleep, wake_at, throttle,
                   modeVars, rtVars>>

NoEvents ==
    /\ at = "check" /\ ~Switching /\ ~EventsDue
    /\ at' = "guest"
    /\ UNCHANGED <<now, queue, exec_timer, event_deadline, asleep, wake_at,
                   throttle, modeVars, rtVars>>

\* process_timers: the due timers are gone; their callbacks may have added or
\* cancelled timers, without a notification, and added ones that were due have
\* fired as well.
Remaining ==
    LET rest == {d \in queue : d > now}
    IN  {rest} \union CancelledIn(rest) \union (AddedTo(rest) \ {rest \union {0}})

\* A callback may raise an interrupt, which wakes the CPU.
CallbacksMayWake == asleep' \in {asleep, FALSE}

\* A sleeping CPU skips virtual time up to the deadline.
SkippedTo(deadline) ==
    IF asleep' /\ now < MaxTime
    THEN IF deadline > now /\ deadline <= MaxTime THEN deadline ELSE now + 1
    ELSE now

\* process_events of the virtual-time loop.
ProcessEvents ==
    /\ at = "process" /\ loop_type = "virt"
    /\ queue' \in Remaining /\ Cardinality(queue') <= MaxTimers
    /\ CallbacksMayWake
    /\ event_deadline' = IF queue' = {} THEN now + IdleSlice ELSE Earliest(queue')
    /\ now' = SkippedTo(event_deadline')
    /\ at' = IF asleep' THEN "check" ELSE "guest"
    /\ UNCHANGED <<exec_timer, wake_at, throttle, modeVars, rtVars>>

\* process_events_real, with guest_is_idle's verdict: any guest may be found
\* idle or busy, but never while another wakeup is due.  Whoever is found idle
\* sleeps until the next expiry, with the throttle switched on.
ProcessEventsReal ==
    /\ at = "process" /\ loop_type = "real"
    /\ queue' \in Remaining /\ Cardinality(queue') <= MaxTimers
    /\ CallbacksMayWake
    /\ \E idle \in BOOLEAN :
          /\ idle => IdleCpuSave /\ ~exec_timer /\ queue' # {}
          /\ throttle' = idle
          /\ at' = IF idle THEN "throttled" ELSE IF asleep' THEN "check" ELSE "guest"
          /\ wake_at' = IF ~idle THEN 0
                        ELSE IF Earliest(queue') < now + MaxSleep
                        THEN Earliest(queue') ELSE now + MaxSleep
    /\ UNCHANGED <<now, exec_timer, event_deadline, modeVars, rtVars>>

\* The end of sleep_for; g_idle_throttle_active stays set.
ThrottleWakes ==
    /\ at = "throttled"
    /\ now >= wake_at \/ ~g_realtime
    /\ at' = IF asleep THEN "check" ELSE "guest"
    /\ wake_at' = 0
    /\ UNCHANGED <<now, queue, exec_timer, event_deadline, asleep, throttle,
                   modeVars, rtVars>>

-----------------------------------------------------------------------------
\* Mutant: the thread is told to stop and not joined.
ToggleRealtimeNoJoin ==
    /\ at = "process" /\ ~Switching
    /\ \E d \in queue : d <= now
    /\ g_realtime' = ~g_realtime
    /\ rt_stop' = g_realtime
    /\ rt' = IF g_realtime THEN rt ELSE "check"
    /\ UNCHANGED <<now, queue, exec_timer, event_deadline, loop_type, asleep, at,
                   wake_at, throttle, rt_target>>

\* toggle_g_realtime, called by the event poller's timer callback.  The thread
\* is started, or stopped and joined; power_off ends this instance of the loop.
ToggleRealtime ==
    /\ at = "process" /\ ~Switching
    /\ \E d \in queue : d <= now
    /\ g_realtime' = ~g_realtime
    /\ rt_stop' = g_realtime
    /\ rt' = IF g_realtime THEN rt ELSE "check"
    /\ at' = IF g_realtime THEN "join" ELSE "process"
    /\ UNCHANGED <<now, queue, exec_timer, event_deadline, loop_type, asleep,
                   wake_at, throttle, rt_target>>

Joined ==
    /\ at = "join" /\ rt = "off"
    /\ at' = "process"
    /\ UNCHANGED <<now, queue, exec_timer, event_deadline, asleep, wake_at,
                   throttle, modeVars, rtVars>>

\* Mutant: the new loop goes on with the old deadline.
SwitchLoopKeepsDeadline ==
    /\ at \in {"guest", "check"} /\ Switching
    /\ loop_type' = IF g_realtime THEN "real" ELSE "virt"
    /\ at' = "guest"
    /\ asleep' = FALSE
    /\ UNCHANGED <<now, queue, exec_timer, event_deadline, wake_at, throttle,
                   g_realtime, rt_stop, rtVars>>

\* ppc_exec enters the other instance, whose first deadline is 0.
SwitchLoop ==
    /\ at \in {"guest", "check"} /\ Switching
    /\ loop_type' = IF g_realtime THEN "real" ELSE "virt"
    /\ event_deadline' = 0
    /\ at' = "guest"
    /\ asleep' = FALSE
    /\ UNCHANGED <<now, queue, exec_timer, wake_at, throttle, g_realtime,
                   rt_stop, rtVars>>

-----------------------------------------------------------------------------
\* realtime_timer_thread_fn.  It naps, and looks again, outside realtime mode,
\* while the throttle is active and when there is no timer; a queue whose top is an immediate timer
\* (expiry 0) looks to it like an empty one.
RtSleeps ==
    /\ rt = "check" /\ ~rt_stop
    /\ g_realtime /\ ~throttle /\ queue # {} /\ 0 \notin queue
    /\ rt' = "sleep"
    /\ rt_target' = Earliest(queue)
    /\ UNCHANGED <<now, queue, exec_timer, event_deadline, asleep, at, wake_at,
                   throttle, modeVars>>

RtRaises ==
    /\ rt = "sleep"
    /\ now >= rt_target \/ ~g_realtime
    /\ exec_timer' = TRUE
    /\ rt' = "check"
    /\ rt_target' = 0
    /\ UNCHANGED <<now, queue, event_deadline, asleep, at, wake_at, throttle,
                   modeVars>>

RtStops ==
    /\ rt = "check" /\ rt_stop
    /\ rt' = "off"
    /\ UNCHANGED <<now, queue, exec_timer, event_deadline, asleep, at, wake_at,
                   throttle, modeVars, rt_target>>

-----------------------------------------------------------------------------
InnerLoop ==
    \/ EnterProcessEvents \/ NoEvents \/ ProcessEvents \/ ProcessEventsReal
    \/ ThrottleWakes \/ Joined \/ SwitchLoop

RealtimeThread == RtSleeps \/ RtRaises \/ RtStops

Next ==
    HostClock \/ Instruction \/ InnerLoop \/ ToggleRealtime \/ RealtimeThread

Spec == Init /\ [][Next]_vars

\* The emulation thread and the realtime thread are scheduled by the host, and
\* the host's clock advances.  Nothing forces the guest to touch a timer.
Fairness ==
    /\ WF_vars(Instruction \/ InnerLoop)
    /\ WF_vars(RealtimeThread)
    /\ WF_vars(HostClock)

FairSpec == Spec /\ Fairness

-----------------------------------------------------------------------------
TypeOK ==
    /\ now \in 1 .. MaxTime
    /\ queue \subseteq 0 .. MaxTime
    /\ exec_timer \in BOOLEAN
    /\ event_deadline \in 0 .. MaxTime + IdleSlice
    /\ g_realtime \in BOOLEAN
    /\ loop_type \in {"virt", "real"}
    /\ asleep \in BOOLEAN
    /\ at \in {"guest", "check", "process", "throttled", "join"}
    /\ wake_at \in 0 .. MaxTime + MaxSleep
    /\ throttle \in BOOLEAN
    /\ rt_stop \in BOOLEAN
    /\ rt \in {"off", "check", "sleep"}
    /\ rt_target \in 0 .. MaxTime

\* "The thread only runs while realtime mode is enabled and is stopped (joined)
\* when realtime mode is turned off": whenever guest code runs, the thread is
\* there exactly if guest time follows the host's clock.
ThreadOnlyInRealtime == at = "guest" => (g_realtime <=> rt # "off")

\* The virtual-time loop looks at the queue no later than the first expiry, in
\* whatever order timers are added, loops are switched and flags are raised by
\* a realtime thread that is about to stop; unless the throttle's flag was left
\* set by the realtime loop, when new timers are not notified.
VirtualTimeOnSchedule ==
    at = "guest" /\ loop_type = "virt" /\ ~throttle =>
        \A d \in queue : exec_timer \/ event_deadline <= d \/ event_deadline <= now

\* Again and again no timer that is due is left in the queue, in both modes and
\* across switches, as long as the idle throttle is not active.
DueTimersProcessed == []<>(throttle \/ \A d \in queue : d > now)

\* "process_events runs at the end of the burst and picks the new timer up
\* anyway": the same in realtime mode while the throttle is active, unless the
\* mode is left.
PickedUpAnyway == []<>(~throttle \/ ~g_realtime \/ \A d \in queue : d > now)
=============================================================================
