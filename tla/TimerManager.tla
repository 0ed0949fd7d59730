---------------------------- MODULE TimerManager ----------------------------
(***************************************************************************)
(* core/timermanager.{h,cpp}, with its two kinds of client: the emulation  *)
(* thread, which runs the guest, calls process_timers() and runs the       *)
(* callbacks, and the audio thread, which adds timers through the threaded *)
(* DBDMA channel while the emulation thread is anywhere in process_timers. *)
(*                                                                         *)
(* One action is one lock scope of the code (or a stretch of it that only  *)
(* touches the thread's own state).                                        *)
(***************************************************************************)
EXTENDS TimerInfo

CONSTANTS
    IdMod,      \* number of values of the uint32_t timer id
    MaxAdds,    \* bound: timers added in a behaviour
    MaxTime,    \* bound: last value of the clock
    Delays,     \* delays and intervals passed by clients
    IdleSlice   \* deadline of the event loop when no timer is pending

\* The id counter does not wrap within the timers considered: ids are unique
\* only up to 2^32 - 1 calls of add_absolute_timer.
ASSUME TimerAssumption ==
    /\ IdMod \in Nat /\ MaxAdds \in Nat /\ MaxAdds < IdMod
    /\ MaxTime \in Nat
    /\ Delays \subseteq Nat \ {0}
    /\ IdleSlice \in Nat

VARIABLES
    now,            \* get_time_now()
    queue,          \* timer_queue
    id,             \* the id of the last timer created
    cb_active,      \* true while a callback runs
    exec_timer,     \* raised by notify_timer_changes()
    event_deadline, \* when the event loop next calls process_timers on its own
    pc,             \* where the emulation thread is
    time_now,       \* process_timers' copy of the clock
    cur_timer,      \* process_timers' cur_timer
    apc,            \* where the audio thread is in add_absolute_timer
    timer_desc,     \* the audio thread's new timer
    raced           \* cb_active was written since the audio thread's push

vars == <<now, queue, id, cb_active, exec_timer, event_deadline, pc, time_now,
          cur_timer, apc, timer_desc, raced>>

audioVars == <<apc, timer_desc>>
loopVars  == <<event_deadline, pc, time_now, cur_timer>>

\* The expiry and the interval that add_oneshot_timer, add_immediate_timer and
\* the two add_cyclic_timer pass on to add_absolute_timer.
OneShotRequests == {<<now + d, 0>> : d \in Delays} \union {<<0, 0>>}
CyclicRequests  == {<<now + d, v>> : d \in Delays, v \in Delays}

NewTimer(r) ==
    [id |-> (id + 1) % IdMod, timeout_ns |-> r[1], interval_ns |-> r[2]]

Init ==
    /\ now = 0
    /\ queue = {}
    /\ id = 0
    /\ cb_active = FALSE
    /\ exec_timer = FALSE
    /\ event_deadline = 0
    /\ pc = "guest"
    /\ time_now = 0
    /\ cur_timer = NoTimer
    /\ apc = "idle"
    /\ timer_desc = NoTimer
    /\ raced = FALSE

-----------------------------------------------------------------------------
\* The clock (virtual time, or the host's clock in realtime mode).
Tick ==
    /\ now < MaxTime
    /\ now' = now + 1
    /\ UNCHANGED <<queue, id, cb_active, exec_timer, raced, audioVars, loopVars>>

\* Mutant: nobody is told.
NotifyNever == UNCHANGED exec_timer

\* notify_timer_changes() unless a callback is running: the loop in
\* process_timers looks at the queue again after every callback.
NotifyIfNoCallback == exec_timer' = (exec_timer \/ ~cb_active)

\* add_absolute_timer called by the emulation thread: by a device register
\* access of the guest, or inside a timer callback.
AddTimer ==
    /\ pc \in {"guest", "callback"}
    /\ id < MaxAdds
    /\ \E r \in OneShotRequests \union CyclicRequests :
          /\ id' = NewTimer(r).id
          /\ queue' = queue \union {NewTimer(r)}
    /\ NotifyIfNoCallback
    /\ UNCHANGED <<now, cb_active, raced, audioVars, loopVars>>

\* cancel_timer: clients cancel ids of running timers and ids of timers that
\* have fired already.
CancelTimer ==
    /\ pc \in {"guest", "callback"}
    /\ \E i \in 1..id : queue' \in RemoveById(queue, i)
    /\ NotifyIfNoCallback
    /\ UNCHANGED <<now, id, cb_active, raced, audioVars, loopVars>>

\* cancel_all_timers, before the next machine is built.
CancelAllTimers ==
    /\ pc = "guest" /\ queue # {}
    /\ queue' = {}
    /\ UNCHANGED <<now, id, cb_active, exec_timer, raced, audioVars, loopVars>>

-----------------------------------------------------------------------------
\* process_events: the flag is cleared BEFORE the queue is looked at.
ProcessEvents ==
    /\ pc = "guest"
    /\ exec_timer \/ now >= event_deadline
    /\ exec_timer' = FALSE
    /\ time_now' = now
    /\ pc' = "scan"
    /\ UNCHANGED <<now, queue, id, cb_active, raced, event_deadline, cur_timer,
                   audioVars>>

\* process_timers returns; its locals go out of scope.
ReturnToGuest ==
    /\ pc' = "guest"
    /\ time_now' = 0
    /\ cur_timer' = NoTimer

\* The queue is empty: process_timers returns 0 and process_events substitutes
\* a fixed slice.
ScanEmpty ==
    /\ pc = "scan" /\ queue = {}
    /\ event_deadline' = now + IdleSlice
    /\ ReturnToGuest
    /\ UNCHANGED <<now, queue, id, cb_active, exec_timer, raced, audioVars>>

\* The earliest timer has not expired: its expiry is the next deadline.
ScanPending ==
    /\ pc = "scan"
    /\ \E t \in queue :
          /\ IsTop(t, queue)
          /\ t.timeout_ns > time_now
          /\ event_deadline' = t.timeout_ns
    /\ ReturnToGuest
    /\ UNCHANGED <<now, queue, id, cb_active, exec_timer, raced, audioVars>>

\* Mutant: any expired timer is taken, not the top.
ScanAnyExpired ==
    /\ pc = "scan"
    /\ \E t \in queue : t.timeout_ns <= time_now /\ cur_timer' = t
    /\ pc' = "expired"
    /\ UNCHANGED <<now, queue, id, cb_active, exec_timer, raced, time_now,
                   event_deadline, audioVars>>

ScanExpired ==
    /\ pc = "scan"
    /\ \E t \in queue :
          /\ IsTop(t, queue)
          /\ t.timeout_ns <= time_now
          /\ cur_timer' = t
    /\ pc' = "expired"
    /\ UNCHANGED <<now, queue, id, cb_active, exec_timer, raced, time_now,
                   event_deadline, audioVars>>

\* The lock was released after top(): another timer may be the top by now.
RemoveExpired ==
    /\ pc = "expired"
    /\ queue' \in RemoveById(queue, cur_timer.id)
    /\ pc' = "removed"
    /\ UNCHANGED <<now, id, cb_active, exec_timer, raced, event_deadline,
                   time_now, cur_timer, audioVars>>

\* timeout_ns_new: the next period, counted from now if it is over as well.
Rearmed(t) ==
    LET next == t.timeout_ns + t.interval_ns
    IN  [t EXCEPT !.timeout_ns =
            IF next <= time_now THEN time_now + t.interval_ns ELSE next]

\* A cyclic timer is re-armed before its callback, so that the callback can
\* cancel it.
RearmAndCall ==
    /\ pc = "removed"
    /\ queue' = IF cur_timer.interval_ns = 0
                THEN queue
                ELSE queue \union {Rearmed(cur_timer)}
    /\ cb_active' = TRUE
    /\ raced' = (apc = "pushed")
    /\ pc' = "callback"
    /\ UNCHANGED <<now, id, exec_timer, event_deadline, time_now, cur_timer,
                   audioVars>>

\* Mutant: cb_active is not reset.
CallbackReturnsActive ==
    /\ pc = "callback"
    /\ pc' = "scan"
    /\ cur_timer' = NoTimer
    /\ UNCHANGED <<now, queue, id, cb_active, exec_timer, event_deadline, raced,
                   time_now, audioVars>>

CallbackReturns ==
    /\ pc = "callback"
    /\ cb_active' = FALSE
    /\ raced' = (apc = "pushed")
    /\ pc' = "scan"
    /\ cur_timer' = NoTimer
    /\ UNCHANGED <<now, queue, id, exec_timer, event_deadline, time_now,
                   audioVars>>

-----------------------------------------------------------------------------
\* Mutant: the id is not atomic and the increment is lost.
AudioNewTimerLostUpdate ==
    /\ apc = "idle" /\ id < MaxAdds
    /\ \E r \in OneShotRequests : timer_desc' = NewTimer(r)
    /\ apc' = "created"
    /\ UNCHANGED <<now, queue, id, cb_active, exec_timer, raced, loopVars>>

\* The audio thread in add_absolute_timer.  It only adds one-shot timers.
AudioNewTimer ==
    /\ apc = "idle"
    /\ id < MaxAdds
    /\ \E r \in OneShotRequests :
          /\ id' = NewTimer(r).id
          /\ timer_desc' = NewTimer(r)
    /\ apc' = "created"
    /\ UNCHANGED <<now, queue, cb_active, exec_timer, raced, loopVars>>

AudioPush ==
    /\ apc = "created"
    /\ queue' = queue \union {timer_desc}
    /\ apc' = "pushed"
    /\ raced' = FALSE
    /\ UNCHANGED <<now, id, cb_active, exec_timer, timer_desc, loopVars>>

\* cb_active is a plain bool written by the other thread: a read that races
\* with a write made since the push (the last synchronisation of the two
\* threads) may return either value.
AudioNotify ==
    /\ apc = "pushed"
    /\ \E seen \in (IF raced THEN BOOLEAN ELSE {cb_active}) :
          exec_timer' = (exec_timer \/ ~seen)
    /\ apc' = "idle"
    /\ timer_desc' = NoTimer
    /\ raced' = FALSE
    /\ UNCHANGED <<now, queue, id, cb_active, loopVars>>

-----------------------------------------------------------------------------
EmulationThread ==
    \/ ProcessEvents
    \/ ScanEmpty \/ ScanPending \/ ScanExpired
    \/ RemoveExpired \/ RearmAndCall \/ CallbackReturns

Clients == AddTimer \/ CancelTimer \/ CancelAllTimers

AudioThread == AudioNewTimer \/ AudioPush \/ AudioNotify

Next == Tick \/ EmulationThread \/ Clients \/ AudioThread

Spec == Init /\ [][Next]_vars

\* The emulation thread runs as long as the machine is powered on, and the
\* audio thread leaves add_absolute_timer again; nothing makes a client add or
\* cancel timers, or the clock advance.
Fairness ==
    /\ WF_vars(EmulationThread)
    /\ WF_vars(AudioPush \/ AudioNotify)

FairSpec == Spec /\ Fairness

-----------------------------------------------------------------------------
TypeOK ==
    /\ now \in Nat
    /\ queue \subseteq Timer
    /\ id \in 0..MaxAdds
    /\ cb_active \in BOOLEAN
    /\ exec_timer \in BOOLEAN
    /\ event_deadline \in Nat
    /\ pc \in {"guest", "scan", "expired", "removed", "callback"}
    /\ time_now \in Nat
    /\ cur_timer \in Timer
    /\ apc \in {"idle", "created", "pushed"}
    /\ timer_desc \in Timer
    /\ raced \in BOOLEAN

\* An id names at most one timer that can still fire, wherever the timer is: in
\* the queue, in process_timers' hands between remove_by_id and the re-arming
\* push, or created by the audio thread and not pushed yet.  cancel_timer(id)
\* and the remove_by_id of process_timers would otherwise hit a wrong timer.
UniqueIds ==
    /\ \A t, u \in queue : t.id = u.id => t = u
    /\ pc = "removed" => WithId(queue, cur_timer.id) = {}
    /\ apc = "created" =>
          /\ WithId(queue, timer_desc.id) = {}
          /\ pc \in {"expired", "removed"} => cur_timer.id # timer_desc.id

\* While the guest runs, the event loop will look at the queue no later than
\* the first expiry in it: the flag is up, or the deadline is no later, or it
\* is over, or the audio thread is about to raise the flag for its new timer.
\* The flag is lowered before the queue is read and cb_active before the queue
\* is read again, so no change of the queue goes unnoticed.
NoLostWakeup ==
    pc = "guest" =>
        \A t \in queue :
            \/ exec_timer
            \/ event_deadline <= t.timeout_ns
            \/ event_deadline <= now
            \/ apc = "pushed" /\ t = timer_desc /\ ~raced

\* The timers that will fire unless cancelled.  A timer chosen by process_timers
\* has fired already; a cyclic one is armed again from that moment on.
ArmedTimers ==
    LET rearmed == IF cur_timer.interval_ns = 0 THEN {} ELSE {Rearmed(cur_timer)}
    IN  CASE pc = "expired" -> (queue \ {cur_timer}) \union rearmed
          [] pc = "removed" -> queue \union rearmed
          [] OTHER          -> queue

ActiveCall ==
    IF pc \in {"expired", "removed", "callback"} THEN cur_timer ELSE NoTimer

Service == INSTANCE TimerService WITH armed <- ArmedTimers, call <- ActiveCall

\* The queue, the locks and the two threads implement the timer service: only
\* armed timers fire, none early, in the order of their expiry, cancelled ones
\* never, and a callback may cancel its own cyclic timer.
ImplementsService == Service!ServiceSpec

\* The premise of DueTimersFire: from some time on no client adds a timer.
AddsCease == <>[][id' = id]_vars

\* If adds cease, every timer that is due is delivered or cancelled: neither the
\* re-arming of cyclic timers, nor cancels, nor the adds of either thread made
\* until then keep process_timers from reaching it.  Without the premise this is
\* false: process_timers loops until its queue has nothing expired, so callbacks
\* that add an immediate timer each (its expiry of 0 sorts it before everything
\* else) hold back all others.  MaxAdds, the bound on adds, makes the premise
\* hold in every behaviour that TLC checks.
DueTimersFire ==
    AddsCease =>
        \A i \in 1..MaxAdds :
            (\E t \in WithId(queue, i) : t.timeout_ns <= now)
                ~> (WithId(queue, i) = {} \/ ActiveCall.id = i)
=============================================================================
