---------------------------- MODULE TimerService ----------------------------
(***************************************************************************)
(* What the rest of the emulator relies on when it uses the timer service  *)
(* of core/timermanager.h, with no queue, no locks and no threads in it:   *)
(* timers are armed and cancelled, and a callback is only ever delivered   *)
(* for the earliest armed timer, not before its expiry, one callback at a  *)
(* time.  TimerManager is shown to implement this specification.           *)
(***************************************************************************)
EXTENDS TimerInfo

VARIABLES
    now,    \* the time returned by get_time_now()
    armed,  \* the timers that will fire unless they are cancelled
    call    \* the timer whose callback is being delivered, or NoTimer

serviceVars == <<now, armed, call>>

ServiceInit ==
    /\ now = 0
    /\ armed = {}
    /\ call = NoTimer

Advance ==
    /\ now' > now
    /\ UNCHANGED <<armed, call>>

\* Ids are never reused, so that cancelling an id can only hit the timer the
\* id was returned for.
Arm ==
    /\ \E t \in armed' :
          /\ t \in Timer /\ t.id # 0
          /\ WithId(armed, t.id) = {}
          /\ armed' = armed \union {t}
    /\ UNCHANGED <<now, call>>

Cancel ==
    /\ \E t \in armed : armed' = armed \ WithId(armed, t.id)
    /\ UNCHANGED <<now, call>>

CancelAll ==
    /\ armed' = {}
    /\ UNCHANGED <<now, call>>

\* A one-shot timer is disarmed by firing.  A cyclic timer stays armed with a
\* later expiry, at most one interval away: missed periods are skipped, never
\* delivered in a burst, and never add up to more than one interval of delay.
Fire ==
    /\ call = NoTimer
    /\ \E t \in armed :
          /\ IsTop(t, armed)
          /\ t.timeout_ns <= now
          /\ call' = t
          /\ IF t.interval_ns = 0
             THEN armed' = armed \ {t}
             ELSE \E u \in armed' :
                     /\ u = [t EXCEPT !.timeout_ns = u.timeout_ns]
                     /\ t.timeout_ns < u.timeout_ns
                     /\ u.timeout_ns <= now + t.interval_ns
                     /\ armed' = (armed \ {t}) \union {u}
    /\ UNCHANGED now

Return ==
    /\ call # NoTimer
    /\ call' = NoTimer
    /\ UNCHANGED <<now, armed>>

ServiceNext == Advance \/ Arm \/ Cancel \/ CancelAll \/ Fire \/ Return

ServiceSpec == ServiceInit /\ [][ServiceNext]_serviceVars
=============================================================================
