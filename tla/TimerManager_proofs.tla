------------------------- MODULE TimerManager_proofs -------------------------
(***************************************************************************)
(* Proofs about TimerManager for every number of timers, every set of      *)
(* delays and every clock: the inductive invariant behind UniqueIds and    *)
(* NoLostWakeup, and that the manager implements TimerService.             *)
(***************************************************************************)
EXTENDS TimerManager, TLAPS

\* What UniqueIds and NoLostWakeup need to be inductive: ids come from the
\* counter, cb_active tells exactly whether a callback runs, a chosen timer is
\* still in the queue until process_timers removes it (only the emulation
\* thread removes timers), and it had expired by process_timers' clock.
Bookkeeping ==
    /\ \A t \in queue : t.id \in 1..id
    /\ cb_active <=> pc = "callback"
    /\ pc # "guest" => time_now <= now
    /\ pc = "expired" => cur_timer \in queue
    /\ pc \in {"expired", "removed", "callback"} =>
          cur_timer.id \in 1..id /\ cur_timer.timeout_ns <= time_now
    /\ apc \in {"created", "pushed"} => timer_desc.id \in 1..id
    /\ raced => apc = "pushed"

IInv == TypeOK /\ UniqueIds /\ NoLostWakeup /\ Bookkeeping

-----------------------------------------------------------------------------
\* The id counter does not wrap below its modulus.
LEMMA ModSmall == ASSUME NEW x \in Nat, NEW y \in Nat, x < y PROVE x % y = x
  BY SMT

\* Within the bound, a new timer gets the next id, which no timer has.
LEMMA NewTimerFacts ==
  ASSUME TypeOK, id < MaxAdds,
         NEW r \in OneShotRequests \union CyclicRequests
  PROVE  /\ NewTimer(r) \in Timer
         /\ NewTimer(r).id = id + 1
         /\ id + 1 \in 1..MaxAdds
<1>1. id \in Nat /\ id + 1 \in Nat /\ id + 1 < IdMod /\ IdMod \in Nat
  BY TimerAssumption DEF TypeOK
<1>2. (id + 1) % IdMod = id + 1
  BY <1>1, ModSmall
<1>3. r[1] \in Nat /\ r[2] \in Nat
  BY TimerAssumption DEF OneShotRequests, CyclicRequests, TypeOK
<1> QED
  BY <1>1, <1>2, <1>3, TimerAssumption DEF NewTimer, Timer, TypeOK

\* With unique ids, remove_by_id(i) removes exactly the timers whose id is i.
LEMMA RemoveByIdUnique ==
  ASSUME NEW q, NEW i, \A t, u \in q : t.id = u.id => t = u,
         NEW p \in RemoveById(q, i)
  PROVE  p = q \ WithId(q, i)
<1>1. CASE WithId(q, i) = {}
  BY <1>1 DEF RemoveById
<1>2. CASE WithId(q, i) # {}
  <2>1. PICK t \in WithId(q, i) : p = q \ {t}
    BY <1>2 DEF RemoveById
  <2>2. WithId(q, i) = {t}
    BY <2>1 DEF WithId
  <2> QED
    BY <2>1, <2>2
<1> QED
  BY <1>1, <1>2

-----------------------------------------------------------------------------
LEMMA InitIInv == Init => IInv
<1> SUFFICES ASSUME Init PROVE IInv
  OBVIOUS
<1>1. TypeOK
  <2>1. NoTimer \in Timer
    BY DEF Timer, NoTimer
  <2>2. id \in 0..MaxAdds /\ now \in Nat /\ time_now \in Nat
    BY TimerAssumption DEF Init
  <2>3. cb_active \in BOOLEAN /\ exec_timer \in BOOLEAN /\ raced \in BOOLEAN
    BY DEF Init
  <2> QED
    BY <2>1, <2>2, <2>3 DEF Init, TypeOK
<1>2. UniqueIds /\ NoLostWakeup
  <2>1. queue = {} /\ pc = "guest" /\ apc = "idle"
    BY DEF Init
  <2> QED
    BY <2>1 DEF UniqueIds, NoLostWakeup
<1>3. Bookkeeping
  BY DEF Init, Bookkeeping
<1> QED
  BY <1>1, <1>2, <1>3 DEF IInv

\* Every step preserves the invariant: one step per action.
LEMMA NextIInv == IInv /\ [Next]_vars => IInv'
<1> SUFFICES ASSUME IInv, [Next]_vars PROVE IInv'
  OBVIOUS
<1> USE TimerAssumption
<1>1. CASE Tick
  BY <1>1 DEF Tick, IInv, TypeOK, UniqueIds, NoLostWakeup, Bookkeeping,
              audioVars, loopVars, WithId
<1>2. CASE AddTimer
  <2>1. PICK r \in OneShotRequests \union CyclicRequests :
           /\ id' = NewTimer(r).id
           /\ queue' = queue \union {NewTimer(r)}
    BY <1>2 DEF AddTimer
  <2> DEFINE t == NewTimer(r)
  <2>2. t \in Timer /\ t.id = id + 1 /\ id + 1 \in 1..MaxAdds
    BY <1>2, NewTimerFacts DEF AddTimer, IInv
  <2> HIDE DEF t
  <2>3. id' = id + 1 /\ queue' = queue \union {t}
    BY <2>1, <2>2 DEF t
  <2>4. TypeOK'
    BY <1>2, <2>2, <2>3 DEF AddTimer, IInv, TypeOK, NotifyIfNoCallback,
                            audioVars, loopVars
  <2>5. UniqueIds'
    BY <1>2, <2>2, <2>3 DEF AddTimer, IInv, TypeOK, UniqueIds, Bookkeeping,
                            audioVars, loopVars, WithId
  <2>6. NoLostWakeup'
    BY <1>2, <2>2, <2>3 DEF AddTimer, IInv, TypeOK, NoLostWakeup, Bookkeeping,
                            NotifyIfNoCallback, audioVars, loopVars
  <2>7. Bookkeeping'
    BY <1>2, <2>2, <2>3 DEF AddTimer, IInv, TypeOK, Bookkeeping,
                            audioVars, loopVars
  <2> QED
    BY <2>4, <2>5, <2>6, <2>7 DEF IInv
<1>3. CASE CancelTimer
  <2>1. PICK i \in 1..id : queue' = queue \ WithId(queue, i)
    BY <1>3, RemoveByIdUnique DEF CancelTimer, IInv, UniqueIds
  <2> QED
    BY <1>3, <2>1 DEF CancelTimer, IInv, TypeOK, UniqueIds, NoLostWakeup,
         Bookkeeping, NotifyIfNoCallback, audioVars, loopVars, WithId
<1>4. CASE CancelAllTimers
  BY <1>4 DEF CancelAllTimers, IInv, TypeOK, UniqueIds, NoLostWakeup,
              Bookkeeping, audioVars, loopVars, WithId
<1>5. CASE ProcessEvents
  <2>1. TypeOK'
    BY <1>5 DEF ProcessEvents, IInv, TypeOK, audioVars
  <2>2. UniqueIds' /\ NoLostWakeup'
    BY <1>5 DEF ProcessEvents, IInv, UniqueIds, NoLostWakeup, audioVars, WithId
  <2>3. Bookkeeping'
    BY <1>5 DEF ProcessEvents, IInv, TypeOK, Bookkeeping, audioVars
  <2> QED
    BY <2>1, <2>2, <2>3 DEF IInv
<1>6. CASE ScanEmpty
  BY <1>6 DEF ScanEmpty, ReturnToGuest, IInv, TypeOK, UniqueIds, NoLostWakeup,
              Bookkeeping, audioVars, WithId, NoTimer, Timer
<1>7. CASE ScanPending
  <2>1. PICK t \in queue : /\ IsTop(t, queue)
                           /\ event_deadline' = t.timeout_ns
    BY <1>7 DEF ScanPending
  <2>2. \A u \in queue : event_deadline' <= u.timeout_ns
    BY <2>1 DEF IsTop, Before, IInv, TypeOK, Timer
  <2> QED
    BY <1>7, <2>1, <2>2 DEF ScanPending, ReturnToGuest, IInv, TypeOK,
         UniqueIds, NoLostWakeup, Bookkeeping, audioVars, WithId, NoTimer, Timer
<1>8. CASE ScanExpired
  BY <1>8 DEF ScanExpired, IsTop, IInv, TypeOK, UniqueIds, NoLostWakeup,
              Bookkeeping, audioVars, WithId
<1>9. CASE RemoveExpired
  <2>1. queue' = queue \ WithId(queue, cur_timer.id)
    BY <1>9, RemoveByIdUnique DEF RemoveExpired, IInv, UniqueIds
  <2> QED
    BY <1>9, <2>1 DEF RemoveExpired, IInv, TypeOK, UniqueIds, NoLostWakeup,
         Bookkeeping, audioVars, WithId
<1>10. CASE RearmAndCall
  <2> DEFINE t == Rearmed(cur_timer)
  <2>1. t \in Timer /\ t.id = cur_timer.id
    BY DEF Rearmed, IInv, TypeOK, Timer
  <2>2. queue' = queue \/ queue' = queue \union {t}
    BY <1>10 DEF RearmAndCall
  <2> HIDE DEF t
  <2> QED
    BY <1>10, <2>1, <2>2 DEF RearmAndCall, IInv, TypeOK, UniqueIds,
         NoLostWakeup, Bookkeeping, audioVars, WithId
<1>11. CASE CallbackReturns
  BY <1>11 DEF CallbackReturns, IInv, TypeOK, UniqueIds, NoLostWakeup,
               Bookkeeping, audioVars, WithId, NoTimer, Timer
<1>12. CASE AudioNewTimer
  <2>1. PICK r \in OneShotRequests : /\ id' = NewTimer(r).id
                                     /\ timer_desc' = NewTimer(r)
    BY <1>12 DEF AudioNewTimer
  <2>2. /\ timer_desc' \in Timer
        /\ timer_desc'.id = id + 1 /\ id' = id + 1
        /\ id + 1 \in 1..MaxAdds
    BY <1>12, <2>1, NewTimerFacts DEF AudioNewTimer, IInv
  <2> QED
    BY <1>12, <2>2 DEF AudioNewTimer, IInv, TypeOK, UniqueIds, NoLostWakeup,
         Bookkeeping, loopVars, WithId
<1>13. CASE AudioPush
  BY <1>13 DEF AudioPush, IInv, TypeOK, UniqueIds, NoLostWakeup, Bookkeeping,
               loopVars, WithId
<1>14. CASE AudioNotify
  <2>1. raced \/ exec_timer' = (exec_timer \/ ~cb_active)
    BY <1>14 DEF AudioNotify
  <2>2. exec_timer' \in BOOLEAN /\ (exec_timer => exec_timer')
    BY <1>14 DEF AudioNotify, IInv, TypeOK
  <2> QED
    BY <1>14, <2>1, <2>2 DEF AudioNotify, IInv, TypeOK, UniqueIds,
         NoLostWakeup, Bookkeeping, loopVars, WithId, NoTimer, Timer
<1>15. CASE UNCHANGED vars
  BY <1>15 DEF vars, IInv, TypeOK, UniqueIds, NoLostWakeup, Bookkeeping, WithId
<1> QED
  BY <1>1, <1>2, <1>3, <1>4, <1>5, <1>6, <1>7, <1>8, <1>9, <1>10, <1>11,
     <1>12, <1>13, <1>14, <1>15
     DEF Next, EmulationThread, Clients, AudioThread

THEOREM TimerInvariant == Spec => []IInv
  BY InitIInv, NextIInv, PTL DEF Spec

\* No timer id is ever ambiguous, for any number of timers below the counter's
\* modulus (process_timers, cancel_timer and the audio thread's adds).
THEOREM TimerIdsUnique == Spec => []UniqueIds
  BY TimerInvariant, PTL DEF IInv

\* No change of the timer queue made by either thread goes unnoticed by the
\* event loop, although cb_active is read without synchronisation.
THEOREM NoWakeupLost == Spec => []NoLostWakeup
  BY TimerInvariant, PTL DEF IInv
-----------------------------------------------------------------------------
\* The refinement mapping, state by state.
LEMMA ArmedTimersCases ==
  /\ pc \notin {"expired", "removed"} => ArmedTimers = queue
  /\ pc = "expired" /\ cur_timer.interval_ns = 0 =>
        ArmedTimers = queue \ {cur_timer}
  /\ pc = "expired" /\ cur_timer.interval_ns # 0 =>
        ArmedTimers = (queue \ {cur_timer}) \union {Rearmed(cur_timer)}
  /\ pc = "removed" /\ cur_timer.interval_ns = 0 => ArmedTimers = queue
  /\ pc = "removed" /\ cur_timer.interval_ns # 0 =>
        ArmedTimers = queue \union {Rearmed(cur_timer)}
  BY DEF ArmedTimers

\* An expired cyclic timer is re-armed with the same id and interval, later
\* than it was, and at most one interval from now.
LEMMA RearmedFacts ==
  ASSUME NEW t \in Timer, t.interval_ns # 0, t.timeout_ns <= time_now,
         time_now \in Nat, now \in Nat, time_now <= now
  PROVE  /\ Rearmed(t) \in Timer
         /\ Rearmed(t).id = t.id
         /\ Rearmed(t) = [t EXCEPT !.timeout_ns = Rearmed(t).timeout_ns]
         /\ t.timeout_ns < Rearmed(t).timeout_ns
         /\ Rearmed(t).timeout_ns <= now + t.interval_ns
  BY DEF Rearmed, Timer

\* Every step of the manager is a step of the service or changes nothing of it.
LEMMA NextImplements ==
  IInv /\ [Next]_vars => [Service!ServiceNext]_Service!serviceVars
<1> SUFFICES ASSUME IInv, [Next]_vars
             PROVE  \/ Service!ServiceNext
                    \/ now' = now /\ ArmedTimers' = ArmedTimers
                                  /\ ActiveCall' = ActiveCall
  BY DEF Service!serviceVars
<1> USE DEF Service!ServiceNext
<1> DEFINE Same == now' = now /\ ArmedTimers' = ArmedTimers
                     /\ ActiveCall' = ActiveCall
<1>1. CASE Tick
  <2>1. Service!Advance
    BY <1>1 DEF Tick, Service!Advance, ArmedTimers, ActiveCall, Rearmed,
                IInv, TypeOK, audioVars, loopVars
  <2> QED BY <2>1
<1>2. CASE AddTimer
  <2>1. PICK r \in OneShotRequests \union CyclicRequests :
           queue' = queue \union {NewTimer(r)}
    BY <1>2 DEF AddTimer
  <2> DEFINE t == NewTimer(r)
  <2>2. t \in Timer /\ t.id = id + 1 /\ id \in Nat
    BY <1>2, NewTimerFacts, TimerAssumption DEF AddTimer, IInv, TypeOK
  <2> HIDE DEF t
  <2>3. queue' = queue \union {t}
    BY <2>1 DEF t
  <2>4. WithId(queue, t.id) = {}
    BY <2>2 DEF WithId, IInv, Bookkeeping
  <2>5. ArmedTimers = queue /\ ArmedTimers' = queue'
    BY <1>2 DEF AddTimer, ArmedTimers, loopVars
  <2>6. ActiveCall' = ActiveCall /\ now' = now
    BY <1>2 DEF AddTimer, ActiveCall, loopVars
  <2>7. Service!Arm
    BY <2>2, <2>3, <2>4, <2>5, <2>6
       DEF Service!Arm, Service!WithId, WithId, Service!Timer, Timer
  <2> QED BY <2>7
<1>3. CASE CancelTimer
  <2>1. PICK i \in 1..id : queue' = queue \ WithId(queue, i)
    BY <1>3, RemoveByIdUnique DEF CancelTimer, IInv, UniqueIds
  <2>2. ArmedTimers = queue /\ ArmedTimers' = queue'
    BY <1>3 DEF CancelTimer, ArmedTimers, loopVars
  <2>3. ActiveCall' = ActiveCall /\ now' = now
    BY <1>3 DEF CancelTimer, ActiveCall, loopVars
  <2>4. CASE WithId(queue, i) = {}
    BY <2>1, <2>2, <2>3, <2>4
  <2>5. CASE WithId(queue, i) # {}
    <3>1. PICK t \in queue : t.id = i
      BY <2>5 DEF WithId
    <3>2. Service!Cancel
      BY <2>1, <2>2, <2>3, <3>1 DEF Service!Cancel, Service!WithId, WithId
    <3> QED BY <3>2
  <2> QED BY <2>4, <2>5
<1>4. CASE CancelAllTimers
  <2>1. Service!CancelAll
    BY <1>4 DEF CancelAllTimers, Service!CancelAll, ArmedTimers, ActiveCall,
                loopVars
  <2> QED BY <2>1
<1>5. CASE ProcessEvents
  <2>1. Same
    BY <1>5 DEF ProcessEvents, ArmedTimers, ActiveCall
  <2> QED BY <2>1
<1>6. CASE ScanEmpty \/ ScanPending
  <2>1. Same
    BY <1>6 DEF ScanEmpty, ScanPending, ReturnToGuest, ArmedTimers, ActiveCall
  <2> QED BY <2>1
<1>7. CASE ScanExpired
  <2>1. PICK t \in queue : IsTop(t, queue) /\ t.timeout_ns <= time_now
                           /\ cur_timer' = t
    BY <1>7 DEF ScanExpired
  <2>2. /\ queue' = queue /\ now' = now /\ time_now' = time_now
        /\ pc = "scan" /\ pc' = "expired"
    BY <1>7 DEF ScanExpired
  <2>3. /\ t \in Timer /\ time_now \in Nat /\ now \in Nat /\ time_now <= now
    BY <2>2 DEF IInv, TypeOK, Bookkeeping
  <2>4. ArmedTimers = queue /\ ActiveCall = NoTimer /\ ActiveCall' = t
    BY <2>1, <2>2 DEF ArmedTimers, ActiveCall
  <2>5. t.timeout_ns <= now
    BY <2>1, <2>3 DEF Timer
  <2>6. Service!IsTop(t, ArmedTimers)
    BY <2>1, <2>4 DEF Service!IsTop, IsTop, Service!Before, Before
  <2>7. CASE t.interval_ns = 0
    <3>1. ArmedTimers' = ArmedTimers \ {t}
      BY <2>1, <2>2, <2>4, <2>7 DEF ArmedTimers
    <3>2. Service!Fire
      BY <2>1, <2>2, <2>4, <2>5, <2>6, <2>7, <3>1
         DEF Service!Fire, Service!NoTimer, NoTimer
    <3> QED BY <3>2
  <2>8. CASE t.interval_ns # 0
    <3> DEFINE u == Rearmed(t)
    <3>1. ArmedTimers' = (ArmedTimers \ {t}) \union {u}
      BY <2>1, <2>2, <2>4, <2>8 DEF ArmedTimers, Rearmed
    <3>2. /\ u = [t EXCEPT !.timeout_ns = u.timeout_ns]
          /\ t.timeout_ns < u.timeout_ns
          /\ u.timeout_ns <= now + t.interval_ns
      BY <2>1, <2>3, <2>8, RearmedFacts
    <3> HIDE DEF u
    <3>3. Service!Fire
      BY <2>1, <2>2, <2>4, <2>5, <2>6, <2>8, <3>1, <3>2
         DEF Service!Fire, Service!NoTimer, NoTimer
    <3> QED BY <3>3
  <2> QED BY <2>7, <2>8
<1>8. CASE RemoveExpired
  <2>1. queue' = queue \ WithId(queue, cur_timer.id)
    BY <1>8, RemoveByIdUnique DEF RemoveExpired, IInv, UniqueIds
  <2>2. WithId(queue, cur_timer.id) = {cur_timer}
    BY <1>8 DEF RemoveExpired, WithId, IInv, UniqueIds, Bookkeeping
  <2>3. Same
    BY <1>8, <2>1, <2>2 DEF RemoveExpired, ArmedTimers, ActiveCall, Rearmed
  <2> QED BY <2>3
<1>9. CASE RearmAndCall
  <2>1. Same
    BY <1>9 DEF RearmAndCall, ArmedTimers, ActiveCall
  <2> QED BY <2>1
<1>10. CASE CallbackReturns
  <2>1. ActiveCall = cur_timer /\ ActiveCall' = NoTimer /\ cur_timer # NoTimer
    BY <1>10 DEF CallbackReturns, ActiveCall, NoTimer, IInv, Bookkeeping, TypeOK
  <2>2. Service!Return
    BY <1>10, <2>1 DEF CallbackReturns, ArmedTimers, Service!Return,
                       Service!NoTimer, NoTimer
  <2> QED BY <2>2
<1>11. CASE AudioNewTimer
  <2>1. Same
    BY <1>11 DEF AudioNewTimer, ArmedTimers, ActiveCall, Rearmed, loopVars
  <2> QED BY <2>1
<1>12. CASE AudioPush
  <2> DEFINE t == timer_desc
  <2>1. /\ t \in Timer /\ t.id # 0 /\ WithId(queue, t.id) = {}
        /\ pc \in {"expired", "removed"} => cur_timer.id # t.id
    BY <1>12 DEF AudioPush, IInv, TypeOK, UniqueIds, Bookkeeping
  <2>2. /\ queue' = queue \union {t} /\ pc' = pc /\ cur_timer' = cur_timer
        /\ time_now' = time_now /\ now' = now
    BY <1>12 DEF AudioPush, loopVars
  <2>3. ArmedTimers' = ArmedTimers \union {t} /\ ActiveCall' = ActiveCall
    BY <2>1, <2>2 DEF ArmedTimers, ActiveCall, Rearmed
  <2>4. WithId(ArmedTimers, t.id) = {}
    <3>1. Rearmed(cur_timer).id = cur_timer.id
      BY DEF Rearmed, IInv, TypeOK, Timer
    <3> QED
      BY <2>1, <3>1, ArmedTimersCases DEF WithId, IInv, TypeOK
  <2>5. Service!Arm
    BY <2>1, <2>2, <2>3, <2>4
       DEF Service!Arm, Service!WithId, WithId, Service!Timer, Timer
  <2> QED BY <2>5
<1>13. CASE AudioNotify
  <2>1. Same
    BY <1>13 DEF AudioNotify, ArmedTimers, ActiveCall, Rearmed, loopVars
  <2> QED BY <2>1
<1>14. CASE UNCHANGED vars
  <2>1. Same
    BY <1>14 DEF vars, ArmedTimers, ActiveCall, Rearmed
  <2> QED BY <2>1
<1> QED
  BY <1>1, <1>2, <1>3, <1>4, <1>5, <1>6, <1>7, <1>8, <1>9, <1>10, <1>11,
     <1>12, <1>13, <1>14
     DEF Next, EmulationThread, Clients, AudioThread

\* The timer manager implements the timer service: under every interleaving of
\* the two threads a callback is delivered only for the earliest armed timer,
\* never early and never after cancel_timer.
THEOREM ManagerImplementsService == Spec => ImplementsService
<1>1. Init => Service!ServiceInit
  BY DEF Init, Service!ServiceInit, ArmedTimers, ActiveCall, Service!NoTimer,
         NoTimer
<1> QED
  BY <1>1, TimerInvariant, NextImplements, PTL
     DEF Spec, ImplementsService, Service!ServiceSpec
=============================================================================
