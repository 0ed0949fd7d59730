------------------------------ MODULE TimerInfo ------------------------------
(***************************************************************************)
(* The TimerInfo structure of core/timermanager.h and the order of the     *)
(* timer queue.                                                            *)
(***************************************************************************)
EXTENDS Naturals

\* interval_ns is 0 for one-shot timers.
Timer == [id: Nat, timeout_ns: Nat, interval_ns: Nat]

\* Ids are returned from ++id, so the first one is 1 and clients use 0 for
\* "no timer".
NoTimer == [id |-> 0, timeout_ns |-> 0, interval_ns |-> 0]

\* MyGtComparator: ascending expiry, timers of equal expiry in the order of
\* their creation.
Before(t, u) ==
    \/ t.timeout_ns < u.timeout_ns
    \/ t.timeout_ns = u.timeout_ns /\ t.id <= u.id

\* top() of a queue q.
IsTop(t, q) == t \in q /\ \A u \in q : Before(t, u)

WithId(q, i) == {t \in q : t.id = i}

\* remove_by_id: at most one element goes, whether or not it is the top.
RemoveById(q, i) ==
    IF WithId(q, i) = {} THEN {q} ELSE {q \ {t} : t \in WithId(q, i)}
=============================================================================
