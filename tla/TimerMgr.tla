------------------------------ MODULE TimerMgr ------------------------------
(***************************************************************************)
(* brynet::TimerMgr and brynet::Timer as operators.  A timer is a record   *)
(* of its identity, the time that is left (getLeftTime, cut off at zero)   *)
(* and mActive; the manager is the set of the timers in its heap.          *)
(***************************************************************************)
EXTENDS Integers, FiniteSets

Timer(id, timeout) == [id |-> id, left |-> timeout, mActive |-> TRUE]

\* The callback runs later than asked for or at once: never earlier.
addTimer(timers, id, timeout) == timers \cup {Timer(id, timeout)}

\* cancel leaves the timer in the heap until it expires.
cancel(timers, id) == {[t EXCEPT !.mActive = @ /\ t.id # id] : t \in timers}

\* A timer that the order of the heap may put on top.
top(timers) == {t \in timers : \A u \in timers : t.left <= u.left}

\* schedule() looks at the top only: it may pop it when its time is up.
Due(timers) == {t \in top(timers) : t.left = 0}

pop(timers, t) == timers \ {t}

\* One unit of time passes.
Elapse(timers) == {[t EXCEPT !.left = IF @ > 0 THEN @ - 1 ELSE 0] : t \in timers}

\* mTimer.lock(): the heap or the schedule loop still refers to the timer.
Alive(timers, running, id) == id = running \/ \E t \in timers : t.id = id
=============================================================================
