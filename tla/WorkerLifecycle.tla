-------------------------- MODULE WorkerLifecycle ---------------------------
(***************************************************************************)
(* brynet::net::TcpService::startWorkerThread and stopWorkerThread with    *)
(* the two mutexes they take, the worker threads they start and join, and  *)
(* getIOLoopDataBySocketID, which every call with a session id goes        *)
(* through and which takes one of them.  User code runs on workers too and *)
(* may make any of these calls; the enter callback that WrapTcpService     *)
(* installs looks up its own loop that way.                                *)
(***************************************************************************)
EXTENDS Naturals, Sequences

CONSTANTS
    Users,          \* threads of the program
    NWorkers,       \* threadNum
    None,           \* nobody holds the mutex
    CallbackCalls,  \* calls that callbacks on workers make: "Start1", "Stop1", "LookUp"
    MaxStarts       \* bound: startWorkerThread calls that start workers

Workers == 1..NWorkers
Threads == Users \cup Workers
Calls == {"Start1", "Stop1", "LookUp"}

ASSUME LifecycleAssumption ==
    /\ NWorkers \in Nat \ {0} /\ MaxStarts \in Nat
    /\ CallbackCalls \subseteq Calls
    /\ None \notin Users \cup Workers /\ Users \cap Workers = {}

VARIABLES
    pc,             \* per thread: where in a call of the service it is
    wpc,            \* per worker: where in its own function; a callback is in "Loop"
    mServiceGuard,  \* holder of the mutex
    mIOLoopGuard,   \* holder of the mutex
    mRunIOLoop,     \* the flag of the workers that were started last
    mIOLoopDatas,   \* number of entries
    next,           \* stopWorkerThread: the worker it joins next
    starts,
    fault           \* "selfJoin": a worker has dropped its own thread; "none" if not

vars == <<pc, wpc, mServiceGuard, mIOLoopGuard, mRunIOLoop, mIOLoopDatas, next, starts, fault>>

CallPCs == Calls \cup {"Idle", "Start2", "Stop2", "Join"}
WorkerPCs == {"None", "Test", "Loop", "Exited"}

Init ==
    /\ pc = [t \in Threads |-> "Idle"]
    /\ wpc = [w \in Workers |-> "None"]
    /\ mServiceGuard = None /\ mIOLoopGuard = None
    /\ mRunIOLoop = FALSE /\ mIOLoopDatas = 0
    /\ next = 1 /\ starts = 0 /\ fault = "none"

Goto(t, l) == pc' = [pc EXCEPT ![t] = l]

-----------------------------------------------------------------------------
(* Calls of the service, by users and by callbacks on workers.             *)

\* startWorkerThread, stopWorkerThread or a call with an id begins.
Begin(u, l) ==
    /\ pc[u] = "Idle"
    /\ Goto(u, l)
    /\ UNCHANGED <<wpc, mServiceGuard, mIOLoopGuard, mRunIOLoop, mIOLoopDatas, next, starts, fault>>

\* A callback in loop() calls the service.
WorkerCallback(w, l) == l \in CallbackCalls /\ wpc[w] = "Loop" /\ Begin(w, l)

LockService(t) ==
    /\ pc[t] \in {"Start1", "Stop1"}
    /\ mServiceGuard = None
    /\ mServiceGuard' = t
    /\ Goto(t, IF pc[t] = "Start1" THEN "Start2" ELSE "Stop2")
    /\ UNCHANGED <<wpc, mIOLoopGuard, mRunIOLoop, mIOLoopDatas, next, starts, fault>>

\* startWorkerThread under both mutexes; they are released on return.  At
\* the bound the call is as good as not made.  Each start gives its workers a
\* flag of their own; one variable will do because none of them outlives the
\* stop that comes before the next start, see NoWorkerOutlivesLoops.
Start(t) ==
    /\ pc[t] = "Start2"
    /\ mIOLoopGuard = None
    /\ IF mIOLoopDatas = 0 /\ starts < MaxStarts
       THEN /\ mRunIOLoop' = TRUE
            /\ mIOLoopDatas' = NWorkers
            /\ wpc' = [w \in Workers |-> "Test"]
            /\ starts' = starts + 1
       ELSE UNCHANGED <<mRunIOLoop, mIOLoopDatas, wpc, starts>>
    /\ mServiceGuard' = None
    /\ Goto(t, "Idle")
    /\ UNCHANGED <<mIOLoopGuard, next, fault>>

\* stopWorkerThread takes the second mutex and clears the flag.
StopBegins(t) ==
    /\ pc[t] = "Stop2"
    /\ mIOLoopGuard = None
    /\ mIOLoopGuard' = t
    /\ mRunIOLoop' = FALSE
    /\ next' = 1
    /\ Goto(t, "Join")
    /\ UNCHANGED <<wpc, mServiceGuard, mIOLoopDatas, starts, fault>>

\* The loop is woken and forgotten.
Join_NoWait(t) ==
    /\ pc[t] = "Join" /\ next <= mIOLoopDatas
    /\ next' = next + 1
    /\ UNCHANGED <<pc, wpc, mServiceGuard, mIOLoopGuard, mRunIOLoop, mIOLoopDatas, starts, fault>>

\* Wake one loop and wait for its thread.  join() of the thread that calls it
\* throws at once, and catch (...) goes on as if it had returned.
Join(t) ==
    /\ pc[t] = "Join" /\ next <= mIOLoopDatas
    /\ wpc[next] = "Exited" \/ next = t
    /\ next' = next + 1
    /\ UNCHANGED <<pc, wpc, mServiceGuard, mIOLoopGuard, mRunIOLoop, mIOLoopDatas, starts, fault>>

\* mIOLoopDatas is cleared and both mutexes are released.  If the caller is
\* one of the workers its own entry goes too: a joinable std::thread that is
\* destroyed ends the process, and if a TCPSession still holds the entry the
\* worker runs on without a table.  The behaviour ends here.
StopEnds(t) ==
    /\ pc[t] = "Join" /\ next > mIOLoopDatas
    /\ mIOLoopDatas' = 0
    /\ mIOLoopGuard' = None /\ mServiceGuard' = None
    /\ fault' = IF t \in Workers THEN "selfJoin" ELSE fault
    /\ Goto(t, "Idle")
    /\ UNCHANGED <<wpc, mRunIOLoop, next, starts>>

\* getIOLoopDataBySocketID: lock, look, unlock.
LookUp(t) ==
    /\ pc[t] = "LookUp"
    /\ mIOLoopGuard = None
    /\ Goto(t, "Idle")
    /\ UNCHANGED <<wpc, mServiceGuard, mIOLoopGuard, mRunIOLoop, mIOLoopDatas, next, starts, fault>>

-----------------------------------------------------------------------------
(* Workers.                                                                *)

WGoto(w, l) ==
    /\ wpc' = [wpc EXCEPT ![w] = l]
    /\ UNCHANGED <<pc, mServiceGuard, mIOLoopGuard, mRunIOLoop, mIOLoopDatas, next, starts, fault>>

\* The flag is not looked at.
WorkerTest_Always(w) == wpc[w] = "Test" /\ WGoto(w, "Loop")

\* while (*runIoLoop)
WorkerTest(w) ==
    /\ wpc[w] = "Test"
    /\ WGoto(w, IF mRunIOLoop THEN "Loop" ELSE "Exited")

\* loop() returns when its callbacks have: stopWorkerThread's wakeup or the
\* timeout end its wait.
WorkerReturns(w) == wpc[w] = "Loop" /\ pc[w] = "Idle" /\ WGoto(w, "Test")

-----------------------------------------------------------------------------
CallStep(t) ==
    \/ LockService(t) \/ Start(t) \/ StopBegins(t) \/ Join(t) \/ StopEnds(t) \/ LookUp(t)

Next ==
    /\ fault = "none"
    /\ \/ \E t \in Threads : CallStep(t)
       \/ \E u \in Users, l \in Calls : Begin(u, l)
       \/ \E w \in Workers, l \in Calls : WorkerCallback(w, l)
       \/ \E w \in Workers : WorkerTest(w) \/ WorkerReturns(w)

Spec == Init /\ [][Next]_vars

\* Threads that can go on do; a mutex is handed on (strong fairness: it is
\* free again and again).  A worker's loop() returns in the end.
FairSpec ==
    /\ Spec
    /\ \A t \in Threads : SF_vars(CallStep(t))
    /\ \A w \in Workers : WF_vars(WorkerTest(w)) /\ SF_vars(WorkerReturns(w))

-----------------------------------------------------------------------------
(* Properties.                                                             *)

\* Every variable keeps its type.
TypeOK ==
    /\ pc \in [Threads -> CallPCs]
    /\ wpc \in [Workers -> WorkerPCs]
    /\ mServiceGuard \in Threads \cup {None} /\ mIOLoopGuard \in Threads \cup {None}
    /\ mRunIOLoop \in BOOLEAN /\ mIOLoopDatas \in {0, NWorkers}
    /\ next \in 1..(NWorkers + 1)
    /\ starts \in 0..MaxStarts
    /\ fault \in {"none", "selfJoin"}

\* When mIOLoopDatas is empty no worker is alive: procDataSocketClose, which
\* indexes it on a worker without the mutex (TCPService.cpp:314), never meets
\* a cleared vector, and two generations of workers are never alive together,
\* however starts, stops and calls interleave.  The one exception is a worker
\* whose callback has stopped the service (TCPService.cpp:172-179).
NoWorkerOutlivesLoops ==
    mIOLoopDatas = 0 /\ fault = "none" => \A w \in Workers : wpc[w] \in {"None", "Exited"}

\* A worker that still has its flag set is never being joined: whoever holds
\* mIOLoopGuard across a join has cleared the flag of these very workers, and
\* those it is done with are gone, apart from itself.
JoinsOnlyStopped ==
    \A t \in Threads : pc[t] = "Join" =>
        /\ mIOLoopGuard = t /\ mServiceGuard = t
        /\ ~mRunIOLoop
        /\ \A w \in Workers : w < next /\ mIOLoopDatas > 0 => wpc[w] = "Exited" \/ w = t

\* A worker that is being joined waits in a call of a callback for a mutex
\* that the joining thread holds.
Stuck ==
    \E t \in Threads, w \in Workers : w # t /\ pc[t] = "Join" /\ pc[w] \in Calls

\* stopWorkerThread returns, or a worker that it joins has called the service
\* and waits for a mutex that stopWorkerThread holds (TCPService.cpp:160, 161
\* and 280).  Nothing else can keep it: not other stops and starts, not users,
\* not a callback that stops its own worker.
StopReturnsOrIsCalled ==
    \A t \in Threads : pc[t] = "Stop1" ~> pc[t] = "Idle" \/ Stuck \/ fault # "none"

\* A call with a session id returns, on any thread at any time.
CallsReturn == \A t \in Threads : pc[t] = "LookUp" ~> pc[t] = "Idle"
=============================================================================
