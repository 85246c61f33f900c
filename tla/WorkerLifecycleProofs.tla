----------------------- MODULE WorkerLifecycleProofs ------------------------
(***************************************************************************)
(* Machine-checked proofs about WorkerLifecycle, for any users and any     *)
(* number of workers and starts: the two mutexes keep the generations of   *)
(* workers apart, whatever callbacks on workers call.                      *)
(***************************************************************************)
EXTENDS WorkerLifecycle, TLAPS

\* Whoever is past the first lock of startWorkerThread or stopWorkerThread
\* holds mServiceGuard, so there is one such thread at most.
ServiceGuardHeld ==
    \A t \in Threads : pc[t] \in {"Start2", "Stop2", "Join"} => mServiceGuard = t

\* A worker calls the service from a callback in its loop() only.
CallsAreInLoop == \A w \in Workers : pc[w] # "Idle" => wpc[w] = "Loop"

\* The inductive invariant: NoWorkerOutlivesLoops survives the end of a stop
\* because the workers joined so far have exited, and that survives because
\* no other thread can start or stop workers meanwhile.
LifecycleInv ==
    /\ TypeOK
    /\ ServiceGuardHeld
    /\ CallsAreInLoop
    /\ JoinsOnlyStopped
    /\ NoWorkerOutlivesLoops

USE LifecycleAssumption
USE DEF LifecycleInv, TypeOK, ServiceGuardHeld, CallsAreInLoop, JoinsOnlyStopped,
        NoWorkerOutlivesLoops, CallPCs, Calls, WorkerPCs, Goto

\* Every worker is a thread that may call the service.
LEMMA WorkersAreThreads == Workers \subseteq Threads
  BY DEF Threads

\* startWorkerThread, stopWorkerThread and the calls with an id, on any thread.
LEMMA CallStepInv ==
    ASSUME LifecycleInv, fault = "none", NEW t \in Threads, CallStep(t)
    PROVE  LifecycleInv'
<1>0. Workers \subseteq Threads /\ None \notin Threads
  BY WorkersAreThreads DEF Threads
<1>1. CASE LockService(t)
  BY <1>0, <1>1 DEF LockService
<1>2. CASE Start(t)
  <2>1. \A v \in Threads : pc[v] # "Join"
    BY <1>2 DEF Start
  <2>2. TypeOK'
    <3>1. mRunIOLoop' \in BOOLEAN
      BY <1>2 DEF Start
    <3> QED BY <1>2, <3>1 DEF Start
  <2>3. ServiceGuardHeld' /\ JoinsOnlyStopped'
    BY <1>2, <2>1 DEF Start
  <2>4. NoWorkerOutlivesLoops'
    BY <1>2 DEF Start
  <2>5. CallsAreInLoop'
    BY <1>0, <1>2 DEF Start
  <2> QED BY <2>2, <2>3, <2>4, <2>5
<1>3. CASE StopBegins(t)
  <2>1. TypeOK'
    <3>1. mRunIOLoop' \in BOOLEAN
      BY <1>3 DEF StopBegins
    <3> QED BY <1>3, <3>1 DEF StopBegins
  <2>2. ServiceGuardHeld' /\ CallsAreInLoop' /\ NoWorkerOutlivesLoops'
    BY <1>0, <1>3 DEF StopBegins
  <2>3. \A v \in Threads \ {t} : pc[v] # "Join"
    BY <1>3 DEF StopBegins
  <2>4. \A w \in Workers : ~(w < 1)
    BY DEF Workers
  <2>5. JoinsOnlyStopped'
    BY <1>3, <2>3, <2>4 DEF StopBegins
  <2> QED BY <2>1, <2>2, <2>5
<1>4. CASE Join(t)
  <2>1. next \in Workers /\ mIOLoopDatas = NWorkers
    BY <1>4 DEF Join, Workers
  <2>2. \A w \in Workers : w < next + 1 => w < next \/ w = next
    BY DEF Workers
  <2>3. \A v \in Threads \ {t} : pc[v] # "Join"
    BY <1>0, <1>4 DEF Join
  <2>4. JoinsOnlyStopped'
    BY <1>4, <2>1, <2>2, <2>3 DEF Join
  <2>5. TypeOK'
    BY <1>4, <2>1 DEF Join, Workers
  <2>6. ServiceGuardHeld' /\ CallsAreInLoop' /\ NoWorkerOutlivesLoops'
    BY <1>4 DEF Join
  <2> QED BY <2>4, <2>5, <2>6
<1>5. CASE StopEnds(t)
  <2>1. \A v \in Threads \ {t} : pc[v] \notin {"Start2", "Stop2", "Join"}
    BY <1>0, <1>5 DEF StopEnds
  <2>2. TypeOK' /\ ServiceGuardHeld' /\ CallsAreInLoop' /\ JoinsOnlyStopped'
    BY <1>0, <1>5, <2>1 DEF StopEnds
  <2>3. CASE t \in Workers
    BY <1>5, <2>2, <2>3 DEF StopEnds
  <2>4. CASE t \notin Workers
    <3>1. \A w \in Workers : wpc[w] \in {"None", "Exited"}
      BY <1>5, <2>4 DEF StopEnds, Workers
    <3> QED BY <1>5, <2>2, <3>1 DEF StopEnds
  <2> QED BY <2>3, <2>4
<1>6. CASE LookUp(t)
  BY <1>0, <1>6 DEF LookUp
<1> QED BY <1>1, <1>2, <1>3, <1>4, <1>5, <1>6 DEF CallStep

\* The worker threads.
LEMMA WorkerStepInv ==
    ASSUME LifecycleInv, NEW w \in Workers, WorkerTest(w) \/ WorkerReturns(w)
    PROVE  LifecycleInv'
<1> USE DEF WGoto
<1>1. CASE WorkerTest(w)
  BY <1>1, WorkersAreThreads DEF WorkerTest
<1>2. CASE WorkerReturns(w)
  BY <1>2, WorkersAreThreads DEF WorkerReturns
<1> QED BY <1>1, <1>2

\* A call begins, on a user's thread or in a callback.
LEMMA BeginInv ==
    ASSUME LifecycleInv, NEW t \in Threads, NEW l \in Calls, Begin(t, l),
           t \in Workers => wpc[t] = "Loop"
    PROVE  LifecycleInv'
  BY WorkersAreThreads DEF Begin

\* Starts, stops, calls and workers in any order preserve the invariant.
LEMMA LifecycleInvStep == LifecycleInv /\ [Next]_vars => LifecycleInv'
<1> SUFFICES ASSUME LifecycleInv, [Next]_vars PROVE LifecycleInv'
  OBVIOUS
<1>1. CASE UNCHANGED vars
  BY <1>1 DEF vars
<1>2. ASSUME NEW u \in Users, NEW l \in Calls, Begin(u, l) PROVE LifecycleInv'
  BY <1>2, BeginInv DEF Threads
<1>3. ASSUME NEW w \in Workers, NEW l \in Calls, WorkerCallback(w, l) PROVE LifecycleInv'
  BY <1>3, BeginInv DEF Threads, WorkerCallback
<1> QED BY <1>1, <1>2, <1>3, CallStepInv, WorkerStepInv DEF Next

\* The invariant holds of every behaviour of the service.
THEOREM LifecycleInvariant == Spec => []LifecycleInv
<1>1. Init => LifecycleInv
  <2>1. Init => mRunIOLoop \in BOOLEAN
    BY DEF Init
  <2> QED BY <2>1, WorkersAreThreads DEF Init
<1> QED BY <1>1, LifecycleInvStep, PTL DEF Spec

\* Type correctness.
THEOREM TypeCorrect == Spec => []TypeOK
<1>1. LifecycleInv => TypeOK
  OBVIOUS
<1> QED BY <1>1, LifecycleInvariant, PTL

\* For any number of users and workers: when mIOLoopDatas is empty no worker
\* is alive, so procDataSocketClose never indexes a cleared vector and two
\* generations of workers never run together, until a callback stops the
\* service from one of its own workers.
THEOREM WorkersDoNotOutliveLoops == Spec => []NoWorkerOutlivesLoops
<1>1. LifecycleInv => NoWorkerOutlivesLoops
  OBVIOUS
<1> QED BY <1>1, LifecycleInvariant, PTL

\* For any number of users and workers: whoever joins holds both mutexes and
\* has cleared the flag of the very workers it joins.
THEOREM OnlyStoppedAreJoined == Spec => []JoinsOnlyStopped
<1>1. LifecycleInv => JoinsOnlyStopped
  OBVIOUS
<1> QED BY <1>1, LifecycleInvariant, PTL
=============================================================================
