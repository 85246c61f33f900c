-------------------------- MODULE ConnectorProofs ---------------------------
(***************************************************************************)
(* Machine-checked proofs about Connector, for any users, requests,        *)
(* descriptors and behaviour of callbacks: a request is called back at     *)
(* most once, the worker polls only sockets of its own, and without the    *)
(* overwritten entry of FdReuse no request and no descriptor is lost.      *)
(***************************************************************************)
EXTENDS Connector, SequenceTheorems, WellFoundedInduction, TLAPS

\* The worker is giving up: the requests still in the map are failed.
Failing == wpc = "CauseAllFailed" \/ (wpc = "Callback" /\ cb.ret = "CauseAllFailed")

\* The worker looks at the descriptors that poll returned.
Checking == wpc = "Check" \/ (wpc = "Callback" /\ cb.ret = "Check")

\* Where the worker is, and what it has left to do there.  A worker that was
\* told to stop leaves before the mutex of stopWorkerThread is free again, and
\* has the mutex itself only while a nested callback runs.
WorkerInv ==
    /\ wpc # "Callback" => cb = NoCb
    /\ cb.fd # None => cb.ret = "Check"
    /\ mIsRun = "true" => wpc # "Exited" /\ ~Failing
    /\ mIsRun # "true" /\ wpc # "Exited" => mThreadGuard \in Users
    /\ mThreadGuard = "worker" => wpc = "Callback" /\ mIsRun = "true"
    /\ Failing => todo = Entries
    /\ wpc = "Exited" => Entries = {}

\* Nothing is queued behind the proc of stopWorkerThread.
QueueInv ==
    /\ mIsRun # "true" => queue = <<>>
    /\ \A i \in 1..Len(queue) : queue[i] = "stop" => i = Len(queue) /\ mThreadGuard \in Users

InQueue(r) == \E i \in 1..Len(queue) : queue[i] = r
InMap(r)   == \E f \in Fds : mConnectingInfos[f] = r

\* A request is in one place at a time: with a callback that has asked for
\* it, in the queue, in the map, or called.  It is in the map and called only
\* while its callback of checkConnectStatus runs.
PlaceInv ==
    /\ \A r \in Requests : r \notin asked =>
          called[r] = 0 /\ ~InQueue(r) /\ ~InMap(r) /\ cb.req # r
    /\ \A i \in 1..Len(queue) : queue[i] # "stop" =>
          called[queue[i]] = 0 /\ ~InMap(queue[i]) /\ cb.req # queue[i]
    /\ \A i, j \in 1..Len(queue) : queue[i] # "stop" /\ queue[i] = queue[j] => i = j
    /\ \A f \in Fds : mConnectingInfos[f] # None =>
          /\ cb.req # mConnectingInfos[f]
          /\ f # cb.fd => called[mConnectingInfos[f]] = 0
    /\ \A f, g \in Fds :
          mConnectingInfos[f] # None /\ mConnectingInfos[f] = mConnectingInfos[g] => f = g
    /\ cb.req # None => called[cb.req] = 0

\* Who a descriptor belongs to.
PollInv ==
    /\ PolledIsOurs
    /\ \A f \in owned : socket[f] # "closed"
    /\ \A f \in Fds : mConnectingInfos[f] # None /\ f # cb.fd => f \in mFDSet
    /\ cb.fd # None /\ cb.fd \notin success =>
          socket[cb.fd] # "closed" /\ cb.fd \notin owned /\ cb.fd \notin mFDSet
    /\ Checking => todo \ {cb.fd} \subseteq mFDSet

\* While no entry was overwritten.
KeptInv ==
    ~overwritten =>
        /\ \A f \in Fds : socket[f] # "closed" => f \in owned \/ mConnectingInfos[f] # None
        /\ cb.fd # None =>
              /\ mConnectingInfos[cb.fd] # None /\ called[mConnectingInfos[cb.fd]] = 1
              /\ cb.fd \in success /\ socket[cb.fd] # "closed" => cb.fd \in owned
        /\ NoRequestLost

ConnInv == TypeOK /\ WorkerInv /\ QueueInv /\ PlaceInv /\ PollInv /\ KeptInv

(***************************************************************************)
(* Helpers.                                                                *)
(***************************************************************************)

\* A set of numbers that is not empty has a least element.
LEMMA MinIsIn ==
    ASSUME NEW S, S \subseteq Nat, S # {}
    PROVE  Min(S) \in S
<1> DEFINE R == OpToRel(<, Nat)
<1>1. IsWellFoundedOn(R, Nat)
  BY NatLessThanWellFounded
<1>2. \A x, y \in Nat : y < x => <<y, x>> \in R
  BY DEF OpToRel
<1> HIDE DEF R
<1>3. \E x \in S : \A y \in S : ~(<<y, x>> \in R)
  BY <1>1, WFMin
<1>4. PICK x \in S : \A y \in S : ~(<<y, x>> \in R)
  BY <1>3
<1>5. ASSUME NEW y \in S PROVE x <= y
  <2>1. x \in Nat /\ y \in Nat
    OBVIOUS
  <2>2. ~(y < x)
    BY <1>2, <1>4, <2>1
  <2> QED BY <2>1, <2>2
<1> QED BY <1>5 DEF Min

\* socket() returns a number that is not in use.
LEMMA NewFdIsFree ==
    ASSUME FreeFds # {}
    PROVE  NewFd \in Fds /\ socket[NewFd] = "closed"
<1>1. FreeFds \subseteq Nat
  BY ConnectorAssumption DEF FreeFds, Fds
<1> QED BY <1>1, MinIsIn DEF FreeFds, NewFd

\* The next descriptor of a pass is one of it.
LEMMA NextTodo ==
    ASSUME TypeOK, todo # {}
    PROVE  Min(todo) \in todo /\ Min(todo) \in Fds
<1>1. todo \subseteq Nat /\ todo \subseteq Fds
  BY ConnectorAssumption DEF TypeOK, Fds
<1> QED BY <1>1, MinIsIn

\* No descriptor is None.
LEMMA FdsAreNumbers == None \notin Fds
  BY ConnectorAssumption DEF Fds

\* A callback that has not asked for anything and has no descriptor.
LEMMA NoCbFields == NoCb.fd = None /\ NoCb.req = None /\ NoCb.ret = "Procs"
  BY DEF NoCb

\* The callbacks that the actions begin.
LEMMA NewCbFields ==
    ASSUME NEW f, NEW r
    PROVE  LET a == [NoCb EXCEPT !.fd = f, !.ret = r]
               b == [NoCb EXCEPT !.ret = r]
           IN /\ a.fd = f /\ a.req = None /\ a.ret = r
              /\ b.fd = None /\ b.req = None /\ b.ret = r
  BY DEF NoCb

\* What is in a queue after a push ...
LEMMA PushProps ==
    ASSUME NEW S, NEW q \in Seq(S), NEW x \in S
    PROVE  LET p == Append(q, x) IN
           /\ p \in Seq(S) /\ Len(q) \in Nat /\ Len(p) = Len(q) + 1 /\ p[Len(q) + 1] = x
           /\ \A i \in 1..Len(q) : p[i] = q[i] /\ i \in 1..Len(p)
           /\ \A i \in 1..Len(p) : i \in 1..Len(q) \/ i = Len(q) + 1
<1>1. /\ Append(q, x) \in Seq(S) /\ Len(Append(q, x)) = Len(q) + 1
      /\ \A i \in 1..Len(q) : Append(q, x)[i] = q[i]
      /\ Append(q, x)[Len(q) + 1] = x
  BY AppendProperties
<1>2. Len(q) \in Nat
  OBVIOUS
<1> QED BY <1>1, <1>2

\* ... and after its head was taken.
LEMMA PopProps ==
    ASSUME NEW S, NEW q \in Seq(S), q # <<>>
    PROVE  /\ Tail(q) \in Seq(S) /\ Head(q) \in S /\ Head(q) = q[1] /\ 1 \in 1..Len(q)
           /\ Len(q) \in Nat /\ Len(Tail(q)) = Len(q) - 1
           /\ \A i \in 1..Len(Tail(q)) : /\ i + 1 \in 1..Len(q) /\ Tail(q)[i] = q[i + 1]
                                         /\ i + 1 # 1 /\ i \in Int
           /\ \A i \in 1..Len(q) : i # 1 =>
                 i - 1 \in 1..Len(Tail(q)) /\ Tail(q)[i - 1] = q[i]
<1>1. Len(q) \in Nat \ {0} /\ Head(q) \in S /\ Tail(q) \in Seq(S) /\ Head(q) = q[1]
  BY EmptySeq, HeadTailProperties
<1>2. Len(Tail(q)) = Len(q) - 1 /\ \A i \in 1..Len(Tail(q)) : Tail(q)[i] = q[i + 1]
  BY HeadTailProperties
<1>3. ASSUME NEW i \in 1..Len(Tail(q))
      PROVE  i + 1 \in 1..Len(q) /\ Tail(q)[i] = q[i + 1] /\ i + 1 # 1 /\ i \in Int
  BY <1>1, <1>2
<1>4. ASSUME NEW i \in 1..Len(q), i # 1
      PROVE  i - 1 \in 1..Len(Tail(q)) /\ Tail(q)[i - 1] = q[i]
  <2>1. i - 1 \in 1..Len(Tail(q)) /\ (i - 1) + 1 = i
    BY <1>1, <1>2, <1>4
  <2> QED BY <1>2, <2>1
<1> QED BY <1>1, <1>2, <1>3, <1>4

\* The parts of the cb record.
LEMMA CbType ==
    ASSUME TypeOK
    PROVE  /\ cb.fd \in Fds \cup {None} /\ cb.req \in Requests \cup {None}
           /\ cb.ret \in {"Procs", "Check", "Timeout", "CauseAllFailed"}
           /\ \A r : [cb EXCEPT !.req = r].fd = cb.fd /\ [cb EXCEPT !.req = r].ret = cb.ret
                     /\ [cb EXCEPT !.req = r].req = r
           /\ \A r \in Requests \cup {None} : [cb EXCEPT !.req = r] \in
                 [fd : Fds \cup {None}, req : Requests \cup {None},
                  ret : {"Procs", "Check", "Timeout", "CauseAllFailed"}]
  BY DEF TypeOK

(***************************************************************************)
(* The worker and the thread that stops it.                                *)
(***************************************************************************)

\* Every step keeps WorkerInv.
LEMMA WorkerStep == ConnInv /\ [Next]_vars => WorkerInv'
<1> SUFFICES ASSUME ConnInv, [Next]_vars PROVE WorkerInv'
  OBVIOUS
<1> USE DEF ConnInv, WorkerInv, Failing, Entries, user, worker, table, kernel
<1>0. /\ TypeOK /\ None \notin Fds /\ cb.fd \in Fds \cup {None}
      /\ None \notin Users /\ "worker" \notin Users /\ None # "worker"
  BY FdsAreNumbers, CbType, ConnectorAssumption
<1>1. ASSUME NEW u \in Users, NEW r \in Requests, AsyncConnect(u, r) PROVE WorkerInv'
  BY <1>1 DEF AsyncConnect
<1>2. ASSUME NEW u \in Users, StartWorkerThread(u) PROVE WorkerInv'
  BY <1>0, <1>2, NoCbFields DEF StartWorkerThread
<1>3. ASSUME NEW u \in Users, AsyncConnectStopped(u) PROVE WorkerInv'
  BY <1>3 DEF AsyncConnectStopped
<1>4. ASSUME NEW u \in Users, StopBegins(u) PROVE WorkerInv'
  BY <1>4, ConnectorAssumption DEF StopBegins
<1>5. ASSUME NEW u \in Users, StopEnds(u) PROVE WorkerInv'
  BY <1>0, <1>5 DEF StopEnds
<1>6. ASSUME NEW f \in Fds, UserCloses(f) PROVE WorkerInv'
  BY <1>6 DEF UserCloses
<1>7. ASSUME NEW f \in Fds, NEW how \in {"connected", "refused"}, Answer(f, how) PROVE WorkerInv'
  BY <1>7 DEF Answer
<1>8. CASE CallbackDrops
  BY <1>8 DEF CallbackDrops
<1>9. ASSUME NEW r \in Requests, CallbackAsks(r) PROVE WorkerInv'
  BY <1>0, <1>9, CbType DEF CallbackAsks
<1>10. CASE RunConnect
  BY <1>10, NoCbFields DEF RunConnect, QueueInv
<1>11. CASE RunStop
  <2>1. mThreadGuard \in Users
    BY <1>0, <1>11, PopProps DEF RunStop, QueueInv, TypeOK
  <2> QED BY <1>0, <1>11, <2>1 DEF RunStop
<1>12. CASE Poll \/ CheckUnknown \/ CheckDone
  BY <1>12 DEF Poll, CheckUnknown, CheckDone
<1>13. CASE CheckCallback
  BY <1>13, NewCbFields DEF CheckCallback
<1>14. ASSUME NEW f \in Fds, TimeoutOne(f) PROVE WorkerInv'
  BY <1>14, NewCbFields DEF TimeoutOne
<1>15. CASE TimeoutDone
  BY <1>15 DEF TimeoutDone
<1>16. CASE CauseAllFailed
  <2>1. Min(todo) \in todo /\ Min(todo) \in Fds
    BY <1>0, <1>16, NextTodo DEF CauseAllFailed
  <2>2. todo' = Entries'
    BY <1>0, <1>16, <2>1 DEF CauseAllFailed, Fail, TypeOK
  <2> QED BY <1>16, <2>2, NewCbFields DEF CauseAllFailed
<1>17. CASE WorkerExits
  BY <1>17 DEF WorkerExits
<1>18. CASE CallbackConnects \/ NestedConnects
  BY <1>0, <1>18, CbType DEF CallbackConnects, NestedConnects, InlineConnect
<1>19. CASE CallbackReturns
  <2>1. wpc' = cb.ret /\ cb' = NoCb /\ mIsRun' = mIsRun /\ mThreadGuard' = mThreadGuard
        /\ cb.ret \in {"Procs", "Check", "Timeout", "CauseAllFailed"} /\ wpc = "Callback"
        /\ mThreadGuard # "worker"
    BY <1>0, <1>19, CbType DEF CallbackReturns
  <2>2. ASSUME Failing' PROVE todo' = Entries'
    <3>1. cb.ret = "CauseAllFailed"
      BY <2>1, <2>2, NoCbFields
    <3>2. cb.fd = None /\ todo = Entries
      BY <2>1, <3>1
    <3> QED BY <1>0, <1>19, <3>2 DEF CallbackReturns, TypeOK
  <2> QED BY <2>1, <2>2, NoCbFields
<1>20. CASE UNCHANGED vars
  BY <1>20 DEF vars
<1>21. ASSUME NEW u \in Users, StopCalled(u) \/ StopNothing(u) PROVE WorkerInv'
  BY <1>21 DEF StopCalled, StopNothing
<1>22. CASE NestedReturns
  BY <1>0, <1>22 DEF NestedReturns
<1> QED BY <1>1, <1>2, <1>3, <1>4, <1>5, <1>6, <1>7, <1>8, <1>9, <1>10, <1>11, <1>12, <1>13,
           <1>14, <1>15, <1>16, <1>17, <1>18, <1>19, <1>20, <1>21, <1>22 DEF Next, Worker

\* Every step keeps QueueInv.
LEMMA QueueStep == ConnInv /\ [Next]_vars => QueueInv'
<1> SUFFICES ASSUME ConnInv, [Next]_vars PROVE QueueInv'
  OBVIOUS
<1> USE DEF ConnInv, QueueInv, user, worker, table, kernel
<1>0. /\ queue \in Seq(Requests \cup {"stop"}) /\ "stop" \notin Requests
      /\ None \notin Users /\ "worker" \notin Users
  BY ConnectorAssumption DEF TypeOK
<1>1. ASSUME NEW u \in Users, NEW r \in Requests, AsyncConnect(u, r) PROVE QueueInv'
  BY <1>0, <1>1, PushProps DEF AsyncConnect
<1>2. ASSUME NEW u \in Users, StartWorkerThread(u) PROVE QueueInv'
  BY <1>2 DEF StartWorkerThread
<1>3. ASSUME NEW u \in Users, StopBegins(u) PROVE QueueInv'
  <2>1. mIsRun = "true" /\ mThreadGuard' \in Users /\ queue' = Append(queue, "stop") /\ mIsRun' = mIsRun
        /\ mThreadGuard = None
    BY <1>3, ConnectorAssumption DEF StopBegins, WorkerInv
  <2> QED BY <1>0, <2>1, PushProps
<1>4. ASSUME NEW u \in Users, StopEnds(u) PROVE QueueInv'
  BY <1>4 DEF StopEnds, WorkerInv
<1>5. CASE RunConnect
  <2>1. /\ queue # <<>> /\ queue' = Tail(queue) /\ mIsRun' = mIsRun /\ mThreadGuard' = mThreadGuard
    BY <1>5 DEF RunConnect
  <2> QED BY <1>0, <2>1, PopProps
<1>6. CASE RunStop
  <2>1. queue # <<>> /\ Head(queue) = "stop" /\ queue' = Tail(queue)
    BY <1>6 DEF RunStop
  <2>2. Len(queue) = 1
    BY <1>0, <2>1, PopProps
  <2>3. Len(queue') = 0 /\ queue' \in Seq(Requests \cup {"stop"})
    BY <1>0, <2>1, <2>2, PopProps
  <2>4. queue' = <<>>
    BY <2>3, EmptySeq
  <2> QED BY <2>4
<1>7. ASSUME NEW u \in Users, AsyncConnectStopped(u) PROVE QueueInv'
  BY <1>7 DEF AsyncConnectStopped
<1>8. ASSUME NEW f \in Fds, UserCloses(f) PROVE QueueInv'
  BY <1>8 DEF UserCloses
<1>9. ASSUME NEW f \in Fds, NEW how \in {"connected", "refused"}, Answer(f, how) PROVE QueueInv'
  BY <1>9 DEF Answer
<1>10. CASE CallbackDrops \/ CallbackConnects \/ NestedConnects \/ NestedReturns \/ CallbackReturns
  BY <1>0, <1>10 DEF CallbackDrops, CallbackConnects, NestedConnects, InlineConnect, NestedReturns, CallbackReturns
<1>11. ASSUME NEW r \in Requests, CallbackAsks(r) PROVE QueueInv'
  BY <1>11 DEF CallbackAsks
<1>12. CASE Poll \/ CheckUnknown \/ CheckCallback \/ CheckDone
  BY <1>12 DEF Poll, CheckUnknown, CheckCallback, CheckDone
<1>13. ASSUME NEW f \in Fds, TimeoutOne(f) PROVE QueueInv'
  BY <1>13 DEF TimeoutOne
<1>14. CASE TimeoutDone \/ CauseAllFailed \/ WorkerExits
  BY <1>14 DEF TimeoutDone, CauseAllFailed, WorkerExits
<1>15. CASE UNCHANGED vars
  BY <1>15 DEF vars
<1>16. ASSUME NEW u \in Users, StopCalled(u) \/ StopNothing(u) PROVE QueueInv'
  BY <1>16 DEF StopCalled, StopNothing
<1> QED BY <1>1, <1>2, <1>3, <1>4, <1>5, <1>6, <1>7, <1>8, <1>9, <1>10, <1>11, <1>12, <1>13,
           <1>14, <1>15, <1>16 DEF Next, Worker

(***************************************************************************)
(* Requests whose callback an action runs.                                 *)
(***************************************************************************)

\* What is counted when a callback of a request runs that has not run before.
LEMMA CallProps ==
    ASSUME TypeOK, NEW r \in Requests, called[r] = 0
    PROVE  LET c == [called EXCEPT ![r] = @ + 1] IN
           /\ c \in [Requests -> 0..1] /\ c[r] = 1
           /\ \A s \in Requests : s # r => c[s] = called[s]
  BY DEF TypeOK

\* The request at the head of the queue is nowhere else.
LEMMA HeadIsNew ==
    ASSUME ConnInv, queue # <<>>, Head(queue) # "stop"
    PROVE  /\ Head(queue) \in Requests /\ Head(queue) \in asked
           /\ called[Head(queue)] = 0 /\ ~InMap(Head(queue)) /\ cb.req # Head(queue)
           /\ \A i \in 1..Len(Tail(queue)) : Tail(queue)[i] # Head(queue)
<1>1. /\ Head(queue) \in Requests \cup {"stop"} /\ Head(queue) = queue[1] /\ 1 \in 1..Len(queue)
      /\ \A i \in 1..Len(Tail(queue)) : /\ i + 1 \in 1..Len(queue) /\ Tail(queue)[i] = queue[i + 1]
                                        /\ i + 1 # 1 /\ i \in Int
  BY PopProps DEF ConnInv, TypeOK
<1>2. /\ Head(queue) \in Requests /\ InQueue(Head(queue))
      /\ called[Head(queue)] = 0 /\ ~InMap(Head(queue)) /\ cb.req # Head(queue)
  BY <1>1 DEF ConnInv, PlaceInv, InQueue
<1>3. Head(queue) \in asked
  BY <1>2 DEF ConnInv, PlaceInv
<1>4. ASSUME NEW i \in 1..Len(Tail(queue)), Tail(queue)[i] = Head(queue) PROVE FALSE
  BY <1>1, <1>4 DEF ConnInv, PlaceInv
<1> QED BY <1>2, <1>3, <1>4

\* A request of the map is nowhere else, and its descriptor is polled, unless
\* its callback runs.
LEMMA EntryIsNew ==
    ASSUME ConnInv, NEW f \in Fds, mConnectingInfos[f] # None
    PROVE  /\ mConnectingInfos[f] \in Requests /\ mConnectingInfos[f] \in asked
           /\ ~InQueue(mConnectingInfos[f]) /\ cb.req # mConnectingInfos[f]
           /\ \A g \in Fds : g # f => mConnectingInfos[g] # mConnectingInfos[f]
           /\ f # cb.fd => called[mConnectingInfos[f]] = 0 /\ f \in mFDSet
<1>1. /\ mConnectingInfos[f] \in Requests /\ InMap(mConnectingInfos[f])
      /\ cb.req # mConnectingInfos[f]
  BY DEF ConnInv, TypeOK, InMap, PlaceInv
<1>2. mConnectingInfos[f] \in asked
  BY <1>1 DEF ConnInv, PlaceInv
<1>3. ~InQueue(mConnectingInfos[f])
  BY <1>1, ConnectorAssumption DEF ConnInv, PlaceInv, InQueue
<1>4. /\ \A g \in Fds : g # f => mConnectingInfos[g] # mConnectingInfos[f]
      /\ f # cb.fd => called[mConnectingInfos[f]] = 0 /\ f \in mFDSet
  BY DEF ConnInv, PlaceInv, PollInv
<1> QED BY <1>1, <1>2, <1>3, <1>4

\* The request that a callback has asked for is nowhere else.
LEMMA AskedIsNew ==
    ASSUME ConnInv, cb.req # None
    PROVE  /\ cb.req \in Requests /\ cb.req \in asked /\ called[cb.req] = 0
           /\ ~InMap(cb.req) /\ ~InQueue(cb.req)
<1>1. cb.req \in Requests /\ called[cb.req] = 0
  BY CbType DEF ConnInv, PlaceInv
<1>2. cb.req \in asked
  BY <1>1 DEF ConnInv, PlaceInv
<1>3. ~InMap(cb.req) /\ ~InQueue(cb.req)
  BY <1>1, ConnectorAssumption DEF ConnInv, PlaceInv, InMap, InQueue
<1> QED BY <1>1, <1>2, <1>3

\* Outside a callback there is no descriptor and no request of one.
LEMMA OutsideCallback ==
    ASSUME ConnInv, wpc # "Callback"
    PROVE  cb = NoCb /\ cb.fd = None /\ cb.req = None
  BY NoCbFields DEF ConnInv, WorkerInv

(***************************************************************************)
(* Types.                                                                  *)
(***************************************************************************)

\* Every step keeps TypeOK.
LEMMA TypeStep == ConnInv /\ [Next]_vars => TypeOK'
<1> SUFFICES ASSUME ConnInv, [Next]_vars PROVE TypeOK'
  OBVIOUS
<1> USE DEF TypeOK, user, worker, table, kernel
<1>0. TypeOK /\ None \notin Fds
  BY FdsAreNumbers DEF ConnInv
<1>c. /\ NoCb \in [fd : Fds \cup {None}, req : Requests \cup {None},
                   ret : {"Procs", "Check", "Timeout", "CauseAllFailed"}]
      /\ \A f \in Fds \cup {None}, r \in {"Procs", "Check", "Timeout", "CauseAllFailed"} :
            [NoCb EXCEPT !.fd = f, !.ret = r] \in
                [fd : Fds \cup {None}, req : Requests \cup {None},
                 ret : {"Procs", "Check", "Timeout", "CauseAllFailed"}]
      /\ \A r \in {"Procs", "Check", "Timeout", "CauseAllFailed"} :
            [NoCb EXCEPT !.ret = r] \in
                [fd : Fds \cup {None}, req : Requests \cup {None},
                 ret : {"Procs", "Check", "Timeout", "CauseAllFailed"}]
  BY DEF NoCb
<1>1. ASSUME NEW u \in Users, NEW r \in Requests, AsyncConnect(u, r) PROVE TypeOK'
  <2>1. queue' \in Seq(Requests \cup {"stop"})
    BY <1>0, <1>1, PushProps DEF AsyncConnect
  <2> QED BY <1>0, <1>1, <2>1 DEF AsyncConnect
<1>2. ASSUME NEW u \in Users, StartWorkerThread(u) PROVE TypeOK'
  BY <1>0, <1>2 DEF StartWorkerThread
<1>3. ASSUME NEW u \in Users, AsyncConnectStopped(u) PROVE TypeOK'
  BY <1>0, <1>3 DEF AsyncConnectStopped
<1>4. ASSUME NEW u \in Users, StopBegins(u) PROVE TypeOK'
  <2>1. queue' \in Seq(Requests \cup {"stop"})
    BY <1>0, <1>4, PushProps DEF StopBegins
  <2> QED BY <1>0, <1>4, <2>1 DEF StopBegins
<1>5. ASSUME NEW u \in Users, StopEnds(u) PROVE TypeOK'
  BY <1>0, <1>5 DEF StopEnds
<1>6. ASSUME NEW f \in Fds, UserCloses(f) PROVE TypeOK'
  BY <1>0, <1>6 DEF UserCloses
<1>7. ASSUME NEW f \in Fds, NEW how \in {"connected", "refused"}, Answer(f, how) PROVE TypeOK'
  BY <1>0, <1>7 DEF Answer
<1>8. CASE CallbackDrops
  BY <1>0, <1>8 DEF CallbackDrops
<1>9. ASSUME NEW r \in Requests, CallbackAsks(r) PROVE TypeOK'
  BY <1>0, <1>9, CbType DEF CallbackAsks
<1>p. ASSUME NEW r \in Requests, called[r] = 0,
             Connecting(r) \/ ConnectedAtOnce(r) \/ FailedAtOnce(r)
      PROVE  /\ (mConnectingInfos \in [Fds -> Requests \cup {None}])'
             /\ (mFDSet \subseteq Fds)' /\ (owned \subseteq Fds)'
             /\ (socket \in [Fds -> {"closed", "connecting", "connected", "refused"}])'
             /\ (called \in [Requests -> 0..1])'
  <2>1. called' \in [Requests -> 0..1]
    BY <1>0, <1>p, CallProps DEF Connecting, ConnectedAtOnce, FailedAtOnce
  <2>2. CASE Connecting(r)
    BY <1>0, <2>1, <2>2, NewFdIsFree DEF Connecting
  <2>3. CASE ConnectedAtOnce(r)
    BY <1>0, <2>1, <2>3, NewFdIsFree DEF ConnectedAtOnce
  <2>4. CASE FailedAtOnce(r)
    BY <1>0, <2>1, <2>4 DEF FailedAtOnce
  <2> QED BY <1>p, <2>2, <2>3, <2>4
<1>10. CASE RunConnect
  <2>1. Head(queue) \in Requests /\ called[Head(queue)] = 0
    BY <1>10, HeadIsNew DEF RunConnect
  <2>2. queue' \in Seq(Requests \cup {"stop"})
    BY <1>0, <1>10, PopProps DEF RunConnect
  <2>3. Connecting(Head(queue)) \/ ConnectedAtOnce(Head(queue)) \/ FailedAtOnce(Head(queue))
    BY <1>10 DEF RunConnect
  <2>4. wpc' \in {wpc, "Callback"}
    BY <1>10 DEF RunConnect
  <2> QED BY <1>0, <1>p, <1>10, <2>1, <2>2, <2>3, <2>4 DEF RunConnect
<1>11. CASE RunStop
  <2>1. queue' \in Seq(Requests \cup {"stop"})
    BY <1>0, <1>11, PopProps DEF RunStop
  <2> QED BY <1>0, <1>11, <2>1 DEF RunStop
<1>12. CASE Poll
  BY <1>0, <1>12 DEF Poll
<1>13. CASE CheckUnknown \/ CheckDone
  BY <1>0, <1>13 DEF CheckUnknown, CheckDone
<1>14. CASE CheckCallback
  <2>1. Min(todo) \in Fds /\ mConnectingInfos[Min(todo)] # None
    BY <1>0, <1>14, NextTodo DEF CheckCallback
  <2>2. called' \in [Requests -> 0..1]
    BY <1>0, <1>14, <2>1, EntryIsNew, OutsideCallback, CallProps DEF CheckCallback
  <2>3. cb' \in [fd : Fds \cup {None}, req : Requests \cup {None},
                 ret : {"Procs", "Check", "Timeout", "CauseAllFailed"}]
    BY <1>c, <1>14, <2>1 DEF CheckCallback
  <2>4. (owned \subseteq Fds /\ mFDSet \subseteq Fds)'
    BY <1>0, <1>14, <2>1 DEF CheckCallback
  <2> QED BY <1>0, <1>14, <2>2, <2>3, <2>4 DEF CheckCallback
<1>f. ASSUME NEW f \in Fds, mConnectingInfos[f] # None, wpc # "Callback", Fail(f)
      PROVE  /\ (mConnectingInfos \in [Fds -> Requests \cup {None}])'
             /\ (mFDSet \subseteq Fds)'
             /\ (socket \in [Fds -> {"closed", "connecting", "connected", "refused"}])'
             /\ (called \in [Requests -> 0..1])'
  <2>1. called' \in [Requests -> 0..1]
    BY <1>0, <1>f, EntryIsNew, OutsideCallback, CallProps DEF Fail
  <2> QED BY <1>0, <1>f, <2>1 DEF Fail
<1>15. ASSUME NEW f \in Fds, TimeoutOne(f) PROVE TypeOK'
  <2>1. mConnectingInfos[f] # None /\ wpc # "Callback" /\ Fail(f)
    BY <1>15 DEF TimeoutOne, Entries
  <2>2. todo' \subseteq Fds
    BY <1>15 DEF TimeoutOne
  <2>3. cb' \in [fd : Fds \cup {None}, req : Requests \cup {None},
                 ret : {"Procs", "Check", "Timeout", "CauseAllFailed"}]
    BY <1>c, <1>15 DEF TimeoutOne
  <2> QED BY <1>0, <1>f, <1>15, <2>1, <2>2, <2>3 DEF TimeoutOne
<1>16. CASE TimeoutDone
  BY <1>0, <1>16 DEF TimeoutDone, Entries
<1>17. CASE CauseAllFailed
  <2>1. Min(todo) \in Fds /\ mConnectingInfos[Min(todo)] # None /\ wpc # "Callback" /\ Fail(Min(todo))
    BY <1>0, <1>17, NextTodo DEF CauseAllFailed, ConnInv, WorkerInv, Failing, Entries
  <2>3. cb' \in [fd : Fds \cup {None}, req : Requests \cup {None},
                 ret : {"Procs", "Check", "Timeout", "CauseAllFailed"}]
    BY <1>c, <1>17 DEF CauseAllFailed
  <2> QED BY <1>0, <1>f, <1>17, <2>1, <2>3 DEF CauseAllFailed
<1>18. CASE WorkerExits
  BY <1>0, <1>18 DEF WorkerExits
<1>19. CASE CallbackConnects \/ NestedConnects
  <2>1. cb.req \in Requests /\ called[cb.req] = 0
    BY <1>19, AskedIsNew DEF CallbackConnects, NestedConnects, InlineConnect
  <2>2. Connecting(cb.req) \/ ConnectedAtOnce(cb.req) \/ FailedAtOnce(cb.req)
    BY <1>19 DEF CallbackConnects, NestedConnects, InlineConnect
  <2>3. cb' \in [fd : Fds \cup {None}, req : Requests \cup {None},
                 ret : {"Procs", "Check", "Timeout", "CauseAllFailed"}]
    BY <1>0, <1>19, CbType DEF CallbackConnects, NestedConnects, InlineConnect
  <2> QED BY <1>0, <1>p, <1>19, <2>1, <2>2, <2>3 DEF CallbackConnects, NestedConnects, InlineConnect
<1>20. CASE CallbackReturns
  <2>1. wpc' \in {"Procs", "Check", "Timeout", "CauseAllFailed"}
    BY <1>0, <1>20, CbType DEF CallbackReturns
  <2>2. (mConnectingInfos \in [Fds -> Requests \cup {None}])'
    BY <1>0, <1>20 DEF CallbackReturns
  <2>3. (socket \in [Fds -> {"closed", "connecting", "connected", "refused"}])'
    BY <1>0, <1>20 DEF CallbackReturns
  <2>4. cb' \in [fd : Fds \cup {None}, req : Requests \cup {None},
                 ret : {"Procs", "Check", "Timeout", "CauseAllFailed"}]
    BY <1>c, <1>20 DEF CallbackReturns
  <2> QED BY <1>0, <1>20, <2>1, <2>2, <2>3, <2>4 DEF CallbackReturns
<1>21. CASE UNCHANGED vars
  BY <1>0, <1>21 DEF vars
<1>22. ASSUME NEW u \in Users, StopCalled(u) \/ StopNothing(u) PROVE TypeOK'
  BY <1>0, <1>22 DEF StopCalled, StopNothing
<1>23. CASE NestedReturns
  BY <1>0, <1>23 DEF NestedReturns
<1> QED BY <1>1, <1>2, <1>3, <1>4, <1>5, <1>6, <1>7, <1>8, <1>9, <1>10, <1>11, <1>12, <1>13,
           <1>14, <1>15, <1>16, <1>17, <1>18, <1>19, <1>20, <1>21, <1>22, <1>23 DEF Next, Worker

(***************************************************************************)
(* A request is in one place at a time.                                    *)
(***************************************************************************)

\* Every step keeps PlaceInv.
LEMMA PlaceStep == ConnInv /\ [Next]_vars => PlaceInv'
<1> SUFFICES ASSUME ConnInv, [Next]_vars PROVE PlaceInv'
  OBVIOUS
<1> USE DEF user, worker, table, kernel
<1>0. /\ TypeOK /\ TypeOK' /\ None \notin Fds /\ None \notin Requests /\ "stop" \notin Requests
      /\ PlaceInv /\ asked \subseteq Requests
      /\ queue \in Seq(Requests \cup {"stop"}) /\ Len(queue) \in Nat
      /\ mConnectingInfos \in [Fds -> Requests \cup {None}]
      /\ called \in [Requests -> 0..1]
  BY TypeStep, FdsAreNumbers, ConnectorAssumption DEF ConnInv, TypeOK
<1>s. ASSUME UNCHANGED <<queue, mConnectingInfos, cb, called, asked>> PROVE PlaceInv'
  BY <1>0, <1>s DEF PlaceInv, InQueue, InMap
<1>1. ASSUME NEW u \in Users, NEW r \in Requests, AsyncConnect(u, r) PROVE PlaceInv'
  <2>1. /\ r \notin asked /\ asked' = asked \cup {r} /\ queue' = Append(queue, r)
        /\ mConnectingInfos' = mConnectingInfos /\ cb' = cb /\ called' = called
    BY <1>1 DEF AsyncConnect
  <2>2. called[r] = 0 /\ ~InQueue(r) /\ ~InMap(r) /\ cb.req # r
    BY <1>0, <2>1 DEF PlaceInv
  <2>3. /\ Len(queue') = Len(queue) + 1 /\ queue'[Len(queue) + 1] = r
        /\ \A i \in 1..Len(queue) : queue'[i] = queue[i] /\ i \in 1..Len(queue')
        /\ \A i \in 1..Len(queue') : i \in 1..Len(queue) \/ i = Len(queue) + 1
    BY <1>0, <2>1, PushProps
  <2>4. \A q : InMap(q)' <=> InMap(q)
    BY <2>1 DEF InMap
  <2>5. \A q : InQueue(q)' <=> InQueue(q) \/ q = r
    BY <1>0, <2>3 DEF InQueue
  <2>6. \A q \in Requests : q \notin asked' =>
           called'[q] = 0 /\ ~InQueue(q)' /\ ~InMap(q)' /\ cb'.req # q
    BY <1>0, <2>1, <2>4, <2>5 DEF PlaceInv
  <2>7. \A i \in 1..Len(queue') : queue'[i] # "stop" =>
           called'[queue'[i]] = 0 /\ ~InMap(queue[i])' /\ cb'.req # queue'[i]
    BY <1>0, <2>1, <2>2, <2>3, <2>4 DEF PlaceInv
  <2>8. \A i, j \in 1..Len(queue') : queue'[i] # "stop" /\ queue'[i] = queue'[j] => i = j
    BY <1>0, <2>2, <2>3 DEF PlaceInv, InQueue
  <2> QED BY <1>0, <2>1, <2>6, <2>7, <2>8 DEF PlaceInv
<1>2. ASSUME NEW u \in Users, StartWorkerThread(u) PROVE PlaceInv'
  <2>1. cb = NoCb /\ cb.req = None /\ cb' = cb
    BY <1>2, OutsideCallback DEF StartWorkerThread
  <2> QED BY <1>0, <1>2, <2>1 DEF StartWorkerThread, PlaceInv, InQueue, InMap
<1>3. ASSUME NEW u \in Users, StopBegins(u) PROVE PlaceInv'
  <2>1. /\ queue' = Append(queue, "stop") /\ asked' = asked
        /\ mConnectingInfos' = mConnectingInfos /\ cb' = cb /\ called' = called
    BY <1>3 DEF StopBegins
  <2>2. /\ Len(queue') = Len(queue) + 1 /\ queue'[Len(queue) + 1] = "stop"
        /\ \A i \in 1..Len(queue) : queue'[i] = queue[i] /\ i \in 1..Len(queue')
        /\ \A i \in 1..Len(queue') : i \in 1..Len(queue) \/ i = Len(queue) + 1
    BY <1>0, <2>1, PushProps
  <2>3. \A q : InMap(q)' <=> InMap(q)
    BY <2>1 DEF InMap
  <2>4. \A q \in Requests : InQueue(q)' <=> InQueue(q)
    BY <1>0, <2>2 DEF InQueue
  <2>5. \A i \in 1..Len(queue') : queue'[i] # "stop" => i \in 1..Len(queue) /\ queue'[i] = queue[i]
    BY <2>2
  <2> QED BY <1>0, <2>1, <2>3, <2>4, <2>5 DEF PlaceInv
\* After a request or a stop was taken from the queue.
<1>q. ASSUME queue # <<>>, queue' = Tail(queue)
      PROVE  /\ \A i \in 1..Len(queue') : /\ i + 1 \in 1..Len(queue) /\ queue'[i] = queue[i + 1]
                                          /\ i \in Int
             /\ \A q : InQueue(q)' => InQueue(q)
             /\ \A i, j \in 1..Len(queue') : queue'[i] # "stop" /\ queue'[i] = queue'[j] => i = j
  <2>1. \A i \in 1..Len(queue') : /\ i + 1 \in 1..Len(queue) /\ queue'[i] = queue[i + 1] /\ i \in Int
    BY <1>0, <1>q, PopProps
  <2>2. \A q : InQueue(q)' => InQueue(q)
    BY <2>1 DEF InQueue
  <2>3. ASSUME NEW i \in 1..Len(queue'), NEW j \in 1..Len(queue'),
               queue'[i] # "stop", queue'[i] = queue'[j]
        PROVE  i = j
    <3>1. i + 1 = j + 1
      BY <1>0, <2>1, <2>3 DEF PlaceInv
    <3> QED BY <2>1, <3>1
  <2> QED BY <2>1, <2>2, <2>3
<1>4. CASE RunStop
  <2>1. /\ queue # <<>> /\ queue' = Tail(queue) /\ asked' = asked
        /\ mConnectingInfos' = mConnectingInfos /\ cb' = cb /\ called' = called
    BY <1>4 DEF RunStop
  <2>2. \A q : InMap(q)' <=> InMap(q)
    BY <2>1 DEF InMap
  <2> QED BY <1>0, <1>q, <2>1, <2>2 DEF PlaceInv
<1>5. ASSUME NEW r \in Requests, CallbackAsks(r) PROVE PlaceInv'
  <2>1. /\ r \notin asked /\ asked' = asked \cup {r} /\ queue' = queue
        /\ mConnectingInfos' = mConnectingInfos /\ called' = called
        /\ cb'.req = r /\ cb'.fd = cb.fd /\ cb.req = None
    BY <1>0, <1>5, CbType DEF CallbackAsks
  <2>2. called[r] = 0 /\ ~InQueue(r) /\ ~InMap(r)
    BY <1>0, <2>1 DEF PlaceInv
  <2>3. \A q : (InMap(q)' <=> InMap(q)) /\ (InQueue(q)' <=> InQueue(q))
    BY <2>1 DEF InMap, InQueue
  <2>4. \A q \in Requests : q \notin asked' =>
           called'[q] = 0 /\ ~InQueue(q)' /\ ~InMap(q)' /\ cb'.req # q
    BY <1>0, <2>1, <2>3 DEF PlaceInv
  <2>5. \A i \in 1..Len(queue') : queue'[i] # "stop" =>
           called'[queue'[i]] = 0 /\ ~InMap(queue[i])' /\ cb'.req # queue'[i]
    BY <1>0, <2>1, <2>2, <2>3 DEF PlaceInv, InQueue
  <2>6. \A f \in Fds : mConnectingInfos'[f] # None =>
           /\ cb'.req # mConnectingInfos'[f]
           /\ f # cb'.fd => called'[mConnectingInfos'[f]] = 0
    BY <1>0, <2>1, <2>2 DEF PlaceInv, InMap
  <2> QED BY <1>0, <2>1, <2>2, <2>4, <2>5, <2>6 DEF PlaceInv
\* A request r that was with a callback or at the head of the queue is processed.
<1>p. ASSUME NEW r \in Requests, r \in asked, called[r] = 0, ~InMap(r),
             asked' = asked, cb'.req = None, cb'.fd = cb.fd,
             \A q : InQueue(q)' => InQueue(q) /\ q # r,
             \A i, j \in 1..Len(queue') : queue'[i] # "stop" /\ queue'[i] = queue'[j] => i = j,
             Connecting(r) \/ ConnectedAtOnce(r) \/ FailedAtOnce(r)
      PROVE  PlaceInv'
  <2>0. queue' \in Seq(Requests \cup {"stop"})
    BY <1>0 DEF TypeOK
  <2>i. \A i \in 1..Len(queue') : queue'[i] # "stop" => InQueue(queue[i])' /\ queue'[i] \in Requests
    BY <2>0 DEF InQueue
  <2>j. \A q \in Requests : InQueue(q) => called[q] = 0 /\ ~InMap(q)
    BY <1>0 DEF InQueue, PlaceInv
  <2>1. CASE Connecting(r)
    <3> DEFINE n == NewFd
    <3>1. n \in Fds
      BY <2>1, NewFdIsFree DEF Connecting
    <3>2. mConnectingInfos' = [mConnectingInfos EXCEPT ![n] = r] /\ called' = called
      BY <2>1 DEF Connecting
    <3> HIDE DEF n
    <3>3. \A f \in Fds : mConnectingInfos'[f] = IF f = n THEN r ELSE mConnectingInfos[f]
      BY <1>0, <3>1, <3>2
    <3>4. \A q : InMap(q)' => InMap(q) \/ q = r
      BY <3>3 DEF InMap
    <3>5. \A q \in Requests : q \notin asked' =>
             called'[q] = 0 /\ ~InQueue(q)' /\ ~InMap(q)' /\ cb'.req # q
      BY <1>0, <1>p, <3>2, <3>4 DEF PlaceInv
    <3>6. \A i \in 1..Len(queue') : queue'[i] # "stop" =>
             called'[queue'[i]] = 0 /\ ~InMap(queue[i])' /\ cb'.req # queue'[i]
      BY <1>0, <1>p, <2>i, <2>j, <3>2, <3>4
    <3>7. \A f \in Fds : mConnectingInfos'[f] # None =>
             /\ cb'.req # mConnectingInfos'[f]
             /\ f # cb'.fd => called'[mConnectingInfos'[f]] = 0
      BY <1>0, <1>p, <3>2, <3>3 DEF PlaceInv
    <3>8. \A f, g \in Fds :
             mConnectingInfos'[f] # None /\ mConnectingInfos'[f] = mConnectingInfos'[g] => f = g
      BY <1>0, <1>p, <3>3 DEF PlaceInv, InMap
    <3> QED BY <1>p, <3>5, <3>6, <3>7, <3>8 DEF PlaceInv
  <2>2. CASE ConnectedAtOnce(r) \/ FailedAtOnce(r)
    <3>1. mConnectingInfos' = mConnectingInfos /\ called' = [called EXCEPT ![r] = @ + 1]
      BY <2>2 DEF ConnectedAtOnce, FailedAtOnce
    <3>2. \A q \in Requests : q # r => called'[q] = called[q]
      BY <1>0, <1>p, <3>1, CallProps
    <3>3. \A q : InMap(q)' <=> InMap(q)
      BY <3>1 DEF InMap
    <3>5. \A q \in Requests : q \notin asked' =>
             called'[q] = 0 /\ ~InQueue(q)' /\ ~InMap(q)' /\ cb'.req # q
      BY <1>0, <1>p, <3>2, <3>3 DEF PlaceInv
    <3>6. \A i \in 1..Len(queue') : queue'[i] # "stop" =>
             called'[queue'[i]] = 0 /\ ~InMap(queue[i])' /\ cb'.req # queue'[i]
      BY <1>0, <1>p, <2>i, <2>j, <3>2, <3>3
    <3>7. \A f \in Fds : mConnectingInfos'[f] # None =>
             /\ cb'.req # mConnectingInfos'[f]
             /\ f # cb'.fd => called'[mConnectingInfos'[f]] = 0
      BY <1>0, <1>p, <3>1, <3>2 DEF PlaceInv, InMap
    <3> QED BY <1>0, <1>p, <3>1, <3>5, <3>6, <3>7 DEF PlaceInv
  <2> QED BY <1>p, <2>1, <2>2
<1>6. CASE RunConnect
  <2>1. /\ wpc = "Procs" /\ queue # <<>> /\ Head(queue) # "stop" /\ queue' = Tail(queue)
        /\ asked' = asked /\ cb' = cb
        /\ Connecting(Head(queue)) \/ ConnectedAtOnce(Head(queue)) \/ FailedAtOnce(Head(queue))
    BY <1>6 DEF RunConnect
  <2>2. /\ Head(queue) \in Requests /\ Head(queue) \in asked
        /\ called[Head(queue)] = 0 /\ ~InMap(Head(queue))
        /\ \A i \in 1..Len(queue') : queue'[i] # Head(queue)
    BY <2>1, HeadIsNew
  <2>3. \A q : InQueue(q)' => InQueue(q) /\ q # Head(queue)
    BY <1>q, <2>1, <2>2 DEF InQueue
  <2>4. \A i, j \in 1..Len(queue') : queue'[i] # "stop" /\ queue'[i] = queue'[j] => i = j
    BY <1>q, <2>1
  <2>5. cb'.req = None /\ cb'.fd = cb.fd
    BY <2>1, OutsideCallback
  <2> QED BY <1>p, <2>1, <2>2, <2>3, <2>4, <2>5
<1>7. CASE CallbackConnects \/ NestedConnects
  <2>1. /\ cb.req # None /\ asked' = asked /\ queue' = queue
        /\ cb'.req = None /\ cb'.fd = cb.fd
        /\ Connecting(cb.req) \/ ConnectedAtOnce(cb.req) \/ FailedAtOnce(cb.req)
    BY <1>0, <1>7, CbType DEF CallbackConnects, NestedConnects, InlineConnect
  <2>2. cb.req \in Requests /\ cb.req \in asked /\ called[cb.req] = 0 /\ ~InMap(cb.req) /\ ~InQueue(cb.req)
    BY <2>1, AskedIsNew
  <2>3. \A q : InQueue(q)' => InQueue(q) /\ q # cb.req
    BY <2>1, <2>2 DEF InQueue
  <2>4. \A i, j \in 1..Len(queue') : queue'[i] # "stop" /\ queue'[i] = queue'[j] => i = j
    BY <1>0, <2>1 DEF PlaceInv
  <2> QED BY <1>p, <2>1, <2>2, <2>3, <2>4
\* The callback of an entry runs, which is gone or belongs to the callback.
<1>c. ASSUME NEW f \in Fds, mConnectingInfos[f] # None, wpc # "Callback",
             UNCHANGED <<queue, asked>>, cb'.req = None,
             called' = [called EXCEPT ![mConnectingInfos[f]] = @ + 1],
             \/ mConnectingInfos' = mConnectingInfos /\ cb'.fd = f
             \/ mConnectingInfos' = [mConnectingInfos EXCEPT ![f] = None]
      PROVE  PlaceInv'
  <2> DEFINE r == mConnectingInfos[f]
  <2>1. /\ r \in Requests /\ r \in asked /\ ~InQueue(r) /\ called[r] = 0
        /\ \A g \in Fds : g # f => mConnectingInfos[g] # r
    BY <1>0, <1>c, EntryIsNew, OutsideCallback
  <2>2. called' = [called EXCEPT ![r] = @ + 1]
    BY <1>c
  <2> HIDE DEF r
  <2>3. \A q \in Requests : q # r => called'[q] = called[q]
    BY <1>0, <2>1, <2>2, CallProps
  <2>4. \A g \in Fds : /\ mConnectingInfos'[g] # None => mConnectingInfos'[g] = mConnectingInfos[g]
                       /\ g = f => cb'.fd = f \/ mConnectingInfos'[g] = None
    BY <1>0, <1>c
  <2>5. \A g \in Fds : cb.fd # g
    BY <1>0, <1>c, OutsideCallback
  <2>6. \A q : /\ InQueue(q)' <=> InQueue(q)
               /\ q # None => (InMap(q)' => InMap(q))
    BY <1>c, <2>4 DEF InQueue, InMap
  <2>7. \A q \in Requests : q \notin asked' =>
           called'[q] = 0 /\ ~InQueue(q)' /\ ~InMap(q)' /\ cb'.req # q
    BY <1>0, <1>c, <2>1, <2>3, <2>6 DEF PlaceInv
  <2>8. \A i \in 1..Len(queue) : queue[i] # "stop" =>
           /\ called[queue[i]] = 0 /\ ~InMap(queue[i]) /\ queue[i] # r /\ queue[i] \in Requests
    BY <1>0, <2>1 DEF PlaceInv, InQueue
  <2>9. \A i \in 1..Len(queue') : queue'[i] # "stop" =>
           called'[queue'[i]] = 0 /\ ~InMap(queue[i])' /\ cb'.req # queue'[i]
    BY <1>0, <1>c, <2>3, <2>6, <2>8
  <2>10. \A g \in Fds : mConnectingInfos'[g] # None =>
           /\ cb'.req # mConnectingInfos'[g]
           /\ g # cb'.fd => called'[mConnectingInfos'[g]] = 0
    BY <1>0, <1>c, <2>1, <2>3, <2>4, <2>5 DEF PlaceInv
  <2> QED BY <1>0, <1>c, <2>4, <2>7, <2>9, <2>10 DEF PlaceInv
<1>8. CASE CheckCallback
  <2>1. Min(todo) \in Fds
    BY <1>0, <1>8, NextTodo DEF CheckCallback
  <2>2. cb'.req = None /\ cb'.fd = Min(todo)
    BY <1>8, NewCbFields DEF CheckCallback
  <2> QED BY <1>c, <1>8, <2>1, <2>2 DEF CheckCallback
<1>9. ASSUME NEW f \in Fds, TimeoutOne(f) PROVE PlaceInv'
  <2>1. cb'.req = None
    BY <1>9, NewCbFields DEF TimeoutOne
  <2> QED BY <1>c, <1>9, <2>1 DEF TimeoutOne, Fail, Entries
<1>10. CASE CauseAllFailed
  <2>1. Min(todo) \in Fds /\ mConnectingInfos[Min(todo)] # None
    BY <1>0, <1>10, NextTodo DEF CauseAllFailed, ConnInv, WorkerInv, Failing, Entries
  <2>2. cb'.req = None
    BY <1>10, NewCbFields DEF CauseAllFailed
  <2> QED BY <1>c, <1>10, <2>1, <2>2 DEF CauseAllFailed, Fail
<1>11. CASE CallbackReturns
  <2>1. /\ UNCHANGED <<queue, asked, called>> /\ cb.req = None /\ cb'.req = None /\ cb'.fd = None
        /\ \A f \in Fds : mConnectingInfos'[f] = IF f = cb.fd THEN None ELSE mConnectingInfos[f]
    BY <1>11, NoCbFields DEF CallbackReturns
  <2>2. \A q : /\ InQueue(q)' <=> InQueue(q)
               /\ q # None => (InMap(q)' => InMap(q))
    BY <2>1 DEF InQueue, InMap
  <2>3. \A q \in Requests : q \notin asked' =>
           called'[q] = 0 /\ ~InQueue(q)' /\ ~InMap(q)' /\ cb'.req # q
    BY <1>0, <2>1, <2>2 DEF PlaceInv
  <2>4. \A i \in 1..Len(queue') : queue'[i] # "stop" =>
           called'[queue'[i]] = 0 /\ ~InMap(queue[i])' /\ cb'.req # queue'[i]
    BY <1>0, <2>1, <2>2 DEF PlaceInv
  <2>5. \A g \in Fds : mConnectingInfos'[g] # None =>
           /\ cb'.req # mConnectingInfos'[g]
           /\ g # cb'.fd => called'[mConnectingInfos'[g]] = 0
    BY <1>0, <2>1 DEF PlaceInv
  <2> QED BY <1>0, <2>1, <2>3, <2>4, <2>5 DEF PlaceInv
<1>12. ASSUME NEW u \in Users,
              AsyncConnectStopped(u) \/ StopCalled(u) \/ StopNothing(u) \/ StopEnds(u)
       PROVE PlaceInv'
  BY <1>s, <1>12 DEF AsyncConnectStopped, StopCalled, StopNothing, StopEnds
<1>13. ASSUME NEW f \in Fds, UserCloses(f) PROVE PlaceInv'
  BY <1>s, <1>13 DEF UserCloses
<1>14. ASSUME NEW f \in Fds, NEW how \in {"connected", "refused"}, Answer(f, how) PROVE PlaceInv'
  BY <1>s, <1>14 DEF Answer
<1>15. CASE CallbackDrops \/ Poll \/ CheckUnknown \/ CheckDone \/ TimeoutDone \/ WorkerExits
  BY <1>s, <1>15 DEF CallbackDrops, Poll, CheckUnknown, CheckDone, TimeoutDone, WorkerExits
<1>16. CASE NestedReturns \/ UNCHANGED vars
  BY <1>s, <1>16 DEF vars, NestedReturns
<1> QED BY <1>1, <1>2, <1>3, <1>4, <1>5, <1>6, <1>7, <1>8, <1>9, <1>10, <1>11, <1>12, <1>13,
           <1>14, <1>15, <1>16 DEF Next, Worker

(***************************************************************************)
(* Whose a descriptor is.                                                  *)
(***************************************************************************)

\* A number that socket() returns is not polled and not owned, and if the map
\* has an entry for it then the callback of that entry runs and has let go of
\* the socket.
LEMMA NewFdIsNobodys ==
    ASSUME ConnInv, FreeFds # {}
    PROVE  /\ NewFd \in Fds /\ socket[NewFd] = "closed" /\ NewFd \notin mFDSet /\ NewFd \notin owned
           /\ mConnectingInfos[NewFd] # None => NewFd = cb.fd
           /\ NewFd = cb.fd => cb.fd \in success
<1>1. NewFd \in Fds /\ socket[NewFd] = "closed"
  BY NewFdIsFree
<1> DEFINE n == NewFd
<1> HIDE DEF n
<1>2. n \in Fds /\ socket[n] = "closed"
  BY <1>1 DEF n
<1>3. n \notin mFDSet /\ n \notin owned
  BY <1>2 DEF ConnInv, PollInv, PolledIsOurs
<1>4. /\ mConnectingInfos[n] # None => n = cb.fd
      /\ n = cb.fd => cb.fd \in success
  BY <1>2, <1>3, FdsAreNumbers DEF ConnInv, PollInv
<1> QED BY <1>2, <1>3, <1>4 DEF n

\* Every step keeps PollInv.
LEMMA PollStep == ConnInv /\ [Next]_vars => PollInv'
<1> SUFFICES ASSUME ConnInv, [Next]_vars PROVE PollInv'
  OBVIOUS
<1> USE DEF user, worker, table, kernel
<1>0. /\ TypeOK /\ TypeOK' /\ None \notin Fds /\ PollInv
      /\ socket \in [Fds -> {"closed", "connecting", "connected", "refused"}]
      /\ mConnectingInfos \in [Fds -> Requests \cup {None}]
      /\ mFDSet \subseteq Fds /\ owned \subseteq Fds /\ todo \subseteq Fds
  BY TypeStep, FdsAreNumbers, ConnectorAssumption DEF ConnInv, TypeOK
<1>s. ASSUME UNCHANGED <<mFDSet, socket, owned, mConnectingInfos, success>>, cb'.fd = cb.fd,
             Checking' => Checking /\ todo' = todo
      PROVE  PollInv'
  BY <1>0, <1>s DEF PollInv, PolledIsOurs
<1>1. ASSUME NEW u \in Users, NEW r \in Requests, AsyncConnect(u, r) PROVE PollInv'
  BY <1>s, <1>1 DEF AsyncConnect, Checking
<1>2. ASSUME NEW u \in Users, StartWorkerThread(u) PROVE PollInv'
  <2>1. cb' = NoCb /\ cb'.fd = None /\ ~Checking'
    BY <1>2, OutsideCallback DEF StartWorkerThread, Checking
  <2> QED BY <1>0, <1>2, <2>1 DEF StartWorkerThread, PollInv, PolledIsOurs
<1>3. ASSUME NEW u \in Users, \/ AsyncConnectStopped(u) \/ StopCalled(u) \/ StopNothing(u)
                               \/ StopBegins(u) \/ StopEnds(u)
      PROVE PollInv'
  BY <1>s, <1>3 DEF AsyncConnectStopped, StopCalled, StopNothing, StopBegins, StopEnds, Checking
<1>4. ASSUME NEW f \in Fds, UserCloses(f) PROVE PollInv'
  <2>1. /\ f \in owned /\ cb.fd # f /\ owned' = owned \ {f}
        /\ socket' = [socket EXCEPT ![f] = "closed"]
        /\ UNCHANGED <<mFDSet, mConnectingInfos, success, cb, wpc, todo>>
    BY <1>4 DEF UserCloses
  <2>2. \A g \in Fds : g # f => socket'[g] = socket[g]
    BY <1>0, <2>1
  <2> QED BY <1>0, <2>1, <2>2 DEF PollInv, PolledIsOurs, Checking
<1>5. ASSUME NEW f \in Fds, NEW how \in {"connected", "refused"}, Answer(f, how) PROVE PollInv'
  <2>1. /\ socket' = [socket EXCEPT ![f] = how] /\ how # "closed"
        /\ UNCHANGED <<mFDSet, owned, mConnectingInfos, success, cb, wpc, todo>>
    BY <1>5 DEF Answer
  <2>2. \A g \in Fds : socket[g] # "closed" => socket'[g] # "closed"
    BY <1>0, <2>1
  <2> QED BY <1>0, <2>1, <2>2 DEF PollInv, PolledIsOurs, Checking
<1>6. CASE CallbackDrops
  <2>1. /\ cb.fd \in owned /\ owned' = owned \ {cb.fd}
        /\ socket' = [socket EXCEPT ![cb.fd] = "closed"]
        /\ UNCHANGED <<mFDSet, mConnectingInfos, success, cb, wpc, todo>>
    BY <1>6 DEF CallbackDrops
  <2>2. \A g \in Fds : g # cb.fd => socket'[g] = socket[g]
    BY <1>0, <2>1
  <2> QED BY <1>0, <2>1, <2>2 DEF PollInv, PolledIsOurs, Checking
<1>7. ASSUME NEW r \in Requests, CallbackAsks(r) PROVE PollInv'
  <2>1. cb'.fd = cb.fd /\ cb'.ret = cb.ret
    BY <1>0, <1>7, CbType DEF CallbackAsks
  <2> QED BY <1>s, <1>7, <2>1 DEF CallbackAsks, Checking
\* A request is processed.
<1>p. ASSUME NEW r, Connecting(r) \/ ConnectedAtOnce(r) \/ FailedAtOnce(r),
             cb'.fd = cb.fd, success' = success, Checking' => Checking /\ todo' = todo
      PROVE  PollInv'
  <2> DEFINE n == NewFd
  <2>0. FreeFds # {} =>
           /\ n \in Fds /\ socket[n] = "closed" /\ n \notin mFDSet /\ n \notin owned
           /\ mConnectingInfos[n] # None => n = cb.fd
           /\ n = cb.fd => cb.fd \in success
    BY NewFdIsNobodys
  <2>1. CASE Connecting(r)
    <3>1. /\ FreeFds # {} /\ socket' = [socket EXCEPT ![n] = "connecting"]
          /\ mConnectingInfos' = [mConnectingInfos EXCEPT ![n] = r]
          /\ mFDSet' = mFDSet \cup {n} /\ owned' = owned
      BY <2>1 DEF Connecting
    <3> HIDE DEF n
    <3>2. \A g \in Fds : /\ socket'[g] = IF g = n THEN "connecting" ELSE socket[g]
                         /\ g # n => mConnectingInfos'[g] = mConnectingInfos[g]
      BY <1>0, <2>0, <3>1
    <3> QED BY <1>0, <1>p, <2>0, <3>1, <3>2, CbType DEF PollInv, PolledIsOurs
  <2>2. CASE ConnectedAtOnce(r)
    <3>1. /\ FreeFds # {} /\ socket' = [socket EXCEPT ![n] = "connected"]
          /\ mConnectingInfos' = mConnectingInfos
          /\ mFDSet' = mFDSet /\ owned' = owned \cup {n}
      BY <2>2 DEF ConnectedAtOnce
    <3> HIDE DEF n
    <3>2. \A g \in Fds : socket'[g] = IF g = n THEN "connected" ELSE socket[g]
      BY <1>0, <2>0, <3>1
    <3> QED BY <1>0, <1>p, <2>0, <3>1, <3>2, CbType DEF PollInv, PolledIsOurs
  <2>3. CASE FailedAtOnce(r)
    BY <1>s, <1>p, <2>3 DEF FailedAtOnce
  <2> QED BY <1>p, <2>1, <2>2, <2>3
<1>8. CASE RunConnect
  <2>1. cb' = cb /\ cb.ret = "Procs"
    BY <1>8, OutsideCallback, NoCbFields DEF RunConnect
  <2>2. ~Checking'
    BY <1>8, <2>1 DEF RunConnect, Checking
  <2> QED BY <1>p, <1>8, <2>1, <2>2 DEF RunConnect
<1>9. CASE RunStop \/ CheckDone \/ TimeoutDone \/ WorkerExits
  BY <1>s, <1>9 DEF RunStop, CheckDone, TimeoutDone, WorkerExits, Checking
<1>10. CASE Poll
  <2>1. cb' = cb /\ cb'.fd = None
    BY <1>10, OutsideCallback DEF Poll
  <2> QED BY <1>0, <1>10, <2>1 DEF Poll, PollInv, PolledIsOurs
<1>11. CASE CheckUnknown
  <2>1. Min(todo) \in todo /\ Min(todo) \in Fds
    BY <1>0, <1>11, NextTodo DEF CheckUnknown
  <2>2. cb' = cb /\ cb.fd = None /\ Checking
    BY <1>11, OutsideCallback DEF CheckUnknown, Checking
  <2> QED BY <1>0, <1>11, <2>1, <2>2 DEF CheckUnknown, PollInv, PolledIsOurs
<1>12. CASE CheckCallback
  <2> DEFINE f == Min(todo)
  <2>1. f \in todo /\ f \in Fds
    BY <1>0, <1>12, NextTodo DEF CheckCallback
  <2>2. cb.fd = None /\ Checking /\ cb'.fd = f
    BY <1>12, OutsideCallback, NewCbFields DEF CheckCallback, Checking
  <2>3. /\ mFDSet' = mFDSet \ {f} /\ owned' = IF f \in success THEN owned \cup {f} ELSE owned
        /\ UNCHANGED <<todo, success, mConnectingInfos, socket>>
    BY <1>12 DEF CheckCallback
  <2> HIDE DEF f
  <2>4. f \in mFDSet /\ socket[f] # "closed" /\ f \notin owned
    BY <1>0, <2>1, <2>2 DEF PollInv, PolledIsOurs
  <2> QED BY <1>0, <2>1, <2>2, <2>3, <2>4 DEF PollInv, PolledIsOurs
\* A connection is given up.
<1>f. ASSUME NEW f \in Fds, mConnectingInfos[f] # None, wpc # "Callback", Fail(f),
             UNCHANGED owned, cb'.fd = None, ~Checking'
      PROVE  PollInv'
  <2>1. cb.fd = None
    BY <1>f, OutsideCallback
  <2>2. f \in mFDSet /\ f \notin owned
    BY <1>0, <1>f, <2>1 DEF PollInv, PolledIsOurs
  <2>3. /\ mFDSet' = mFDSet \ {f}
        /\ \A g \in Fds : /\ g # f => socket'[g] = socket[g] /\ mConnectingInfos'[g] = mConnectingInfos[g]
                          /\ mConnectingInfos'[f] = None
    BY <1>0, <1>f DEF Fail
  <2> QED BY <1>0, <1>f, <2>1, <2>2, <2>3 DEF PollInv, PolledIsOurs
<1>13. ASSUME NEW f \in Fds, TimeoutOne(f) PROVE PollInv'
  <2>1. cb'.fd = None /\ cb'.ret = "Timeout"
    BY <1>13, NewCbFields DEF TimeoutOne
  <2>2. mConnectingInfos[f] # None /\ wpc # "Callback" /\ Fail(f) /\ owned' = owned /\ ~Checking'
    BY <1>13, <2>1 DEF TimeoutOne, Checking, Entries
  <2> QED BY <1>f, <2>1, <2>2
<1>14. CASE CauseAllFailed
  <2>1. cb'.fd = None /\ cb'.ret = "CauseAllFailed"
    BY <1>14, NewCbFields DEF CauseAllFailed
  <2>2. Min(todo) \in Fds /\ mConnectingInfos[Min(todo)] # None
    BY <1>0, <1>14, NextTodo DEF CauseAllFailed, ConnInv, WorkerInv, Failing, Entries
  <2>3. wpc # "Callback" /\ Fail(Min(todo)) /\ owned' = owned /\ ~Checking'
    BY <1>14, <2>1 DEF CauseAllFailed, Checking
  <2> QED BY <1>f, <2>1, <2>2, <2>3
<1>15. CASE CallbackConnects \/ NestedConnects
  <2>1. cb'.fd = cb.fd /\ cb'.ret = cb.ret
    BY <1>0, <1>15, CbType DEF CallbackConnects, NestedConnects, InlineConnect
  <2>2. /\ Connecting(cb.req) \/ ConnectedAtOnce(cb.req) \/ FailedAtOnce(cb.req)
        /\ success' = success /\ wpc' = wpc /\ todo' = todo
    BY <1>15 DEF CallbackConnects, NestedConnects, InlineConnect
  <2>3. Checking' => Checking /\ todo' = todo
    BY <2>1, <2>2 DEF Checking
  <2> QED BY <1>p, <2>1, <2>2, <2>3
<1>16. CASE CallbackReturns
  <2>1. /\ wpc = "Callback" /\ wpc' = cb.ret /\ todo' = todo \ {cb.fd}
        /\ UNCHANGED <<success, mFDSet, owned>> /\ cb'.fd = None
        /\ \A f \in Fds : /\ mConnectingInfos'[f] = IF f = cb.fd THEN None ELSE mConnectingInfos[f]
                          /\ socket'[f] = IF f = cb.fd /\ f \notin success THEN "closed" ELSE socket[f]
    BY <1>16, NoCbFields DEF CallbackReturns
  <2>2. Checking' => Checking
    BY <1>16, <2>1, NoCbFields DEF CallbackReturns, Checking
  <2> QED BY <1>0, <2>1, <2>2 DEF PollInv, PolledIsOurs
<1>17. CASE NestedReturns \/ UNCHANGED vars
  BY <1>s, <1>17 DEF vars, NestedReturns, Checking
<1> QED BY <1>1, <1>2, <1>3, <1>4, <1>5, <1>6, <1>7, <1>8, <1>9, <1>10, <1>11, <1>12, <1>13,
           <1>14, <1>15, <1>16, <1>17 DEF Next, Worker

(***************************************************************************)
(* Nothing is lost while no entry is overwritten.                          *)
(***************************************************************************)

\* Every step keeps KeptInv.
LEMMA KeptStep == ConnInv /\ [Next]_vars => KeptInv'
<1> SUFFICES ASSUME ConnInv, [Next]_vars, ~overwritten' PROVE KeptInv'
  BY DEF KeptInv
<1> USE DEF user, worker, table, kernel
<1> DEFINE OpenInv == \A f \in Fds : socket[f] # "closed" => f \in owned \/ mConnectingInfos[f] # None
           CbInv   == cb.fd # None =>
                        /\ mConnectingInfos[cb.fd] # None /\ called[mConnectingInfos[cb.fd]] = 1
                        /\ cb.fd \in success /\ socket[cb.fd] # "closed" => cb.fd \in owned
<1>0. /\ TypeOK /\ TypeOK' /\ None \notin Fds /\ None \notin Requests /\ "stop" \notin Requests
      /\ socket \in [Fds -> {"closed", "connecting", "connected", "refused"}]
      /\ mConnectingInfos \in [Fds -> Requests \cup {None}]
      /\ called \in [Requests -> 0..1]
      /\ queue \in Seq(Requests \cup {"stop"}) /\ Len(queue) \in Nat
      /\ mFDSet \subseteq Fds /\ owned \subseteq Fds /\ asked \subseteq Requests
      /\ cb.fd \in Fds \cup {None}
  BY TypeStep, FdsAreNumbers, ConnectorAssumption, CbType DEF ConnInv, TypeOK
<1>k. ~overwritten => OpenInv /\ CbInv /\ NoRequestLost
  BY DEF ConnInv, KeptInv
<1>g. OpenInv' /\ CbInv' /\ NoRequestLost' => KeptInv'
  BY DEF KeptInv
<1>n. NoRequestLost <=> \A q \in asked : \/ called[q] > 0 \/ cb.req = q
                                         \/ wpc # "Exited" /\ (InQueue(q) \/ InMap(q))
  BY DEF NoRequestLost, InQueue, InMap
<1>m. NoRequestLost' <=> \A q \in asked' : \/ called'[q] > 0 \/ cb'.req = q
                                           \/ wpc' # "Exited" /\ (InQueue(q)' \/ InMap(q)')
  BY DEF NoRequestLost, InQueue, InMap
<1>s. ASSUME UNCHANGED <<socket, owned, mConnectingInfos, cb, called, success, asked, overwritten>>,
             wpc' = "Exited" => wpc = "Exited",
             \A q \in Requests : InQueue(q) => InQueue(q)'
      PROVE  KeptInv'
  <2>1. OpenInv' /\ CbInv'
    BY <1>s, <1>k
  <2>2. \A q : InMap(q) => InMap(q)'
    BY <1>s DEF InMap
  <2>3. NoRequestLost'
    BY <1>0, <1>k, <1>n, <1>m, <1>s, <2>2
  <2> QED BY <1>g, <2>1, <2>3
<1>1. ASSUME NEW u \in Users, NEW r \in Requests, AsyncConnect(u, r) PROVE KeptInv'
  <2>1. /\ asked' = asked \cup {r} /\ queue' = Append(queue, r)
        /\ UNCHANGED <<socket, owned, mConnectingInfos, cb, called, success, overwritten, wpc>>
        /\ wpc # "Exited"
    BY <1>1 DEF AsyncConnect, ConnInv, WorkerInv
  <2>2. OpenInv' /\ CbInv'
    BY <1>k, <2>1
  <2>3. \A q : InMap(q) => InMap(q)'
    BY <2>1 DEF InMap
  <2>4. /\ \A i \in 1..Len(queue) : queue'[i] = queue[i] /\ i \in 1..Len(queue')
        /\ Len(queue) + 1 \in 1..Len(queue') /\ queue'[Len(queue) + 1] = r
    BY <1>0, <2>1, PushProps
  <2>5. \A q : InQueue(q) \/ q = r => InQueue(q)'
    BY <2>4 DEF InQueue
  <2>6. NoRequestLost'
    BY <1>0, <1>k, <1>n, <1>m, <2>1, <2>3, <2>5
  <2> QED BY <1>g, <2>2, <2>6
<1>2. ASSUME NEW u \in Users, StartWorkerThread(u) PROVE KeptInv'
  <2>1. /\ wpc = "Exited" /\ UNCHANGED <<socket, owned, cb, called, success, asked, overwritten>>
        /\ mConnectingInfos' = [f \in Fds |-> None]
    BY <1>2 DEF StartWorkerThread
  <2>2. cb.fd = None /\ \A f \in Fds : mConnectingInfos[f] = None
    BY <2>1, OutsideCallback DEF ConnInv, WorkerInv, Entries
  <2>3. OpenInv' /\ CbInv'
    BY <1>k, <2>1, <2>2
  <2>4. NoRequestLost'
    BY <1>0, <1>k, <1>n, <1>m, <2>1
  <2> QED BY <1>g, <2>3, <2>4
<1>3. ASSUME NEW u \in Users,
             AsyncConnectStopped(u) \/ StopCalled(u) \/ StopNothing(u) \/ StopEnds(u)
      PROVE KeptInv'
  BY <1>s, <1>3 DEF AsyncConnectStopped, StopCalled, StopNothing, StopEnds, InQueue
<1>4. ASSUME NEW u \in Users, StopBegins(u) PROVE KeptInv'
  <2>1. queue' = Append(queue, "stop")
    BY <1>4 DEF StopBegins
  <2>2. \A i \in 1..Len(queue) : queue'[i] = queue[i] /\ i \in 1..Len(queue')
    BY <1>0, <2>1, PushProps
  <2>3. \A q : InQueue(q) => InQueue(q)'
    BY <2>2 DEF InQueue
  <2> QED BY <1>s, <1>4, <2>3 DEF StopBegins
<1>v. ASSUME UNCHANGED <<mConnectingInfos, cb, called, asked, queue, wpc>>
      PROVE  NoRequestLost => NoRequestLost'
  BY <1>v DEF NoRequestLost
<1>5. ASSUME NEW f \in Fds, UserCloses(f) PROVE KeptInv'
  <2>1. /\ cb.fd # f /\ owned' = owned \ {f} /\ socket' = [socket EXCEPT ![f] = "closed"]
        /\ UNCHANGED <<mConnectingInfos, cb, called, success, asked, queue, wpc, overwritten>>
    BY <1>5 DEF UserCloses
  <2>2. \A g \in Fds : socket'[g] = IF g = f THEN "closed" ELSE socket[g]
    BY <1>0, <2>1
  <2>3. OpenInv' /\ CbInv'
    BY <1>0, <1>k, <2>1, <2>2
  <2> QED BY <1>g, <1>k, <1>v, <2>1, <2>3
<1>6. ASSUME NEW f \in Fds, NEW how \in {"connected", "refused"}, Answer(f, how) PROVE KeptInv'
  <2>1. /\ socket[f] = "connecting" /\ socket' = [socket EXCEPT ![f] = how]
        /\ UNCHANGED <<owned, mConnectingInfos, cb, called, success, asked, queue, wpc, overwritten>>
    BY <1>6 DEF Answer
  <2>2. \A g \in Fds : socket'[g] # "closed" => socket[g] # "closed"
    BY <1>0, <2>1
  <2>3. OpenInv' /\ CbInv'
    BY <1>0, <1>k, <2>1, <2>2
  <2> QED BY <1>g, <1>k, <1>v, <2>1, <2>3
<1>7. CASE CallbackDrops
  <2>1. /\ cb.fd \in owned /\ owned' = owned \ {cb.fd}
        /\ socket' = [socket EXCEPT ![cb.fd] = "closed"]
        /\ UNCHANGED <<mConnectingInfos, cb, called, success, asked, queue, wpc, overwritten>>
    BY <1>7 DEF CallbackDrops
  <2>2. \A g \in Fds : socket'[g] = IF g = cb.fd THEN "closed" ELSE socket[g]
    BY <1>0, <2>1
  <2>3. OpenInv' /\ CbInv'
    BY <1>0, <1>k, <2>1, <2>2
  <2> QED BY <1>g, <1>k, <1>v, <2>1, <2>3
<1>8. ASSUME NEW r \in Requests, CallbackAsks(r) PROVE KeptInv'
  <2>1. /\ asked' = asked \cup {r} /\ cb'.req = r /\ cb'.fd = cb.fd /\ cb.req = None
        /\ UNCHANGED <<socket, owned, mConnectingInfos, called, success, queue, wpc, overwritten>>
    BY <1>0, <1>8, CbType DEF CallbackAsks
  <2>2. OpenInv' /\ CbInv'
    BY <1>k, <2>1
  <2>3. \A q : (InMap(q) => InMap(q)') /\ (InQueue(q) => InQueue(q)')
    BY <2>1 DEF InMap, InQueue
  <2>4. NoRequestLost'
    BY <1>0, <1>k, <1>n, <1>m, <2>1, <2>3
  <2> QED BY <1>g, <2>2, <2>4
\* A request r is processed, and gets no entry of a callback.
<1>p. ASSUME NEW r \in Requests, called[r] = 0, ~overwritten,
             Connecting(r) \/ ConnectedAtOnce(r) \/ FailedAtOnce(r),
             cb'.fd = cb.fd, success' = success, asked' = asked, wpc' # "Exited",
             cb.fd # None => mConnectingInfos'[cb.fd] = mConnectingInfos[cb.fd],
             ~InMap(r), cb.req \in {r, None},
             \A q \in Requests : InQueue(q) => InQueue(q)' \/ q = r
      PROVE  KeptInv'
  <2> DEFINE n == NewFd
  <2>0. FreeFds # {} => /\ n \in Fds /\ socket[n] = "closed"
                        /\ mConnectingInfos[n] # None => n = cb.fd
    BY NewFdIsNobodys
  <2>1. CASE Connecting(r)
    <3>1. /\ FreeFds # {} /\ socket' = [socket EXCEPT ![n] = "connecting"]
          /\ mConnectingInfos' = [mConnectingInfos EXCEPT ![n] = r]
          /\ owned' = owned /\ called' = called
      BY <2>1 DEF Connecting
    <3> HIDE DEF n
    <3>2. \A g \in Fds : /\ socket'[g] = IF g = n THEN "connecting" ELSE socket[g]
                         /\ mConnectingInfos'[g] = IF g = n THEN r ELSE mConnectingInfos[g]
      BY <1>0, <2>0, <3>1
    <3>3. n # cb.fd
      BY <1>0, <1>p, <2>0, <3>1, <3>2 DEF InMap
    <3>4. OpenInv' /\ CbInv'
      BY <1>0, <1>k, <1>p, <2>0, <3>1, <3>2, <3>3
    <3>5. \A q \in Requests : InMap(q) \/ q = r => InMap(q)'
      BY <1>0, <2>0, <3>1, <3>2, <3>3 DEF InMap
    <3>6. NoRequestLost'
      BY <1>0, <1>k, <1>n, <1>m, <1>p, <3>1, <3>5
    <3> QED BY <1>g, <3>4, <3>6
  <2>2. CASE ConnectedAtOnce(r) \/ FailedAtOnce(r)
    <3>1. mConnectingInfos' = mConnectingInfos /\ called' = [called EXCEPT ![r] = @ + 1]
      BY <2>2 DEF ConnectedAtOnce, FailedAtOnce
    <3>2. called'[r] = 1 /\ \A q \in Requests : q # r => called'[q] = called[q]
      BY <1>0, <1>p, <3>1, CallProps
    <3>3. owned \subseteq owned' /\ \A g \in Fds : socket'[g] = socket[g] \/ g \in owned'
      BY <1>0, <2>0, <2>2 DEF ConnectedAtOnce, FailedAtOnce
    <3>4. OpenInv'
      BY <1>0, <1>k, <1>p, <3>1, <3>3
    <3>5. CbInv'
      BY <1>0, <1>k, <1>p, <3>1, <3>2, <3>3 DEF InMap
    <3>6. \A q : InMap(q) => InMap(q)'
      BY <3>1 DEF InMap
    <3>7. NoRequestLost'
      BY <1>0, <1>k, <1>n, <1>m, <1>p, <3>2, <3>6
    <3> QED BY <1>g, <3>4, <3>5, <3>7
  <2> QED BY <1>p, <2>1, <2>2
\* What is in the queue when its head was taken.
<1>q. ASSUME queue # <<>>, queue' = Tail(queue)
      PROVE  \A q \in Requests : InQueue(q) => InQueue(q)' \/ q = Head(queue)
  BY <1>0, <1>q, PopProps DEF InQueue
<1>9. CASE RunConnect
  <2>1. /\ wpc = "Procs" /\ queue # <<>> /\ Head(queue) # "stop" /\ queue' = Tail(queue)
        /\ asked' = asked /\ cb' = cb /\ success' = success /\ overwritten' = overwritten
        /\ Connecting(Head(queue)) \/ ConnectedAtOnce(Head(queue)) \/ FailedAtOnce(Head(queue))
        /\ wpc' # "Exited"
    BY <1>9 DEF RunConnect
  <2>2. Head(queue) \in Requests /\ called[Head(queue)] = 0 /\ ~InMap(Head(queue))
    BY <2>1, HeadIsNew
  <2>3. cb.fd = None /\ cb.req = None
    BY <2>1, OutsideCallback
  <2> QED BY <1>p, <1>q, <2>1, <2>2, <2>3
<1>10. CASE CallbackConnects \/ NestedConnects
  <2>1. /\ wpc = "Callback" /\ cb.req # None /\ queue' = queue /\ wpc' = wpc
        /\ asked' = asked /\ success' = success /\ cb'.fd = cb.fd
        /\ Connecting(cb.req) \/ ConnectedAtOnce(cb.req) \/ FailedAtOnce(cb.req)
    BY <1>0, <1>10, CbType DEF CallbackConnects, NestedConnects, InlineConnect
  <2>2. cb.req \in Requests /\ called[cb.req] = 0 /\ ~InMap(cb.req)
    BY <2>1, AskedIsNew
  <2>3. ~overwritten /\ (cb.fd # None => mConnectingInfos'[cb.fd] = mConnectingInfos[cb.fd])
    BY <1>10 DEF CallbackConnects, NestedConnects, InlineConnect
  <2>4. \A q : InQueue(q) => InQueue(q)'
    BY <2>1 DEF InQueue
  <2> QED BY <1>p, <2>1, <2>2, <2>3, <2>4
<1>11. CASE RunStop
  <2>1. queue # <<>> /\ queue' = Tail(queue) /\ Head(queue) \notin Requests
    BY <1>0, <1>11 DEF RunStop
  <2>2. \A q \in Requests : InQueue(q) => InQueue(q)'
    BY <1>q, <2>1
  <2> QED BY <1>s, <1>11, <2>2 DEF RunStop
<1>12. CASE Poll
  <2>1. cb' = cb /\ cb.fd = None
    BY <1>12, OutsideCallback DEF Poll
  <2>2. /\ UNCHANGED <<socket, owned, mConnectingInfos, called, queue, asked, overwritten>>
        /\ wpc # "Exited" /\ wpc' # "Exited"
    BY <1>12 DEF Poll
  <2>3. OpenInv' /\ CbInv'
    BY <1>k, <2>1, <2>2
  <2>4. NoRequestLost'
    BY <1>k, <2>1, <2>2 DEF NoRequestLost
  <2> QED BY <1>g, <2>3, <2>4
<1>13. CASE CheckUnknown \/ CheckDone \/ TimeoutDone
  BY <1>s, <1>13 DEF CheckUnknown, CheckDone, TimeoutDone, InQueue
<1>14. CASE CheckCallback
  <2> DEFINE f == Min(todo)
             r == mConnectingInfos[f]
  <2>1. f \in Fds /\ r # None
    BY <1>0, <1>14, NextTodo DEF CheckCallback
  <2>2. cb.fd = None /\ cb.req = None /\ cb'.fd = f
    BY <1>14, OutsideCallback, NewCbFields DEF CheckCallback
  <2>3. /\ owned' = IF f \in success THEN owned \cup {f} ELSE owned
        /\ called' = [called EXCEPT ![r] = @ + 1]
        /\ wpc' # "Exited"
        /\ UNCHANGED <<success, mConnectingInfos, socket, queue, asked, overwritten>>
    BY <1>14 DEF CheckCallback
  <2>4. r \in Requests /\ called[r] = 0
    BY <1>0, <2>1, <2>2, EntryIsNew
  <2>5. called'[r] = 1 /\ \A q \in Requests : q # r => called'[q] = called[q]
    BY <1>0, <2>3, <2>4, CallProps
  <2>6. mConnectingInfos'[f] = r
    BY <2>3
  <2> HIDE DEF f, r
  <2>7. OpenInv'
    BY <1>k, <2>3
  <2>8. CbInv'
    BY <2>1, <2>2, <2>3, <2>5, <2>6
  <2>9. \A q : (InMap(q) => InMap(q)') /\ (InQueue(q) => InQueue(q)')
    BY <2>3 DEF InMap, InQueue
  <2>10. NoRequestLost'
    BY <1>0, <1>k, <1>n, <1>m, <2>2, <2>3, <2>5, <2>9
  <2> QED BY <1>g, <2>7, <2>8, <2>10
\* A connection is given up.
<1>f. ASSUME NEW f \in Fds, mConnectingInfos[f] # None, wpc # "Callback", Fail(f),
             UNCHANGED <<owned, queue, asked, overwritten>>, cb'.fd = None, wpc' # "Exited"
      PROVE  KeptInv'
  <2> DEFINE r == mConnectingInfos[f]
  <2>1. cb.fd = None /\ cb.req = None
    BY <1>f, OutsideCallback
  <2>2. r \in Requests /\ called[r] = 0
    BY <1>0, <1>f, <2>1, EntryIsNew
  <2>3. /\ called' = [called EXCEPT ![r] = @ + 1]
        /\ \A g \in Fds : /\ g # f => socket'[g] = socket[g] /\ mConnectingInfos'[g] = mConnectingInfos[g]
                          /\ socket'[f] = "closed"
    BY <1>0, <1>f DEF Fail
  <2>4. called'[r] = 1 /\ \A q \in Requests : q # r => called'[q] = called[q]
    BY <1>0, <2>2, <2>3, CallProps
  <2>5. \A q : /\ InMap(q) /\ q # r => InMap(q)'
               /\ InQueue(q) => InQueue(q)'
    BY <1>f, <2>3 DEF InMap, InQueue
  <2> HIDE DEF r
  <2>6. OpenInv' /\ CbInv'
    BY <1>0, <1>k, <1>f, <2>3
  <2>7. NoRequestLost'
    BY <1>0, <1>k, <1>n, <1>m, <1>f, <2>1, <2>4, <2>5
  <2> QED BY <1>g, <2>6, <2>7
<1>15. ASSUME NEW f \in Fds, TimeoutOne(f) PROVE KeptInv'
  <2>1. cb'.fd = None
    BY <1>15, NewCbFields DEF TimeoutOne
  <2> QED BY <1>f, <1>15, <2>1 DEF TimeoutOne, Entries
<1>16. CASE CauseAllFailed
  <2>1. cb'.fd = None
    BY <1>16, NewCbFields DEF CauseAllFailed
  <2>2. Min(todo) \in Fds /\ mConnectingInfos[Min(todo)] # None
    BY <1>0, <1>16, NextTodo DEF CauseAllFailed, ConnInv, WorkerInv, Failing, Entries
  <2> QED BY <1>f, <1>16, <2>1, <2>2 DEF CauseAllFailed
<1>17. CASE WorkerExits
  <2>1. /\ todo = {} /\ wpc = "CauseAllFailed" /\ Failing
        /\ UNCHANGED <<socket, owned, mConnectingInfos, cb, called, success, asked, overwritten>>
    BY <1>17 DEF WorkerExits, Failing
  <2>2. (\A f \in Fds : mConnectingInfos[f] = None) /\ queue = <<>>
    BY <2>1 DEF ConnInv, WorkerInv, QueueInv, Entries
  <2>3. \A q \in Requests : ~InMap(q) /\ ~InQueue(q)
    BY <1>0, <2>2 DEF InMap, InQueue
  <2>4. OpenInv' /\ CbInv'
    BY <1>k, <2>1
  <2>5. NoRequestLost'
    BY <1>0, <1>k, <1>n, <1>m, <2>1, <2>3
  <2> QED BY <1>g, <2>4, <2>5
<1>18. CASE CallbackReturns
  <2>1. /\ wpc = "Callback" /\ cb.req = None /\ wpc' = cb.ret /\ cb'.fd = None
        /\ UNCHANGED <<owned, queue, asked, called, overwritten>>
        /\ \A f \in Fds : /\ mConnectingInfos'[f] = IF f = cb.fd THEN None ELSE mConnectingInfos[f]
                          /\ socket'[f] = IF f = cb.fd /\ f \notin success THEN "closed" ELSE socket[f]
    BY <1>18, NoCbFields DEF CallbackReturns
  <2>2. wpc' # "Exited"
    BY <1>0, <2>1, CbType
  <2>3. OpenInv' /\ CbInv'
    BY <1>0, <1>k, <2>1
  <2>4. \A q \in Requests : /\ InMap(q) => InMap(q)' \/ called[q] = 1
                            /\ InQueue(q) => InQueue(q)'
    BY <1>0, <1>k, <2>1 DEF InMap, InQueue
  <2>5. NoRequestLost'
    BY <1>0, <1>k, <1>n, <1>m, <2>1, <2>2, <2>4
  <2> QED BY <1>g, <2>3, <2>5
<1>19. CASE NestedReturns \/ UNCHANGED vars
  BY <1>s, <1>19 DEF vars, NestedReturns, InQueue
<1> QED BY <1>1, <1>2, <1>3, <1>4, <1>5, <1>6, <1>7, <1>8, <1>9, <1>10, <1>11, <1>12, <1>13,
           <1>14, <1>15, <1>16, <1>17, <1>18, <1>19 DEF Next, Worker

(***************************************************************************)
(* The theorems.                                                           *)
(***************************************************************************)

\* Everything above holds for any users, requests and descriptors, whatever
\* callbacks do, and also if asyncConnect is called after a stop.
THEOREM ConnectorInvariant == Spec => []ConnInv
<1>1. Init => ConnInv
  <2> SUFFICES ASSUME Init PROVE ConnInv
    OBVIOUS
  <2> USE DEF Init
  <2>0. NoCb \in [fd : Fds \cup {None}, req : Requests \cup {None},
                  ret : {"Procs", "Check", "Timeout", "CauseAllFailed"}]
    BY DEF NoCb
  <2>1. TypeOK
    BY <2>0 DEF TypeOK
  <2>2. WorkerInv
    BY NoCbFields, ConnectorAssumption DEF WorkerInv, Failing, Entries
  <2>3. QueueInv
    BY DEF QueueInv
  <2>4. PlaceInv
    BY NoCbFields, ConnectorAssumption DEF PlaceInv, InQueue, InMap
  <2>5. PollInv
    BY NoCbFields DEF PollInv, PolledIsOurs, Checking
  <2>6. KeptInv
    BY NoCbFields DEF KeptInv, NoRequestLost
  <2> QED BY <2>1, <2>2, <2>3, <2>4, <2>5, <2>6 DEF ConnInv
<1>2. ConnInv /\ [Next]_vars => ConnInv'
  BY TypeStep, WorkerStep, QueueStep, PlaceStep, PollStep, KeptStep DEF ConnInv
<1> QED BY <1>1, <1>2, PTL DEF Spec

\* Success, refusal, timeout, stop and an overwritten entry: of all that race
\* for a request only one runs a callback of it.
THEOREM RequestsAreCalledOnce == Spec => []CalledOnce
<1>1. ConnInv => CalledOnce
  BY DEF ConnInv, TypeOK, PlaceInv, CalledOnce
<1> QED BY <1>1, ConnectorInvariant, PTL

\* The set of polled descriptors never holds a number that may be somebody
\* else's by now.
THEOREM WorkerPollsItsOwn == Spec => []PolledIsOurs
<1>1. ConnInv => PolledIsOurs
  BY DEF ConnInv, PollInv
<1> QED BY <1>1, ConnectorInvariant, PTL

\* Without an overwritten entry no request is lost: this is the only way.
THEOREM OnlyOverwritingLoses == Spec => []NoOtherRequestLost
<1>1. ConnInv => NoOtherRequestLost
  BY DEF ConnInv, KeptInv, NoOtherRequestLost
<1> QED BY <1>1, ConnectorInvariant, PTL

\* Without an overwritten entry every open socket is a user's or has an entry
\* of a worker that is there to close it.
THEOREM NoDescriptorLeaks == Spec => []NoFdLeak
<1>1. ConnInv => NoFdLeak
  BY DEF ConnInv, KeptInv, WorkerInv, Entries, NoFdLeak
<1> QED BY <1>1, ConnectorInvariant, PTL
=============================================================================
