----------------------------- MODULE Connector ------------------------------
(***************************************************************************)
(* brynet::net::AsyncConnector: user threads ask for connections, a worker *)
(* thread makes them with non-blocking sockets, keeps the unfinished ones  *)
(* in a map by descriptor, and runs exactly one of two callbacks for each. *)
(* Callbacks run on the worker and may let go of the socket they got and   *)
(* ask for another connection, which the worker then starts at once.       *)
(*                                                                         *)
(* Descriptors are what the kernel makes of them: the lowest free number,  *)
(* and reused as soon as it is closed.  The queue of the worker's          *)
(* EventLoop is the one AsyncQueue promises.                               *)
(***************************************************************************)
EXTENDS Naturals, Sequences, FiniteSets, FiniteSetsExt

CONSTANTS
    Users,          \* user threads
    None,
    Requests,       \* the asyncConnect calls that can be made
    NFds,           \* bound: descriptors
    CallbackActs,   \* what callbacks do: "drop" the socket, "retry" a request
    AskAfterStop    \* whether users call asyncConnect after stopWorkerThread

ASSUME ConnectorAssumption ==
    /\ NFds \in Nat \ {0}
    /\ None \notin Users \cup Requests \cup 1..NFds /\ "stop" \notin Requests
    /\ "worker" \notin Users \cup {None}
    /\ CallbackActs \subseteq {"drop", "retry"}
    /\ AskAfterStop \in BOOLEAN

Fds == 1..NFds

VARIABLES
    upc,            \* per user thread
    mThreadGuard,   \* holder of the mutex: a user, "worker" or None
    mIsRun,         \* "true", "false" or "null"
    wpc,            \* the worker; "Exited" also before the first start
    queue,          \* its EventLoop: requests, and "stop"
    mConnectingInfos,   \* request per descriptor, None if there is none
    mFDSet,         \* descriptors that are polled for writing
    socket,         \* kernel: "closed", "connecting", "connected" or "refused"
    todo,           \* descriptors at and behind the iterator of the current pass
    success,        \* those of them that are connected
    cb,             \* the callback that runs: descriptor, request it asks for, where it returns
    owned,          \* descriptors that belong to users
    asked,          \* requests that were made
    called,         \* number of callbacks per request
    overwritten,    \* history: an entry was replaced while its callback ran
    fault           \* undefined behaviour reached, "none" if not

user   == <<upc, mThreadGuard>>
worker == <<queue, todo, success, cb>>
table  == <<mConnectingInfos, mFDSet>>
kernel == <<socket, owned>>
vars   == <<user, mIsRun, wpc, worker, table, kernel, asked, called, overwritten, fault>>

NoCb == [fd |-> None, req |-> None, ret |-> "Procs"]
Entries == {f \in Fds : mConnectingInfos[f] # None}

Init ==
    /\ upc = [u \in Users |-> "Idle"] /\ mThreadGuard = None
    /\ mIsRun = "false" /\ wpc = "Exited"
    /\ queue = <<>> /\ todo = {} /\ success = {} /\ cb = NoCb
    /\ mConnectingInfos = [f \in Fds |-> None] /\ mFDSet = {}
    /\ socket = [f \in Fds |-> "closed"] /\ owned = {}
    /\ asked = {} /\ called = [r \in Requests |-> 0]
    /\ overwritten = FALSE /\ fault = "none"

-----------------------------------------------------------------------------
(* User threads.                                                           *)

\* startWorkerThread: nothing to do while there is a thread.
StartWorkerThread(u) ==
    /\ upc[u] = "Idle" /\ mThreadGuard = None
    /\ wpc = "Exited"
    /\ mIsRun' = "true"
    /\ wpc' = "Procs"
    /\ queue' = <<>>
    /\ mConnectingInfos' = [f \in Fds |-> None] /\ mFDSet' = {}
    /\ UNCHANGED <<user, todo, success, cb, kernel, asked, called, fault, overwritten>>

\* asyncConnect in a user thread; the mutex is taken (shared in C++17) and
\* released inside.  Before the first start it throws.
AsyncConnect(u, r) ==
    /\ upc[u] = "Idle" /\ mThreadGuard \in {None, "worker"}
    /\ mIsRun = "true" /\ r \notin asked
    /\ asked' = asked \cup {r}
    /\ queue' = Append(queue, r)
    /\ UNCHANGED <<user, mIsRun, wpc, todo, success, cb, table, kernel, called, fault, overwritten>>

\* After stopWorkerThread mIsRun is a null pointer, and is dereferenced.
AsyncConnectStopped(u) ==
    /\ upc[u] = "Idle" /\ mThreadGuard = None
    /\ mIsRun = "null" /\ AskAfterStop
    /\ fault' = "nullIsRun"
    /\ UNCHANGED <<user, mIsRun, wpc, worker, table, kernel, asked, called, overwritten>>

\* stopWorkerThread is called, and waits for the mutex.
StopCalled(u) ==
    /\ upc[u] = "Idle"
    /\ upc' = [upc EXCEPT ![u] = "Stop"]
    /\ UNCHANGED <<mThreadGuard, mIsRun, wpc, worker, table, kernel, asked, called, fault, overwritten>>

\* There is no thread: it returns.
StopNothing(u) ==
    /\ upc[u] = "Stop" /\ mThreadGuard = None /\ wpc = "Exited"
    /\ upc' = [upc EXCEPT ![u] = "Idle"]
    /\ UNCHANGED <<mThreadGuard, mIsRun, wpc, worker, table, kernel, asked, called, fault, overwritten>>

\* It takes the mutex and asks the worker to stop ...
StopBegins(u) ==
    /\ upc[u] = "Stop" /\ mThreadGuard = None /\ wpc # "Exited"
    /\ mThreadGuard' = u
    /\ upc' = [upc EXCEPT ![u] = "Join"]
    /\ queue' = Append(queue, "stop")
    /\ UNCHANGED <<mIsRun, wpc, todo, success, cb, table, kernel, asked, called, fault, overwritten>>

\* ... and keeps the mutex until it has.
StopEnds(u) ==
    /\ upc[u] = "Join" /\ wpc = "Exited"
    /\ upc' = [upc EXCEPT ![u] = "Idle"]
    /\ mThreadGuard' = None
    /\ mIsRun' = "null"
    /\ UNCHANGED <<wpc, worker, table, kernel, asked, called, fault, overwritten>>

\* A user closes a socket that it was given, after the callback: "drop" says
\* whether it may do so earlier.
UserCloses(f) ==
    /\ f \in owned /\ cb.fd # f
    /\ owned' = owned \ {f}
    /\ socket' = [socket EXCEPT ![f] = "closed"]
    /\ UNCHANGED <<user, mIsRun, wpc, worker, table, asked, called, fault, overwritten>>

\* The network answers.
Answer(f, how) ==
    /\ socket[f] = "connecting"
    /\ socket' = [socket EXCEPT ![f] = how]
    /\ UNCHANGED <<user, mIsRun, wpc, worker, table, owned, asked, called, fault, overwritten>>

-----------------------------------------------------------------------------
(* processConnect.                                                         *)

FreeFds == {f \in Fds : socket[f] = "closed"}
NewFd == Min(FreeFds)

\* connect() is under way: remember the request under its descriptor.
Connecting(r) ==
    /\ FreeFds # {}
    /\ socket' = [socket EXCEPT ![NewFd] = "connecting"]
    /\ mConnectingInfos' = [mConnectingInfos EXCEPT ![NewFd] = r]
    /\ mFDSet' = mFDSet \cup {NewFd}
    /\ UNCHANGED <<owned, called>>

\* connect() succeeds at once: the user owns the socket.
ConnectedAtOnce(r) ==
    /\ FreeFds # {}
    /\ socket' = [socket EXCEPT ![NewFd] = "connected"]
    /\ owned' = owned \cup {NewFd}
    /\ called' = [called EXCEPT ![r] = @ + 1]
    /\ UNCHANGED table

\* No descriptor, or connect() fails at once.
FailedAtOnce(r) ==
    /\ called' = [called EXCEPT ![r] = @ + 1]
    /\ UNCHANGED <<table, kernel>>

-----------------------------------------------------------------------------
(* The worker repeats loop, checkConnectStatus(0), checkTimeout until      *)
(* isRun is false, and then runs causeAllFailed.                           *)

\* The loop runs a queued request, and its callback if there is one already.
RunConnect ==
    /\ wpc = "Procs" /\ queue # <<>> /\ Head(queue) # "stop"
    /\ queue' = Tail(queue)
    /\ \/ Connecting(Head(queue)) /\ UNCHANGED wpc
       \/ ConnectedAtOnce(Head(queue)) /\ wpc' = "Callback"
       \/ FailedAtOnce(Head(queue)) /\ wpc' = "Callback"
    /\ UNCHANGED <<user, mIsRun, todo, success, cb, asked, fault, overwritten>>

\* The loop runs the proc of stopWorkerThread.
RunStop ==
    /\ wpc = "Procs" /\ queue # <<>> /\ Head(queue) = "stop"
    /\ queue' = Tail(queue)
    /\ mIsRun' = "false"
    /\ UNCHANGED <<user, wpc, todo, success, cb, table, kernel, asked, called, fault, overwritten>>

\* checkConnectStatus polls: descriptors that got an answer, and SO_ERROR of each.
Poll ==
    /\ wpc = "Procs"
    /\ wpc' = "Check"
    /\ todo' = {f \in mFDSet : socket[f] \in {"connected", "refused"}}
    /\ success' = {f \in mFDSet : socket[f] = "connected"}
    /\ UNCHANGED <<user, mIsRun, queue, cb, table, kernel, asked, called, fault, overwritten>>

\* A descriptor without an entry in the map is only taken off the set.
CheckUnknown ==
    /\ wpc = "Check" /\ todo # {}
    /\ mConnectingInfos[Min(todo)] = None
    /\ todo' = todo \ {Min(todo)}
    /\ mFDSet' = mFDSet \ {Min(todo)}
    /\ UNCHANGED <<user, mIsRun, wpc, queue, success, cb, mConnectingInfos, kernel,
                   asked, called, fault, overwritten>>

\* One of the two callbacks begins.  The entry stays in the map until it
\* returns.  A refused socket is closed only then.
CheckCallback ==
    /\ wpc = "Check" /\ todo # {}
    /\ LET f == Min(todo) IN
        /\ mConnectingInfos[f] # None
        /\ mFDSet' = mFDSet \ {f}
        /\ called' = [called EXCEPT ![mConnectingInfos[f]] = @ + 1]
        /\ owned' = IF f \in success THEN owned \cup {f} ELSE owned
        /\ cb' = [NoCb EXCEPT !.fd = f, !.ret = "Check"]
    /\ wpc' = "Callback"
    /\ UNCHANGED <<user, mIsRun, queue, todo, success, mConnectingInfos, socket,
                   asked, fault, overwritten>>

CheckDone ==
    /\ wpc = "Check" /\ todo = {}
    /\ wpc' = "Timeout"
    /\ todo' = Fds
    /\ UNCHANGED <<user, mIsRun, queue, success, cb, table, kernel, asked, called, fault, overwritten>>

\* The descriptor stays in the set that is polled.
Fail_StillPolled(f) ==
    /\ mConnectingInfos' = [mConnectingInfos EXCEPT ![f] = None]
    /\ mFDSet' = mFDSet
    /\ socket' = [socket EXCEPT ![f] = "closed"]
    /\ called' = [called EXCEPT ![mConnectingInfos[f]] = @ + 1]

\* The callback runs but the connection is not given up.
Fail_KeepEntry(f) ==
    /\ called' = [called EXCEPT ![mConnectingInfos[f]] = @ + 1]
    /\ UNCHANGED <<table, socket>>

\* What checkTimeout and causeAllFailed do to a connection: the entry goes
\* before the callback runs.
Fail(f) ==
    /\ mConnectingInfos' = [mConnectingInfos EXCEPT ![f] = None]
    /\ mFDSet' = mFDSet \ {f}
    /\ socket' = [socket EXCEPT ![f] = "closed"]
    /\ called' = [called EXCEPT ![mConnectingInfos[f]] = @ + 1]

\* The next entry in the order of the map that is out of time.  The iterator
\* moves on before the callback runs, to an entry or to the end for good.
TimeoutOne(f) ==
    /\ wpc = "Timeout"
    /\ f \in todo \cap Entries
    /\ Fail(f)
    /\ todo' = {g \in Fds : \E next \in Entries : f < next /\ next <= g}
    /\ cb' = [NoCb EXCEPT !.ret = "Timeout"]
    /\ wpc' = "Callback"
    /\ UNCHANGED <<user, mIsRun, queue, success, owned, asked, fault, overwritten>>

\* The flag is not looked at.
TimeoutDone_Always ==
    /\ wpc = "Timeout"
    /\ wpc' = "Procs"
    /\ todo' = {}
    /\ UNCHANGED <<user, mIsRun, queue, success, cb, table, kernel, asked, called, fault, overwritten>>

\* The round ends, and with it the worker if it was stopped.
TimeoutDone ==
    /\ wpc = "Timeout"
    /\ wpc' = IF mIsRun = "true" THEN "Procs" ELSE "CauseAllFailed"
    /\ todo' = IF mIsRun = "true" THEN {} ELSE Entries
    /\ UNCHANGED <<user, mIsRun, queue, success, cb, table, kernel, asked, called, fault, overwritten>>

\* causeAllFailed.  The code takes all entries off the map at once; nothing
\* reads the map, and no callback can add to it, before the worker is gone.
CauseAllFailed ==
    /\ wpc = "CauseAllFailed" /\ todo # {}
    /\ Fail(Min(todo))
    /\ todo' = todo \ {Min(todo)}
    /\ cb' = [NoCb EXCEPT !.ret = "CauseAllFailed"]
    /\ wpc' = "Callback"
    /\ UNCHANGED <<user, mIsRun, queue, success, owned, asked, fault, overwritten>>

\* The worker leaves without the callbacks.
WorkerExits_Pending ==
    /\ wpc = "CauseAllFailed"
    /\ wpc' = "Exited"
    /\ UNCHANGED <<user, mIsRun, worker, table, kernel, asked, called, fault, overwritten>>

WorkerExits ==
    /\ wpc = "CauseAllFailed" /\ todo = {}
    /\ wpc' = "Exited"
    /\ UNCHANGED <<user, mIsRun, worker, table, kernel, asked, called, fault, overwritten>>

-----------------------------------------------------------------------------
(* User code in a callback.                                                *)

\* It lets go of the socket it was given.
CallbackDrops ==
    /\ wpc = "Callback" /\ cb.req = None /\ "drop" \in CallbackActs
    /\ cb.fd \in owned
    /\ owned' = owned \ {cb.fd}
    /\ socket' = [socket EXCEPT ![cb.fd] = "closed"]
    /\ UNCHANGED <<user, mIsRun, wpc, worker, table, asked, called, fault, overwritten>>

\* It calls asyncConnect ...
CallbackAsks(r) ==
    /\ wpc = "Callback" /\ cb.req = None /\ "retry" \in CallbackActs
    /\ r \notin asked
    /\ asked' = asked \cup {r}
    /\ cb' = [cb EXCEPT !.req = r]
    /\ UNCHANGED <<user, mIsRun, wpc, queue, todo, success, table, kernel, called, fault, overwritten>>

\* ... which, once it has the mutex, processes the request at once and with
\* the mutex held, since this is the thread of the loop.  If the request has
\* its answer at once too, its callback runs nested in this one.
InlineConnect ==
    /\ wpc = "Callback" /\ cb.req # None /\ mIsRun = "true"
    /\ \/ Connecting(cb.req) /\ UNCHANGED mThreadGuard
       \/ (ConnectedAtOnce(cb.req) \/ FailedAtOnce(cb.req)) /\ mThreadGuard' = "worker"
    /\ overwritten' = (overwritten \/ (cb.fd # None /\ mConnectingInfos'[cb.fd] # mConnectingInfos[cb.fd]))
    /\ cb' = [cb EXCEPT !.req = None]
    /\ UNCHANGED <<upc, mIsRun, wpc, queue, todo, success, asked, fault>>

CallbackConnects == mThreadGuard = None /\ InlineConnect

\* A nested callback asks for the mutex that its own thread holds.  With
\* std::mutex (C++11) it waits for ever; shared_lock (C++17) is not defined
\* for a thread that holds it, and may hang or get through, as it does here.
NestedConnects == mThreadGuard = "worker" /\ InlineConnect

\* The nested callbacks return, and with them the asyncConnect around them.
NestedReturns ==
    /\ wpc = "Callback" /\ cb.req = None
    /\ mThreadGuard = "worker"
    /\ mThreadGuard' = None
    /\ UNCHANGED <<upc, mIsRun, wpc, worker, table, kernel, asked, called, fault, overwritten>>

\* A refused socket is not closed when its callback returns.
CallbackReturns_NoClose ==
    /\ wpc = "Callback" /\ cb.req = None /\ mThreadGuard # "worker"
    /\ wpc' = cb.ret
    /\ cb' = NoCb
    /\ todo' = todo \ {cb.fd}
    /\ mConnectingInfos' = [f \in Fds |-> IF f = cb.fd THEN None ELSE mConnectingInfos[f]]
    /\ UNCHANGED <<user, mIsRun, queue, success, mFDSet, kernel, asked, called, fault, overwritten>>

\* The callback of checkConnectStatus returns: erase(it) erases the entry of
\* this descriptor, whatever it holds by now, and a refused socket is closed.
CallbackReturns ==
    /\ wpc = "Callback" /\ cb.req = None /\ mThreadGuard # "worker"
    /\ wpc' = cb.ret
    /\ cb' = NoCb
    /\ todo' = todo \ {cb.fd}
    /\ mConnectingInfos' = [f \in Fds |-> IF f = cb.fd THEN None ELSE mConnectingInfos[f]]
    /\ socket' = [f \in Fds |-> IF f = cb.fd /\ f \notin success THEN "closed" ELSE socket[f]]
    /\ UNCHANGED <<user, mIsRun, queue, success, mFDSet, owned, asked, called, fault, overwritten>>

-----------------------------------------------------------------------------

Worker ==
    \/ RunConnect \/ RunStop \/ Poll
    \/ CheckUnknown \/ CheckCallback \/ CheckDone
    \/ \E f \in Fds : TimeoutOne(f)
    \/ TimeoutDone \/ CauseAllFailed \/ WorkerExits
    \/ CallbackConnects \/ NestedReturns \/ CallbackReturns

Next ==
    /\ fault = "none"
    /\ \/ \E u \in Users, r \in Requests : AsyncConnect(u, r)
       \/ \E u \in Users : StartWorkerThread(u) \/ AsyncConnectStopped(u)
                           \/ StopCalled(u) \/ StopNothing(u)
                           \/ StopBegins(u) \/ StopEnds(u)
       \/ \E f \in Fds : UserCloses(f)
       \/ \E f \in Fds, how \in {"connected", "refused"} : Answer(f, how)
       \/ CallbackDrops
       \/ \E r \in Requests : CallbackAsks(r)
       \/ NestedConnects
       \/ Worker

Spec == Init /\ [][Next]_vars

\* The worker goes on, and callbacks return unless they wait for a mutex; a stop goes on once
\* the mutex is free for good or the worker is gone; the loop runs what is
\* queued (AsyncQueue); and time passes, so that the timeout of a connection
\* is over in some round of the worker and in all later ones.
Fairness ==
    /\ WF_vars(Worker)
    /\ \A u \in Users : /\ WF_vars(StopNothing(u) \/ StopBegins(u))
                         /\ WF_vars(StopEnds(u))
    /\ SF_vars(RunConnect)
    /\ SF_vars(RunStop)
    /\ SF_vars(Poll)
    /\ SF_vars(TimeoutDone)
    /\ \A f \in Fds : SF_vars(TimeoutOne(f))

FairSpec == Spec /\ Fairness

-----------------------------------------------------------------------------

\* Type invariant of the connector, its worker and the kernel's descriptors.
TypeOK ==
    /\ upc \in [Users -> {"Idle", "Stop", "Join"}]
    /\ mThreadGuard \in Users \cup {"worker", None}
    /\ mIsRun \in {"true", "false", "null"}
    /\ wpc \in {"Procs", "Check", "Timeout", "CauseAllFailed", "Callback", "Exited"}
    /\ queue \in Seq(Requests \cup {"stop"})
    /\ mConnectingInfos \in [Fds -> Requests \cup {None}]
    /\ mFDSet \subseteq Fds
    /\ socket \in [Fds -> {"closed", "connecting", "connected", "refused"}]
    /\ todo \subseteq Fds /\ success \subseteq Fds
    /\ cb \in [fd : Fds \cup {None}, req : Requests \cup {None},
              ret : {"Procs", "Check", "Timeout", "CauseAllFailed"}]
    /\ owned \subseteq Fds /\ asked \subseteq Requests
    /\ called \in [Requests -> 0..1]
    /\ fault \in {"none", "nullIsRun"}

\* asyncConnect never reads *mIsRun through a null pointer.
NoFault == fault = "none"

\* A request waits for the mutex, or in the queue or the map of a worker that
\* is still there, or one of its callbacks has run: no stop, timeout or reuse
\* of a descriptor loses it.
NoRequestLost ==
    \A r \in asked :
        \/ called[r] > 0
        \/ cb.req = r
        \/ wpc # "Exited" /\ (\/ \E i \in 1..Len(queue) : queue[i] = r
                              \/ \E f \in Fds : mConnectingInfos[f] = r)

\* No request is lost except by the one way of FdReuse: a callback of
\* checkConnectStatus lets go of its socket, connects again and gets the same
\* descriptor, whose entry erase(it) takes away (Connector.cpp:198).
NoOtherRequestLost == ~overwritten => NoRequestLost

\* Success, refusal, timeout and stop race for a request, and only one of them
\* runs a callback of it.
CalledOnce == \A r \in Requests : called[r] <= IF r \in asked THEN 1 ELSE 0

\* An open socket has an owner who will close it: a user, or an entry of the
\* map while the worker is there (and the entry was not replaced).
NoFdLeak ==
    ~overwritten => \A f \in Fds : socket[f] # "closed" =>
        f \in owned \/ (wpc # "Exited" /\ mConnectingInfos[f] # None)

\* The worker never polls a descriptor that is closed or that it has given
\* away: the number may be a socket of somebody else by then.
PolledIsOurs == \A f \in mFDSet : socket[f] # "closed" /\ f \notin owned

\* A callback on the worker waits in asyncConnect for a mutex that may never
\* be released: stopWorkerThread holds it while it waits for the worker, or
\* the callback is nested in another asyncConnect and its own thread holds it.
Stuck == cb.req # None /\ mThreadGuard # None

\* Every request is answered by a callback in the end, stopped or not, unless
\* it was lost by an overwritten entry or the connector is stuck.
RequestsAreAnswered ==
    \A r \in Requests : r \in asked ~> called[r] > 0 \/ overwritten \/ Stuck \/ fault # "none"

\* stopWorkerThread gets the mutex and returns, unless a callback is stuck in
\* one of the two ways.
StopReturns ==
    \A u \in Users : upc[u] \in {"Stop", "Join"} ~> upc[u] = "Idle" \/ Stuck \/ fault # "none"

=============================================================================
