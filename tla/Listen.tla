------------------------------- MODULE Listen -------------------------------
(***************************************************************************)
(* brynet::net::ListenThread with the SyncConnector it stops itself with:  *)
(* stopListen clears the flag of the accept loop and connects to its own   *)
(* port, so that a blocked accept returns.  Users start, stop and connect; *)
(* the connector is reduced to what Connector.tla shows of it: a request   *)
(* ends in one callback, but for one that a connector shared with others   *)
(* loses.  A call of SyncConnectSocket or SyncConnectSession has a number  *)
(* c, the key of its promise.                                              *)
(***************************************************************************)
EXTENDS Integers, Sequences

CONSTANTS
    Users,      \* threads of the user
    Cb,         \* the accept callback, when it calls stopListen itself
    Backlog,    \* connections the kernel keeps for accept
    MaxCalls    \* calls of the users in a behaviour

ASSUME ListenAssumption == Cb \notin Users /\ Backlog \in Nat \ {0} /\ MaxCalls \in Nat

Callers == Users \cup {Cb}
Calls   == 1..(MaxCalls + 1)
Nobody  == "nobody"

VARIABLES
    guard,          \* who holds mListenThreadGuard
    mListenThread,  \* the pointer is set
    mRunListen,     \* the flag the thread shares
    listening,      \* the listening socket is open
    backlog,        \* connections not accepted yet
    lpc,            \* where the listen thread is
    pc,             \* where each caller is
    call,           \* the number of the connect a caller waits for
    req,            \* the request as the connector and the service see it
    sessions,       \* the calls of SyncConnectSession
    promise,        \* its promise
    used,           \* calls made
    reachable,      \* the port can be reached over IPv4 from this host
    cbStops,        \* the accept callback may call stopListen
    terminated      \* std::terminate was called

vars == <<guard, mListenThread, mRunListen, listening, backlog, lpc, pc, call, req, sessions, promise, used,
          reachable, cbStops, terminated>>
thread  == <<mListenThread, mRunListen, listening, backlog, lpc>>
request == <<call, req, sessions, promise>>
fixed   == <<reachable, cbStops>>

Init ==
    /\ guard = Nobody /\ mListenThread = FALSE /\ mRunListen = FALSE
    /\ listening = FALSE /\ backlog = <<>> /\ lpc = "none"
    /\ pc = [u \in Callers |-> "idle"] /\ call = [u \in Callers |-> 0]
    /\ req = [c \in Calls |-> "unused"] /\ promise = [c \in Calls |-> "unset"]
    /\ sessions = {} /\ used = 0 /\ reachable \in BOOLEAN /\ cbStops \in BOOLEAN /\ terminated = FALSE

Fresh == CHOOSE c \in Calls : req[c] = "unused" /\ \A d \in Calls : req[d] = "unused" => c <= d

\* asyncConnect by caller u: the request goes to the worker of the connector.
Request(u, isSession) ==
    /\ call' = [call EXCEPT ![u] = Fresh]
    /\ req' = [req EXCEPT ![Fresh] = "connecting"]
    /\ sessions' = IF isSession THEN sessions \cup {Fresh} ELSE sessions
    /\ UNCHANGED promise

\* A second value of a promise throws on a thread that catches nothing.
SetValue(c, v) ==
    IF promise[c] = "unset"
    THEN promise' = [promise EXCEPT ![c] = v] /\ UNCHANGED terminated
    ELSE terminated' = TRUE /\ UNCHANGED promise

-----------------------------------------------------------------------------
(* Calls of the users.                                                     *)

Enter(u, where) ==
    /\ used < MaxCalls /\ pc[u] = "idle"
    /\ used' = used + 1
    /\ pc' = [pc EXCEPT ![u] = where]
    /\ UNCHANGED <<guard, thread, fixed, terminated>>

CallStart(u) == Enter(u, "start") /\ UNCHANGED request
CallStop(u)  == Enter(u, "stop") /\ UNCHANGED request
SyncConnectSocket(u)  == Enter(u, "socket") /\ Request(u, FALSE)
SyncConnectSession(u) == Enter(u, "session") /\ Request(u, TRUE)

\* startListen: nothing when there is a thread; Listen may fail and throw.
startListen(u) ==
    /\ pc[u] = "start" /\ guard = Nobody
    /\ pc' = [pc EXCEPT ![u] = "idle"]
    /\ \/ UNCHANGED thread
       \/ /\ ~mListenThread
          /\ mListenThread' = TRUE /\ mRunListen' = TRUE
          /\ listening' = TRUE /\ backlog' = <<>> /\ lpc' = "test"
    /\ UNCHANGED <<guard, request, used, fixed, terminated>>

\* stopListen up to the connect to itself.
stopListen(u) ==
    /\ pc[u] = "stop" /\ guard = Nobody
    /\ IF ~mListenThread
       THEN pc' = [pc EXCEPT ![u] = "idle"] /\ UNCHANGED guard
       ELSE pc' = [pc EXCEPT ![u] = "flag"] /\ guard' = u
    /\ UNCHANGED <<thread, request, used, fixed, terminated>>

\* Only the flag is cleared.
StopFlag_NoConnect(u) ==
    /\ pc[u] = "flag"
    /\ mRunListen' = FALSE
    /\ pc' = [pc EXCEPT ![u] = "join"]
    /\ UNCHANGED <<guard, mListenThread, listening, backlog, lpc, request, used, fixed, terminated>>

StopFlag(u) ==
    /\ pc[u] = "flag"
    /\ mRunListen' = FALSE
    /\ Request(u, FALSE)
    /\ pc' = [pc EXCEPT ![u] = "self"]
    /\ UNCHANGED <<guard, mListenThread, listening, backlog, lpc, used, fixed, terminated>>

\* get(): there is no timeout but the one of the connector.
StopConnected(u) ==
    /\ pc[u] = "self" /\ promise[call[u]] # "unset"
    /\ pc' = [pc EXCEPT ![u] = "join"]
    /\ UNCHANGED <<guard, thread, request, used, fixed, terminated>>

\* The thread is not waited for.
StopJoin_NoJoin(u) ==
    /\ pc[u] = "join"
    /\ u # Cb
    /\ mListenThread' = FALSE
    /\ guard' = Nobody
    /\ pc' = [pc EXCEPT ![u] = "idle"]
    /\ UNCHANGED <<mRunListen, listening, backlog, lpc, request, used, fixed, terminated>>

\* The listen thread cannot join itself: the exception is swallowed and the
\* thread object is destroyed while joinable.
StopJoin(u) ==
    /\ pc[u] = "join"
    /\ \/ /\ u = Cb
          /\ terminated' = TRUE
          /\ UNCHANGED <<guard, mListenThread, lpc, pc>>
       \/ /\ u # Cb /\ lpc = "ended"
          /\ lpc' = "none" /\ mListenThread' = FALSE
          /\ guard' = Nobody
          /\ pc' = [pc EXCEPT ![u] = "idle"]
          /\ UNCHANGED terminated
    /\ UNCHANGED <<mRunListen, listening, backlog, request, used, fixed>>

\* The future is ready, or wait_for of SyncConnectSession ran out.
SyncReturns(u) ==
    /\ \/ pc[u] \in {"socket", "session"} /\ promise[call[u]] # "unset"
       \/ pc[u] = "session"
    /\ pc' = [pc EXCEPT ![u] = "idle"]
    /\ UNCHANGED <<guard, thread, request, used, fixed, terminated>>

-----------------------------------------------------------------------------
(* The listen thread.                                                      *)

Listener(next) == lpc' = next /\ UNCHANGED <<guard, mListenThread, mRunListen, pc, request, used, fixed, terminated>>

\* The end of the thread drops the listening socket.
TestRun ==
    /\ lpc = "test"
    /\ IF mRunListen THEN Listener("accept") /\ UNCHANGED <<listening, backlog>>
                     ELSE Listener("ended") /\ listening' = FALSE /\ backlog' = <<>>

\* runOnceListen blocks until there is a connection, or an error (EINTR, no
\* descriptors), which starts over.
Accept ==
    /\ lpc = "accept" /\ backlog # <<>>
    /\ backlog' = Tail(backlog)
    /\ Listener("accepted") /\ UNCHANGED listening

AcceptFails ==
    /\ lpc = "accept" /\ Listener("test") /\ UNCHANGED <<listening, backlog>>

\* A connection accepted after the flag was cleared is dropped.
Accepted ==
    /\ lpc = "accepted"
    /\ Listener(IF mRunListen THEN "callback" ELSE "test")
    /\ UNCHANGED <<listening, backlog>>

CallbackReturns ==
    /\ lpc = "callback" /\ pc[Cb] = "idle"
    /\ Listener("test") /\ UNCHANGED <<listening, backlog>>

CallbackStops ==
    /\ cbStops /\ lpc = "callback" /\ pc[Cb] = "idle" /\ req[MaxCalls + 1] = "unused"
    /\ pc' = [pc EXCEPT ![Cb] = "stop"]
    /\ UNCHANGED <<guard, thread, request, used, fixed, terminated>>

-----------------------------------------------------------------------------
(* The kernel and the connector.                                           *)

Connectable == listening /\ reachable /\ Len(backlog) < Backlog

\* The handshake needs no accept.
KernelConnects(c) ==
    /\ req[c] = "connecting" /\ Connectable
    /\ backlog' = Append(backlog, c)
    /\ req' = [req EXCEPT ![c] = "connected"]
    /\ UNCHANGED <<guard, mListenThread, mRunListen, listening, lpc, pc, call, sessions, promise, used, fixed, terminated>>

\* Refused, not reached, or timed out: a connection the kernel can make it
\* makes in time, but the connector may notice its timeout first.
ConnectFails(c) ==
    /\ req[c] = "connected" \/ (req[c] = "connecting" /\ ~Connectable)
    /\ req' = [req EXCEPT ![c] = "over"]
    /\ SetValue(c, "null")
    /\ UNCHANGED <<guard, thread, pc, call, sessions, used, fixed>>

\* processConnect gets no descriptor, or its connect fails at once: the failure
\* is the same to the caller, but nothing reaches the listening socket.
ConnectFailsHere(c) ==
    /\ req[c] = "connecting"
    /\ req' = [req EXCEPT ![c] = "unmade"]
    /\ SetValue(c, "null")
    /\ UNCHANGED <<guard, thread, pc, call, sessions, used, fixed>>

\* A connector that the user shares may lose a request: the entry of a reused
\* descriptor is erased.  The one of a stopListen is its own.
RequestLost(c) ==
    /\ req[c] \in {"connecting", "connected"}
    /\ \A u \in Callers : pc[u] = "self" => call[u] # c
    /\ req' = [req EXCEPT ![c] = "lost"]
    /\ UNCHANGED <<guard, thread, pc, call, sessions, promise, used, fixed, terminated>>

\* The socket is the value, or goes to the service, which may be stopped and
\* drop it: then nobody sets the promise.
ConnectSucceeds(c) ==
    /\ req[c] = "connected"
    /\ \/ c \notin sessions /\ SetValue(c, "socket") /\ req' = [req EXCEPT ![c] = "over"]
       \/ c \in sessions /\ req' = [req EXCEPT ![c] = "entering"] /\ UNCHANGED <<promise, terminated>>
       \/ c \in sessions /\ req' = [req EXCEPT ![c] = "over"] /\ UNCHANGED <<promise, terminated>>
    /\ UNCHANGED <<guard, thread, pc, call, sessions, used, fixed>>

\* enterCallback, on a worker of the service; the caller may be gone.
EnterCallback(c) ==
    /\ req[c] = "entering"
    /\ req' = [req EXCEPT ![c] = "over"]
    /\ SetValue(c, "socket")
    /\ UNCHANGED <<guard, thread, pc, call, sessions, used, fixed>>

-----------------------------------------------------------------------------

Call(u)     == CallStart(u) \/ CallStop(u) \/ SyncConnectSocket(u) \/ SyncConnectSession(u)
Proceed(u)  == startListen(u) \/ stopListen(u) \/ StopFlag(u) \/ StopConnected(u) \/ StopJoin(u) \/ SyncReturns(u)
Thread      == TestRun \/ Accept \/ Accepted \/ CallbackReturns
Connect(c)  ==
    KernelConnects(c) \/ ConnectFails(c) \/ ConnectFailsHere(c) \/ ConnectSucceeds(c) \/ EnterCallback(c)

Next ==
    /\ ~terminated
    /\ \/ \E u \in Users : Call(u)
       \/ \E u \in Callers : Proceed(u)
       \/ Thread \/ AcceptFails \/ CallbackStops
       \/ \E c \in Calls : Connect(c) \/ RequestLost(c)

\* Threads that can run do, the callback returns, and a connect ends.  Nobody
\* can count on an accept that fails.
Fairness ==
    /\ \A u \in Callers : WF_vars(~terminated /\ Proceed(u))
    /\ WF_vars(~terminated /\ Thread)
    /\ \A c \in Calls : WF_vars(~terminated /\ Connect(c))

Spec == Init /\ [][Next]_vars /\ Fairness

-----------------------------------------------------------------------------

\* When stopListen has returned, its thread has ended and its port is free: no
\* accept callback runs any more and startListen can listen again; and no
\* promise is set twice.  Only a callback that stops its own thread ends the
\* process (stopListen, startListen, the lambda of the thread).
StoppedIsSilent ==
    /\ ~mListenThread => lpc = "none" /\ ~listening
    /\ terminated => cbStops

\* A stopListen whose connect failed before it left the process, which it does
\* not look at, joins a thread that nothing wakes from its accept.
Unwoken ==
    /\ lpc = "accept" /\ backlog = <<>>
    /\ \E u \in Users : pc[u] = "join" /\ call[u] \in Calls /\ req[call[u]] = "unmade"

\* Every call returns: startListen, SyncConnectSocket, SyncConnectSession, and
\* stopListen, whatever arrives at the port meanwhile, if the listen thread can
\* be reached over IPv4 and its callback does not stop it.  The two exceptions
\* are the code's: a stopListen that wakes nobody keeps itself and all who
\* need mListenThreadGuard (ListenThread.cpp:115), and get() waits for ever
\* for a request that a shared connector has lost (SyncConnector.cpp:29).
CallsReturn ==
    \A u \in Users : (reachable /\ ~cbStops /\ pc[u] # "idle") ~>
        \/ pc[u] = "idle"
        \/ pc[u] \in {"start", "stop", "join"} /\ Unwoken
        \/ pc[u] = "socket" /\ req[call[u]] = "lost"
=============================================================================
