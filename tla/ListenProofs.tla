---------------------------- MODULE ListenProofs ----------------------------
(***************************************************************************)
(* Machine-checked proof of StoppedIsSilent of Listen, for any users, any  *)
(* number of calls and any backlog.                                        *)
(***************************************************************************)
EXTENDS Listen, FiniteSetTheorems, TLAPS

ThreadPCs == {"none", "test", "accept", "accepted", "callback", "ended"}
UserPCs   == {"idle", "start", "stop", "flag", "self", "join", "socket", "session"}
ReqStates == {"unused", "connecting", "connected", "entering", "over", "unmade", "lost"}

\* Types of the variables that the argument is about.
TypeOK ==
    /\ mListenThread \in BOOLEAN /\ listening \in BOOLEAN
    /\ cbStops \in BOOLEAN /\ terminated \in BOOLEAN
    /\ lpc \in ThreadPCs
    /\ pc \in [Callers -> UserPCs]
    /\ req \in [Calls -> ReqStates]
    /\ promise \in [Calls -> {"unset", "null", "socket"}]
    /\ used \in 0..MaxCalls

\* The thread object, the thread and its socket come and go together.
ThreadInv ==
    /\ ~mListenThread => lpc = "none"
    /\ lpc \in {"none", "ended"} => ~listening

\* The accept callback is in a call of stopListen or in none, and once it has
\* asked for its connect it never comes out.
CallbackInv ==
    /\ pc[Cb] \in {"idle", "stop", "flag", "self", "join"}
    /\ pc[Cb] # "idle" => cbStops

\* A promise is not set while a request that will set it is under way.
PromiseInv == \A c \in Calls : req[c] \notin {"over", "unmade"} => promise[c] = "unset"

\* Users that will still ask for the connect of a stopListen, and whether the
\* callback has.
Stopping == {u \in Users : pc[u] \in {"stop", "flag"}}
CbAsked  == IF pc[Cb] \in {"self", "join"} THEN 1 ELSE 0

\* The numbers of the calls are handed out in order, and there is one left for
\* each connect that can still be asked for.
NumbersInv ==
    /\ IsFiniteSet(Stopping)
    /\ \E n \in 0..(MaxCalls + 1) :
          /\ \A c \in Calls : req[c] # "unused" <=> c <= n
          /\ n + Cardinality(Stopping) <= used + CbAsked

\* The inductive invariant.
ListenInv == TypeOK /\ ThreadInv /\ CallbackInv /\ PromiseInv /\ NumbersInv /\ (terminated => cbStops)

-----------------------------------------------------------------------------
(* The numbers of the calls.                                               *)

\* Request takes the lowest number that is free, if there is one.
LEMMA FreshIsNext ==
    ASSUME NEW n \in 0..MaxCalls, \A c \in Calls : req[c] # "unused" <=> c <= n
    PROVE  Fresh = n + 1 /\ Fresh \in Calls /\ req[Fresh] = "unused"
<1>1. n + 1 \in Calls /\ req[n + 1] = "unused" /\ \A d \in Calls : req[d] = "unused" => n + 1 <= d
  BY ListenAssumption DEF Calls
<1>2. \A c \in Calls : req[c] = "unused" /\ (\A d \in Calls : req[d] = "unused" => c <= d) => c = n + 1
  BY <1>1, ListenAssumption DEF Calls
<1> QED BY <1>1, <1>2 DEF Fresh

\* A request takes the next number and leaves the promises alone.
LEMMA RequestTakesNext ==
    ASSUME TypeOK, PromiseInv, NEW u, NEW isSession, Request(u, isSession),
           NEW n \in 0..MaxCalls, \A c \in Calls : req[c] # "unused" <=> c <= n
    PROVE  /\ req' \in [Calls -> ReqStates] /\ promise' = promise
           /\ PromiseInv'
           /\ \A c \in Calls : req'[c] # "unused" <=> c <= n + 1
<1>1. Fresh = n + 1 /\ Fresh \in Calls /\ req[Fresh] = "unused"
  BY FreshIsNext
<1>2. req' = [req EXCEPT ![n + 1] = "connecting"] /\ promise' = promise
  BY <1>1 DEF Request
<1>3. req' \in [Calls -> ReqStates] /\ PromiseInv'
  BY <1>1, <1>2 DEF TypeOK, PromiseInv, ReqStates
<1>4. \A c \in Calls : req'[c] # "unused" <=> c <= n + 1
  BY <1>1, <1>2, ListenAssumption DEF TypeOK, Calls
<1> QED BY <1>2, <1>3, <1>4

\* A step that asks for nothing and lets no user begin to stop.
LEMMA NumbersKept ==
    ASSUME TypeOK, NumbersInv, UNCHANGED <<used, CbAsked>>, Stopping' \subseteq Stopping,
           \A c \in Calls : req'[c] = "unused" <=> req[c] = "unused"
    PROVE  NumbersInv'
<1>1. IsFiniteSet(Stopping') /\ Cardinality(Stopping') <= Cardinality(Stopping)
  BY FS_Subset DEF NumbersInv
<1>2. Cardinality(Stopping) \in Nat /\ Cardinality(Stopping') \in Nat
  BY <1>1, FS_CardinalityType DEF NumbersInv
<1>3. PICK n \in 0..(MaxCalls + 1) :
          /\ \A c \in Calls : req[c] # "unused" <=> c <= n
          /\ n + Cardinality(Stopping) <= used + CbAsked
  BY DEF NumbersInv
<1>4. n + Cardinality(Stopping') <= used + CbAsked
  BY <1>1, <1>2, <1>3 DEF TypeOK, CbAsked
<1> QED BY <1>1, <1>3, <1>4 DEF NumbersInv

-----------------------------------------------------------------------------
(* The calls of the users.                                                 *)

\* A call is counted when it begins; a connect gets its number at once, a stop
\* has one set aside for it.
LEMMA CallKeepsInv ==
    ASSUME ListenInv, ~terminated, NEW u \in Users, Call(u)
    PROVE  ListenInv'
<1> USE DEF ListenInv
<1>1. PICK where \in {"start", "stop", "socket", "session"} : Enter(u, where) /\
          \/ where \in {"start", "stop"} /\ UNCHANGED request
          \/ where \in {"socket", "session"} /\ \E s \in BOOLEAN : Request(u, s)
  BY DEF Call, CallStart, CallStop, SyncConnectSocket, SyncConnectSession
<1>2. /\ used < MaxCalls /\ used' = used + 1 /\ u # Cb /\ u \in Callers
      /\ pc[u] = "idle" /\ pc' = [pc EXCEPT ![u] = where]
      /\ UNCHANGED <<mListenThread, listening, lpc, cbStops, terminated>>
  BY <1>1, ListenAssumption DEF Enter, thread, fixed, Callers
<1>3. CallbackInv' /\ ThreadInv' /\ CbAsked' = CbAsked /\ CbAsked \in 0..1
  BY <1>2 DEF CallbackInv, ThreadInv, CbAsked, TypeOK
<1>4. Cardinality(Stopping) \in Nat
  BY FS_CardinalityType DEF NumbersInv
<1>5. PICK n \in 0..(MaxCalls + 1) :
          /\ \A c \in Calls : req[c] # "unused" <=> c <= n
          /\ n + Cardinality(Stopping) <= used + CbAsked
  BY DEF NumbersInv
<1>6. n \in 0..MaxCalls /\ n + 1 \in 0..(MaxCalls + 1) /\ used' \in 0..MaxCalls
  BY <1>2, <1>3, <1>4, <1>5, ListenAssumption DEF TypeOK
<1>7. pc' \in [Callers -> UserPCs]
  BY <1>1, <1>2 DEF TypeOK, UserPCs
<1>8. CASE where \in {"socket", "session"}
  <2>1. PICK s \in BOOLEAN : Request(u, s)
    BY <1>1, <1>8
  <2>2. /\ req' \in [Calls -> ReqStates] /\ promise' = promise /\ PromiseInv'
        /\ \A c \in Calls : req'[c] # "unused" <=> c <= n + 1
    BY <1>5, <1>6, <2>1, RequestTakesNext
  <2>3. Stopping' = Stopping
    BY <1>2, <1>8 DEF Stopping, TypeOK
  <2>4. NumbersInv'
    BY <1>2, <1>3, <1>4, <1>5, <1>6, <2>2, <2>3 DEF NumbersInv, TypeOK
  <2> QED BY <1>2, <1>3, <1>6, <1>7, <2>2, <2>4 DEF TypeOK
<1>9. CASE where \in {"start", "stop"}
  <2>1. UNCHANGED <<req, promise>>
    BY <1>1, <1>9 DEF request
  <2>2. Stopping' = Stopping \/ Stopping' = Stopping \cup {u}
    BY <1>2, <1>9 DEF Stopping, TypeOK
  <2>3. IsFiniteSet(Stopping') /\ Cardinality(Stopping') <= Cardinality(Stopping) + 1
    BY <1>4, <2>2, FS_AddElement DEF NumbersInv
  <2>4. Cardinality(Stopping') \in Nat
    BY <2>3, FS_CardinalityType
  <2>5. n + Cardinality(Stopping') <= used' + CbAsked'
    BY <1>2, <1>3, <1>4, <1>5, <2>3, <2>4 DEF TypeOK
  <2>6. NumbersInv'
    BY <1>5, <2>1, <2>3, <2>5 DEF NumbersInv
  <2> QED BY <1>2, <1>3, <1>6, <1>7, <2>1, <2>6 DEF TypeOK, PromiseInv
<1> QED BY <1>1, <1>8, <1>9

\* startListen makes thread, flag and socket together or nothing at all.
LEMMA StartKeepsInv ==
    ASSUME ListenInv, NEW u \in Callers, startListen(u)
    PROVE  ListenInv'
<1> USE DEF ListenInv
<1>1. /\ pc[u] = "start" /\ pc' = [pc EXCEPT ![u] = "idle"]
      /\ UNCHANGED <<req, promise, used, cbStops, terminated>>
  BY DEF startListen, request, fixed
<1>2. /\ mListenThread' \in BOOLEAN /\ listening' \in BOOLEAN /\ lpc' \in ThreadPCs
      /\ ThreadInv'
  <2>1. CASE UNCHANGED thread
    BY <2>1 DEF thread, TypeOK, ThreadInv
  <2>2. CASE mListenThread' = TRUE /\ listening' = TRUE /\ lpc' = "test"
    BY <2>2 DEF ThreadInv, ThreadPCs
  <2> QED BY <2>1, <2>2 DEF startListen
<1>3. CallbackInv' /\ CbAsked' = CbAsked /\ Stopping' \subseteq Stopping
  BY <1>1 DEF CallbackInv, CbAsked, Stopping, TypeOK
<1>4. NumbersInv'
  BY <1>1, <1>3, NumbersKept
<1> QED BY <1>1, <1>2, <1>3, <1>4 DEF TypeOK, PromiseInv, UserPCs

\* stopListen takes the mutex, waits for its connect and returns; so does a
\* user that waits for a connect of its own.
LEMMA WaitKeepsInv ==
    ASSUME ListenInv, NEW u \in Callers, stopListen(u) \/ StopConnected(u) \/ SyncReturns(u)
    PROVE  ListenInv'
<1> USE DEF ListenInv
<1>1. UNCHANGED <<mListenThread, listening, lpc, req, promise, used, cbStops, terminated>>
  BY DEF stopListen, StopConnected, SyncReturns, thread, request, fixed
<1>2. PICK l \in UserPCs :
          /\ pc' = [pc EXCEPT ![u] = l]
          /\ \/ pc[u] = "stop" /\ l \in {"idle", "flag"}
             \/ pc[u] = "self" /\ l = "join"
             \/ pc[u] \in {"socket", "session"} /\ l = "idle"
  BY DEF stopListen, StopConnected, SyncReturns, UserPCs
<1>3. CallbackInv' /\ CbAsked' = CbAsked /\ Stopping' \subseteq Stopping
  BY <1>1, <1>2 DEF CallbackInv, CbAsked, Stopping, TypeOK
<1>4. NumbersInv'
  BY <1>1, <1>3, NumbersKept
<1> QED BY <1>1, <1>2, <1>3, <1>4 DEF TypeOK, ThreadInv, PromiseInv

\* stopListen clears the flag and asks for its connect: the number set aside
\* for it, or for the callback, is used up.
LEMMA StopFlagKeepsInv ==
    ASSUME ListenInv, NEW u \in Callers, StopFlag(u)
    PROVE  ListenInv'
<1> USE DEF ListenInv
<1>1. /\ pc[u] = "flag" /\ pc' = [pc EXCEPT ![u] = "self"] /\ Request(u, FALSE)
      /\ UNCHANGED <<mListenThread, listening, lpc, used, cbStops, terminated>>
  BY DEF StopFlag, fixed
<1>2. CallbackInv' /\ ThreadInv'
  BY <1>1 DEF CallbackInv, ThreadInv, TypeOK
<1>3. Cardinality(Stopping) \in Nat /\ CbAsked \in 0..1
  BY FS_CardinalityType DEF NumbersInv, CbAsked
<1>4. PICK n \in 0..(MaxCalls + 1) :
          /\ \A c \in Calls : req[c] # "unused" <=> c <= n
          /\ n + Cardinality(Stopping) <= used + CbAsked
  BY DEF NumbersInv
<1>5. /\ IsFiniteSet(Stopping') /\ Cardinality(Stopping') \in Nat
      /\ n \in 0..MaxCalls /\ n + 1 + Cardinality(Stopping') <= used + CbAsked'
  <2>1. CASE u = Cb
    <3>1. Stopping' = Stopping /\ CbAsked = 0 /\ CbAsked' = 1
      BY <1>1, <2>1, ListenAssumption DEF Stopping, CbAsked, TypeOK, Callers
    <3> QED BY <1>3, <1>4, <3>1, ListenAssumption DEF NumbersInv, TypeOK
  <2>2. CASE u # Cb
    <3>1. u \in Stopping /\ Stopping' = Stopping \ {u} /\ CbAsked' = CbAsked
      BY <1>1, <2>2 DEF Stopping, CbAsked, TypeOK, Callers
    <3>2. IsFiniteSet(Stopping') /\ Cardinality(Stopping') = Cardinality(Stopping) - 1
      BY <3>1, FS_RemoveElement DEF NumbersInv
    <3>3. Cardinality(Stopping') \in Nat
      BY <3>2, FS_CardinalityType
    <3> QED BY <1>3, <1>4, <3>1, <3>2, <3>3, ListenAssumption DEF TypeOK
  <2> QED BY <2>1, <2>2
<1>6. /\ req' \in [Calls -> ReqStates] /\ promise' = promise /\ PromiseInv'
      /\ \A c \in Calls : req'[c] # "unused" <=> c <= n + 1
  BY <1>1, <1>4, <1>5, RequestTakesNext
<1>7. n + 1 \in 0..(MaxCalls + 1) /\ n + 1 + Cardinality(Stopping') <= used' + CbAsked'
  BY <1>1, <1>5, ListenAssumption
<1>8. NumbersInv'
  BY <1>5, <1>6, <1>7 DEF NumbersInv
<1> QED BY <1>1, <1>2, <1>6, <1>8 DEF TypeOK, UserPCs

\* stopListen joins a thread that has ended and closed its socket; only the
\* callback, which cannot be joined by itself, ends the process.
LEMMA StopJoinKeepsInv ==
    ASSUME ListenInv, NEW u \in Callers, StopJoin(u)
    PROVE  ListenInv'
<1> USE DEF ListenInv
<1>1. pc[u] = "join" /\ UNCHANGED <<listening, req, promise, used, cbStops>>
  BY DEF StopJoin, request, fixed
<1>2. CASE u = Cb
  <2>1. terminated' = TRUE /\ cbStops /\ UNCHANGED <<mListenThread, lpc, pc>>
    BY <1>1, <1>2 DEF StopJoin, CallbackInv
  <2>2. Stopping' = Stopping /\ CbAsked' = CbAsked
    BY <2>1 DEF Stopping, CbAsked
  <2>3. NumbersInv'
    BY <1>1, <2>2, NumbersKept
  <2> QED BY <1>1, <2>1, <2>3 DEF TypeOK, ThreadInv, CallbackInv, PromiseInv
<1>3. CASE u # Cb
  <2>1. /\ lpc = "ended" /\ lpc' = "none" /\ mListenThread' = FALSE
        /\ pc' = [pc EXCEPT ![u] = "idle"] /\ terminated' = terminated
    BY <1>3 DEF StopJoin
  <2>2. Stopping' = Stopping /\ CbAsked' = CbAsked
    BY <1>1, <1>3, <2>1 DEF Stopping, CbAsked, TypeOK, Callers
  <2>3. NumbersInv'
    BY <1>1, <2>2, NumbersKept
  <2>4. ThreadInv' /\ CallbackInv'
    BY <1>1, <1>3, <2>1 DEF ThreadInv, CallbackInv, TypeOK
  <2> QED BY <1>1, <2>1, <2>3, <2>4 DEF TypeOK, PromiseInv, ThreadPCs, UserPCs
<1> QED BY <1>2, <1>3

-----------------------------------------------------------------------------
(* The listen thread, the connector and the whole.                         *)

\* The listen thread: its end and the end of its socket are one step.
LEMMA ThreadKeepsInv ==
    ASSUME ListenInv, Thread \/ AcceptFails \/ CallbackStops
    PROVE  ListenInv'
<1> USE DEF ListenInv
<1>1. CASE CallbackStops
  <2>1. /\ cbStops /\ pc[Cb] = "idle" /\ pc' = [pc EXCEPT ![Cb] = "stop"]
        /\ UNCHANGED <<mListenThread, listening, lpc, req, promise, used, cbStops, terminated>>
    BY <1>1 DEF CallbackStops, thread, request, fixed
  <2>2. Stopping' = Stopping /\ CbAsked' = CbAsked /\ CallbackInv'
    BY <2>1, ListenAssumption DEF Stopping, CbAsked, CallbackInv, TypeOK, Callers
  <2>3. NumbersInv'
    BY <2>1, <2>2, NumbersKept
  <2> QED BY <2>1, <2>2, <2>3 DEF TypeOK, ThreadInv, PromiseInv, UserPCs
<1>2. CASE Thread \/ AcceptFails
  <2>1. /\ lpc # "none" /\ lpc' \in ThreadPCs \ {"none"}
        /\ listening' = IF lpc' = "ended" THEN FALSE ELSE listening
        /\ UNCHANGED <<mListenThread, pc, req, promise, used, cbStops, terminated>>
    BY <1>2 DEF Thread, AcceptFails, TestRun, Accept, Accepted, CallbackReturns, Listener,
       request, fixed, ThreadPCs
  <2>2. Stopping' = Stopping /\ CbAsked' = CbAsked
    BY <2>1 DEF Stopping, CbAsked
  <2>3. NumbersInv'
    BY <2>1, <2>2, NumbersKept
  <2>4. listening' \in BOOLEAN /\ ThreadInv'
    BY <2>1 DEF TypeOK, ThreadInv
  <2> QED BY <2>1, <2>3, <2>4 DEF TypeOK, CallbackInv, PromiseInv
<1> QED BY <1>1, <1>2

\* The connector and the service: a promise is set by the last step of its
\* request only, so never twice.
LEMMA ConnectKeepsInv ==
    ASSUME ListenInv, NEW c \in Calls, Connect(c) \/ RequestLost(c)
    PROVE  ListenInv'
<1> USE DEF ListenInv
<1>1. /\ req[c] \notin {"unused", "over", "unmade"}
      /\ UNCHANGED <<mListenThread, listening, lpc, pc, used, cbStops>>
  BY DEF Connect, KernelConnects, ConnectFails, ConnectFailsHere, RequestLost, ConnectSucceeds,
         EnterCallback, thread, fixed
<1>2. PICK r \in ReqStates \ {"unused"} : req' = [req EXCEPT ![c] = r] /\
          \/ UNCHANGED <<promise, terminated>>
          \/ r \in {"over", "unmade"} /\ \E v \in {"null", "socket"} : SetValue(c, v)
  BY DEF Connect, KernelConnects, ConnectFails, ConnectFailsHere, RequestLost, ConnectSucceeds,
         EnterCallback, ReqStates
<1>3. terminated' = terminated /\
          \/ promise' = promise
          \/ r \in {"over", "unmade"} /\ \E v \in {"null", "socket"} : promise' = [promise EXCEPT ![c] = v]
  BY <1>1, <1>2 DEF SetValue, PromiseInv
<1>4. promise' \in [Calls -> {"unset", "null", "socket"}] /\ req' \in [Calls -> ReqStates]
  BY <1>2, <1>3 DEF TypeOK
<1>5. PromiseInv'
  BY <1>1, <1>2, <1>3 DEF PromiseInv, TypeOK
<1>6. Stopping' = Stopping /\ CbAsked' = CbAsked
  BY <1>1 DEF Stopping, CbAsked
<1>7. NumbersInv'
  <2>1. \A d \in Calls : req'[d] = "unused" <=> req[d] = "unused"
    BY <1>1, <1>2 DEF TypeOK
  <2> QED BY <1>1, <1>6, <2>1, NumbersKept
<1> QED BY <1>1, <1>3, <1>4, <1>5, <1>7 DEF TypeOK, ThreadInv, CallbackInv

\* Every behaviour of users, listen thread, kernel and connector keeps the
\* inductive invariant.
THEOREM ListenInvariant == Spec => []ListenInv
<1>1. Init => ListenInv
  <2> SUFFICES ASSUME Init PROVE ListenInv
    OBVIOUS
  <2>1. TypeOK
    <3>1. /\ mListenThread \in BOOLEAN /\ listening \in BOOLEAN
          /\ cbStops \in BOOLEAN /\ terminated \in BOOLEAN
      BY DEF Init
    <3> QED BY <3>1, ListenAssumption DEF Init, TypeOK, ThreadPCs, UserPCs, ReqStates
  <2>2. ThreadInv /\ CallbackInv /\ PromiseInv /\ ~terminated
    BY DEF Init, ThreadInv, CallbackInv, PromiseInv, Callers
  <2>3. Stopping = {} /\ CbAsked = 0
    BY DEF Init, Stopping, CbAsked, Callers
  <2>4. IsFiniteSet(Stopping) /\ Cardinality(Stopping) = 0
    BY <2>3, FS_EmptySet
  <2>5. \A c \in Calls : req[c] # "unused" <=> c <= 0
    BY ListenAssumption DEF Init, Calls
  <2>6. NumbersInv
    <3>1. 0 \in 0..(MaxCalls + 1) /\ 0 + Cardinality(Stopping) <= used + CbAsked
      BY <2>3, <2>4, ListenAssumption DEF Init
    <3> QED BY <2>4, <2>5, <3>1 DEF NumbersInv
  <2> QED BY <2>1, <2>2, <2>6 DEF ListenInv
<1>2. ListenInv /\ [Next]_vars => ListenInv'
  <2> SUFFICES ASSUME ListenInv, [Next]_vars PROVE ListenInv'
    OBVIOUS
  <2>1. CASE UNCHANGED vars
    <3>1. Stopping' = Stopping /\ CbAsked' = CbAsked
      BY <2>1 DEF vars, Stopping, CbAsked
    <3> QED BY <2>1, <3>1 DEF vars, ListenInv, TypeOK, ThreadInv, CallbackInv, PromiseInv, NumbersInv
  <2>2. ASSUME NEW u \in Callers, Proceed(u) PROVE ListenInv'
    BY <2>2, StartKeepsInv, WaitKeepsInv, StopFlagKeepsInv, StopJoinKeepsInv DEF Proceed
  <2> QED BY <2>1, <2>2, CallKeepsInv, ThreadKeepsInv, ConnectKeepsInv DEF Next
<1> QED BY <1>1, <1>2, PTL DEF Spec

\* For any users, calls and backlog: after stopListen no thread runs and the
\* port is free, no promise is set twice, and only an accept callback that
\* stops its own thread ends the process.
THEOREM StopIsSilent == Spec => []StoppedIsSilent
<1>1. ListenInv => StoppedIsSilent
  BY DEF ListenInv, ThreadInv, StoppedIsSilent
<1> QED BY <1>1, ListenInvariant, PTL
=============================================================================
