----------------------------- MODULE TcpService -----------------------------
(***************************************************************************)
(* brynet::net::TcpService: the table of sessions.  A session is named by  *)
(* an int64 that packs the number of its loop, its slot in the loop's      *)
(* TypeIDS and a serial number (union SessionId); users keep such ids for  *)
(* as long as they like and call send, postShutdown, postDisConnect and    *)
(* setHeartBeat with them from any thread.  The call becomes a proc on the *)
(* loop, and there the id is looked up: slot first, then the id that the   *)
(* socket in the slot carries.                                             *)
(*                                                                         *)
(* The queue of procs of a loop is the one AsyncQueue promises.  Workers   *)
(* are stopped and started as a whole; the locks that takes are the        *)
(* subject of WorkerLifecycle.                                             *)
(***************************************************************************)
EXTENDS Naturals, Sequences, FiniteSets, SequencesExt

CONSTANTS
    Sockets,    \* the DataSockets that users add
    Null,       \* nullptr, and the absence of an id
    NLoops,     \* worker threads
    GrowNum,    \* slots added at a time by TypeIDS::increase (_NUM)
    IndexMod,   \* 2^16: width of SessionId::index
    IidMod,     \* 2^32: width of SessionId::iid
    MaxCalls,   \* bound: calls with an id
    MaxStops    \* bound: stopWorkerThread

ASSUME SocketsAssumption == Null \notin Sockets
ASSUME WidthsAssumption ==
    /\ NLoops \in Nat \ {0} /\ GrowNum \in Nat \ {0}
    /\ IndexMod \in Nat \ {0} /\ IidMod \in Nat \ {0}
    /\ MaxCalls \in Nat /\ MaxStops \in Nat

VARIABLES
    gen,        \* which startWorkerThread the loops belong to
    running,    \* mIOLoopDatas is not empty
    loopData,   \* the IOLoopData of each worker, with its loop's queue
    status,     \* "new", "queued", "open", "failed", "deleted" or "abandoned", per socket
    home,       \* the loop a socket was given to
    ud,         \* the id a socket carries
    known,      \* the ids given to users: which socket, in which generation
    reached,    \* history: the socket a caller meant and the one that was called
    asserted,   \* the assertions that have failed
    calls, stops

vars == <<gen, running, loopData, status, home, ud, known, reached, asserted, calls, stops>>

Loops == 0..(NLoops - 1)

\* A fresh IOLoopData.
NewLoopData == [mValues |-> <<>>, mIds |-> <<>>, mNextId |-> 0, queue |-> <<>>]

Init ==
    /\ gen = 1 /\ running = TRUE
    /\ loopData = [l \in Loops |-> NewLoopData]
    /\ status = [s \in Sockets |-> "new"]
    /\ home = [s \in Sockets |-> 0]
    /\ ud = [s \in Sockets |-> Null]
    /\ known = {} /\ reached = {} /\ asserted = {}
    /\ calls = 0 /\ stops = 0

-----------------------------------------------------------------------------
(* TypeIDS: values by slot, free slots on a stack.  Slots count from 0.    *)

Increase(d) ==
    [d EXCEPT !.mValues = @ \o [i \in 1..GrowNum |-> Null],
              !.mIds = @ \o [i \in 1..GrowNum |-> Len(d.mValues) + i - 1]]

Claimable(d) == IF d.mIds = <<>> THEN Increase(d) ELSE d

\* claimID: the slot it returns and what is left.
ClaimedSlot(d) == Last(Claimable(d).mIds)

\* The claimed slot stays free.
Claim_KeepFree(d) == Claimable(d)

Claim(d) == [Claimable(d) EXCEPT !.mIds = Front(@)]

HasSlot(d, i) == i < Len(d.mValues)
SetSlot(d, i, v) == IF HasSlot(d, i) THEN [d EXCEPT !.mValues[i + 1] = v] ELSE d

\* The slot is not given back.
Reclaim_Missing(d, i) == d

Reclaim(d, i) == [d EXCEPT !.mIds = Append(@, i)]

-----------------------------------------------------------------------------
(* Sockets.                                                                *)

\* _addDataSocket and helpAddChannel: a random loop is told to take it.
AddDataSocket(s, l) ==
    /\ running /\ status[s] = "new"
    /\ status' = [status EXCEPT ![s] = "queued"]
    /\ home' = [home EXCEPT ![s] = l]
    /\ loopData' = [loopData EXCEPT ![l].queue =
                        Append(@, [op |-> "enter", sock |-> s, id |-> Null, gen |-> gen])]
    /\ UNCHANGED <<gen, running, ud, known, reached, asserted, calls, stops>>

\* There are no workers, SSL cannot be set up, or the caller insists on its own
\* loop and has none: the channel is deleted and false returned.
AddDataSocketFails(s) ==
    /\ status[s] = "new"
    /\ status' = [status EXCEPT ![s] = "failed"]
    /\ UNCHANGED <<gen, running, loopData, home, ud, known, reached, asserted, calls, stops>>

\* The serial number is not counted up.
MakeID_NoSerial(l, d) ==
    [loopIndex |-> l, index |-> ClaimedSlot(d) % IndexMod, iid |-> 0]

MakeID(l, d) ==
    [loopIndex |-> l, index |-> ClaimedSlot(d) % IndexMod, iid |-> d.mNextId % IidMod]

NextIsEnter(l) == loopData[l].queue # <<>> /\ Head(loopData[l].queue).op = "enter"

\* onEnterEventLoop and the enter callback: claim a slot, store the socket,
\* give it its id, tell the user.
OnEnterEventLoop(l, d, s) ==
    LET id == MakeID(l, d) IN
    /\ loopData' = [loopData EXCEPT ![l] =
                        SetSlot([Claim(d) EXCEPT !.mNextId = @ + 1], id.index, s)]
    /\ ud' = [ud EXCEPT ![s] = id]
    /\ status' = [status EXCEPT ![s] = "open"]
    /\ known' = known \cup {[id |-> id, sock |-> s, gen |-> gen]}

\* The loop takes a socket that was queued ...
Enter(l) ==
    /\ running /\ NextIsEnter(l)
    /\ OnEnterEventLoop(l, [loopData[l] EXCEPT !.queue = Tail(@)],
                        Head(loopData[l].queue).sock)
    /\ UNCHANGED <<gen, running, home, reached, asserted, calls, stops>>

\* ... or one that is added on the loop's own thread: pushAsyncProc runs the
\* proc at once, ahead of those that are queued.
EnterAtOnce(s, l) ==
    /\ running /\ status[s] = "new"
    /\ home' = [home EXCEPT ![s] = l]
    /\ OnEnterEventLoop(l, loopData[l], s)
    /\ UNCHANGED <<gen, running, reached, asserted, calls, stops>>

\* The socket cannot be made non-blocking or linked to epoll.
EnterFails(l) ==
    /\ running /\ NextIsEnter(l)
    /\ status' = [status EXCEPT ![Head(loopData[l].queue).sock] = "failed"]
    /\ loopData' = [loopData EXCEPT ![l].queue = Tail(@)]
    /\ UNCHANGED <<gen, running, home, ud, known, reached, asserted, calls, stops>>

\* The slot keeps the pointer of the deleted socket.
Closed_KeepSlot(d, i) == Reclaim(d, i)

\* procDataSocketClose
Closed(d, i) == Reclaim(SetSlot(d, i, Null), i)

\* The disconnect callback: clear the slot, give it back, delete the socket.
CloseSocket(s) ==
    /\ running /\ status[s] = "open"
    /\ loopData' = [loopData EXCEPT ![home[s]] = Closed(@, ud[s].index)]
    /\ asserted' = asserted \cup
          (IF Contains(loopData[home[s]].mIds, ud[s].index) THEN {"reclaimID"} ELSE {})
    /\ status' = [status EXCEPT ![s] = "deleted"]
    /\ UNCHANGED <<gen, running, home, ud, known, reached, calls, stops>>

-----------------------------------------------------------------------------
(* Calls with an id.                                                       *)

\* getIOLoopDataBySocketID finds the loop by its number.
CallById(k) ==
    /\ calls < MaxCalls
    /\ calls' = calls + 1
    /\ IF running
       THEN /\ loopData' = [loopData EXCEPT ![k.id.loopIndex].queue =
                                Append(@, [op |-> "call", sock |-> k.sock, id |-> k.id, gen |-> k.gen])]
            /\ UNCHANGED asserted
       ELSE /\ asserted' = asserted \cup {"loopIndex"}
            /\ UNCHANGED loopData
    /\ UNCHANGED <<gen, running, status, home, ud, known, reached, stops>>

\* The socket in the slot counts only if it carries the same id.
Lookup(d, id) ==
    LET s == IF HasSlot(d, id.index) THEN d.mValues[id.index + 1] ELSE Null IN
    IF s # Null /\ ud[s] = id THEN s ELSE Null

\* The proc of IOLoopData::send or postSessionAsyncProc, for a call c.
Reach(d, c) ==
    /\ reached' = reached \cup
          {[meant |-> c.sock, called |-> s, fresh |-> c.gen = gen] :
              s \in {Lookup(d, c.id)} \ {Null}}
    /\ asserted' = asserted \cup (IF HasSlot(d, c.id.index) THEN {} ELSE {"get"})

\* A call on the thread of the loop is not queued.
CallInLoop(k) ==
    /\ running /\ calls < MaxCalls
    /\ calls' = calls + 1
    /\ Reach(loopData[k.id.loopIndex], k)
    /\ UNCHANGED <<gen, running, loopData, status, home, ud, known, stops>>

\* A queued call runs.
RunCall(l) ==
    /\ running
    /\ loopData[l].queue # <<>> /\ Head(loopData[l].queue).op = "call"
    /\ Reach(loopData[l], Head(loopData[l].queue))
    /\ loopData' = [loopData EXCEPT ![l].queue = Tail(@)]
    /\ UNCHANGED <<gen, running, status, home, ud, known, calls, stops>>

-----------------------------------------------------------------------------
(* stopWorkerThread, startWorkerThread.                                    *)

\* The workers are joined: whatever is queued or open stays as it is and is
\* never touched again.
StopWorkerThread ==
    /\ running /\ stops < MaxStops
    /\ running' = FALSE
    /\ stops' = stops + 1
    /\ UNCHANGED <<gen, loopData, status, home, ud, known, reached, asserted, calls>>

\* New loops with empty tables and serial numbers from 0.
StartWorkerThread ==
    /\ ~running
    /\ running' = TRUE
    /\ gen' = gen + 1
    /\ loopData' = [l \in Loops |-> NewLoopData]
    /\ status' = [s \in Sockets |->
                    IF status[s] \in {"queued", "open"} THEN "abandoned" ELSE status[s]]
    /\ UNCHANGED <<home, ud, known, reached, asserted, calls, stops>>

Next ==
    \/ \E s \in Sockets, l \in Loops : AddDataSocket(s, l) \/ EnterAtOnce(s, l)
    \/ \E s \in Sockets : AddDataSocketFails(s) \/ CloseSocket(s)
    \/ \E l \in Loops : Enter(l) \/ EnterFails(l) \/ RunCall(l)
    \/ \E k \in known : CallById(k) \/ CallInLoop(k)
    \/ StopWorkerThread \/ StartWorkerThread

Spec == Init /\ [][Next]_vars

-----------------------------------------------------------------------------
(* Properties.                                                             *)

IdType == [loopIndex : Loops, index : 0..(IndexMod - 1), iid : 0..(IidMod - 1)]

ProcType == [op : {"enter", "call"}, sock : Sockets, id : IdType \cup {Null}, gen : Nat]
DataType == [mValues : Seq(Sockets \cup {Null}), mIds : Seq(Nat), mNextId : Nat, queue : Seq(ProcType)]

\* A free slot is a slot.
FreeInRange(d) == \A i \in 1..Len(d.mIds) : d.mIds[i] < Len(d.mValues)

\* Every variable keeps its type.
TypeOK ==
    /\ gen \in Nat /\ running \in BOOLEAN
    /\ loopData \in [Loops -> DataType]
    /\ \A l \in Loops : FreeInRange(loopData[l])
    /\ status \in [Sockets -> {"new", "queued", "open", "failed", "deleted", "abandoned"}]
    /\ home \in [Sockets -> Loops]
    /\ ud \in [Sockets -> IdType \cup {Null}]
    /\ known \subseteq [id : IdType, sock : Sockets, gen : Nat]
    /\ reached \subseteq [meant : Sockets, called : Sockets, fresh : BOOLEAN]
    /\ asserted \subseteq {"reclaimID", "loopIndex", "get"}
    /\ calls \in 0..MaxCalls /\ stops \in 0..MaxStops

\* A call reaches the session its id was given for or none: an id that
\* outlives its session never acts on the session that took its slot.
NoMisdelivery == \A r \in reached : r.meant = r.called

\* The same for ids of the workers that run now, with ids from before the
\* last restart still in the hands of users.
NoFreshMisdelivery == \A r \in reached : r.fresh => r.meant = r.called

\* The table never holds the pointer of a DataSocket that was deleted, so a
\* lookup on the loop thread (TCPService.cpp:143-152) cannot return one.
NoDanglingSlot ==
    running => \A l \in Loops : \A i \in 1..Len(loopData[l].mValues) :
        loopData[l].mValues[i] # Null => status[loopData[l].mValues[i]] = "open"

\* Every open session is found by its id: no other session has overwritten
\* its slot.
OpenIsReachable ==
    running => \A s \in Sockets :
        status[s] = "open" => Lookup(loopData[home[s]], ud[s]) = s

\* Free slots and sessions divide the slots of a loop between them: no slot
\* is free twice, free and taken, or lost.
SlotsConserved ==
    running => \A l \in Loops :
        LET d == loopData[l]
            free == d.mIds
            taken == {s \in Sockets : status[s] = "open" /\ home[s] = l}
        IN /\ \A i, j \in 1..Len(free) : free[i] = free[j] => i = j
           /\ \A i \in 1..Len(free) : d.mValues[free[i] + 1] = Null
           /\ Len(free) + Cardinality(taken) = Len(d.mValues)

\* The assertions of the code hold: reclaimID gets no free slot
\* (Typeids.h:39), get a slot that exists (Typeids.h:73), and the loop of an
\* id exists (TCPService.cpp:284).
AssertsHold == asserted = {}
=============================================================================
