----------------------------- MODULE DataSocket -----------------------------
(***************************************************************************)
(* brynet::net::DataSocket on Linux, without SSL: one connection on the    *)
(* thread of its EventLoop, the kernel socket under it, the peer, and the  *)
(* threads that call send, postShutdown and postDisConnect through the     *)
(* session id (TcpService looks the id up on the loop thread).             *)
(*                                                                         *)
(* The loop is the one of module EventLoop seen from one channel: its      *)
(* queue of async procs is taken from AsyncQueue, its rounds are the       *)
(* phases below.  Reading is reduced to what it does to the connection:    *)
(* the data callback runs and user code in it calls back into it.          *)
(***************************************************************************)
EXTENDS Integers, Sequences, SequencesExt

CONSTANTS
    Sizes,          \* lengths of the packets users send, 0 is a legal one
    SndBuf,         \* room of the kernel's send buffer
    MaxIovec,       \* packets gathered by one writev (MAX_IOVEC)
    MaxCalls,       \* bound: calls of users, from threads and callbacks
    CompleteActs    \* what a complete callback may do: kinds of calls or "none"

ASSUME SizesAssumption == Sizes \subseteq Nat
ASSUME LimitsAssumption ==
    SndBuf \in Nat \ {0} /\ MaxIovec \in Nat \ {0} /\ MaxCalls \in Nat
ASSUME ActsAssumption == CompleteActs \subseteq {"none", "send", "disconnect", "shutdown"}

VARIABLES
    ds,         \* the DataSocket and its entries in mAfterLoopProcs
    deleted,    \* the disconnect lambda has run: slot cleared, object deleted
    phase,      \* where the loop thread is, see Phases
    todo,       \* callbacks of the current event that are still to run
    asyncQ,     \* mAsyncProcs: calls posted by other threads
    asyncCopy,  \* mCopyAsyncProcs
    afterCopy,  \* mCopyAfterLoopProcs
    tmpLen,     \* quickFlush: written bytes not yet assigned to packets
    partial,    \* quickFlush: the writev took less than it was given
    fault,      \* undefined behaviour reached, "none" if not
    room,       \* kernel: free bytes of the send buffer
    edges,      \* kernel: events epoll will report for this socket
    shutWR,     \* kernel: shutdown(SHUT_WR) was called
    peer,       \* "open", "fin" or "reset"
    accepted,   \* lengths of the packets put into mSendList so far
    wire,       \* bytes given to the kernel, <<packet, position>>
    completed,  \* packets whose complete callback has run, in order
    disconnects,\* calls of the disconnect callback
    calls,      \* calls of users so far
    hangup      \* a user or the heartbeat asked for the disconnect

object  == <<ds, deleted>>
locals  == <<tmpLen, partial, fault>>
loopq   == <<asyncQ, asyncCopy, afterCopy>>
kernel  == <<room, edges, shutWR, peer>>
history == <<accepted, wire, completed, disconnects, calls, hangup>>
vars    == <<object, phase, todo, loopq, locals, kernel, history>>

Phases == {"Wait", "Events", "Async", "After", "Flush", "Ack", "Schedule", "Crashed"}

Call(kind, len) == [kind |-> kind, len |-> len]
Calls == {Call("send", n) : n \in Sizes} \cup {Call("disconnect", 0), Call("shutdown", 0)}

Packet(id, n) == [id |-> id, len |-> n, left |-> n]

Init ==
    /\ ds = [mSocket |-> TRUE, mIsPostFinalClose |-> FALSE, mCanWrite |-> TRUE,
             mIsPostFlush |-> FALSE, mSendList |-> <<>>, mAfterLoopProcs |-> <<>>,
             checkWrite |-> FALSE]
    /\ deleted = FALSE
    /\ phase = "Wait" /\ todo = <<>>
    /\ asyncQ = <<>> /\ asyncCopy = <<>> /\ afterCopy = <<>>
    /\ tmpLen = 0 /\ partial = FALSE /\ fault = "none"
    /\ room = SndBuf /\ edges = {} /\ shutWR = FALSE /\ peer = "open"
    /\ accepted = <<>> /\ wire = <<>> /\ completed = <<>>
    /\ disconnects = 0 /\ calls = 0 /\ hangup = FALSE

-----------------------------------------------------------------------------
(* What the member functions do to the object.                             *)

RunAfterFlush(d) ==
    IF ~d.mIsPostFlush /\ d.mSendList # <<>> /\ d.mSocket
    THEN [d EXCEPT !.mAfterLoopProcs = Append(@, "flush"), !.mIsPostFlush = TRUE]
    ELSE d

SendInLoop(d, n) ==
    RunAfterFlush([d EXCEPT !.mSendList = Append(@, Packet(Len(accepted) + 1, n))])

\* onClose without the test of mIsPostFinalClose.
OnClose_NoTest(d) ==
    [d EXCEPT !.mAfterLoopProcs = Append(@, "close"), !.mSocket = FALSE,
              !.mCanWrite = FALSE, !.checkWrite = FALSE, !.mIsPostFinalClose = TRUE]

\* The descriptor is closed and nobody told.
OnClose_NoCallback(d) ==
    [d EXCEPT !.mSocket = FALSE, !.mCanWrite = FALSE, !.checkWrite = FALSE,
              !.mIsPostFinalClose = TRUE]

\* onClose and closeSocket: the descriptor is closed at once, the disconnect
\* callback waits for the end of the round.
OnClose(d) ==
    IF d.mIsPostFinalClose THEN d
    ELSE [d EXCEPT !.mAfterLoopProcs = Append(@, "close"), !.mSocket = FALSE,
                   !.mCanWrite = FALSE, !.checkWrite = FALSE, !.mIsPostFinalClose = TRUE]

ProcCloseInLoop(d) == IF d.mSocket THEN OnClose(d) ELSE d

\* The shutdown is queued for a connection that is closed already.
PostShutdown_NoTest(d) == [d EXCEPT !.mAfterLoopProcs = Append(@, "shutdown")]

PostShutdown(d) ==
    IF d.mSocket THEN [d EXCEPT !.mAfterLoopProcs = Append(@, "shutdown")] ELSE d

\* A call of a user that runs on the loop thread and finds the session.
Apply(c, d) ==
    CASE c.kind = "send"       -> SendInLoop(d, c.len)
      [] c.kind = "disconnect" -> ProcCloseInLoop(d)
      [] c.kind = "shutdown"   -> PostShutdown(d)

\* The histories of a call that reaches the session.
Accept(c) ==
    /\ accepted' = IF c.kind = "send" THEN Append(accepted, c.len) ELSE accepted
    /\ hangup' = (hangup \/ c.kind = "disconnect")

\* Adding or removing EPOLLOUT re-arms the edge: epoll looks at the socket
\* again, and a socket that was shut down or reset counts as writable.
Writable == room > 0 \/ shutWR \/ peer = "reset"

-----------------------------------------------------------------------------
(* Users on other threads.                                                 *)

\* TcpService::send, postShutdown, postDisConnect: the call is queued and
\* finds the session, or not, when it runs.
Post(c) ==
    /\ calls < MaxCalls
    /\ calls' = calls + 1
    /\ asyncQ' = Append(asyncQ, c)
    /\ UNCHANGED <<object, phase, todo, asyncCopy, afterCopy, locals, kernel,
                   accepted, wire, completed, disconnects, hangup>>

-----------------------------------------------------------------------------
(* The kernel and the peer.                                                *)

\* The peer reads: room is freed.  EPOLLOUT is reported only while it is asked for.
PeerReads ==
    /\ ds.mSocket /\ peer = "open" /\ room < SndBuf
    /\ \E r \in (room + 1)..SndBuf : room' = r
    /\ edges' = edges \cup (IF ds.checkWrite THEN {"OUT"} ELSE {})
    /\ UNCHANGED <<object, phase, todo, loopq, locals, shutWR, peer, history>>

PeerSends ==
    /\ ds.mSocket /\ peer = "open" /\ "IN" \notin edges
    /\ edges' = edges \cup {"IN"}
    /\ UNCHANGED <<object, phase, todo, loopq, locals, room, shutWR, peer, history>>

\* A FIN or a reset of the peer.
PeerCloses(how) ==
    /\ ds.mSocket /\ peer = "open"
    /\ peer' = how
    /\ edges' = edges \cup {"IN", "RDHUP"}
                  \cup (IF ds.checkWrite /\ how = "reset" THEN {"OUT"} ELSE {})
    /\ UNCHANGED <<object, phase, todo, loopq, locals, room, shutWR, history>>

-----------------------------------------------------------------------------
(* One round of EventLoop::loop().                                         *)

\* epoll_wait returns, with the event of this socket if it has one.  The
\* callbacks follow from the event: RDHUP excludes EPOLLOUT.
EpollWait ==
    /\ phase = "Wait"
    /\ phase' = "Events"
    /\ todo' = IF ~ds.mSocket THEN <<>>
               ELSE IF "RDHUP" \in edges THEN <<"canRecv", "onClose">>
               ELSE (IF "IN" \in edges THEN <<"canRecv">> ELSE <<>>)
                    \o (IF "OUT" \in edges THEN <<"canSend">> ELSE <<>>)
    /\ edges' = {}
    /\ UNCHANGED <<object, loopq, locals, room, shutWR, peer, history>>

\* The data callback calls back into the connection.
DataCallback(c) ==
    /\ phase = "Events" /\ todo # <<>> /\ Head(todo) = "canRecv"
    /\ ds.mSocket
    /\ calls < MaxCalls
    /\ calls' = calls + 1
    /\ ds' = Apply(c, ds)
    /\ Accept(c)
    /\ UNCHANGED <<deleted, phase, todo, loopq, locals, kernel,
                   wire, completed, disconnects>>

\* recv ends: nothing to read, or the end of the stream or an error, which
\* only a peer that has closed can cause.
RecvDone(must_close) ==
    /\ phase = "Events" /\ todo # <<>> /\ Head(todo) = "canRecv"
    /\ must_close => ds.mSocket /\ peer # "open"
    /\ todo' = Tail(todo)
    /\ ds' = IF must_close THEN ProcCloseInLoop(ds) ELSE ds
    /\ UNCHANGED <<deleted, phase, loopq, locals, kernel, history>>

\* canSend that forgets to try the flush.
CanSend_NoFlush ==
    /\ phase = "Events" /\ todo # <<>> /\ Head(todo) = "canSend"
    /\ todo' = Tail(todo)
    /\ ds' = [ds EXCEPT !.checkWrite = FALSE, !.mCanWrite = TRUE]
    /\ edges' = edges \ {"OUT"}
    /\ UNCHANGED <<deleted, phase, loopq, locals, room, shutWR, peer, history>>

\* canSend: removeCheckWrite, then mCanWrite is set, even for a socket that
\* was closed by the canRecv before or shut down.
CanSend ==
    /\ phase = "Events" /\ todo # <<>> /\ Head(todo) = "canSend"
    /\ todo' = Tail(todo)
    /\ ds' = RunAfterFlush([ds EXCEPT !.checkWrite = FALSE, !.mCanWrite = TRUE])
    /\ edges' = edges \ {"OUT"}
    /\ UNCHANGED <<deleted, phase, loopq, locals, room, shutWR, peer, history>>

\* The onClose that the loop calls itself after EPOLLRDHUP.
OnCloseEvent ==
    /\ phase = "Events" /\ todo # <<>> /\ Head(todo) = "onClose"
    /\ todo' = Tail(todo)
    /\ ds' = OnClose(ds)
    /\ UNCHANGED <<deleted, phase, loopq, locals, kernel, history>>

\* processAsyncProcs: swap.
SwapAsync ==
    /\ phase = "Events" /\ todo = <<>>
    /\ phase' = "Async"
    /\ asyncCopy' = asyncQ
    /\ asyncQ' = asyncCopy
    /\ UNCHANGED <<object, todo, afterCopy, locals, kernel, history>>

\* A posted call runs: the slot of a deleted session is empty.
RunAsync ==
    /\ phase = "Async" /\ asyncCopy # <<>>
    /\ asyncCopy' = Tail(asyncCopy)
    /\ IF deleted THEN UNCHANGED <<ds, accepted, hangup>>
       ELSE ds' = Apply(Head(asyncCopy), ds) /\ Accept(Head(asyncCopy))
    /\ UNCHANGED <<deleted, phase, todo, asyncQ, afterCopy, locals, kernel,
                   wire, completed, disconnects, calls>>

\* processAfterLoopProcs: swap.
SwapAfter ==
    /\ phase = "Async" /\ asyncCopy = <<>>
    /\ phase' = "After"
    /\ afterCopy' = ds.mAfterLoopProcs
    /\ ds' = [ds EXCEPT !.mAfterLoopProcs = afterCopy]
    /\ UNCHANGED <<deleted, todo, asyncQ, asyncCopy, locals, kernel, history>>

\* Undefined behaviour ends the behaviour.
Continue(next, why) ==
    /\ fault' = why
    /\ phase' = IF why = "none" THEN next ELSE "Crashed"

\* A lambda that captured the DataSocket runs, on freed memory if the object
\* is deleted.
RunAfter(proc, next) ==
    /\ phase = "After" /\ afterCopy # <<>> /\ Head(afterCopy) = proc
    /\ afterCopy' = Tail(afterCopy)
    /\ Continue(next, IF deleted THEN "deletedSocket" ELSE "none")

\* mIsPostFlush is reset, flush() goes on if it may write.
RunFlush ==
    /\ RunAfter("flush", IF ds.mCanWrite /\ ds.mSocket THEN "Flush" ELSE "After")
    /\ ds' = [ds EXCEPT !.mIsPostFlush = FALSE]
    /\ UNCHANGED <<deleted, todo, asyncQ, asyncCopy, tmpLen, partial, kernel, history>>

\* procShutdownInLoop
RunShutdown ==
    /\ RunAfter("shutdown", "After")
    /\ ds' = [ds EXCEPT !.mCanWrite = @ /\ ~ds.mSocket]
    /\ shutWR' = (shutWR \/ ds.mSocket)
    /\ UNCHANGED <<deleted, todo, asyncQ, asyncCopy, tmpLen, partial,
                   room, edges, peer, history>>

\* mDisConnectCallback: clear the slot, tell the user, delete.
RunClose ==
    /\ RunAfter("close", "After")
    /\ deleted' = TRUE
    /\ disconnects' = disconnects + 1
    /\ UNCHANGED <<ds, todo, asyncQ, asyncCopy, tmpLen, partial, kernel,
                   accepted, wire, completed, calls, hangup>>

AfterDone ==
    /\ phase = "After" /\ afterCopy = <<>>
    /\ phase' = "Schedule"
    /\ UNCHANGED <<object, todo, loopq, locals, kernel, history>>

\* mTimer->schedule(): the heartbeat of a silent connection may expire.
Schedule(expired) ==
    /\ phase = "Schedule"
    /\ phase' = "Wait"
    /\ expired => ~deleted
    /\ ds' = IF expired THEN ProcCloseInLoop(ds) ELSE ds
    /\ hangup' = (hangup \/ expired)
    /\ UNCHANGED <<deleted, todo, loopq, locals, kernel,
                   accepted, wire, completed, disconnects, calls>>

-----------------------------------------------------------------------------
(* quickFlush.                                                             *)

Piece(p) == [k \in 1..p.left |-> <<p.id, p.len - p.left + k>>]

\* The iovec: what is left of the first MaxIovec packets.
Gather(list) ==
    FlattenSeq([i \in 1..(IF Len(list) < MaxIovec THEN Len(list) ELSE MaxIovec) |->
                    Piece(list[i])])

\* The list is empty, or mSocket->getFD() is about to be called on a socket
\* that a complete callback has closed.
FlushEnds ==
    /\ phase = "Flush" /\ (ds.mSendList = <<>> \/ ~ds.mSocket)
    /\ Continue("After", IF ds.mSendList = <<>> THEN "none" ELSE "nullSocket")
    /\ UNCHANGED <<object, todo, loopq, tmpLen, partial, kernel, history>>

\* EPIPE or ECONNRESET: must_close.
WriteFails ==
    /\ phase = "Flush" /\ ds.mSendList # <<>> /\ ds.mSocket
    /\ shutWR \/ peer = "reset"
    /\ Gather(ds.mSendList) # <<>>
    /\ ds' = ProcCloseInLoop(ds)
    /\ phase' = "After"
    /\ UNCHANGED <<deleted, todo, loopq, locals, kernel, history>>

\* EWOULDBLOCK that does not ask for EPOLLOUT.
WriteBlocks_NoCheck ==
    /\ phase = "Flush" /\ ds.mSendList # <<>> /\ ds.mSocket
    /\ ~shutWR /\ peer # "reset" /\ room = 0
    /\ ds' = [ds EXCEPT !.mCanWrite = FALSE]
    /\ phase' = "After"
    /\ UNCHANGED <<deleted, todo, loopq, locals, kernel, history>>

\* EWOULDBLOCK: mCanWrite is cleared, checkWrite.
WriteBlocks ==
    /\ phase = "Flush" /\ ds.mSendList # <<>> /\ ds.mSocket
    /\ ~shutWR /\ peer # "reset" /\ room = 0
    /\ Gather(ds.mSendList) # <<>>
    /\ ds' = [ds EXCEPT !.mCanWrite = FALSE, !.checkWrite = TRUE]
    /\ phase' = "After"
    /\ UNCHANGED <<deleted, todo, loopq, locals, kernel, history>>

\* Only empty packets are left: writev returns 0, on any socket, which the code
\* takes for an error and looks at an errno that no call has set.
WriteNothing(stale) ==
    /\ phase = "Flush" /\ ds.mSendList # <<>> /\ ds.mSocket
    /\ Gather(ds.mSendList) = <<>>
    /\ IF stale = "EWOULDBLOCK"
       THEN /\ ds' = [ds EXCEPT !.mCanWrite = FALSE, !.checkWrite = TRUE]
            /\ edges' = edges \cup (IF Writable THEN {"OUT"} ELSE {})
       ELSE ds' = ProcCloseInLoop(ds) /\ UNCHANGED edges
    /\ phase' = "After"
    /\ UNCHANGED <<deleted, todo, loopq, locals, room, shutWR, peer, history>>

\* writev takes n bytes of what it is given.
Writev(n) ==
    /\ phase = "Flush" /\ ds.mSendList # <<>> /\ ds.mSocket
    /\ ~shutWR /\ peer # "reset" /\ n <= room
    /\ LET bytes == Gather(ds.mSendList) IN
        /\ n <= Len(bytes)
        /\ wire' = wire \o SubSeq(bytes, 1, n)
        /\ partial' = (n # Len(bytes))
    /\ tmpLen' = n
    /\ room' = room - n
    /\ phase' = "Ack"
    /\ UNCHANGED <<object, todo, loopq, fault, edges, shutWR, peer,
                   accepted, completed, disconnects, calls, hangup>>

\* The packet is dropped although only a part of it was written.
AckPacketFits_OffByOne == ds.mSendList # <<>> /\ Head(ds.mSendList).left <= tmpLen + 1

\* The written bytes cover the packet at the head.
AckPacketFits == ds.mSendList # <<>> /\ Head(ds.mSendList).left <= tmpLen

\* A packet is done: its complete callback runs and may call back into the
\* connection, then erase(it).  push_back on the deque has invalidated it:
\* the build may still erase the right element, or not.
AckComplete(c) ==
    /\ phase = "Ack" /\ AckPacketFits
    /\ tmpLen' = tmpLen - Head(ds.mSendList).left
    /\ completed' = Append(completed, Head(ds.mSendList).id)
    /\ LET called == IF c.kind = "none" THEN ds ELSE Apply(c, ds) IN
       ds' = [called EXCEPT !.mSendList = Tail(@)]
    /\ IF c.kind = "none" THEN UNCHANGED <<calls, accepted, hangup>>
       ELSE calls < MaxCalls /\ calls' = calls + 1 /\ Accept(c)
    /\ \E why \in {"none"} \cup (IF c.kind = "send" THEN {"invalidIterator"} ELSE {}) :
           Continue("Ack", why)
    /\ UNCHANGED <<deleted, todo, loopq, partial, kernel, wire, disconnects>>

\* What is left of the packet is not brought up to date.
AckRest_Forgotten(list) == list

\* The packet at the head is partly written.
AckRest(list) ==
    IF list = <<>> THEN list ELSE [list EXCEPT ![1].left = @ - tmpLen]

\* All was written: once more around the loop.
AckAll ==
    /\ phase = "Ack" /\ ~AckPacketFits /\ ~partial
    /\ ds' = [ds EXCEPT !.mSendList = AckRest(@)]
    /\ phase' = "Flush"
    /\ UNCHANGED <<deleted, todo, loopq, locals, kernel, history>>

\* A part was written: wait for EPOLLOUT.  checkWrite needs the socket.
AckPartial ==
    /\ phase = "Ack" /\ ~AckPacketFits /\ partial
    /\ IF ds.mSocket
       THEN /\ ds' = [ds EXCEPT !.mSendList = AckRest(@), !.mCanWrite = FALSE,
                                !.checkWrite = TRUE]
            /\ edges' = edges \cup (IF Writable THEN {"OUT"} ELSE {})
       ELSE UNCHANGED <<ds, edges>>
    /\ Continue("After", IF ds.mSocket THEN "none" ELSE "nullSocket")
    /\ UNCHANGED <<deleted, todo, loopq, tmpLen, partial, room, shutWR, peer, history>>

-----------------------------------------------------------------------------
\* What a complete callback does, as a call.
CompleteCalls ==
    {c \in Calls : c.kind \in CompleteActs} \cup ({Call("none", 0)})

LoopStep ==
    \/ EpollWait
    \/ \E b \in BOOLEAN : RecvDone(b)
    \/ CanSend \/ OnCloseEvent
    \/ SwapAsync \/ RunAsync
    \/ SwapAfter \/ RunFlush \/ RunShutdown \/ RunClose \/ AfterDone
    \/ FlushEnds \/ WriteFails \/ WriteBlocks
    \/ \E e \in {"EWOULDBLOCK", "other"} : WriteNothing(e)
    \/ \E n \in 1..SndBuf : Writev(n)
    \/ \E c \in CompleteCalls : AckComplete(c)
    \/ AckAll \/ AckPartial
    \/ \E b \in BOOLEAN : Schedule(b)

Environment ==
    \/ \E c \in Calls : Post(c) \/ DataCallback(c)
    \/ PeerReads \/ PeerSends
    \/ \E how \in {"fin", "reset"} : PeerCloses(how)

Next == LoopStep \/ Environment

Spec == Init /\ [][Next]_vars

\* The loop goes on (its epoll_wait has a timeout, and EventLoop shows that
\* posted work wakes it anyway) and a peer that stays connected reads.
FairSpec == Spec /\ WF_vars(LoopStep) /\ WF_vars(PeerReads)

-----------------------------------------------------------------------------
(* Properties.                                                             *)

PacketType == [id : Nat, len : Nat, left : Nat]
CallType == [kind : {"send", "disconnect", "shutdown"}, len : Nat]
ProcNames == {"flush", "shutdown", "close"}

\* Every variable keeps its type.
TypeOK ==
    /\ ds \in [mSocket : BOOLEAN, mIsPostFinalClose : BOOLEAN, mCanWrite : BOOLEAN,
               mIsPostFlush : BOOLEAN, mSendList : Seq(PacketType),
               mAfterLoopProcs : Seq(ProcNames), checkWrite : BOOLEAN]
    /\ deleted \in BOOLEAN
    /\ phase \in Phases
    /\ todo \in Seq({"canRecv", "canSend", "onClose"})
    /\ asyncQ \in Seq(CallType) /\ asyncCopy \in Seq(CallType)
    /\ afterCopy \in Seq(ProcNames)
    /\ tmpLen \in Nat /\ partial \in BOOLEAN
    /\ fault \in {"none", "nullSocket", "invalidIterator", "deletedSocket"}
    /\ room \in 0..SndBuf /\ edges \subseteq {"IN", "RDHUP", "OUT"}
    /\ shutWR \in BOOLEAN /\ peer \in {"open", "fin", "reset"}
    /\ accepted \in Seq(Nat) /\ wire \in Seq(Nat \X Nat) /\ completed \in Seq(Nat)
    /\ disconnects \in Nat /\ calls \in 0..MaxCalls /\ hangup \in BOOLEAN

\* No undefined behaviour: no lambda runs on a deleted DataSocket, no system
\* call uses the descriptor of a socket that user code has closed meanwhile,
\* no invalidated iterator is used (DataSocket.cpp:447-527, 741-766).
NoFault == fault = "none"

\* The lambda that deletes the object is the last that refers to it: nothing
\* that uses the DataSocket is ever queued behind its disconnect callback,
\* in whatever order calls, events and flushes close it.
CloseIsLast ==
    LET procs == afterCopy \o ds.mAfterLoopProcs IN
    /\ \A i \in 1..Len(procs) : procs[i] = "close" => i = Len(procs)
    /\ deleted => procs = <<>>

\* The stream users have asked for: all accepted packets in order.
Stream == FlattenSeq([i \in 1..Len(accepted) |-> [k \in 1..accepted[i] |-> <<i, k>>]])

\* What is still to be written.
Unsent ==
    LET rest == FlattenSeq([i \in 1..Len(ds.mSendList) |-> Piece(ds.mSendList[i])]) IN
    SubSeq(rest, IF phase = "Ack" THEN tmpLen + 1 ELSE 1, Len(rest))

\* No byte is lost, doubled or reordered between send() and the kernel,
\* through partial writes, EWOULDBLOCK and several writev per flush: bytes
\* on the wire and bytes in mSendList together are the accepted stream.
SendAccounting == fault = "none" => wire \o Unsent = Stream

\* Complete callbacks run once per packet, in order, and only when the kernel
\* has the last byte of the packet (DataSocket.cpp:500-511): those that have
\* run and those whose packets are still listed are all the accepted ones.
CompleteOnce ==
    fault = "none" =>
        /\ completed \o [i \in 1..Len(ds.mSendList) |-> ds.mSendList[i].id]
               = [i \in 1..Len(accepted) |-> i]
        /\ \A i \in 1..Len(completed) :
               accepted[i] > 0 => Contains(wire, <<i, accepted[i]>>)

\* Data never gets stuck: when the loop goes back to epoll_wait with packets
\* left on an open connection, a flush is posted for the next round or
\* EPOLLOUT is asked for and its edge is not lost (edge-triggered epoll
\* reports it once).
NoSendStall ==
    phase = "Wait" /\ ds.mSocket /\ ~shutWR /\ ds.mSendList # <<>> =>
        \/ Contains(ds.mAfterLoopProcs, "flush")
        \/ ds.checkWrite /\ (Writable => "OUT" \in edges)

\* A packet that was accepted is sent and its complete callback runs, unless
\* the peer goes, a user or the heartbeat disconnects, or the connection is
\* shut down for writing (TcpService::send: cb is called when it is sent), or
\* an empty packet was sent: that can close the connection, see WriteNothing.
SendsComplete ==
    \A i \in 1..MaxCalls :
        Len(accepted) >= i ~>
            \/ Contains(completed, i)
            \/ peer # "open" \/ hangup \/ shutWR
            \/ Contains(accepted, 0)

\* A closed connection is reported to its user and deleted.
ClosedIsReported == ~ds.mSocket ~> (deleted /\ disconnects = 1)

\* What the documentation says of postShutdown: it triggers no callback
\* itself, the disconnect that follows is caused by the peer.
ShutdownWaitsForPeer ==
    shutWR /\ disconnects > 0 => peer # "open" \/ hangup
=============================================================================
