-------------------------- MODULE DataSocketProofs --------------------------
(***************************************************************************)
(* Machine-checked proofs about DataSocket, for any sizes of packets, send *)
(* buffers and iovecs, any number of calls and (except for NoFault) any    *)
(* behaviour of complete callbacks: the lambda that deletes the object is  *)
(* the last that refers to it and runs once, packets that are left always  *)
(* have a flush or an edge ahead of them, no byte is lost, doubled or      *)
(* reordered on its way to the kernel, and complete callbacks run once, in *)
(* the order of the packets, after the last byte of their packet.          *)
(***************************************************************************)
EXTENDS DataSocket, SequenceTheorems, WellFoundedInduction, TLAPS

ObjectType ==
    [mSocket : BOOLEAN, mIsPostFinalClose : BOOLEAN, mCanWrite : BOOLEAN,
     mIsPostFlush : BOOLEAN, mSendList : Seq(PacketType),
     mAfterLoopProcs : Seq(ProcNames), checkWrite : BOOLEAN]

\* TypeOK without the bytes on the wire.
StateType ==
    /\ ds \in ObjectType
    /\ deleted \in BOOLEAN /\ shutWR \in BOOLEAN
    /\ phase \in Phases
    /\ todo \in Seq({"canRecv", "canSend", "onClose"})
    /\ asyncQ \in Seq(CallType) /\ asyncCopy \in Seq(CallType)
    /\ afterCopy \in Seq(ProcNames)
    /\ tmpLen \in Nat /\ room \in Nat
    /\ accepted \in Seq(Nat) /\ completed \in Seq(Nat)

\* Nothing is behind the lambda that closes.
CloseEnds(s) == \A i \in 1..Len(s) : s[i] = "close" => i = Len(s)

\* The object d, the lambdas q that are about to run and whether it is
\* deleted.  A closed connection has its disconnect callback ahead of it or
\* behind it; with the callback nothing else is left.
ObjectInv(d, q, del) ==
    /\ d.mSocket <=> ~d.mIsPostFinalClose
    /\ d.mSocket => ~del /\ ~Contains(q, "close") /\ ~Contains(d.mAfterLoopProcs, "close")
    /\ ~d.mSocket => del \/ Contains(q, "close") \/ Contains(d.mAfterLoopProcs, "close")
    /\ CloseEnds(q) /\ CloseEnds(d.mAfterLoopProcs)
    /\ Contains(q, "close") => d.mAfterLoopProcs = <<>>
    /\ del => q = <<>> /\ d.mAfterLoopProcs = <<>>
    /\ d.mIsPostFlush => Contains(q, "flush") \/ Contains(d.mAfterLoopProcs, "flush")

\* What user code and errors do to an object d that becomes e: the connection
\* may end, packets may join the list, and then a flush is posted.
Keeps(d, e) ==
    e.mSocket =>
        /\ d.mSocket /\ e.mCanWrite = d.mCanWrite /\ e.checkWrite = d.checkWrite
        /\ e.mSendList # <<>> /\ ~e.mIsPostFlush => d.mSendList # <<>> /\ ~d.mIsPostFlush

\* The callbacks of an event and the lambdas of a round are done before the next.
RoundInv ==
    /\ phase # "Events" => todo = <<>>
    /\ phase \in {"Wait", "Events", "Async", "Schedule"} => afterCopy = <<>>

\* The loop will hear that it may write, or that the connection is over.
Noticed == "OUT" \in edges \/ Contains(todo, "canSend") \/ Contains(todo, "onClose")

\* A connection that may not write has asked for EPOLLOUT and the edge is not
\* lost; packets of one that may write have a flush posted.
WriteInv ==
    ds.mSocket /\ ~shutWR =>
        /\ ~ds.mCanWrite => ds.checkWrite /\ (Writable => Noticed)
        /\ ds.mSendList # <<>> /\ phase \notin {"Flush", "Ack", "Crashed"} =>
              ds.mIsPostFlush \/ ~ds.mCanWrite

\* The packets that were completed and those in the list are the accepted
\* ones, in order.
OrderInv ==
    /\ Len(accepted) = Len(completed) + Len(ds.mSendList)
    /\ \A i \in 1..Len(completed) : completed[i] = i
    /\ \A i \in 1..Len(ds.mSendList) : ds.mSendList[i].id = Len(completed) + i

SocketInv ==
    /\ StateType
    /\ ObjectInv(ds, afterCopy, deleted)
    /\ RoundInv
    /\ WriteInv
    /\ OrderInv
    /\ disconnects = IF deleted THEN 1 ELSE 0

(***************************************************************************)
(* The queue of lambdas.                                                   *)
(***************************************************************************)

\* What is in a sequence after an element was appended ...
LEMMA AppendContains ==
    ASSUME NEW S, NEW s \in Seq(S), NEW x \in S
    PROVE  /\ Append(s, x) \in Seq(S) /\ Append(s, x) # <<>>
           /\ \A y : Contains(Append(s, x), y) <=> Contains(s, y) \/ y = x
<1>1. /\ Append(s, x) \in Seq(S) /\ Len(Append(s, x)) = Len(s) + 1 /\ Len(s) \in Nat
      /\ \A i \in 1..Len(s) : Append(s, x)[i] = s[i] /\ i \in 1..(Len(s) + 1)
      /\ Append(s, x)[Len(s) + 1] = x
  BY AppendProperties
<1>2. Append(s, x) # <<>>
  BY <1>1
<1>3. ASSUME NEW y PROVE Contains(Append(s, x), y) <=> Contains(s, y) \/ y = x
  BY <1>1 DEF Contains
<1> QED BY <1>1, <1>2, <1>3

\* ... and after its head was taken.
LEMMA TailContains ==
    ASSUME NEW S, NEW s \in Seq(S), s # <<>>
    PROVE  /\ Head(s) \in S /\ Tail(s) \in Seq(S)
           /\ \A y : Contains(s, y) <=> y = Head(s) \/ Contains(Tail(s), y)
<1>1. Len(s) \in Nat \ {0} /\ Head(s) \in S /\ Tail(s) \in Seq(S) /\ Head(s) = s[1]
  BY EmptySeq, HeadTailProperties
<1>2. Len(Tail(s)) = Len(s) - 1 /\ \A i \in 1..Len(Tail(s)) : Tail(s)[i] = s[i + 1]
  BY HeadTailProperties
<1>3. ASSUME NEW y, Contains(s, y), y # Head(s) PROVE Contains(Tail(s), y)
  <2>1. PICK i \in 1..Len(s) : s[i] = y
    BY <1>3 DEF Contains
  <2>2. i - 1 \in 1..Len(Tail(s)) /\ (i - 1) + 1 = i
    BY <1>1, <1>2, <1>3, <2>1
  <2> QED BY <1>2, <2>1, <2>2 DEF Contains
<1>4. ASSUME NEW y, y = Head(s) \/ Contains(Tail(s), y) PROVE Contains(s, y)
  BY <1>1, <1>2, <1>4 DEF Contains
<1> QED BY <1>1, <1>3, <1>4

\* A lambda may be appended where no close is.
LEMMA AppendEnds ==
    ASSUME NEW s \in Seq(ProcNames), NEW x \in ProcNames, ~Contains(s, "close")
    PROVE  CloseEnds(Append(s, x))
<1>1. /\ Len(Append(s, x)) = Len(s) + 1 /\ Len(s) \in Nat
      /\ \A i \in 1..Len(s) : Append(s, x)[i] = s[i]
  BY AppendProperties
<1> QED BY <1>1 DEF CloseEnds, Contains

\* The rest of a queue, and what is left when close was its head.
LEMMA TailEnds ==
    ASSUME NEW s \in Seq(ProcNames), s # <<>>, CloseEnds(s)
    PROVE  CloseEnds(Tail(s)) /\ (Head(s) = "close" => Tail(s) = <<>>)
<1> DEFINE t == Tail(s)
           k == Len(s)
<1>1. /\ k \in Nat \ {0} /\ Head(s) = s[1] /\ t \in Seq(ProcNames)
      /\ Len(t) = k - 1 /\ \A i \in 1..Len(t) : t[i] = s[i + 1]
  BY EmptySeq, HeadTailProperties
<1>2. \A i \in 1..k : s[i] = "close" => i = k
  BY DEF CloseEnds
<1> HIDE DEF t, k
<1>3. ASSUME NEW i \in 1..Len(t), t[i] = "close" PROVE i = Len(t)
  <2>1. i + 1 \in 1..k /\ s[i + 1] = "close"
    BY <1>1, <1>3
  <2>2. i + 1 = k
    BY <1>2, <2>1
  <2> QED BY <1>1, <2>2
<1>4. ASSUME Head(s) = "close" PROVE t = <<>>
  <2>1. 1 \in 1..k /\ s[1] = "close"
    BY <1>1, <1>4
  <2>2. Len(t) = 0
    BY <1>1, <1>2, <2>1
  <2> QED BY <1>1, <2>2, EmptySeq
<1> QED BY <1>3, <1>4 DEF CloseEnds, t

\* The empty queue.
LEMMA EmptyContains == CloseEnds(<<>>) /\ \A y : ~Contains(<<>>, y)
  BY DEF CloseEnds, Contains

(***************************************************************************)
(* The member functions.                                                   *)
(***************************************************************************)

\* runAfterFlush posts a flush unless there is one.
LEMMA RunAfterFlushKeeps ==
    ASSUME NEW d \in ObjectType, NEW q, NEW del, ObjectInv(d, q, del)
    PROVE  LET e == RunAfterFlush(d) IN
           /\ e \in ObjectType /\ ObjectInv(e, q, del)
           /\ e.mSocket = d.mSocket /\ e.mCanWrite = d.mCanWrite /\ e.checkWrite = d.checkWrite
           /\ e.mSendList = d.mSendList
           /\ e.mSocket /\ e.mSendList # <<>> => e.mIsPostFlush
<1> DEFINE e == [d EXCEPT !.mAfterLoopProcs = Append(@, "flush"), !.mIsPostFlush = TRUE]
           p == d.mAfterLoopProcs
<1>1. CASE ~(~d.mIsPostFlush /\ d.mSendList # <<>> /\ d.mSocket)
  BY <1>1 DEF RunAfterFlush, ObjectType
<1>2. CASE ~d.mIsPostFlush /\ d.mSendList # <<>> /\ d.mSocket
  <2>1. p \in Seq(ProcNames) /\ "flush" \in ProcNames
    BY DEF ObjectType, ProcNames
  <2>2. /\ Append(p, "flush") \in Seq(ProcNames) /\ Append(p, "flush") # <<>>
        /\ \A y : Contains(Append(p, "flush"), y) <=> Contains(p, y) \/ y = "flush"
    BY <2>1, AppendContains
  <2>3. ~Contains(p, "close") /\ ~Contains(q, "close") /\ ~del
    BY <1>2 DEF ObjectInv
  <2>4. CloseEnds(Append(p, "flush"))
    BY <2>1, <2>3, AppendEnds
  <2>5. /\ e \in ObjectType
        /\ e.mAfterLoopProcs = Append(p, "flush") /\ e.mIsPostFlush = TRUE
        /\ e.mSocket = d.mSocket /\ e.mCanWrite = d.mCanWrite /\ e.checkWrite = d.checkWrite
        /\ e.mSendList = d.mSendList /\ e.mIsPostFinalClose = d.mIsPostFinalClose
    BY <2>2 DEF ObjectType
  <2>6. RunAfterFlush(d) = e
    BY <1>2 DEF RunAfterFlush
  <2> HIDE DEF e, p
  <2>7. ObjectInv(e, q, del)
    BY <1>2, <2>2, <2>3, <2>4, <2>5 DEF ObjectInv
  <2> QED BY <2>5, <2>6, <2>7
<1> QED BY <1>1, <1>2

\* A packet joins the list.
LEMMA SendInLoopKeeps ==
    ASSUME NEW d \in ObjectType, NEW q, NEW del, ObjectInv(d, q, del),
           NEW n \in Nat, accepted \in Seq(Nat)
    PROVE  LET e == SendInLoop(d, n) IN
           /\ e \in ObjectType /\ ObjectInv(e, q, del) /\ Keeps(d, e)
           /\ e.mSendList = Append(d.mSendList, Packet(Len(accepted) + 1, n))
           /\ e.mSocket = d.mSocket
<1> DEFINE p == Packet(Len(accepted) + 1, n)
           c == [d EXCEPT !.mSendList = Append(@, p)]
           e == RunAfterFlush(c)
<1>1. p \in PacketType
  BY DEF Packet, PacketType
<1>2. SendInLoop(d, n) = e
  BY DEF SendInLoop
<1> HIDE DEF p
<1>3. d.mSendList \in Seq(PacketType)
  BY DEF ObjectType
<1>4. Append(d.mSendList, p) \in Seq(PacketType) /\ Append(d.mSendList, p) # <<>>
  BY <1>1, <1>3, AppendContains
<1>5. /\ c \in ObjectType /\ c.mSendList = Append(d.mSendList, p)
      /\ c.mSocket = d.mSocket /\ c.mCanWrite = d.mCanWrite /\ c.checkWrite = d.checkWrite
      /\ c.mIsPostFinalClose = d.mIsPostFinalClose /\ c.mIsPostFlush = d.mIsPostFlush
      /\ c.mAfterLoopProcs = d.mAfterLoopProcs
  BY <1>4 DEF ObjectType
<1> HIDE DEF c
<1>6. ObjectInv(c, q, del)
  BY <1>5 DEF ObjectInv
<1>7. /\ e \in ObjectType /\ ObjectInv(e, q, del)
      /\ e.mSocket = c.mSocket /\ e.mCanWrite = c.mCanWrite /\ e.checkWrite = c.checkWrite
      /\ e.mSendList = c.mSendList
      /\ e.mSocket /\ e.mSendList # <<>> => e.mIsPostFlush
  BY <1>5, <1>6, RunAfterFlushKeeps
<1> HIDE DEF e
<1>8. Keeps(d, e)
  BY <1>4, <1>5, <1>7 DEF Keeps
<1> QED BY <1>2, <1>5, <1>7, <1>8 DEF p

\* onClose posts the disconnect callback unless it has.
LEMMA OnCloseKeeps ==
    ASSUME NEW d \in ObjectType, NEW q, NEW del, ObjectInv(d, q, del)
    PROVE  LET e == OnClose(d) IN
           /\ e \in ObjectType /\ ObjectInv(e, q, del) /\ ~e.mSocket
           /\ e.mSendList = d.mSendList
<1> DEFINE p == d.mAfterLoopProcs
           e == [d EXCEPT !.mAfterLoopProcs = Append(@, "close"), !.mSocket = FALSE,
                          !.mCanWrite = FALSE, !.checkWrite = FALSE, !.mIsPostFinalClose = TRUE]
<1>1. CASE d.mIsPostFinalClose
  BY <1>1 DEF OnClose, ObjectInv
<1>2. CASE ~d.mIsPostFinalClose
  <2>1. p \in Seq(ProcNames) /\ "close" \in ProcNames
    BY DEF ObjectType, ProcNames
  <2>2. /\ Append(p, "close") \in Seq(ProcNames) /\ Append(p, "close") # <<>>
        /\ \A y : Contains(Append(p, "close"), y) <=> Contains(p, y) \/ y = "close"
    BY <2>1, AppendContains
  <2>3. ~Contains(p, "close") /\ ~Contains(q, "close") /\ ~del
    BY <1>2 DEF ObjectInv
  <2>4. CloseEnds(Append(p, "close"))
    BY <2>1, <2>3, AppendEnds
  <2>5. /\ e \in ObjectType
        /\ e.mAfterLoopProcs = Append(p, "close") /\ e.mIsPostFlush = d.mIsPostFlush
        /\ e.mSocket = FALSE /\ e.mIsPostFinalClose = TRUE /\ e.mSendList = d.mSendList
    BY <2>2 DEF ObjectType
  <2>6. OnClose(d) = e
    BY <1>2 DEF OnClose
  <2> HIDE DEF e, p
  <2>7. ObjectInv(e, q, del)
    BY <2>2, <2>3, <2>4, <2>5 DEF ObjectInv, p
  <2> QED BY <2>5, <2>6, <2>7
<1> QED BY <1>1, <1>2

\* procCloseInLoop ends the connection.
LEMMA ProcCloseKeeps ==
    ASSUME NEW d \in ObjectType, NEW q, NEW del, ObjectInv(d, q, del)
    PROVE  LET e == ProcCloseInLoop(d) IN
           /\ e \in ObjectType /\ ObjectInv(e, q, del) /\ ~e.mSocket /\ Keeps(d, e)
           /\ e.mSendList = d.mSendList
<1>1. CASE d.mSocket
  BY <1>1, OnCloseKeeps DEF ProcCloseInLoop, Keeps
<1>2. CASE ~d.mSocket
  BY <1>2 DEF ProcCloseInLoop, Keeps
<1> QED BY <1>1, <1>2

\* postShutdown posts its lambda for an open connection.
LEMMA PostShutdownKeeps ==
    ASSUME NEW d \in ObjectType, NEW q, NEW del, ObjectInv(d, q, del)
    PROVE  LET e == PostShutdown(d) IN
           /\ e \in ObjectType /\ ObjectInv(e, q, del) /\ Keeps(d, e)
           /\ e.mSendList = d.mSendList /\ e.mSocket = d.mSocket
<1> DEFINE p == d.mAfterLoopProcs
           e == [d EXCEPT !.mAfterLoopProcs = Append(@, "shutdown")]
<1>1. CASE ~d.mSocket
  BY <1>1 DEF PostShutdown, Keeps
<1>2. CASE d.mSocket
  <2>1. p \in Seq(ProcNames) /\ "shutdown" \in ProcNames
    BY DEF ObjectType, ProcNames
  <2>2. /\ Append(p, "shutdown") \in Seq(ProcNames) /\ Append(p, "shutdown") # <<>>
        /\ \A y : Contains(Append(p, "shutdown"), y) <=> Contains(p, y) \/ y = "shutdown"
    BY <2>1, AppendContains
  <2>3. ~Contains(p, "close") /\ ~Contains(q, "close") /\ ~del
    BY <1>2 DEF ObjectInv
  <2>4. CloseEnds(Append(p, "shutdown"))
    BY <2>1, <2>3, AppendEnds
  <2>5. /\ e \in ObjectType
        /\ e.mAfterLoopProcs = Append(p, "shutdown") /\ e.mIsPostFlush = d.mIsPostFlush
        /\ e.mSocket = d.mSocket /\ e.mIsPostFinalClose = d.mIsPostFinalClose
        /\ e.mSendList = d.mSendList /\ e.mCanWrite = d.mCanWrite /\ e.checkWrite = d.checkWrite
    BY <2>2 DEF ObjectType
  <2>6. PostShutdown(d) = e
    BY <1>2 DEF PostShutdown
  <2> HIDE DEF e, p
  <2>7. ObjectInv(e, q, del)
    BY <1>2, <2>2, <2>3, <2>4, <2>5 DEF ObjectInv, p
  <2>8. Keeps(d, e)
    BY <2>5 DEF Keeps
  <2> QED BY <2>5, <2>6, <2>7, <2>8
<1> QED BY <1>1, <1>2

\* Whatever a user calls.
LEMMA ApplyKeeps ==
    ASSUME NEW d \in ObjectType, NEW q, NEW del, ObjectInv(d, q, del),
           NEW c \in CallType, accepted \in Seq(Nat)
    PROVE  LET e == Apply(c, d) IN
           /\ e \in ObjectType /\ ObjectInv(e, q, del) /\ Keeps(d, e)
           /\ e.mSendList = IF c.kind = "send"
                            THEN Append(d.mSendList, Packet(Len(accepted) + 1, c.len))
                            ELSE d.mSendList
           /\ c.kind # "disconnect" => e.mSocket = d.mSocket
<1>0. c.kind \in {"send", "disconnect", "shutdown"} /\ c.len \in Nat
  BY DEF CallType
<1>1. CASE c.kind = "send"
  <2>1. Apply(c, d) = SendInLoop(d, c.len)
    BY <1>1 DEF Apply
  <2>2. /\ SendInLoop(d, c.len) \in ObjectType /\ ObjectInv(SendInLoop(d, c.len), q, del)
        /\ Keeps(d, SendInLoop(d, c.len)) /\ SendInLoop(d, c.len).mSocket = d.mSocket
        /\ SendInLoop(d, c.len).mSendList = Append(d.mSendList, Packet(Len(accepted) + 1, c.len))
    BY <1>0, SendInLoopKeeps
  <2> QED BY <1>1, <2>1, <2>2
<1>2. CASE c.kind = "disconnect"
  <2>1. Apply(c, d) = ProcCloseInLoop(d)
    BY <1>2 DEF Apply
  <2> QED BY <1>2, <2>1, ProcCloseKeeps
<1>3. CASE c.kind = "shutdown"
  <2>1. Apply(c, d) = PostShutdown(d)
    BY <1>3 DEF Apply
  <2> QED BY <1>3, <2>1, PostShutdownKeeps
<1> QED BY <1>0, <1>1, <1>2, <1>3

(***************************************************************************)
(* Types, and the object in every step.                                    *)
(***************************************************************************)

\* The calls of users.
LEMMA CallsAreTyped ==
    /\ \A c \in Calls : c \in CallType
    /\ \A c \in CompleteCalls : c.kind = "none" \/ (c \in CallType /\ c.kind \in CompleteActs)
<1>1. ASSUME NEW c \in Calls PROVE c \in CallType
  BY SizesAssumption DEF Calls, Call, CallType
<1>2. ASSUME NEW c \in CompleteCalls PROVE c.kind = "none" \/ (c \in CallType /\ c.kind \in CompleteActs)
  BY <1>1 DEF CompleteCalls, Call
<1> QED BY <1>1, <1>2

\* ObjectInv looks at some of the members only.
LEMMA SameObject ==
    ASSUME NEW d, NEW e, NEW q, NEW del, ObjectInv(d, q, del),
           e.mSocket = d.mSocket, e.mIsPostFinalClose = d.mIsPostFinalClose,
           e.mAfterLoopProcs = d.mAfterLoopProcs, e.mIsPostFlush = d.mIsPostFlush
    PROVE  ObjectInv(e, q, del)
  BY DEF ObjectInv

\* Changes of mCanWrite and checkWrite.
LEMMA WriteFlags ==
    ASSUME NEW d \in ObjectType, NEW x \in BOOLEAN, NEW y \in BOOLEAN
    PROVE  LET e == [d EXCEPT !.mCanWrite = x, !.checkWrite = y] IN
           /\ e = [d EXCEPT !.checkWrite = y, !.mCanWrite = x]
           /\ e \in ObjectType /\ e.mCanWrite = x /\ e.checkWrite = y
           /\ e.mSocket = d.mSocket /\ e.mIsPostFinalClose = d.mIsPostFinalClose
           /\ e.mAfterLoopProcs = d.mAfterLoopProcs /\ e.mIsPostFlush = d.mIsPostFlush
           /\ e.mSendList = d.mSendList
  BY DEF ObjectType

\* A change of the list.
LEMMA NewList ==
    ASSUME NEW d \in ObjectType, NEW l \in Seq(PacketType)
    PROVE  LET e == [d EXCEPT !.mSendList = l] IN
           /\ e \in ObjectType /\ e.mSendList = l
           /\ e.mCanWrite = d.mCanWrite /\ e.checkWrite = d.checkWrite
           /\ e.mSocket = d.mSocket /\ e.mIsPostFinalClose = d.mIsPostFinalClose
           /\ e.mAfterLoopProcs = d.mAfterLoopProcs /\ e.mIsPostFlush = d.mIsPostFlush
  BY DEF ObjectType

\* A new list does not disturb the invariant of the object.
LEMMA NewListKeeps ==
    ASSUME NEW d \in ObjectType, NEW l \in Seq(PacketType), NEW q, NEW del, ObjectInv(d, q, del)
    PROVE  [d EXCEPT !.mSendList = l] \in ObjectType /\ ObjectInv([d EXCEPT !.mSendList = l], q, del)
<1> DEFINE e == [d EXCEPT !.mSendList = l]
<1>1. /\ e \in ObjectType
      /\ e.mSocket = d.mSocket /\ e.mIsPostFinalClose = d.mIsPostFinalClose
      /\ e.mAfterLoopProcs = d.mAfterLoopProcs /\ e.mIsPostFlush = d.mIsPostFlush
  BY DEF ObjectType
<1> HIDE DEF e
<1>2. ObjectInv(e, q, del)
  BY <1>1, SameObject
<1> QED BY <1>1, <1>2 DEF e

\* The same for the flags of writing.
LEMMA WriteFlagsKeep ==
    ASSUME NEW d \in ObjectType, NEW x \in BOOLEAN, NEW y \in BOOLEAN, NEW q, NEW del,
           ObjectInv(d, q, del)
    PROVE  /\ [d EXCEPT !.mCanWrite = x, !.checkWrite = y] \in ObjectType
           /\ ObjectInv([d EXCEPT !.mCanWrite = x, !.checkWrite = y], q, del)
<1> DEFINE e == [d EXCEPT !.mCanWrite = x, !.checkWrite = y]
<1>1. /\ e \in ObjectType
      /\ e.mSocket = d.mSocket /\ e.mIsPostFinalClose = d.mIsPostFinalClose
      /\ e.mAfterLoopProcs = d.mAfterLoopProcs /\ e.mIsPostFlush = d.mIsPostFlush
  BY DEF ObjectType
<1> HIDE DEF e
<1>2. ObjectInv(e, q, del)
  BY <1>1, SameObject
<1> QED BY <1>1, <1>2 DEF e

\* The packet that was partly written has something left.
LEMMA AckRestProps ==
    ASSUME StateType, ~AckPacketFits
    PROVE  LET l == ds.mSendList  r == AckRest(ds.mSendList) IN
           /\ r \in Seq(PacketType) /\ Len(r) = Len(l)
           /\ \A i \in 1..Len(l) : r[i].id = l[i].id
           /\ r = <<>> <=> l = <<>>
<1> DEFINE l == ds.mSendList
           r == [l EXCEPT ![1].left = @ - tmpLen]
<1>0. l \in Seq(PacketType) /\ tmpLen \in Nat
  BY DEF StateType, ObjectType
<1>1. CASE l = <<>>
  BY <1>0, <1>1 DEF AckRest
<1>2. CASE l # <<>>
  <2>1. Len(l) \in Nat \ {0} /\ Head(l) = l[1] /\ 1 \in 1..Len(l) /\ l[1] \in PacketType
    BY <1>0, <1>2, EmptySeq, HeadTailProperties
  <2>2. l[1].left \in Nat /\ ~(l[1].left <= tmpLen)
    BY <1>2, <2>1 DEF AckPacketFits, PacketType
  <2>3. l[1].left - tmpLen \in Nat
    BY <1>0, <2>2
  <2>4. AckRest(l) = r
    BY <1>2 DEF AckRest
  <2>5. [l[1] EXCEPT !.left = @ - tmpLen] \in PacketType /\ [l[1] EXCEPT !.left = @ - tmpLen].id = l[1].id
    BY <2>1, <2>3 DEF PacketType
  <2>6. r = [l EXCEPT ![1] = [l[1] EXCEPT !.left = @ - tmpLen]]
    OBVIOUS
  <2>7. r \in Seq(PacketType) /\ Len(r) = Len(l) /\ \A i \in 1..Len(l) : r[i].id = l[i].id
    BY <1>0, <2>1, <2>5, <2>6, ExceptSeq
  <2> QED BY <1>2, <2>1, <2>4, <2>7
<1> QED BY <1>1, <1>2

\* The head of the lambdas runs, and the object is not deleted.
LEMMA RunAfterProps ==
    ASSUME SocketInv, NEW proc, NEW next, RunAfter(proc, next)
    PROVE  /\ afterCopy # <<>> /\ Head(afterCopy) = proc /\ afterCopy' = Tail(afterCopy)
           /\ afterCopy' \in Seq(ProcNames) /\ CloseEnds(afterCopy')
           /\ \A y : Contains(afterCopy, y) <=> y = proc \/ Contains(afterCopy', y)
           /\ proc = "close" => afterCopy' = <<>>
           /\ ~deleted /\ fault' = "none" /\ phase' = next
<1>1. afterCopy \in Seq(ProcNames) /\ CloseEnds(afterCopy)
  BY DEF SocketInv, StateType, ObjectInv
<1>2. afterCopy # <<>> /\ Head(afterCopy) = proc /\ afterCopy' = Tail(afterCopy)
  BY DEF RunAfter
<1>3. ~deleted
  BY <1>2 DEF SocketInv, ObjectInv
<1> QED BY <1>1, <1>2, <1>3, TailContains, TailEnds DEF RunAfter, Continue

\* Every step keeps the types and ObjectInv.
LEMMA StateStep == SocketInv /\ [Next]_vars => StateType' /\ ObjectInv(ds', afterCopy', deleted')
<1> SUFFICES ASSUME SocketInv, [Next]_vars
             PROVE  StateType' /\ ObjectInv(ds', afterCopy', deleted')
  OBVIOUS
<1> DEFINE Goal == StateType' /\ ObjectInv(ds', afterCopy', deleted')
<1> USE DEF object, locals, loopq, kernel, history, Phases
<1>0. /\ StateType /\ ObjectInv(ds, afterCopy, deleted) /\ ds \in ObjectType
      /\ accepted \in Seq(Nat) /\ completed \in Seq(Nat) /\ tmpLen \in Nat /\ room \in Nat
  BY DEF SocketInv, StateType
\* A step that changes at most the object, the phase and todo.
<1>s. ASSUME ds' \in ObjectType, ObjectInv(ds', afterCopy, deleted),
             UNCHANGED <<deleted, shutWR, asyncQ, asyncCopy, afterCopy, tmpLen, room, accepted, completed>>,
             phase' \in Phases, todo' \in Seq({"canRecv", "canSend", "onClose"})
      PROVE  Goal
  BY <1>0, <1>s DEF StateType
<1>t. todo # <<>> => Tail(todo) \in Seq({"canRecv", "canSend", "onClose"})
  BY <1>0, TailContains DEF StateType
<1>a. ASSUME NEW c \in CallType, Accept(c) PROVE accepted' \in Seq(Nat)
  BY <1>0, <1>a, AppendContains DEF Accept, CallType
<1>1. ASSUME NEW c \in Calls, Post(c) PROVE Goal
  <2>1. c \in CallType
    BY CallsAreTyped
  <2>2. asyncQ' \in Seq(CallType)
    BY <1>0, <1>1, <2>1, AppendContains DEF Post, StateType
  <2> QED BY <1>0, <1>1, <2>2 DEF Post, StateType
<1>2. CASE PeerReads
  <2>1. room' \in Nat
    BY <1>0, <1>2, LimitsAssumption DEF PeerReads
  <2> QED BY <1>0, <1>2, <2>1 DEF PeerReads, StateType
<1>3. CASE PeerSends \/ AfterDone \/ (\E how \in {"fin", "reset"} : PeerCloses(how))
  <2>1. phase' \in {phase, "Schedule"} /\ UNCHANGED <<object, todo, loopq, locals, room, shutWR, history>>
    BY <1>3 DEF PeerSends, AfterDone, PeerCloses
  <2> QED BY <1>0, <1>s, <2>1 DEF StateType
<1>4. CASE EpollWait
  <2> DEFINE T == {"canRecv", "canSend", "onClose"}
  <2>1. <<>> \in Seq(T) /\ <<"canRecv">> \in Seq(T) /\ <<"canSend">> \in Seq(T)
        /\ <<"canRecv", "onClose">> \in Seq(T)
    OBVIOUS
  <2>2. \A s, t \in Seq(T) : s \o t \in Seq(T)
    BY ConcatProperties
  <2>3. todo' \in Seq(T)
    BY <1>4, <2>1, <2>2 DEF EpollWait
  <2> QED BY <1>0, <1>s, <1>4, <2>3 DEF EpollWait
<1>5. ASSUME NEW c \in Calls, DataCallback(c) PROVE Goal
  <2>1. c \in CallType /\ ds' = Apply(c, ds) /\ Accept(c)
    BY <1>5, CallsAreTyped DEF DataCallback
  <2>2. ds' \in ObjectType /\ ObjectInv(ds', afterCopy, deleted)
    BY <1>0, <2>1, ApplyKeeps
  <2>3. accepted' \in Seq(Nat)
    BY <1>a, <2>1
  <2> QED BY <1>0, <1>5, <2>2, <2>3 DEF DataCallback, StateType
<1>6. ASSUME NEW b \in BOOLEAN, RecvDone(b) PROVE Goal
  <2>1. ds' \in ObjectType /\ ObjectInv(ds', afterCopy, deleted)
    BY <1>0, <1>6, ProcCloseKeeps DEF RecvDone
  <2> QED BY <1>0, <1>s, <1>t, <1>6, <2>1 DEF RecvDone
<1>7. CASE CanSend
  <2> DEFINE e == [ds EXCEPT !.checkWrite = FALSE, !.mCanWrite = TRUE]
  <2>0. /\ e \in ObjectType
        /\ e.mSocket = ds.mSocket /\ e.mIsPostFinalClose = ds.mIsPostFinalClose
        /\ e.mAfterLoopProcs = ds.mAfterLoopProcs /\ e.mIsPostFlush = ds.mIsPostFlush
    BY <1>0 DEF ObjectType
  <2>2. ds' = RunAfterFlush(e)
    BY <1>7 DEF CanSend
  <2> HIDE DEF e
  <2>1. e \in ObjectType /\ ObjectInv(e, afterCopy, deleted)
    BY <1>0, <2>0, SameObject
  <2>3. ds' \in ObjectType /\ ObjectInv(ds', afterCopy, deleted)
    BY <2>1, <2>2, RunAfterFlushKeeps
  <2> QED BY <1>0, <1>s, <1>t, <1>7, <2>3 DEF CanSend
<1>8. CASE OnCloseEvent
  <2>1. ds' \in ObjectType /\ ObjectInv(ds', afterCopy, deleted)
    BY <1>0, <1>8, OnCloseKeeps DEF OnCloseEvent
  <2> QED BY <1>0, <1>s, <1>t, <1>8, <2>1 DEF OnCloseEvent
<1>9. CASE SwapAsync
  BY <1>0, <1>9 DEF SwapAsync, StateType
<1>10. CASE RunAsync
  <2>1. Head(asyncCopy) \in CallType /\ asyncCopy' \in Seq(CallType)
    BY <1>0, <1>10, TailContains DEF RunAsync, StateType
  <2>2. ds' \in ObjectType /\ ObjectInv(ds', afterCopy, deleted) /\ accepted' \in Seq(Nat)
    <3>1. CASE deleted
      BY <1>0, <1>10, <3>1 DEF RunAsync
    <3>2. CASE ~deleted
      <4> DEFINE c == Head(asyncCopy)
      <4>1. ds' = Apply(c, ds) /\ Accept(c)
        BY <1>10, <3>2 DEF RunAsync
      <4>2. c \in CallType
        BY <2>1
      <4> HIDE DEF c
      <4> QED BY <1>0, <1>a, <4>1, <4>2, ApplyKeeps
    <3> QED BY <3>1, <3>2
  <2> QED BY <1>0, <1>10, <2>1, <2>2 DEF RunAsync, StateType
<1>11. CASE SwapAfter
  <2> DEFINE p == ds.mAfterLoopProcs
  <2>1. afterCopy = <<>>
    BY <1>11 DEF SwapAfter, SocketInv, RoundInv
  <2>2. afterCopy' = p /\ ds' = [ds EXCEPT !.mAfterLoopProcs = <<>>] /\ deleted' = deleted
    BY <1>11, <2>1 DEF SwapAfter
  <2>3. p \in Seq(ProcNames) /\ <<>> \in Seq(ProcNames)
    BY <1>0 DEF ObjectType
  <2>4. /\ ds' \in ObjectType /\ ds'.mAfterLoopProcs = <<>>
        /\ ds'.mSocket = ds.mSocket /\ ds'.mIsPostFinalClose = ds.mIsPostFinalClose
        /\ ds'.mIsPostFlush = ds.mIsPostFlush
    BY <1>0, <2>2, <2>3 DEF ObjectType
  <2>5. ObjectInv(ds', afterCopy', deleted')
    BY <1>0, <2>1, <2>2, <2>4, EmptyContains DEF ObjectInv
  <2> QED BY <1>0, <1>11, <2>2, <2>3, <2>4, <2>5 DEF SwapAfter, StateType
<1>12. CASE RunFlush
  <2> DEFINE next == IF ds.mCanWrite /\ ds.mSocket THEN "Flush" ELSE "After"
  <2>1. RunAfter("flush", next) /\ ds' = [ds EXCEPT !.mIsPostFlush = FALSE]
    BY <1>12 DEF RunFlush
  <2>2. /\ ds' \in ObjectType /\ ds'.mAfterLoopProcs = ds.mAfterLoopProcs
        /\ ds'.mSocket = ds.mSocket /\ ds'.mIsPostFinalClose = ds.mIsPostFinalClose
        /\ ds'.mIsPostFlush = FALSE
    BY <1>0, <2>1 DEF ObjectType
  <2>3. next \in {"Flush", "After"}
    OBVIOUS
  <2> HIDE DEF next
  <2>4. /\ afterCopy' \in Seq(ProcNames) /\ CloseEnds(afterCopy')
        /\ \A y : Contains(afterCopy, y) <=> y = "flush" \/ Contains(afterCopy', y)
        /\ ~deleted /\ phase' = next
    BY <2>1, RunAfterProps
  <2>5. ObjectInv(ds', afterCopy', deleted)
    BY <1>0, <2>2, <2>4 DEF ObjectInv
  <2> QED BY <1>0, <1>12, <2>2, <2>3, <2>4, <2>5 DEF RunFlush, StateType
<1>13. CASE RunShutdown
  <2>1. RunAfter("shutdown", "After") /\ ds' = [ds EXCEPT !.mCanWrite = @ /\ ~ds.mSocket]
    BY <1>13 DEF RunShutdown
  <2>2. /\ ds' \in ObjectType /\ ds'.mAfterLoopProcs = ds.mAfterLoopProcs
        /\ ds'.mSocket = ds.mSocket /\ ds'.mIsPostFinalClose = ds.mIsPostFinalClose
        /\ ds'.mIsPostFlush = ds.mIsPostFlush
    BY <1>0, <2>1 DEF ObjectType
  <2>3. /\ afterCopy' \in Seq(ProcNames) /\ CloseEnds(afterCopy')
        /\ \A y : Contains(afterCopy, y) <=> y = "shutdown" \/ Contains(afterCopy', y)
        /\ ~deleted /\ phase' = "After"
    BY <2>1, RunAfterProps
  <2>4. ObjectInv(ds', afterCopy', deleted)
    BY <1>0, <2>2, <2>3 DEF ObjectInv
  <2>5. shutWR' \in BOOLEAN
    BY <1>13 DEF RunShutdown
  <2> QED BY <1>0, <1>13, <2>2, <2>3, <2>4, <2>5 DEF RunShutdown, StateType
<1>14. CASE RunClose
  <2>1. RunAfter("close", "After") /\ ds' = ds /\ deleted' = TRUE
    BY <1>14 DEF RunClose
  <2>2. /\ afterCopy' = <<>> /\ afterCopy' \in Seq(ProcNames)
        /\ \A y : Contains(afterCopy, y) <=> y = "close" \/ Contains(afterCopy', y)
        /\ phase' = "After"
    BY <2>1, RunAfterProps
  <2>3. ObjectInv(ds', afterCopy', deleted')
    BY <1>0, <2>1, <2>2, EmptyContains DEF ObjectInv
  <2> QED BY <1>0, <1>14, <2>1, <2>2, <2>3 DEF RunClose, StateType
<1>15. CASE FlushEnds
  BY <1>0, <1>15 DEF FlushEnds, Continue, StateType
<1>16. CASE WriteFails
  <2>1. ds' \in ObjectType /\ ObjectInv(ds', afterCopy, deleted)
    BY <1>0, <1>16, ProcCloseKeeps DEF WriteFails
  <2>2. phase' = "After" /\ UNCHANGED <<deleted, todo, loopq, tmpLen, kernel, accepted, completed>>
    BY <1>16 DEF WriteFails, locals, history
  <2>3. UNCHANGED <<deleted, shutWR, asyncQ, asyncCopy, afterCopy, tmpLen, room, accepted, completed>>
    BY <2>2 DEF kernel, loopq
  <2>4. phase' \in Phases /\ todo' \in Seq({"canRecv", "canSend", "onClose"})
    BY <1>0, <2>2 DEF StateType, Phases
  <2> QED BY <1>s, <2>1, <2>3, <2>4
<1>17. CASE WriteBlocks
  <2>1. ds' \in ObjectType /\ ObjectInv(ds', afterCopy, deleted)
    <3>1. ds' = [ds EXCEPT !.mCanWrite = FALSE, !.checkWrite = TRUE]
      BY <1>17 DEF WriteBlocks
    <3> QED BY <1>0, <3>1, WriteFlagsKeep
  <2>2. phase' = "After" /\ UNCHANGED <<deleted, todo, loopq, tmpLen, kernel, accepted, completed>>
    BY <1>17 DEF WriteBlocks, locals, history
  <2>3. UNCHANGED <<deleted, shutWR, asyncQ, asyncCopy, afterCopy, tmpLen, room, accepted, completed>>
    BY <2>2 DEF kernel, loopq
  <2>4. phase' \in Phases /\ todo' \in Seq({"canRecv", "canSend", "onClose"})
    BY <1>0, <2>2 DEF StateType, Phases
  <2> QED BY <1>s, <2>1, <2>3, <2>4
<1>18. ASSUME NEW e \in {"EWOULDBLOCK", "other"}, WriteNothing(e) PROVE Goal
  <2>1. ds' = [ds EXCEPT !.mCanWrite = FALSE, !.checkWrite = TRUE] \/ ds' = ProcCloseInLoop(ds)
    BY <1>18 DEF WriteNothing
  <2>2. ds' \in ObjectType /\ ObjectInv(ds', afterCopy, deleted)
    <3>1. CASE ds' = [ds EXCEPT !.mCanWrite = FALSE, !.checkWrite = TRUE]
      BY <1>0, <3>1, WriteFlagsKeep
    <3>2. CASE ds' = ProcCloseInLoop(ds)
      BY <1>0, <3>2, ProcCloseKeeps
    <3> QED BY <2>1, <3>1, <3>2
  <2> QED BY <1>0, <1>s, <1>18, <2>2 DEF WriteNothing, StateType
<1>19. ASSUME NEW n \in 1..SndBuf, Writev(n) PROVE Goal
  <2>1. tmpLen' \in Nat /\ room' \in Nat
    BY <1>0, <1>19, LimitsAssumption DEF Writev
  <2> QED BY <1>0, <1>19, <2>1 DEF Writev, StateType
<1>20. ASSUME NEW c \in CompleteCalls, AckComplete(c) PROVE Goal
  <2> DEFINE h  == Head(ds.mSendList)
             cd == IF c.kind = "none" THEN ds ELSE Apply(c, ds)
  <2>1. ds.mSendList # <<>> /\ h.left <= tmpLen /\ h \in PacketType
    BY <1>0, <1>20, TailContains DEF AckComplete, AckPacketFits, ObjectType
  <2>2. tmpLen' \in Nat /\ completed' \in Seq(Nat)
    <3>1. tmpLen' = tmpLen - h.left /\ completed' = Append(completed, h.id)
      BY <1>20 DEF AckComplete
    <3>2. h.left \in Nat /\ h.id \in Nat /\ h.left <= tmpLen
      BY <2>1 DEF PacketType
    <3>3. tmpLen \in Nat /\ completed \in Seq(Nat)
      BY <1>0
    <3> HIDE DEF h
    <3>4. tmpLen - h.left \in Nat
      BY <3>2, <3>3
    <3>5. Append(completed, h.id) \in Seq(Nat)
      BY <3>2, <3>3, AppendProperties
    <3> QED BY <3>1, <3>4, <3>5
  <2>3. ds' = [cd EXCEPT !.mSendList = Tail(@)]
    BY <1>20 DEF AckComplete
  <2>4. /\ cd \in ObjectType /\ ObjectInv(cd, afterCopy, deleted) /\ cd.mSendList # <<>>
        /\ accepted' \in Seq(Nat)
    <3>1. CASE c.kind = "none"
      BY <1>0, <1>20, <2>1, <3>1 DEF AckComplete
    <3>2. CASE c.kind # "none"
      <4>1. c \in CallType /\ c.len \in Nat
        BY <3>2, CallsAreTyped DEF CallType
      <4>2. Packet(Len(accepted) + 1, c.len) \in PacketType /\ ds.mSendList \in Seq(PacketType)
        BY <1>0, <4>1 DEF Packet, PacketType, ObjectType
      <4>3. /\ Apply(c, ds) \in ObjectType /\ ObjectInv(Apply(c, ds), afterCopy, deleted)
            /\ Apply(c, ds).mSendList = IF c.kind = "send"
                            THEN Append(ds.mSendList, Packet(Len(accepted) + 1, c.len))
                            ELSE ds.mSendList
        BY <1>0, <4>1, ApplyKeeps
      <4>4. Apply(c, ds).mSendList # <<>>
        BY <2>1, <4>2, <4>3, AppendContains
      <4>5. accepted' \in Seq(Nat)
        BY <1>a, <1>20, <3>2, <4>1 DEF AckComplete
      <4> QED BY <3>2, <4>3, <4>4, <4>5
    <3> QED BY <3>1, <3>2
  <2> HIDE DEF cd, h
  <2>5. Tail(cd.mSendList) \in Seq(PacketType)
    BY <2>4, TailContains DEF ObjectType
  <2>6. ds' = [cd EXCEPT !.mSendList = Tail(cd.mSendList)]
    BY <2>3, <2>4 DEF ObjectType
  <2>7. ds' \in ObjectType /\ ObjectInv(ds', afterCopy, deleted)
    BY <2>4, <2>5, <2>6, NewListKeeps
  <2>8. phase' \in Phases
    BY <1>20 DEF AckComplete, Continue
  <2> QED BY <1>0, <1>20, <2>2, <2>4, <2>7, <2>8 DEF AckComplete, StateType
<1>21. CASE AckAll
  <2>1. ds' = [ds EXCEPT !.mSendList = AckRest(ds.mSendList)] /\ AckRest(ds.mSendList) \in Seq(PacketType)
    BY <1>0, <1>21, AckRestProps DEF AckAll
  <2>2. ds' \in ObjectType /\ ObjectInv(ds', afterCopy, deleted)
    BY <1>0, <2>1, NewListKeeps
  <2> QED BY <1>0, <1>s, <1>21, <2>2 DEF AckAll, StateType
<1>22. CASE AckPartial
  <2>1. ds' \in ObjectType /\ ObjectInv(ds', afterCopy, deleted)
    <3>1. CASE ~ds.mSocket
      BY <1>0, <1>22, <3>1 DEF AckPartial
    <3>2. CASE ds.mSocket
      <4> DEFINE l == AckRest(ds.mSendList)
                 e == [ds EXCEPT !.mSendList = l]
      <4>1. l \in Seq(PacketType)
        BY <1>0, <1>22, AckRestProps DEF AckPartial
      <4>2. e \in ObjectType /\ ObjectInv(e, afterCopy, deleted)
        BY <1>0, <4>1, NewListKeeps
      <4>3. ds' = [e EXCEPT !.mCanWrite = FALSE, !.checkWrite = TRUE]
        BY <1>0, <1>22, <3>2 DEF AckPartial, ObjectType
      <4> HIDE DEF e, l
      <4> QED BY <4>2, <4>3, WriteFlagsKeep
    <3> QED BY <3>1, <3>2
  <2> QED BY <1>0, <1>s, <1>22, <2>1 DEF AckPartial, StateType, Continue
<1>23. ASSUME NEW b \in BOOLEAN, Schedule(b) PROVE Goal
  <2>1. ds' \in ObjectType /\ ObjectInv(ds', afterCopy, deleted)
    BY <1>0, <1>23, ProcCloseKeeps DEF Schedule
  <2> QED BY <1>0, <1>s, <1>23, <2>1 DEF Schedule, StateType
<1>24. CASE UNCHANGED vars
  BY <1>0, <1>24 DEF vars, StateType
<1> QED BY <1>1, <1>2, <1>3, <1>4, <1>5, <1>6, <1>7, <1>8, <1>9, <1>10, <1>11, <1>12, <1>13,
           <1>14, <1>15, <1>16, <1>17, <1>18, <1>19, <1>20, <1>21, <1>22, <1>23, <1>24
        DEF Next, LoopStep, Environment

(***************************************************************************)
(* The rounds of the loop.                                                 *)
(***************************************************************************)

\* Every step keeps RoundInv.
LEMMA RoundStep == SocketInv /\ [Next]_vars => RoundInv'
<1> SUFFICES ASSUME SocketInv, [Next]_vars PROVE RoundInv'
  OBVIOUS
<1> USE DEF SocketInv, RoundInv, object, locals, loopq, kernel, history
<1>1. ASSUME NEW c \in Calls, Post(c) \/ DataCallback(c) PROVE RoundInv'
  BY <1>1 DEF Post, DataCallback
<1>2. CASE PeerReads \/ PeerSends \/ (\E how \in {"fin", "reset"} : PeerCloses(how))
  BY <1>2 DEF PeerReads, PeerSends, PeerCloses
<1>3. CASE EpollWait \/ (\E b \in BOOLEAN : RecvDone(b)) \/ CanSend \/ OnCloseEvent
  BY <1>3 DEF EpollWait, RecvDone, CanSend, OnCloseEvent
<1>4. CASE SwapAsync \/ RunAsync \/ SwapAfter \/ AfterDone
  BY <1>4 DEF SwapAsync, RunAsync, SwapAfter, AfterDone
<1>5. CASE RunFlush
  BY <1>5 DEF RunFlush, RunAfter, Continue
<1>6. CASE RunShutdown \/ RunClose
  BY <1>6 DEF RunShutdown, RunClose, RunAfter, Continue
<1>7. CASE FlushEnds \/ WriteFails \/ WriteBlocks
  BY <1>7 DEF FlushEnds, WriteFails, WriteBlocks, Continue
<1>8. ASSUME NEW e \in {"EWOULDBLOCK", "other"}, WriteNothing(e) PROVE RoundInv'
  BY <1>8 DEF WriteNothing
<1>9. ASSUME NEW n \in 1..SndBuf, Writev(n) PROVE RoundInv'
  BY <1>9 DEF Writev
<1>10. ASSUME NEW c \in CompleteCalls, AckComplete(c) PROVE RoundInv'
  BY <1>10 DEF AckComplete, Continue
<1>11. CASE AckAll \/ AckPartial \/ (\E b \in BOOLEAN : Schedule(b))
  BY <1>11 DEF AckAll, AckPartial, Schedule, Continue
<1>12. CASE UNCHANGED vars
  BY <1>12 DEF vars
<1> QED BY <1>1, <1>2, <1>3, <1>4, <1>5, <1>6, <1>7, <1>8, <1>9, <1>10, <1>11, <1>12
        DEF Next, LoopStep, Environment

(***************************************************************************)
(* A flush or an edge is ahead of what is left to send.                    *)
(***************************************************************************)

\* An event of this socket brings the callback that tells of its edge.
LEMMA EdgeIsDispatched ==
    ASSUME EpollWait, ds.mSocket, "OUT" \in edges
    PROVE  Contains(todo', "canSend") \/ Contains(todo', "onClose")
<1>1. CASE "RDHUP" \in edges
  <2>1. todo' = <<"canRecv", "onClose">>
    BY <1>1 DEF EpollWait
  <2> QED BY <2>1 DEF Contains
<1>2. CASE "RDHUP" \notin edges
  <2> DEFINE T == {"canRecv", "canSend", "onClose"}
             s == IF "IN" \in edges THEN <<"canRecv">> ELSE <<>>
             t == <<"canSend">>
  <2>1. todo' = s \o t
    BY <1>2 DEF EpollWait
  <2>2. t \in Seq(T) /\ Len(t) = 1 /\ t[1] = "canSend"
    OBVIOUS
  <2>s. s \in Seq(T)
    <3>1. <<"canRecv">> \in Seq(T) /\ <<>> \in Seq(T)
      OBVIOUS
    <3> QED BY <3>1
  <2> HIDE DEF s, t
  <2>3. /\ Len(s \o t) = Len(s) + Len(t) /\ Len(s) \in Nat
        /\ \A i \in 1..(Len(s) + Len(t)) : (s \o t)[i] = IF i <= Len(s) THEN s[i] ELSE t[i - Len(s)]
    BY <2>2, <2>s, ConcatProperties
  <2>4. Len(s) + 1 \in 1..Len(s \o t) /\ (s \o t)[Len(s) + 1] = "canSend"
    BY <2>2, <2>3
  <2> QED BY <2>1, <2>4 DEF Contains
<1> QED BY <1>1, <1>2

\* Every step keeps WriteInv.
LEMMA WriteStep == SocketInv /\ [Next]_vars => WriteInv'
<1> SUFFICES ASSUME SocketInv, [Next]_vars PROVE WriteInv'
  OBVIOUS
<1> USE DEF object, locals, loopq, kernel, history
<1>0. /\ StateType /\ ObjectInv(ds, afterCopy, deleted) /\ ds \in ObjectType /\ WriteInv
      /\ accepted \in Seq(Nat) /\ room \in Nat /\ RoundInv
      /\ ds' \in ObjectType
  BY StateStep DEF SocketInv, StateType
<1>r. Keeps(ds, ds)
  BY DEF Keeps
\* A step after which the loop still has what it was to hear.
<1>k. ASSUME Keeps(ds, ds'), UNCHANGED <<shutWR, room, peer>>, Noticed => Noticed',
             ds'.mSocket => (phase \in {"Flush", "Ack", "Crashed"} => phase' \in {"Flush", "Ack", "Crashed"})
      PROVE  WriteInv'
  BY <1>0, <1>k DEF WriteInv, Keeps, Writable
<1>n. edges \subseteq edges' /\ todo' = todo => (Noticed => Noticed')
  BY DEF Noticed
<1>t. ASSUME todo # <<>>, todo' = Tail(todo), Head(todo) = "canRecv", edges' = edges
      PROVE  Noticed => Noticed'
  BY <1>0, <1>t, TailContains DEF Noticed, StateType
<1>1. ASSUME NEW c \in Calls, Post(c) PROVE WriteInv'
  BY <1>k, <1>n, <1>r, <1>1 DEF Post
<1>2. ASSUME NEW c \in Calls, DataCallback(c) PROVE WriteInv'
  <2>1. Keeps(ds, ds')
    BY <1>0, <1>2, CallsAreTyped, ApplyKeeps DEF DataCallback
  <2> QED BY <1>k, <1>n, <1>2, <2>1 DEF DataCallback
<1>3. CASE PeerReads
  BY <1>0, <1>3 DEF PeerReads, WriteInv, Writable, Noticed
<1>4. CASE PeerSends \/ AfterDone
  BY <1>k, <1>n, <1>r, <1>4 DEF PeerSends, AfterDone
<1>5. ASSUME NEW how \in {"fin", "reset"}, PeerCloses(how) PROVE WriteInv'
  BY <1>0, <1>5 DEF PeerCloses, WriteInv, Writable, Noticed
<1>6. CASE EpollWait
  <2>1. todo = <<>>
    BY <1>0, <1>6 DEF EpollWait, RoundInv
  <2>2. ds.mSocket /\ Noticed => Noticed'
    BY <1>6, <2>1, EdgeIsDispatched, EmptyContains DEF Noticed
  <2> QED BY <1>0, <1>6, <2>2 DEF EpollWait, WriteInv, Writable
<1>7. ASSUME NEW b \in BOOLEAN, RecvDone(b) PROVE WriteInv'
  <2>1. Keeps(ds, ds')
    BY <1>0, <1>r, <1>7, ProcCloseKeeps DEF RecvDone
  <2> QED BY <1>k, <1>t, <1>7, <2>1 DEF RecvDone
<1>8. CASE CanSend
  <2> DEFINE e == [ds EXCEPT !.checkWrite = FALSE, !.mCanWrite = TRUE]
  <2>1. /\ e \in ObjectType /\ e.mCanWrite = TRUE
        /\ e.mSocket = ds.mSocket /\ e.mIsPostFinalClose = ds.mIsPostFinalClose
        /\ e.mAfterLoopProcs = ds.mAfterLoopProcs /\ e.mIsPostFlush = ds.mIsPostFlush
    BY <1>0 DEF ObjectType
  <2>2. ds' = RunAfterFlush(e)
    BY <1>8 DEF CanSend
  <2> HIDE DEF e
  <2>3. ObjectInv(e, afterCopy, deleted)
    BY <1>0, <2>1, SameObject
  <2>4. ds'.mCanWrite = TRUE /\ (ds'.mSocket /\ ds'.mSendList # <<>> => ds'.mIsPostFlush)
    BY <2>1, <2>2, <2>3, RunAfterFlushKeeps
  <2> QED BY <2>4 DEF WriteInv
\* The connection is over.
<1>c. ASSUME ~ds'.mSocket PROVE WriteInv'
  BY <1>c DEF WriteInv
<1>9. CASE OnCloseEvent
  BY <1>0, <1>c, <1>9, OnCloseKeeps DEF OnCloseEvent
<1>10. CASE SwapAsync
  BY <1>k, <1>n, <1>r, <1>10 DEF SwapAsync
<1>11. CASE RunAsync
  <2>1. Keeps(ds, ds')
    <3>1. CASE deleted
      BY <1>r, <1>11, <3>1 DEF RunAsync
    <3>2. CASE ~deleted
      <4> DEFINE c == Head(asyncCopy)
      <4>1. ds' = Apply(c, ds) /\ c \in CallType
        BY <1>0, <1>11, <3>2, TailContains DEF RunAsync, StateType
      <4> HIDE DEF c
      <4> QED BY <1>0, <4>1, ApplyKeeps
    <3> QED BY <3>1, <3>2
  <2> QED BY <1>k, <1>n, <1>11, <2>1 DEF RunAsync
<1>12. CASE SwapAfter
  <2>1. Keeps(ds, ds')
    BY <1>0, <1>12 DEF SwapAfter, Keeps, ObjectType
  <2> QED BY <1>k, <1>n, <1>12, <2>1 DEF SwapAfter
<1>13. CASE RunFlush
  <2> DEFINE next == IF ds.mCanWrite /\ ds.mSocket THEN "Flush" ELSE "After"
  <2>1. RunAfter("flush", next) /\ ds' = [ds EXCEPT !.mIsPostFlush = FALSE]
        /\ UNCHANGED <<todo, kernel>>
    BY <1>13 DEF RunFlush
  <2>2. phase' = next
    BY <2>1, RunAfterProps
  <2>3. /\ ds'.mSocket = ds.mSocket /\ ds'.mCanWrite = ds.mCanWrite
        /\ ds'.checkWrite = ds.checkWrite /\ ds'.mSendList = ds.mSendList
    BY <1>0, <2>1 DEF ObjectType
  <2> QED BY <1>0, <2>1, <2>2, <2>3 DEF WriteInv, Writable, Noticed
<1>14. CASE RunShutdown
  <2>1. ds'.mSocket = ds.mSocket
    BY <1>0, <1>14 DEF RunShutdown, ObjectType
  <2>2. shutWR' = (shutWR \/ ds.mSocket)
    BY <1>14 DEF RunShutdown
  <2> QED BY <2>1, <2>2 DEF WriteInv
<1>15. CASE RunClose
  <2>1. RunAfter("close", "After") /\ ds' = ds
    BY <1>15 DEF RunClose
  <2>2. ~ds.mSocket
    BY <1>0, <2>1, RunAfterProps DEF ObjectInv
  <2> QED BY <1>c, <2>1, <2>2
<1>16. CASE FlushEnds
  <2>1. UNCHANGED <<ds, todo, kernel>> /\ (ds.mSendList = <<>> \/ ~ds.mSocket)
    BY <1>16 DEF FlushEnds
  <2> QED BY <1>0, <2>1 DEF WriteInv, Writable, Noticed
<1>17. CASE WriteFails
  BY <1>0, <1>c, <1>17, ProcCloseKeeps DEF WriteFails
<1>18. CASE WriteBlocks
  <2>1. ds'.mCanWrite = FALSE /\ ds'.checkWrite = TRUE
    BY <1>0, <1>18, WriteFlags DEF WriteBlocks
  <2>2. ~Writable'
    BY <1>18 DEF WriteBlocks, Writable
  <2> QED BY <2>1, <2>2 DEF WriteInv
<1>19. ASSUME NEW e \in {"EWOULDBLOCK", "other"}, WriteNothing(e) PROVE WriteInv'
  <2>1. CASE e = "EWOULDBLOCK"
    <3>0. ds' = [ds EXCEPT !.mCanWrite = FALSE, !.checkWrite = TRUE]
      BY <1>19, <2>1 DEF WriteNothing
    <3>1. ds'.mCanWrite = FALSE /\ ds'.checkWrite = TRUE
      BY <1>0, <3>0, WriteFlags
    <3>2. Writable' => "OUT" \in edges'
      BY <1>19, <2>1 DEF WriteNothing, Writable
    <3> QED BY <3>1, <3>2 DEF WriteInv, Noticed
  <2>2. CASE e # "EWOULDBLOCK"
    BY <1>0, <1>c, <1>19, <2>2, ProcCloseKeeps DEF WriteNothing
  <2> QED BY <2>1, <2>2
<1>20. ASSUME NEW n \in 1..SndBuf, Writev(n) PROVE WriteInv'
  <2>1. /\ UNCHANGED <<ds, todo, edges, shutWR, peer>> /\ phase' = "Ack"
        /\ room' = room - n /\ n <= room
    BY <1>20 DEF Writev
  <2>2. Writable' => Writable
    BY <1>0, <2>1, LimitsAssumption DEF Writable
  <2> QED BY <1>0, <2>1, <2>2 DEF WriteInv, Noticed
<1>21. ASSUME NEW c \in CompleteCalls, AckComplete(c) PROVE WriteInv'
  <2> DEFINE cd == IF c.kind = "none" THEN ds ELSE Apply(c, ds)
  <2>1. ds' = [cd EXCEPT !.mSendList = Tail(@)] /\ UNCHANGED <<todo, kernel>>
    BY <1>21 DEF AckComplete
  <2>2. cd \in ObjectType /\ Keeps(ds, cd)
    BY <1>0, <1>r, CallsAreTyped, ApplyKeeps
  <2> HIDE DEF cd
  <2>3. ds'.mSocket = cd.mSocket /\ ds'.mCanWrite = cd.mCanWrite /\ ds'.checkWrite = cd.checkWrite
    BY <2>1, <2>2 DEF ObjectType
  <2>4. phase' \in {"Ack", "Crashed"}
    BY <1>21 DEF AckComplete, Continue
  <2> QED BY <1>0, <2>1, <2>2, <2>3, <2>4 DEF WriteInv, Keeps, Writable, Noticed
<1>22. CASE AckAll
  <2>1. ds'.mSocket = ds.mSocket /\ ds'.mCanWrite = ds.mCanWrite /\ ds'.checkWrite = ds.checkWrite
    BY <1>0, <1>22 DEF AckAll, ObjectType
  <2> QED BY <1>0, <1>22, <2>1 DEF AckAll, WriteInv, Writable, Noticed
<1>23. CASE AckPartial
  <2>1. CASE ~ds.mSocket
    BY <1>c, <1>23, <2>1 DEF AckPartial
  <2>2. CASE ds.mSocket
    <3>1. ds'.mCanWrite = FALSE /\ ds'.checkWrite = TRUE
      BY <1>0, <1>23, <2>2 DEF AckPartial, ObjectType
    <3>2. Writable' => "OUT" \in edges'
      BY <1>23, <2>2 DEF AckPartial, Writable
    <3> QED BY <3>1, <3>2 DEF WriteInv, Noticed
  <2> QED BY <2>1, <2>2
<1>24. ASSUME NEW b \in BOOLEAN, Schedule(b) PROVE WriteInv'
  <2>1. Keeps(ds, ds')
    BY <1>0, <1>r, <1>24, ProcCloseKeeps DEF Schedule
  <2> QED BY <1>k, <1>n, <1>24, <2>1 DEF Schedule
<1>25. CASE UNCHANGED vars
  BY <1>k, <1>n, <1>r, <1>25 DEF vars
<1> QED BY <1>1, <1>2, <1>3, <1>4, <1>5, <1>6, <1>7, <1>8, <1>9, <1>10, <1>11, <1>12, <1>13,
           <1>14, <1>15, <1>16, <1>17, <1>18, <1>19, <1>20, <1>21, <1>22, <1>23, <1>24, <1>25
        DEF Next, LoopStep, Environment

(***************************************************************************)
(* The order of the packets.                                               *)
(***************************************************************************)

\* The next packet joins the end of the list.
LEMMA OrderAppend ==
    ASSUME SocketInv, NEW n \in Nat, NEW l,
           l = Append(ds.mSendList, Packet(Len(accepted) + 1, n))
    PROVE  /\ Len(l) = Len(ds.mSendList) + 1 /\ l \in Seq(PacketType)
           /\ Len(Append(accepted, n)) = Len(completed) + Len(l)
           /\ \A i \in 1..Len(l) : l[i].id = Len(completed) + i
<1> DEFINE m == ds.mSendList
           p == Packet(Len(accepted) + 1, n)
           a == Len(accepted)
           c == Len(completed)
<1>1. m \in Seq(PacketType) /\ p \in PacketType /\ p.id = a + 1 /\ a \in Nat /\ c \in Nat
  BY DEF SocketInv, StateType, ObjectType, Packet, PacketType
<1>2. a = c + Len(m) /\ (\A i \in 1..Len(m) : m[i].id = c + i)
  BY DEF SocketInv, OrderInv
<1>7. Len(Append(accepted, n)) = a + 1
  BY AppendProperties DEF SocketInv, StateType
<1>3. l = Append(m, p)
  OBVIOUS
<1> HIDE DEF m, p, a, c
<1>4. /\ Len(l) = Len(m) + 1 /\ l \in Seq(PacketType) /\ Len(m) \in Nat
      /\ \A i \in 1..Len(m) : l[i] = m[i]
      /\ l[Len(m) + 1] = p
  <2>1. /\ Len(Append(m, p)) = Len(m) + 1 /\ Append(m, p) \in Seq(PacketType) /\ Len(m) \in Nat
        /\ \A i \in 1..Len(m) : Append(m, p)[i] = m[i]
        /\ Append(m, p)[Len(m) + 1] = p
    BY <1>1, AppendProperties
  <2> QED BY <1>3, <2>1, Zenon
<1>5. ASSUME NEW i \in 1..Len(l) PROVE l[i].id = c + i
  <2>1. i \in 1..Len(m) \/ i = Len(m) + 1
    BY <1>4
  <2>2. CASE i \in 1..Len(m)
    BY <1>2, <1>4, <2>2
  <2>3. CASE i = Len(m) + 1
    <3>1. l[i].id = a + 1
      BY <1>1, <1>4, <2>3
    <3>2. a + 1 = c + (Len(m) + 1)
      BY <1>1, <1>2, <1>4
    <3> QED BY <2>3, <3>1, <3>2
  <2> QED BY <2>1, <2>2, <2>3
<1>6. a + 1 = c + Len(l)
  <2> DEFINE x == Len(l)
             y == Len(m)
  <2>1. x = y + 1 /\ a = c + y /\ y \in Nat
    BY <1>2, <1>4
  <2> HIDE DEF x, y
  <2>2. a + 1 = c + x
    BY <1>1, <2>1
  <2> QED BY <2>2 DEF x
<1> QED BY <1>4, <1>5, <1>6, <1>7 DEF m, c

\* Calls of users keep the order.
LEMMA OrderApply ==
    ASSUME SocketInv, NEW c \in CallType, Accept(c), ds'.mSendList = Apply(c, ds).mSendList,
           completed' = completed
    PROVE  OrderInv'
<1>0. c.len \in Nat /\ ds \in ObjectType /\ accepted \in Seq(Nat)
  BY DEF SocketInv, StateType, CallType
<1>1. CASE c.kind = "send"
  <2>1. /\ ds'.mSendList = Append(ds.mSendList, Packet(Len(accepted) + 1, c.len))
        /\ accepted' = Append(accepted, c.len)
    BY <1>0, <1>1, ApplyKeeps DEF SocketInv, Accept
  <2> DEFINE l == ds'.mSendList
  <2>2. l = Append(ds.mSendList, Packet(Len(accepted) + 1, c.len))
    BY <2>1
  <2> HIDE DEF l
  <2>3. /\ Len(Append(accepted, c.len)) = Len(completed) + Len(l)
        /\ \A i \in 1..Len(l) : l[i].id = Len(completed) + i
    BY <1>0, <2>2, OrderAppend
  <2> QED BY <2>1, <2>3 DEF OrderInv, SocketInv, l
<1>2. CASE c.kind # "send"
  <2>1. ds'.mSendList = ds.mSendList /\ accepted' = accepted
    BY <1>0, <1>2, ApplyKeeps DEF SocketInv, Accept
  <2> QED BY <2>1 DEF SocketInv, OrderInv
<1> QED BY <1>1, <1>2

\* Every step keeps OrderInv.
LEMMA OrderStep == SocketInv /\ [Next]_vars => OrderInv'
<1> SUFFICES ASSUME SocketInv, [Next]_vars PROVE OrderInv'
  OBVIOUS
<1> USE DEF object, locals, loopq, kernel, history
<1>0. /\ StateType /\ ObjectInv(ds, afterCopy, deleted) /\ ds \in ObjectType /\ OrderInv
      /\ accepted \in Seq(Nat) /\ completed \in Seq(Nat)
  BY DEF SocketInv, StateType
<1>s. ASSUME ds'.mSendList = ds.mSendList, UNCHANGED <<accepted, completed>> PROVE OrderInv'
  BY <1>0, <1>s DEF OrderInv
<1>1. ASSUME NEW c \in Calls, Post(c) PROVE OrderInv'
  BY <1>s, <1>1 DEF Post
<1>2. ASSUME NEW c \in Calls, DataCallback(c) PROVE OrderInv'
  BY <1>2, CallsAreTyped, OrderApply DEF DataCallback
<1>3. CASE \/ PeerReads \/ PeerSends \/ (\E how \in {"fin", "reset"} : PeerCloses(how))
           \/ EpollWait \/ SwapAsync \/ AfterDone \/ RunClose \/ FlushEnds
           \/ (\E n \in 1..SndBuf : Writev(n))
  BY <1>s, <1>3 DEF PeerReads, PeerSends, PeerCloses, EpollWait, SwapAsync, AfterDone,
                    RunClose, FlushEnds, Writev
<1>4. CASE (\E b \in BOOLEAN : RecvDone(b) \/ Schedule(b)) \/ WriteFails
  <2>1. (ds' = ProcCloseInLoop(ds) \/ ds' = ds) /\ UNCHANGED <<accepted, completed>>
    BY <1>4 DEF RecvDone, Schedule, WriteFails
  <2> QED BY <1>0, <1>s, <2>1, ProcCloseKeeps
<1>5. CASE CanSend
  <2> DEFINE e == [ds EXCEPT !.checkWrite = FALSE, !.mCanWrite = TRUE]
  <2>1. /\ e \in ObjectType /\ e.mSendList = ds.mSendList
        /\ e.mSocket = ds.mSocket /\ e.mIsPostFinalClose = ds.mIsPostFinalClose
        /\ e.mAfterLoopProcs = ds.mAfterLoopProcs /\ e.mIsPostFlush = ds.mIsPostFlush
    BY <1>0 DEF ObjectType
  <2>2. ds' = RunAfterFlush(e) /\ UNCHANGED <<accepted, completed>>
    BY <1>5 DEF CanSend
  <2> HIDE DEF e
  <2>3. ObjectInv(e, afterCopy, deleted)
    BY <1>0, <2>1, SameObject
  <2> QED BY <1>s, <2>1, <2>2, <2>3, RunAfterFlushKeeps
<1>6. CASE OnCloseEvent
  BY <1>0, <1>s, <1>6, OnCloseKeeps DEF OnCloseEvent
<1>7. CASE RunAsync
  <2>1. CASE deleted
    BY <1>s, <1>7, <2>1 DEF RunAsync
  <2>2. CASE ~deleted
    <3> DEFINE c == Head(asyncCopy)
    <3>1. ds' = Apply(c, ds) /\ Accept(c) /\ c \in CallType /\ completed' = completed
      BY <1>0, <1>7, <2>2, TailContains DEF RunAsync, StateType
    <3> HIDE DEF c
    <3> QED BY <3>1, OrderApply
  <2> QED BY <2>1, <2>2
<1>8. CASE SwapAfter \/ RunFlush \/ RunShutdown \/ WriteBlocks
  <2>1. ds'.mSendList = ds.mSendList
    BY <1>0, <1>8 DEF SwapAfter, RunFlush, RunShutdown, WriteBlocks, ObjectType
  <2> QED BY <1>s, <1>8, <2>1 DEF SwapAfter, RunFlush, RunShutdown, WriteBlocks
<1>9. ASSUME NEW e \in {"EWOULDBLOCK", "other"}, WriteNothing(e) PROVE OrderInv'
  <2>1. ds' = [ds EXCEPT !.mCanWrite = FALSE, !.checkWrite = TRUE] \/ ds' = ProcCloseInLoop(ds)
    BY <1>9 DEF WriteNothing
  <2>2. ds'.mSendList = ds.mSendList
    <3>1. CASE ds' = [ds EXCEPT !.mCanWrite = FALSE, !.checkWrite = TRUE]
      BY <1>0, <3>1, WriteFlags
    <3>2. CASE ds' = ProcCloseInLoop(ds)
      BY <1>0, <3>2, ProcCloseKeeps
    <3> QED BY <2>1, <3>1, <3>2
  <2> QED BY <1>s, <1>9, <2>2 DEF WriteNothing
<1>10. ASSUME NEW c \in CompleteCalls, AckComplete(c) PROVE OrderInv'
  <2> DEFINE cd == IF c.kind = "none" THEN ds ELSE Apply(c, ds)
             l  == cd.mSendList
             id == Head(ds.mSendList).id
             k  == Len(completed)
             a  == Len(accepted')
  <2>1. /\ ds.mSendList # <<>> /\ ds' = [cd EXCEPT !.mSendList = Tail(@)]
        /\ completed' = Append(completed, id)
    BY <1>10 DEF AckComplete, AckPacketFits
  <2>m. Head(ds.mSendList) = ds.mSendList[1] /\ ds.mSendList \in Seq(PacketType)
        /\ Len(ds.mSendList) \in Nat /\ 1 \in 1..Len(ds.mSendList) /\ k \in Nat
    BY <1>0, <2>1, EmptySeq, HeadTailProperties DEF ObjectType
  <2>2. id = k + 1 /\ id \in Nat
    BY <1>0, <2>m DEF OrderInv
  <2>3. /\ cd \in ObjectType /\ l \in Seq(PacketType) /\ Len(l) \in Nat \ {0}
        /\ a = k + Len(l) /\ \A i \in 1..Len(l) : l[i].id = k + i
    <3>1. CASE c.kind = "none"
      BY <1>0, <1>10, <2>m, <3>1 DEF AckComplete, OrderInv
    <3>2. CASE c.kind # "none"
      <4>1. c \in CallType /\ c.len \in Nat /\ Accept(c)
        BY <1>10, <3>2, CallsAreTyped DEF CallType, AckComplete
      <4>2. /\ Apply(c, ds) \in ObjectType
            /\ Apply(c, ds).mSendList = IF c.kind = "send"
                            THEN Append(ds.mSendList, Packet(Len(accepted) + 1, c.len))
                            ELSE ds.mSendList
        BY <1>0, <4>1, ApplyKeeps
      <4>3. cd = Apply(c, ds)
        BY <3>2
      <4>4. CASE c.kind = "send"
        <5>1. l = Append(ds.mSendList, Packet(Len(accepted) + 1, c.len)) /\ accepted' = Append(accepted, c.len)
          BY <4>1, <4>2, <4>3, <4>4 DEF Accept
        <5>2. /\ Len(l) = Len(ds.mSendList) + 1 /\ l \in Seq(PacketType)
              /\ Len(Append(accepted, c.len)) = k + Len(l)
              /\ \A i \in 1..Len(l) : l[i].id = k + i
          <6> HIDE DEF l, k
          <6>1. c.len \in Nat /\ l = Append(ds.mSendList, Packet(Len(accepted) + 1, c.len))
            BY <4>1, <5>1
          <6>2. /\ Len(l) = Len(ds.mSendList) + 1 /\ l \in Seq(PacketType)
                /\ Len(Append(accepted, c.len)) = Len(completed) + Len(l)
                /\ \A i \in 1..Len(l) : l[i].id = Len(completed) + i
            BY <6>1, OrderAppend, Zenon
          <6> QED BY <6>2 DEF k
        <5>3. Len(l) \in Nat \ {0}
          BY <2>m, <5>2
        <5>4. a = k + Len(l) /\ cd \in ObjectType
          BY <4>2, <4>3, <5>1, <5>2
        <5> QED BY <5>2, <5>3, <5>4
      <4>5. CASE c.kind # "send"
        <5>1. l = ds.mSendList /\ accepted' = accepted /\ cd \in ObjectType
          BY <4>1, <4>2, <4>3, <4>5 DEF Accept
        <5> HIDE DEF l, cd
        <5> QED BY <1>0, <2>m, <5>1 DEF OrderInv
      <4> QED BY <4>4, <4>5
    <3> QED BY <3>1, <3>2
  <2> HIDE DEF cd, l, id, k, a
  <2>4. ds'.mSendList = Tail(l)
    BY <2>1, <2>3 DEF ObjectType, l
  <2> DEFINE t == Tail(l)
  <2>5. /\ t \in Seq(PacketType) /\ Len(t) = Len(l) - 1 /\ Len(t) \in Nat
        /\ \A i \in 1..Len(t) : t[i] = l[i + 1]
    BY <2>3, HeadTailProperties, EmptySeq
  <2> HIDE DEF t
  <2>6. /\ Len(completed') = k + 1 /\ completed'[k + 1] = id
        /\ \A i \in 1..k : completed'[i] = completed[i]
    BY <1>0, <2>1, <2>2, AppendProperties DEF k
  <2>7. \A i \in 1..Len(completed') : completed'[i] = i
    <3> TAKE i \in 1..Len(completed')
    <3>1. i \in 1..k \/ i = k + 1
      BY <2>m, <2>6
    <3> QED BY <1>0, <2>2, <2>6, <3>1 DEF OrderInv, k
  <2>8. \A i \in 1..Len(t) : t[i].id = Len(completed') + i
    <3> TAKE i \in 1..Len(t)
    <3>1. i + 1 \in 1..Len(l) /\ t[i] = l[i + 1] /\ k + (i + 1) = (k + 1) + i
      BY <2>m, <2>3, <2>5
    <3> QED BY <2>3, <2>6, <3>1
  <2>9. a = Len(completed') + Len(t)
    BY <2>m, <2>3, <2>5, <2>6
  <2> QED BY <2>4, <2>7, <2>8, <2>9 DEF OrderInv, t, a
<1>11. CASE AckAll \/ AckPartial
  <2>1. ds'.mSendList = AckRest(ds.mSendList) \/ ds'.mSendList = ds.mSendList
    BY <1>0, <1>11 DEF AckAll, AckPartial, ObjectType
  <2>2. Len(ds'.mSendList) = Len(ds.mSendList)
        /\ \A i \in 1..Len(ds.mSendList) : ds'.mSendList[i].id = ds.mSendList[i].id
    BY <1>0, <1>11, <2>1, AckRestProps DEF AckAll, AckPartial
  <2>3. UNCHANGED <<accepted, completed>>
    BY <1>11 DEF AckAll, AckPartial
  <2> QED BY <1>0, <2>2, <2>3 DEF OrderInv
<1>12. CASE UNCHANGED vars
  BY <1>s, <1>12 DEF vars
<1> QED BY <1>1, <1>2, <1>3, <1>4, <1>5, <1>6, <1>7, <1>8, <1>9, <1>10, <1>11, <1>12
        DEF Next, LoopStep, Environment

(***************************************************************************)
(* The theorems.                                                           *)
(***************************************************************************)

\* The disconnect callback runs when the object is deleted, and only then.
LEMMA DisconnectStep ==
    SocketInv /\ [Next]_vars => disconnects' = IF deleted' THEN 1 ELSE 0
<1> SUFFICES ASSUME SocketInv, [Next]_vars PROVE disconnects' = IF deleted' THEN 1 ELSE 0
  OBVIOUS
<1> USE DEF object, locals, loopq, kernel, history
<1>0. disconnects = IF deleted THEN 1 ELSE 0
  BY DEF SocketInv
<1>1. CASE RunClose
  <2>1. RunAfter("close", "After") /\ deleted' = TRUE /\ disconnects' = disconnects + 1
    BY <1>1 DEF RunClose
  <2>2. ~deleted
    BY <2>1, RunAfterProps
  <2> QED BY <1>0, <2>1, <2>2
<1>2. CASE ~RunClose
  <2>1. ASSUME NEW c \in Calls, Post(c) \/ DataCallback(c) PROVE UNCHANGED <<deleted, disconnects>>
    BY <2>1 DEF Post, DataCallback
  <2>2. CASE PeerReads \/ PeerSends \/ (\E how \in {"fin", "reset"} : PeerCloses(how))
    BY <1>0, <2>2 DEF PeerReads, PeerSends, PeerCloses
  <2>3. CASE EpollWait \/ (\E b \in BOOLEAN : RecvDone(b)) \/ CanSend \/ OnCloseEvent \/ SwapAsync
    BY <1>0, <2>3 DEF EpollWait, RecvDone, CanSend, OnCloseEvent, SwapAsync
  <2>4. CASE RunAsync \/ SwapAfter \/ RunFlush \/ RunShutdown \/ AfterDone \/ FlushEnds
    BY <1>0, <2>4 DEF RunAsync, SwapAfter, RunFlush, RunShutdown, AfterDone, FlushEnds
  <2>5. CASE \/ WriteFails \/ WriteBlocks \/ (\E e \in {"EWOULDBLOCK", "other"} : WriteNothing(e))
             \/ (\E n \in 1..SndBuf : Writev(n))
    BY <1>0, <2>5 DEF WriteFails, WriteBlocks, WriteNothing, Writev
  <2>6. CASE \/ (\E c \in CompleteCalls : AckComplete(c)) \/ AckAll \/ AckPartial
             \/ (\E b \in BOOLEAN : Schedule(b))
    BY <1>0, <2>6 DEF AckComplete, AckAll, AckPartial, Schedule
  <2>7. CASE UNCHANGED vars
    BY <1>0, <2>7 DEF vars
  <2> QED BY <1>0, <1>2, <2>1, <2>2, <2>3, <2>4, <2>5, <2>6, <2>7 DEF Next, LoopStep, Environment
<1> QED BY <1>1, <1>2

\* Everything above holds, whatever calls, callbacks, events and writes
\* interleave in the rounds of the loop.
THEOREM SocketInvariant == Spec => []SocketInv
<1>1. Init => SocketInv
  <2> SUFFICES ASSUME Init PROVE SocketInv
    OBVIOUS
  <2>1. /\ ds \in ObjectType /\ ds.mSocket /\ ~ds.mIsPostFinalClose /\ ds.mCanWrite
        /\ ~ds.mIsPostFlush /\ ds.mSendList = <<>> /\ ds.mAfterLoopProcs = <<>>
    BY DEF Init, ObjectType
  <2>0. SndBuf \in Nat
    BY LimitsAssumption
  <2>6. deleted \in BOOLEAN /\ shutWR \in BOOLEAN
    BY DEF Init
  <2>7. /\ phase \in Phases /\ tmpLen \in Nat /\ room \in Nat
        /\ todo \in Seq({"canRecv", "canSend", "onClose"})
        /\ asyncQ \in Seq(CallType) /\ asyncCopy \in Seq(CallType)
        /\ afterCopy \in Seq(ProcNames) /\ accepted \in Seq(Nat) /\ completed \in Seq(Nat)
    BY <2>0 DEF Init, Phases
  <2>2. StateType
    BY <2>1, <2>6, <2>7 DEF StateType
  <2>3. ObjectInv(ds, afterCopy, deleted)
    BY <2>1, EmptyContains DEF Init, ObjectInv
  <2>4. RoundInv /\ WriteInv /\ OrderInv
    BY <2>1 DEF Init, RoundInv, WriteInv, OrderInv
  <2>5. disconnects = IF deleted THEN 1 ELSE 0
    BY DEF Init
  <2> QED BY <2>2, <2>3, <2>4, <2>5 DEF SocketInv
<1>2. SocketInv /\ [Next]_vars => SocketInv'
  <2> SUFFICES ASSUME SocketInv, [Next]_vars PROVE SocketInv'
    OBVIOUS
  <2>1. StateType' /\ ObjectInv(ds', afterCopy', deleted')
    BY StateStep
  <2>2. RoundInv' /\ WriteInv' /\ OrderInv'
    BY RoundStep, WriteStep, OrderStep
  <2>3. disconnects' = IF deleted' THEN 1 ELSE 0
    BY DisconnectStep
  <2> QED BY <2>1, <2>2, <2>3 DEF SocketInv
<1> QED BY <1>1, <1>2, PTL DEF Spec

\* Nothing that refers to the DataSocket is queued behind the lambda that
\* deletes it, in whatever order users, the peer, the heartbeat and failed
\* writes close the connection.
THEOREM DisconnectIsLast == Spec => []CloseIsLast
<1>1. SocketInv => CloseIsLast
  <2> SUFFICES ASSUME SocketInv PROVE CloseIsLast
    OBVIOUS
  <2> DEFINE q == afterCopy
             p == ds.mAfterLoopProcs
             s == q \o p
  <2>1. /\ q \in Seq(ProcNames) /\ p \in Seq(ProcNames) /\ Len(q) \in Nat /\ Len(p) \in Nat
        /\ CloseEnds(q) /\ CloseEnds(p)
        /\ Contains(q, "close") => p = <<>>
        /\ deleted => q = <<>> /\ p = <<>>
    BY DEF SocketInv, StateType, ObjectType, ObjectInv
  <2>2. CloseIsLast <=> /\ \A i \in 1..Len(s) : s[i] = "close" => i = Len(s)
                        /\ deleted => s = <<>>
    BY DEF CloseIsLast
  <2> HIDE DEF q, p
  <2>3. /\ Len(s) = Len(q) + Len(p)
        /\ \A i \in 1..(Len(q) + Len(p)) : s[i] = IF i <= Len(q) THEN q[i] ELSE p[i - Len(q)]
    BY <2>1, ConcatProperties
  <2>4. deleted => s = <<>>
    BY <2>1, ConcatEmptySeq
  <2> HIDE DEF s
  <2>5. ASSUME NEW i \in 1..Len(s), s[i] = "close" PROVE i = Len(s)
    <3> DEFINE a == Len(q)
               b == Len(p)
    <3>1. /\ a \in Nat /\ b \in Nat /\ i \in 1..(a + b) /\ Len(s) = a + b
          /\ s[i] = IF i <= a THEN q[i] ELSE p[i - a]
      BY <2>1, <2>3
    <3>2. CASE i <= a
      <4>1. i \in 1..a /\ q[i] = "close"
        BY <2>5, <3>1, <3>2
      <4>2. i = a /\ Contains(q, "close")
        BY <2>1, <4>1 DEF CloseEnds, Contains
      <4>3. b = 0
        BY <2>1, <4>2
      <4> QED BY <3>1, <4>2, <4>3
    <3>3. CASE ~(i <= a)
      <4>1. i - a \in 1..b /\ p[i - a] = "close"
        BY <2>5, <3>1, <3>3
      <4>2. i - a = b
        BY <2>1, <4>1 DEF CloseEnds
      <4> HIDE DEF a, b
      <4> QED BY <3>1, <4>2
    <3> QED BY <3>2, <3>3
  <2> QED BY <2>2, <2>4, <2>5
<1> QED BY <1>1, SocketInvariant, PTL

\* Data that is left on an open connection always has a flush or an edge of
\* EPOLLOUT ahead of it when the loop goes back to epoll_wait.
THEOREM SendsDoNotStall == Spec => []NoSendStall
<1>1. SocketInv => NoSendStall
  <2> SUFFICES ASSUME SocketInv, phase = "Wait", ds.mSocket, ~shutWR, ds.mSendList # <<>>
               PROVE  \/ Contains(ds.mAfterLoopProcs, "flush")
                      \/ ds.checkWrite /\ (Writable => "OUT" \in edges)
    BY DEF NoSendStall
  <2>1. todo = <<>> /\ afterCopy = <<>>
    BY DEF SocketInv, RoundInv
  <2>2. CASE ds.mCanWrite
    <3>1. ds.mIsPostFlush
      BY <2>2 DEF SocketInv, WriteInv
    <3> QED BY <2>1, <3>1, EmptyContains DEF SocketInv, ObjectInv
  <2>3. CASE ~ds.mCanWrite
    BY <2>1, <2>3, EmptyContains DEF SocketInv, WriteInv, Noticed
  <2> QED BY <2>2, <2>3
<1> QED BY <1>1, SocketInvariant, PTL

\* Complete callbacks run in the order of the sends and once for each packet:
\* with the packets still listed they are all that were accepted.
THEOREM CompletesInOrder == Spec => []OrderInv
<1>1. SocketInv => OrderInv
  BY DEF SocketInv
<1> QED BY <1>1, SocketInvariant, PTL

\* While a flush writes, its socket is there.
FlushInv == fault = "none" /\ (phase \in {"Flush", "Ack"} => ds.mSocket)

\* The reentry of DataSocket.cpp:500-515 is the only way to undefined
\* behaviour: when complete callbacks neither send nor disconnect, no lambda
\* and no system call ever uses an object or a descriptor that is gone.
THEOREM NoFaultWithoutReentry ==
    ASSUME CompleteActs \subseteq {"none", "shutdown"}
    PROVE  Spec => []NoFault
<1> USE DEF object, locals, loopq, kernel, history
<1>1. Init => FlushInv
  BY DEF Init, FlushInv
<1>2. SocketInv /\ FlushInv /\ [Next]_vars => FlushInv'
  <2> SUFFICES ASSUME SocketInv, FlushInv, [Next]_vars PROVE FlushInv'
    OBVIOUS
  <2> USE DEF FlushInv
  <2>0. ds \in ObjectType /\ accepted \in Seq(Nat) /\ ObjectInv(ds, afterCopy, deleted)
    BY DEF SocketInv, StateType
  <2>1. ASSUME NEW c \in Calls, Post(c) \/ DataCallback(c) PROVE FlushInv'
    BY <2>1 DEF Post, DataCallback
  <2>2. CASE PeerReads \/ PeerSends \/ (\E how \in {"fin", "reset"} : PeerCloses(how))
    BY <2>2 DEF PeerReads, PeerSends, PeerCloses
  <2>3. CASE EpollWait \/ (\E b \in BOOLEAN : RecvDone(b)) \/ CanSend \/ OnCloseEvent \/ SwapAsync
    BY <2>3 DEF EpollWait, RecvDone, CanSend, OnCloseEvent, SwapAsync
  <2>4. CASE RunAsync \/ SwapAfter \/ AfterDone \/ (\E b \in BOOLEAN : Schedule(b))
    BY <2>4 DEF RunAsync, SwapAfter, AfterDone, Schedule
  <2>5. CASE RunFlush
    <3> DEFINE next == IF ds.mCanWrite /\ ds.mSocket THEN "Flush" ELSE "After"
    <3>1. RunAfter("flush", next) /\ ds' = [ds EXCEPT !.mIsPostFlush = FALSE]
      BY <2>5 DEF RunFlush
    <3>2. phase' = next /\ fault' = "none"
      BY <3>1, RunAfterProps
    <3>3. ds'.mSocket = ds.mSocket
      BY <2>0, <3>1 DEF ObjectType
    <3> QED BY <3>2, <3>3
  <2>6. CASE RunShutdown \/ RunClose
    <3>1. \E proc : RunAfter(proc, "After")
      BY <2>6 DEF RunShutdown, RunClose
    <3>2. phase' = "After" /\ fault' = "none"
      BY <3>1, RunAfterProps
    <3> QED BY <3>2
  <2>7. CASE FlushEnds \/ WriteFails \/ WriteBlocks
    BY <2>7 DEF FlushEnds, WriteFails, WriteBlocks, Continue
  <2>8. ASSUME NEW e \in {"EWOULDBLOCK", "other"}, WriteNothing(e) PROVE FlushInv'
    BY <2>8 DEF WriteNothing
  <2>9. ASSUME NEW n \in 1..SndBuf, Writev(n) PROVE FlushInv'
    BY <2>9 DEF Writev
  <2>10. ASSUME NEW c \in CompleteCalls, AckComplete(c) PROVE FlushInv'
    <3> DEFINE cd == IF c.kind = "none" THEN ds ELSE Apply(c, ds)
    <3>1. c.kind = "none" \/ (c \in CallType /\ c.kind = "shutdown")
      BY CallsAreTyped
    <3>2. cd \in ObjectType /\ cd.mSocket = ds.mSocket
      BY <2>0, <3>1, ApplyKeeps DEF SocketInv
    <3>3. ds' = [cd EXCEPT !.mSendList = Tail(@)] /\ phase = "Ack"
      BY <2>10 DEF AckComplete
    <3> HIDE DEF cd
    <3>4. ds'.mSocket = ds.mSocket
      BY <3>2, <3>3 DEF ObjectType
    <3>5. fault' = "none" /\ phase' = "Ack"
      BY <2>10, <3>1 DEF AckComplete, Continue
    <3> QED BY <3>3, <3>4, <3>5
  <2>11. CASE AckAll
    BY <2>0, <2>11 DEF AckAll, ObjectType
  <2>12. CASE AckPartial
    BY <2>12 DEF AckPartial, Continue
  <2>13. CASE UNCHANGED vars
    BY <2>13 DEF vars
  <2> QED BY <2>1, <2>2, <2>3, <2>4, <2>5, <2>6, <2>7, <2>8, <2>9, <2>10, <2>11, <2>12, <2>13
          DEF Next, LoopStep, Environment
<1>3. FlushInv => NoFault
  BY DEF FlushInv, NoFault
<1> QED BY <1>1, <1>2, <1>3, SocketInvariant, PTL DEF Spec

\* The part of NoFault that does not depend on complete callbacks.
NoDeletedSocket == fault # "deletedSocket"

\* Whatever complete callbacks do, no lambda runs on a deleted DataSocket.
THEOREM DeletedSocketIsLeftAlone == Spec => []NoDeletedSocket
<1> USE DEF object, locals, loopq, kernel, history
<1>1. Init => NoDeletedSocket
  BY DEF Init, NoDeletedSocket
<1>2. SocketInv /\ NoDeletedSocket /\ [Next]_vars => NoDeletedSocket'
  <2> SUFFICES ASSUME SocketInv, fault # "deletedSocket", [Next]_vars, fault' # fault
               PROVE  fault' # "deletedSocket"
    BY DEF NoDeletedSocket
  <2>1. ASSUME NEW c \in Calls, Post(c) \/ DataCallback(c) PROVE FALSE
    BY <2>1 DEF Post, DataCallback
  <2>2. CASE PeerReads \/ PeerSends \/ (\E how \in {"fin", "reset"} : PeerCloses(how))
    BY <2>2 DEF PeerReads, PeerSends, PeerCloses
  <2>3. CASE EpollWait \/ (\E b \in BOOLEAN : RecvDone(b)) \/ CanSend \/ OnCloseEvent \/ SwapAsync
    BY <2>3 DEF EpollWait, RecvDone, CanSend, OnCloseEvent, SwapAsync
  <2>4. CASE RunAsync \/ SwapAfter \/ AfterDone \/ (\E b \in BOOLEAN : Schedule(b))
    BY <2>4 DEF RunAsync, SwapAfter, AfterDone, Schedule
  <2>5. CASE RunFlush \/ RunShutdown \/ RunClose
    <3>1. \E proc, next : RunAfter(proc, next)
      BY <2>5 DEF RunFlush, RunShutdown, RunClose
    <3> QED BY <3>1, RunAfterProps
  <2>6. CASE FlushEnds \/ WriteFails \/ WriteBlocks
    BY <2>6 DEF FlushEnds, WriteFails, WriteBlocks, Continue
  <2>7. ASSUME NEW e \in {"EWOULDBLOCK", "other"}, WriteNothing(e) PROVE FALSE
    BY <2>7 DEF WriteNothing
  <2>8. ASSUME NEW n \in 1..SndBuf, Writev(n) PROVE FALSE
    BY <2>8 DEF Writev
  <2>9. ASSUME NEW c \in CompleteCalls, AckComplete(c) PROVE fault' # "deletedSocket"
    BY <2>9 DEF AckComplete, Continue
  <2>10. CASE AckAll \/ AckPartial
    BY <2>10 DEF AckAll, AckPartial, Continue
  <2>11. CASE UNCHANGED vars
    BY <2>11 DEF vars
  <2> QED BY <2>1, <2>2, <2>3, <2>4, <2>5, <2>6, <2>7, <2>8, <2>9, <2>10, <2>11
          DEF Next, LoopStep, Environment
<1> QED BY <1>1, <1>2, SocketInvariant, PTL DEF Spec

(***************************************************************************)
(* Flattening sequences of sequences.                                      *)
(***************************************************************************)

\* A nonempty set of numbers has a least one.
LEMMA LeastIsThere ==
    ASSUME NEW S, S \subseteq Nat, S # {}
    PROVE  \E x \in S : \A y \in S : x <= y
<1> DEFINE R == OpToRel(<, Nat)
<1>1. IsWellFoundedOn(R, Nat)
  BY NatLessThanWellFounded
<1>2. \A x, y \in Nat : y < x => <<y, x>> \in R
  BY DEF OpToRel
<1> HIDE DEF R
<1>3. PICK x \in S : \A y \in S : ~(<<y, x>> \in R)
  BY <1>1, WFMin
<1>4. ASSUME NEW y \in S PROVE x <= y
  <2>1. x \in Nat /\ y \in Nat
    OBVIOUS
  <2>2. ~(y < x)
    BY <1>2, <1>3, <2>1
  <2> QED BY <2>1, <2>2
<1> QED BY <1>4

\* Induction, for a set of numbers.
LEMMA SetInduction ==
    ASSUME NEW S, 0 \in S, \A n \in Nat : n \in S => n + 1 \in S
    PROVE  \A n \in Nat : n \in S
<1> SUFFICES ASSUME NEW k \in Nat, k \notin S PROVE FALSE
  OBVIOUS
<1> DEFINE T == {n \in Nat : n \notin S}
<1>1. T \subseteq Nat /\ T # {}
  OBVIOUS
<1> HIDE DEF T
<1>2. PICK x \in T : \A y \in T : x <= y
  BY <1>1, LeastIsThere
<1>3. x \in Nat /\ x \notin S
  BY DEF T
<1>4. x # 0 /\ x - 1 \in Nat /\ (x - 1) + 1 = x /\ ~(x <= x - 1)
  BY <1>3
<1>5. x - 1 \in S
  BY <1>2, <1>4 DEF T
<1> QED BY <1>3, <1>4, <1>5

\* The results of flattening the first i sequences of s, for every i.
Flattens(s, f) ==
    f = [i \in 1..Len(s) |-> IF i = 1 THEN s[i] ELSE f[i-1] \o s[i]]

\* There are such results ...
LEMMA FlattensExists ==
    ASSUME NEW S, NEW s \in Seq(Seq(S))
    PROVE  \E f \in [1..Len(s) -> Seq(S)] : Flattens(s, f)
<1> DEFINE P(n, f) == \A i \in 1..n : f[i] = IF i = 1 THEN s[i] ELSE f[i-1] \o s[i]
           T == {n \in Nat : n <= Len(s) => \E f \in [1..n -> Seq(S)] : P(n, f)}
<1>0. Len(s) \in Nat /\ \A i \in 1..Len(s) : s[i] \in Seq(S)
  BY LenProperties, ElementOfSeq
<1>t. \A n \in Nat : n \in T <=> (n <= Len(s) => \E f \in [1..n -> Seq(S)] : P(n, f))
  OBVIOUS
<1>1. 0 \in T
  <2>1. [i \in 1..0 |-> <<>>] \in [1..0 -> Seq(S)] /\ P(0, [i \in 1..0 |-> <<>>])
    OBVIOUS
  <2> QED BY <2>1
<1> HIDE DEF T
<1>2. ASSUME NEW n \in Nat, n \in T PROVE n + 1 \in T
  <2> HIDE DEF P
  <2> SUFFICES ASSUME n + 1 <= Len(s) PROVE \E g \in [1..(n+1) -> Seq(S)] : P(n + 1, g)
    BY <1>t
  <2>1. n <= Len(s) /\ n + 1 \in 1..Len(s)
    BY <1>0
  <2>2. PICK f \in [1..n -> Seq(S)] : P(n, f)
    BY <1>2, <1>t, <2>1
  <2> USE DEF P
  <2> DEFINE x == IF n = 0 THEN s[1] ELSE f[n] \o s[n + 1]
             g == [i \in 1..(n+1) |-> IF i = n + 1 THEN x ELSE f[i]]
  <2>3. x \in Seq(S)
    BY <1>0, <2>1, <2>2
  <2>4. /\ g \in [1..(n+1) -> Seq(S)] /\ g[n + 1] = x
        /\ \A i \in 1..n : g[i] = f[i]
    <3> HIDE DEF x
    <3>1. \A i \in 1..(n + 1) : i = n + 1 \/ i \in 1..n
      OBVIOUS
    <3> QED BY <2>3, <3>1
  <2> HIDE DEF g
  <2>5. ASSUME NEW i \in 1..(n+1) PROVE g[i] = IF i = 1 THEN s[i] ELSE g[i-1] \o s[i]
    <3>1. CASE i = n + 1
      <4>1. CASE n = 0
        BY <2>4, <3>1, <4>1
      <4>2. CASE n # 0
        <5>1. n \in 1..n /\ i - 1 = n /\ i # 1
          BY <3>1, <4>2
        <5> QED BY <2>4, <3>1, <4>2, <5>1
      <4> QED BY <4>1, <4>2
    <3>2. CASE i # n + 1
      <4>1. i \in 1..n /\ (i # 1 => i - 1 \in 1..n)
        BY <3>2
      <4> QED BY <2>2, <2>4, <4>1
    <3> QED BY <3>1, <3>2
  <2> QED BY <2>4, <2>5
<1>3. \A n \in Nat : n \in T
  BY <1>1, <1>2, SetInduction
<1>4. PICK f \in [1..Len(s) -> Seq(S)] : P(Len(s), f)
  <2> HIDE DEF P
  <2> QED BY <1>0, <1>3, <1>t
<1>5. f = [i \in 1..Len(s) |-> IF i = 1 THEN s[i] ELSE f[i-1] \o s[i]]
  BY <1>4
<1> QED BY <1>5 DEF Flattens

\* Where s and t agree, so do f and g.
Agree(s, t, f, g) ==
    \A m \in Nat :
        m <= Len(s) /\ m <= Len(t) /\ (\A i \in 1..m : s[i] = t[i])
            => \A i \in 1..m : f[i] = g[i]

\* ... and where two sequences of sequences agree, they agree.
LEMMA FlattensAgree ==
    ASSUME NEW s, NEW t, NEW f, NEW g, Flattens(s, f), Flattens(t, g),
           Len(s) \in Nat, Len(t) \in Nat
    PROVE  Agree(s, t, f, g)
<1> SUFFICES ASSUME NEW m \in Nat, m <= Len(s), m <= Len(t), \A i \in 1..m : s[i] = t[i]
             PROVE  \A i \in 1..m : f[i] = g[i]
  BY DEF Agree
<1> DEFINE T == {n \in Nat : n \in 1..m => f[n] = g[n]}
<1>0. /\ \A i \in 1..m : f[i] = IF i = 1 THEN s[i] ELSE f[i-1] \o s[i]
      /\ \A i \in 1..m : g[i] = IF i = 1 THEN t[i] ELSE g[i-1] \o t[i]
  <2>1. \A i \in 1..m : i \in 1..Len(s) /\ i \in 1..Len(t)
    OBVIOUS
  <2> QED BY <2>1 DEF Flattens
<1>1. 0 \in T
  OBVIOUS
<1>2. ASSUME NEW n \in Nat, n \in T PROVE n + 1 \in T
  <2> SUFFICES ASSUME n + 1 \in 1..m PROVE f[n + 1] = g[n + 1]
    OBVIOUS
  <2>1. CASE n = 0
    BY <1>0, <2>1
  <2>2. CASE n # 0
    <3>1. n \in 1..m /\ (n + 1) - 1 = n /\ n + 1 # 1
      BY <2>2
    <3> QED BY <1>0, <1>2, <3>1
  <2> QED BY <2>1, <2>2
<1> HIDE DEF T
<1>3. \A n \in Nat : n \in T
  BY <1>1, <1>2, SetInduction
<1> QED BY <1>3 DEF T

\* FlattenSeq is the last of the results.
LEMMA FlattenIsLast ==
    ASSUME NEW S, NEW s \in Seq(Seq(S)), s # <<>>, NEW f, Flattens(s, f)
    PROVE  FlattenSeq(s) = f[Len(s)]
<1>0. Len(s) \in Nat /\ Len(s) # 0
  BY EmptySeq
<1> DEFINE g == CHOOSE h : Flattens(s, h)
<1>1. Flattens(s, g)
  OBVIOUS
<1>2. FlattenSeq(s) = g[Len(s)]
  BY <1>0 DEF FlattenSeq, Flattens
<1> HIDE DEF g
<1>3. \A i \in 1..Len(s) : f[i] = g[i]
  <2>1. Len(s) \in Nat /\ Len(s) <= Len(s) /\ \A i \in 1..Len(s) : s[i] = s[i]
    BY <1>0
  <2>2. Agree(s, s, f, g)
    BY <1>1, <2>1, FlattensAgree
  <2> QED BY <2>1, <2>2 DEF Agree
<1> QED BY <1>0, <1>2, <1>3

\* Flattening gives a sequence, nothing for no sequences ...
LEMMA FlattenType ==
    ASSUME NEW S, NEW s \in Seq(Seq(S))
    PROVE  FlattenSeq(s) \in Seq(S)
<1>1. CASE s = <<>>
  <2>1. FlattenSeq(s) = s
    BY <1>1, EmptySeq DEF FlattenSeq
  <2> QED BY <1>1, <2>1, EmptySeq
<1>2. CASE s # <<>>
  <2>1. PICK f \in [1..Len(s) -> Seq(S)] : Flattens(s, f)
    BY FlattensExists
  <2>2. FlattenSeq(s) = f[Len(s)]
    BY <1>2, <2>1, FlattenIsLast
  <2>3. Len(s) \in 1..Len(s)
    BY <1>2, EmptySeq
  <2> QED BY <2>1, <2>2, <2>3
<1> QED BY <1>1, <1>2

\* ...
LEMMA FlattenEmpty == FlattenSeq(<<>>) = <<>>
  BY DEF FlattenSeq

\* ... and a sequence more for a sequence more.
LEMMA FlattenAppend ==
    ASSUME NEW S, NEW s \in Seq(Seq(S)), NEW x \in Seq(S)
    PROVE  FlattenSeq(Append(s, x)) = FlattenSeq(s) \o x
<1> DEFINE t == Append(s, x)
           n == Len(s)
<1>1. /\ n \in Nat /\ t \in Seq(Seq(S)) /\ t # <<>> /\ Len(t) = n + 1
      /\ (\A i \in 1..n : t[i] = s[i]) /\ t[n + 1] = x
  BY AppendProperties, LenProperties
<1> HIDE DEF t
<1>2. PICK g \in [1..Len(t) -> Seq(S)] : Flattens(t, g)
  BY <1>1, FlattensExists
<1>3. FlattenSeq(t) = g[n + 1]
  BY <1>1, <1>2, FlattenIsLast
<1>4. g[n + 1] = IF n + 1 = 1 THEN t[n + 1] ELSE g[(n + 1) - 1] \o t[n + 1]
  <2>1. n + 1 \in 1..Len(t)
    BY <1>1
  <2> HIDE DEF n
  <2> QED BY <1>2, <2>1 DEF Flattens
<1>5. CASE s = <<>>
  <2>1. n = 0 /\ FlattenSeq(s) = <<>>
    BY <1>5, EmptySeq, FlattenEmpty
  <2>2. <<>> \o x = x
    BY ConcatEmptySeq
  <2>3. FlattenSeq(t) = x
    BY <1>1, <1>3, <1>4, <2>1
  <2> QED BY <2>1, <2>2, <2>3 DEF t
<1>6. CASE s # <<>>
  <2>1. PICK f \in [1..Len(s) -> Seq(S)] : Flattens(s, f)
    BY FlattensExists
  <2>2. FlattenSeq(s) = f[n]
    BY <1>6, <2>1, FlattenIsLast
  <2>3. n \in 1..n
    BY <1>6, EmptySeq
  <2>4. \A i \in 1..n : f[i] = g[i]
    <3>1. Len(s) \in Nat /\ Len(t) \in Nat /\ Len(s) <= Len(s) /\ Len(s) <= Len(t)
      BY <1>1
    <3>2. \A i \in 1..Len(s) : s[i] = t[i]
      BY <1>1
    <3>3. \A i \in 1..Len(s) : f[i] = g[i]
      <4>1. Flattens(s, f)
        BY <2>1
      <4>2. Flattens(t, g)
        BY <1>2
      <4>3. Agree(s, t, f, g)
        BY <3>1, <4>1, <4>2, FlattensAgree
      <4> QED BY <3>1, <3>2, <4>3 DEF Agree
    <3> QED BY <3>3
  <2>5. n + 1 # 1 /\ (n + 1) - 1 = n
    BY <1>1, <2>3
  <2>6. FlattenSeq(t) = f[n] \o x
    BY <1>1, <1>3, <1>4, <2>3, <2>4, <2>5
  <2> QED BY <2>2, <2>6 DEF t
<1> QED BY <1>5, <1>6

\* Concatenation, by a name that is not expanded where only its laws count.
Cat(a, b) == a \o b

\* It is associative.
LEMMA Associative ==
    ASSUME NEW S
    PROVE  \A a, b, c \in Seq(S) : Cat(Cat(a, b), c) = Cat(a, Cat(b, c))
  BY ConcatAssociative DEF Cat

\* Flattening a concatenation.
LEMMA FlattenConcat ==
    ASSUME NEW S, NEW s \in Seq(Seq(S)), NEW t \in Seq(Seq(S))
    PROVE  FlattenSeq(s \o t) = FlattenSeq(s) \o FlattenSeq(t)
<1> DEFINE P(u) == FlattenSeq(s \o u) = FlattenSeq(s) \o FlattenSeq(u)
           T == {n \in Nat : \A u \in Seq(Seq(S)) : Len(u) = n => P(u)}
<1>t. \A n \in Nat : n \in T <=> \A u \in Seq(Seq(S)) : Len(u) = n => P(u)
  OBVIOUS
<1> HIDE DEF T
<1>0. FlattenSeq(s) \in Seq(S)
  BY FlattenType
<1>a. \A a, b, c \in Seq(S) : Cat(Cat(a, b), c) = Cat(a, Cat(b, c))
  BY Associative
<1>b. \A a, b, c \in Seq(Seq(S)) : Cat(Cat(a, b), c) = Cat(a, Cat(b, c))
  BY Associative
<1>1. 0 \in T
  <2> SUFFICES ASSUME NEW u \in Seq(Seq(S)), Len(u) = 0 PROVE P(u)
    BY <1>t
  <2>1. u = <<>>
    BY EmptySeq
  <2>2. s \o u = s /\ FlattenSeq(s) \o <<>> = FlattenSeq(s)
    BY <1>0, <2>1, ConcatEmptySeq
  <2> QED BY <2>1, <2>2, FlattenEmpty
<1>2. ASSUME NEW n \in Nat, n \in T PROVE n + 1 \in T
  <2> HIDE DEF P
  <2>n. n + 1 \in Nat
    OBVIOUS
  <2> SUFFICES ASSUME NEW u \in Seq(Seq(S)), Len(u) = n + 1 PROVE P(u)
    BY <1>t, <2>n, Zenon
  <2>1. u # <<>>
    BY EmptySeq
  <2>2. PICK v \in Seq(Seq(S)), x \in Seq(S) : u = Append(v, x)
    BY <2>1, SequenceEmptyOrAppend
  <2>3. Len(v) = n
    <3>1. Len(u) = Len(v) + 1 /\ Len(v) \in Nat
      BY <2>2, AppendProperties, LenProperties
    <3> QED BY <3>1
  <2>4. P(v)
    BY <1>2, <1>t, <2>3
  <2> USE DEF P
  <2>5. s \o v \in Seq(Seq(S)) /\ <<x>> \in Seq(Seq(S))
    BY ConcatProperties
  <2>6. s \o u = Append(s \o v, x)
    <3>1. u = v \o <<x>>
      BY <2>2, AppendIsConcat
    <3>2. s \o u = (s \o v) \o <<x>>
      <4> DEFINE y == <<x>>
      <4>1. y \in Seq(Seq(S))
        BY <2>5
      <4> HIDE DEF y
      <4>2. Cat(Cat(s, v), y) = Cat(s, Cat(v, y))
        BY <1>b, <4>1
      <4> QED BY <3>1, <4>2 DEF Cat, y
    <3>3. Append(s \o v, x) = (s \o v) \o <<x>>
      BY <2>5, AppendIsConcat
    <3> QED BY <3>2, <3>3
  <2>7. FlattenSeq(s \o u) = FlattenSeq(s \o v) \o x
    BY <2>5, <2>6, FlattenAppend
  <2>8. FlattenSeq(u) = FlattenSeq(v) \o x
    BY <2>2, FlattenAppend
  <2>9. FlattenSeq(v) \in Seq(S)
    BY FlattenType
  <2>10. (FlattenSeq(s) \o FlattenSeq(v)) \o x = FlattenSeq(s) \o (FlattenSeq(v) \o x)
    <3>1. Cat(Cat(FlattenSeq(s), FlattenSeq(v)), x) = Cat(FlattenSeq(s), Cat(FlattenSeq(v), x))
      BY <1>0, <1>a, <2>9
    <3> QED BY <3>1 DEF Cat
  <2> QED BY <2>4, <2>7, <2>8, <2>10
<1>3. \A n \in Nat : n \in T
  BY <1>1, <1>2, SetInduction
<1>4. Len(t) \in Nat
  BY LenProperties
<1> HIDE DEF P
<1>5. P(t)
  BY <1>3, <1>4, <1>t
<1> QED BY <1>5 DEF P

\* What a concatenation contains.
LEMMA ConcatContains ==
    ASSUME NEW S, NEW s \in Seq(S), NEW t \in Seq(S), NEW x
    PROVE  Contains(s \o t, x) <=> Contains(s, x) \/ Contains(t, x)
<1> DEFINE m == Len(s)
           n == Len(t)
           u == s \o t
<1>1. /\ m \in Nat /\ n \in Nat /\ Len(u) = m + n
      /\ \A i \in 1..(m + n) : u[i] = IF i <= m THEN s[i] ELSE t[i - m]
  BY ConcatProperties, LenProperties
<1>2. ASSUME Contains(u, x) PROVE Contains(s, x) \/ Contains(t, x)
  <2>1. PICK i \in 1..Len(u) : u[i] = x
    BY <1>2 DEF Contains
  <2> HIDE DEF u, m, n
  <2>2. CASE i <= m
    <3>1. i \in 1..m /\ s[i] = x
      BY <1>1, <2>1, <2>2
    <3> QED BY <3>1 DEF Contains, m
  <2>3. CASE ~(i <= m)
    <3>1. i - m \in 1..n /\ t[i - m] = x
      BY <1>1, <2>1, <2>3
    <3> QED BY <3>1 DEF Contains, n
  <2> QED BY <2>2, <2>3
<1>3. ASSUME Contains(s, x) PROVE Contains(u, x)
  <2>1. PICK i \in 1..m : s[i] = x
    BY <1>3 DEF Contains
  <2> HIDE DEF u, m, n
  <2>2. i \in 1..Len(u) /\ u[i] = x
    BY <1>1, <2>1
  <2> QED BY <2>2 DEF Contains
<1>4. ASSUME Contains(t, x) PROVE Contains(u, x)
  <2>1. PICK i \in 1..n : t[i] = x
    BY <1>4 DEF Contains
  <2> HIDE DEF u, m, n
  <2>2. m + i \in 1..Len(u) /\ u[m + i] = t[(m + i) - m] /\ (m + i) - m = i
    BY <1>1, <2>1
  <2> QED BY <2>1, <2>2 DEF Contains
<1> QED BY <1>2, <1>3, <1>4

\* What is in a flattened sequence is in one of the sequences.
LEMMA FlattenContains ==
    ASSUME NEW S, NEW s \in Seq(Seq(S)), NEW y
    PROVE  Contains(FlattenSeq(s), y) <=> \E i \in 1..Len(s) : Contains(s[i], y)
<1> DEFINE P(u) == Contains(FlattenSeq(u), y) <=> \E i \in 1..Len(u) : Contains(u[i], y)
           T == {n \in Nat : \A u \in Seq(Seq(S)) : Len(u) = n => P(u)}
<1>t. \A n \in Nat : n \in T <=> \A u \in Seq(Seq(S)) : Len(u) = n => P(u)
  OBVIOUS
<1> HIDE DEF T
<1>1. 0 \in T
  <2> SUFFICES ASSUME NEW u \in Seq(Seq(S)), Len(u) = 0 PROVE P(u)
    BY <1>t
  <2>1. u = <<>>
    BY EmptySeq
  <2>2. ~Contains(FlattenSeq(u), y)
    BY <2>1, FlattenEmpty, EmptyContains
  <2> QED BY <2>2
<1>2. ASSUME NEW n \in Nat, n \in T PROVE n + 1 \in T
  <2> HIDE DEF P
  <2>n. n + 1 \in Nat
    OBVIOUS
  <2> SUFFICES ASSUME NEW u \in Seq(Seq(S)), Len(u) = n + 1 PROVE P(u)
    BY <1>t, <2>n, Zenon
  <2>1. u # <<>>
    BY EmptySeq
  <2>2. PICK v \in Seq(Seq(S)), x \in Seq(S) : u = Append(v, x)
    BY <2>1, SequenceEmptyOrAppend
  <2>3. /\ Len(v) = n /\ u[n + 1] = x
        /\ \A i \in 1..n : u[i] = v[i]
    <3>1. /\ Len(u) = Len(v) + 1 /\ Len(v) \in Nat /\ u[Len(v) + 1] = x
          /\ \A i \in 1..Len(v) : u[i] = v[i]
      BY <2>2, AppendProperties, LenProperties
    <3>2. Len(v) = n
      BY <3>1
    <3> QED BY <3>1, <3>2
  <2>4. P(v)
    BY <1>2, <1>t, <2>3
  <2>5. FlattenSeq(u) = FlattenSeq(v) \o x
    BY <2>2, FlattenAppend
  <2>6. Contains(FlattenSeq(u), y) <=> Contains(FlattenSeq(v), y) \/ Contains(x, y)
    <3>1. FlattenSeq(v) \in Seq(S)
      BY FlattenType
    <3> QED BY <2>5, <3>1, ConcatContains
  <2>7. (\E i \in 1..Len(u) : Contains(u[i], y)) <=> (\E i \in 1..Len(v) : Contains(v[i], y)) \/ Contains(x, y)
    <3>1. \A i : i \in 1..(n + 1) <=> i \in 1..n \/ i = n + 1
      OBVIOUS
    <3> QED BY <2>3, <3>1
  <2> QED BY <2>4, <2>6, <2>7 DEF P
<1>3. \A n \in Nat : n \in T
  BY <1>1, <1>2, SetInduction
<1>4. Len(s) \in Nat
  BY LenProperties
<1> HIDE DEF P
<1>5. P(s)
  BY <1>3, <1>4, <1>t
<1> QED BY <1>5 DEF P

\* One sequence.
LEMMA FlattenOne ==
    ASSUME NEW S, NEW x \in Seq(S)
    PROVE  FlattenSeq(<<x>>) = x
<1>1. <<>> \in Seq(Seq(S)) /\ Append(<<>>, x) = <<x>>
  BY EmptySeq
<1>2. FlattenSeq(Append(<<>>, x)) = <<>> \o x
  BY <1>1, FlattenAppend, FlattenEmpty
<1> QED BY <1>1, <1>2, ConcatEmptySeq

(***************************************************************************)
(* The bytes of packets.                                                   *)
(***************************************************************************)

Bytes == Nat \X Int
Pieces(list) == [i \in 1..Len(list) |-> Piece(list[i])]
Rest(list) == FlattenSeq(Pieces(list))
Drop(s, n) == SubSeq(s, n + 1, Len(s))

\* Concatenation of bytes is associative.
LEMMA BytesAssociate == \A a, b, c \in Seq(Bytes) : Cat(Cat(a, b), c) = Cat(a, Cat(b, c))
  BY Associative

\* The bytes of a packet that are left.
LEMMA PieceType ==
    ASSUME NEW p \in PacketType
    PROVE  /\ Piece(p) \in Seq(Bytes) /\ Len(Piece(p)) = p.left
           /\ \A k \in 1..p.left : Piece(p)[k] = <<p.id, p.len - p.left + k>>
           /\ \A y : Contains(Piece(p), y) => y[1] = p.id
<1>1. p.left \in Nat /\ p.id \in Nat /\ p.len \in Nat
  BY DEF PacketType
<1>2. Piece(p) \in [1..p.left -> Bytes]
  BY <1>1 DEF Piece, Bytes
<1>3. Piece(p) \in Seq(Bytes)
  BY <1>1, <1>2, SeqDef
<1>4. Len(Piece(p)) = p.left
  BY <1>1 DEF Piece
<1>5. \A k \in 1..p.left : Piece(p)[k] = <<p.id, p.len - p.left + k>>
  BY DEF Piece
<1>6. ASSUME NEW y, Contains(Piece(p), y) PROVE y[1] = p.id
  <2>1. PICK k \in 1..p.left : Piece(p)[k] = y
    BY <1>4, <1>6 DEF Contains
  <2> QED BY <1>5, <2>1
<1> QED BY <1>3, <1>4, <1>5, <1>6

\* The bytes of each packet of a list.
LEMMA PiecesType ==
    ASSUME NEW l \in Seq(PacketType)
    PROVE  /\ Len(l) \in Nat /\ Pieces(l) \in Seq(Seq(Bytes)) /\ Len(Pieces(l)) = Len(l)
           /\ \A i \in 1..Len(l) : Pieces(l)[i] = Piece(l[i]) /\ Piece(l[i]) \in Seq(Bytes)
<1>1. Len(l) \in Nat /\ \A i \in 1..Len(l) : l[i] \in PacketType
  BY LenProperties, ElementOfSeq
<1>2. \A i \in 1..Len(l) : Piece(l[i]) \in Seq(Bytes)
  BY <1>1, PieceType
<1>3. Pieces(l) \in [1..Len(l) -> Seq(Bytes)]
  BY <1>2 DEF Pieces
<1>4. Pieces(l) \in Seq(Seq(Bytes))
  BY <1>1, <1>3, SeqDef
<1>5. Len(Pieces(l)) = Len(l)
  BY <1>1 DEF Pieces
<1>6. \A i \in 1..Len(l) : Pieces(l)[i] = Piece(l[i])
  BY DEF Pieces
<1> QED BY <1>1, <1>2, <1>4, <1>5, <1>6

\* The bytes of a list.
LEMMA RestType == ASSUME NEW l \in Seq(PacketType) PROVE Rest(l) \in Seq(Bytes)
  BY PiecesType, FlattenType DEF Rest

\* The bytes of no packets ...
LEMMA RestEmpty == Rest(<<>>) = <<>>
<1>1. Pieces(<<>>) = <<>>
  BY DEF Pieces
<1> QED BY <1>1, FlattenEmpty DEF Rest

\* ... of a list with one packet more at its end ...
LEMMA RestAppend ==
    ASSUME NEW l \in Seq(PacketType), NEW p \in PacketType
    PROVE  Rest(Append(l, p)) = Rest(l) \o Piece(p)
<1> DEFINE n == Len(l)
           m == Append(l, p)
           s == Pieces(l)
           t == Append(s, Piece(p))
           u == Pieces(m)
<1>1. /\ n \in Nat /\ m \in Seq(PacketType) /\ Len(m) = n + 1 /\ m[n + 1] = p
      /\ \A i \in 1..n : m[i] = l[i]
  BY AppendProperties, LenProperties
<1>2. /\ s \in Seq(Seq(Bytes)) /\ Len(s) = n /\ Piece(p) \in Seq(Bytes)
      /\ \A i \in 1..n : s[i] = Piece(l[i])
  BY PiecesType, PieceType
<1> HIDE DEF m
<1>3. /\ u \in Seq(Seq(Bytes)) /\ Len(u) = n + 1
      /\ \A i \in 1..(n + 1) : u[i] = Piece(m[i])
  BY <1>1, PiecesType
<1> HIDE DEF s, u, n
<1>4. /\ t \in Seq(Seq(Bytes)) /\ Len(t) = n + 1 /\ t[n + 1] = Piece(p)
      /\ \A i \in 1..n : t[i] = s[i]
  BY <1>2, AppendProperties
<1> HIDE DEF t
<1>5. ASSUME NEW i \in 1..(n + 1) PROVE t[i] = u[i]
  <2>1. i = n + 1 \/ i \in 1..n
    BY <1>1
  <2> QED BY <1>1, <1>2, <1>3, <1>4, <2>1
<1>6. t = u
  BY <1>3, <1>4, <1>5, SeqEqual
<1>7. FlattenSeq(t) = FlattenSeq(s) \o Piece(p)
  BY <1>2, FlattenAppend DEF t
<1> QED BY <1>6, <1>7 DEF Rest, s, u, m

\* ... and of a list by its first packet.
LEMMA RestCons ==
    ASSUME NEW l \in Seq(PacketType), l # <<>>
    PROVE  Rest(l) = Piece(Head(l)) \o Rest(Tail(l))
<1> DEFINE n == Len(l)
           m == Tail(l)
           x == Piece(Head(l))
           s == Pieces(m)
           t == <<x>> \o s
           u == Pieces(l)
<1>1. /\ n \in Nat \ {0} /\ m \in Seq(PacketType) /\ Len(m) = n - 1 /\ Head(l) = l[1]
      /\ Head(l) \in PacketType /\ \A i \in 1..(n - 1) : m[i] = l[i + 1]
  BY HeadTailProperties, EmptySeq
<1>2. x \in Seq(Bytes)
  BY <1>1, PieceType
<1>3. /\ u \in Seq(Seq(Bytes)) /\ Len(u) = n
      /\ \A i \in 1..n : u[i] = Piece(l[i])
  BY PiecesType
<1> HIDE DEF m
<1>4. /\ s \in Seq(Seq(Bytes)) /\ Len(s) = n - 1
      /\ \A i \in 1..(n - 1) : s[i] = Piece(m[i])
  BY <1>1, PiecesType
<1> HIDE DEF s, u, n
<1>5. <<x>> \in Seq(Seq(Bytes)) /\ Len(<<x>>) = 1 /\ <<x>>[1] = x
  BY <1>2
<1>6. /\ t \in Seq(Seq(Bytes)) /\ Len(t) = 1 + (n - 1)
      /\ \A i \in 1..(1 + (n - 1)) : t[i] = IF i <= 1 THEN <<x>>[i] ELSE s[i - 1]
  BY <1>4, <1>5, ConcatProperties
<1>7. FlattenSeq(t) = FlattenSeq(<<x>>) \o FlattenSeq(s)
  BY <1>4, <1>5, FlattenConcat
<1>8. FlattenSeq(<<x>>) = x
  BY <1>2, FlattenOne
<1>x. x = Piece(l[1])
  BY <1>1
<1> HIDE DEF t, x
<1>9. ASSUME NEW i \in 1..n PROVE t[i] = u[i]
  <2>1. CASE i = 1
    <3>1. t[i] = x
      BY <1>1, <1>5, <1>6, <2>1
    <3> QED BY <1>3, <1>x, <2>1, <3>1
  <2>2. CASE i # 1
    <3>1. i - 1 \in 1..(n - 1) /\ i \in 1..(1 + (n - 1)) /\ ~(i <= 1) /\ (i - 1) + 1 = i
      BY <1>1, <2>2
    <3>2. t[i] = s[i - 1]
      BY <1>6, <3>1
    <3>3. s[i - 1] = Piece(m[i - 1])
      BY <1>4, <3>1
    <3>4. m[i - 1] = l[i]
      BY <1>1, <3>1
    <3> QED BY <1>3, <3>2, <3>3, <3>4
  <2> QED BY <2>1, <2>2
<1>10. Len(t) = n
  BY <1>1, <1>6
<1>11. t = u
  BY <1>3, <1>6, <1>9, <1>10, SeqEqual
<1>12. FlattenSeq(u) = x \o FlattenSeq(s)
  BY <1>7, <1>8, <1>11
<1> QED BY <1>12 DEF Rest, s, u, m, x

\* The iovec holds the first bytes of the list.
LEMMA GatherIsPrefix ==
    ASSUME NEW l \in Seq(PacketType)
    PROVE  Gather(l) \in Seq(Bytes) /\ \E t \in Seq(Bytes) : Rest(l) = Gather(l) \o t
<1> DEFINE n == Len(l)
           k == IF n < MaxIovec THEN n ELSE MaxIovec
           u == Pieces(l)
           a == SubSeq(u, 1, k)
           b == SubSeq(u, k + 1, n)
           g == [i \in 1..k |-> Piece(l[i])]
<1>1. /\ n \in Nat /\ u \in Seq(Seq(Bytes)) /\ Len(u) = n
      /\ \A i \in 1..n : u[i] = Piece(l[i]) /\ Piece(l[i]) \in Seq(Bytes)
  BY PiecesType
<1>2. k \in Nat /\ k <= n
  BY <1>1, LimitsAssumption
<1>3. Gather(l) = FlattenSeq(g)
  BY DEF Gather
<1> HIDE DEF k, u, n
<1>4. \A i \in 1..n : u[i] \in Seq(Bytes)
  BY <1>1
<1>5. /\ a \in Seq(Seq(Bytes)) /\ Len(a) = k
      /\ \A i \in 1..k : a[i] = u[i]
  <2>1. \A i \in 1..k : u[i] \in Seq(Bytes)
    BY <1>1, <1>2, <1>4
  <2>2. /\ a \in Seq(Seq(Bytes)) /\ Len(a) = IF 1 <= k THEN k - 1 + 1 ELSE 0
        /\ \A i \in 1..(k - 1 + 1) : a[i] = u[1 + i - 1]
    BY <1>2, <2>1, SubSeqProperties
  <2> HIDE DEF a
  <2>3. Len(a) = k
    BY <1>2, <2>2
  <2>4. \A i \in 1..k : i \in 1..(k - 1 + 1) /\ 1 + i - 1 = i
    BY <1>2
  <2> QED BY <2>2, <2>3, <2>4
<1>6. b \in Seq(Seq(Bytes))
  <2>1. \A i \in (k + 1)..n : u[i] \in Seq(Bytes)
    BY <1>1, <1>2, <1>4
  <2> QED BY <1>1, <1>2, <2>1, SubSeqProperties
<1>7. a \o b = u
  <2>1. 1 \in 1..(n + 1) /\ k \in (1 - 1)..n /\ n \in k..n
    BY <1>1, <1>2
  <2>2. a \o b = SubSeq(u, 1, n)
    BY <1>1, <2>1, ConcatAdjacentSubSeq
  <2> QED BY <1>1, <2>2, SubSeqFull
<1>8. g \in Seq(Seq(Bytes)) /\ Len(g) = k /\ \A i \in 1..k : g[i] = u[i]
  <2>1. \A i \in 1..k : g[i] = u[i] /\ g[i] \in Seq(Bytes)
    BY <1>1, <1>2
  <2>2. g \in [1..k -> Seq(Bytes)] 
    BY <2>1
  <2>3. Len(g) = k
    BY <1>2
  <2> QED BY <1>2, <2>1, <2>2, <2>3, SeqDef
<1> HIDE DEF a, b, g
<1>9. a = g
  BY <1>5, <1>8, SeqEqual
<1>10. FlattenSeq(u) = FlattenSeq(a) \o FlattenSeq(b)
  BY <1>5, <1>6, <1>7, FlattenConcat
<1>11. FlattenSeq(a) \in Seq(Bytes) /\ FlattenSeq(b) \in Seq(Bytes)
  BY <1>5, <1>6, FlattenType
<1> QED BY <1>3, <1>9, <1>10, <1>11 DEF Rest, u

\* What is left of a sequence after its first n elements.
LEMMA DropType ==
    ASSUME NEW S, NEW s \in Seq(S), NEW n \in Nat, n <= Len(s)
    PROVE  /\ Drop(s, n) \in Seq(S) /\ Len(Drop(s, n)) = Len(s) - n
           /\ \A i \in 1..(Len(s) - n) : Drop(s, n)[i] = s[n + i]
           /\ SubSeq(s, 1, n) \in Seq(S) /\ SubSeq(s, 1, n) \o Drop(s, n) = s
<1> DEFINE k == Len(s)
           d == Drop(s, n)
<1>1. k \in Nat /\ \A i \in 1..k : s[i] \in S
  BY LenProperties, ElementOfSeq
<1>d. d = SubSeq(s, n + 1, k)
  BY DEF Drop
<1>e. n <= k
  OBVIOUS
<1> HIDE DEF k, d
<1>2. /\ d \in Seq(S) /\ Len(d) = IF n + 1 <= k THEN k - (n + 1) + 1 ELSE 0
      /\ \A i \in 1..(k - (n + 1) + 1) : d[i] = s[(n + 1) + i - 1]
  <2>1. \A i \in (n + 1)..k : s[i] \in S
    BY <1>1
  <2> QED BY <1>1, <1>d, <2>1, SubSeqProperties
<1>3. Len(d) = k - n /\ \A i \in 1..(k - n) : d[i] = s[n + i]
  <2>1. Len(d) = k - n
    BY <1>1, <1>2, <1>e
  <2>2. \A i \in 1..(k - n) : i \in 1..(k - (n + 1) + 1) /\ (n + 1) + i - 1 = n + i
    BY <1>1
  <2> QED BY <1>2, <2>1, <2>2
<1>4. SubSeq(s, 1, n) \in Seq(S)
  <2>1. \A i \in 1..n : s[i] \in S
    BY <1>1, <1>e
  <2> QED BY <2>1, SubSeqProperties
<1>5. SubSeq(s, 1, n) \o d = s
  <2>1. 1 \in 1..(k + 1) /\ n \in (1 - 1)..k /\ k \in n..k
    BY <1>1, <1>e
  <2>2. SubSeq(s, 1, n) \o d = SubSeq(s, 1, k)
    BY <1>d, <2>1, ConcatAdjacentSubSeq DEF k
  <2> QED BY <2>2, SubSeqFull DEF k
<1> QED BY <1>2, <1>3, <1>4, <1>5 DEF d, k

\* Nothing, ...
LEMMA DropNothing == ASSUME NEW S, NEW s \in Seq(S) PROVE Drop(s, 0) = s
<1>1. 0 + 1 = 1
  OBVIOUS
<1> QED BY <1>1, SubSeqFull DEF Drop

\* ... a part of the first ...
LEMMA DropFirst ==
    ASSUME NEW S, NEW s \in Seq(S), NEW t \in Seq(S), NEW n \in Nat, n <= Len(s)
    PROVE  Drop(s \o t, n) = Drop(s, n) \o t
<1> DEFINE a == Len(s)
           b == Len(t)
           u == s \o t
           d == Drop(s, n)
           e == Drop(u, n)
           f == d \o t
<1>1. /\ a \in Nat /\ b \in Nat /\ n <= a /\ u \in Seq(S) /\ Len(u) = a + b
      /\ \A i \in 1..(a + b) : u[i] = IF i <= a THEN s[i] ELSE t[i - a]
  BY ConcatProperties, LenProperties
<1>2. d \in Seq(S) /\ Len(d) = a - n /\ \A i \in 1..(a - n) : d[i] = s[n + i]
  BY <1>1, DropType
<1> HIDE DEF u
<1>3. n <= Len(u)
  BY <1>1
<1>4. e \in Seq(S) /\ Len(e) = (a + b) - n /\ \A i \in 1..((a + b) - n) : e[i] = u[n + i]
  <2>1. e \in Seq(S) /\ Len(e) = Len(u) - n /\ \A i \in 1..(Len(u) - n) : e[i] = u[n + i]
    <3>1. u \in Seq(S) /\ n <= Len(u)
      BY <1>1, <1>3
    <3> HIDE DEF a, b
    <3> QED BY <3>1, DropType
  <2> HIDE DEF e, a, b
  <2> QED BY <1>1, <2>1
<1> HIDE DEF d, e, a
<1>5. /\ f \in Seq(S) /\ Len(f) = (a - n) + b
      /\ \A i \in 1..((a - n) + b) : f[i] = IF i <= a - n THEN d[i] ELSE t[i - (a - n)]
  <2>1. /\ f \in Seq(S) /\ Len(f) = Len(d) + Len(t)
        /\ \A i \in 1..(Len(d) + Len(t)) : f[i] = IF i <= Len(d) THEN d[i] ELSE t[i - Len(d)]
    BY <1>2, ConcatProperties
  <2> HIDE DEF f
  <2> QED BY <1>2, <2>1
<1> HIDE DEF f, b
<1>6. ASSUME NEW i \in 1..((a + b) - n) PROVE e[i] = f[i]
  <2>1. i \in 1..((a - n) + b) /\ n + i \in 1..(a + b)
    BY <1>1
  <2>2. e[i] = IF n + i <= a THEN s[n + i] ELSE t[(n + i) - a]
    BY <1>1, <1>4, <2>1
  <2>3. f[i] = IF i <= a - n THEN d[i] ELSE t[i - (a - n)]
    BY <1>5, <2>1
  <2>4. CASE n + i <= a
    <3>1. i <= a - n /\ i \in 1..(a - n)
      BY <1>1, <2>4
    <3> QED BY <1>2, <2>2, <2>3, <2>4, <3>1
  <2>5. CASE ~(n + i <= a)
    <3>1. ~(i <= a - n) /\ (n + i) - a = i - (a - n)
      BY <1>1, <2>5
    <3> QED BY <2>2, <2>3, <2>5, <3>1
  <2> QED BY <2>4, <2>5
<1>7. Len(e) = Len(f)
  BY <1>1, <1>4, <1>5
<1>8. e = f
  BY <1>4, <1>5, <1>6, <1>7, SeqEqual
<1> QED BY <1>8 DEF e, f, d, u

\* ... or all of it.
LEMMA DropAllFirst ==
    ASSUME NEW S, NEW s \in Seq(S), NEW t \in Seq(S), NEW n \in Nat,
           Len(s) <= n, n <= Len(s \o t)
    PROVE  n - Len(s) \in Nat /\ n - Len(s) <= Len(t) /\ Drop(s \o t, n) = Drop(t, n - Len(s))
<1> DEFINE a == Len(s)
           b == Len(t)
           u == s \o t
           d == Drop(t, n - a)
           e == Drop(u, n)
<1>1. /\ a \in Nat /\ b \in Nat /\ a <= n /\ u \in Seq(S) /\ Len(u) = a + b
      /\ \A i \in 1..(a + b) : u[i] = IF i <= a THEN s[i] ELSE t[i - a]
  BY ConcatProperties, LenProperties
<1>3. n <= Len(u)
  OBVIOUS
<1> HIDE DEF a, u
<1>9. n - a \in Nat /\ n - a <= Len(t)
  BY <1>1, <1>3
<1>2. d \in Seq(S) /\ Len(d) = b - (n - a) /\ \A i \in 1..(b - (n - a)) : d[i] = t[(n - a) + i]
  BY <1>9, DropType
<1>4. e \in Seq(S) /\ Len(e) = (a + b) - n /\ \A i \in 1..((a + b) - n) : e[i] = u[n + i]
  <2>1. e \in Seq(S) /\ Len(e) = Len(u) - n /\ \A i \in 1..(Len(u) - n) : e[i] = u[n + i]
    <3>1. u \in Seq(S) /\ n <= Len(u)
      BY <1>1, <1>3
    <3> QED BY <3>1, DropType
  <2> HIDE DEF e, a, b
  <2> QED BY <1>1, <2>1
<1> HIDE DEF d, e, b
<1>6. ASSUME NEW i \in 1..((a + b) - n) PROVE e[i] = d[i]
  <2>1. /\ i \in 1..(b - (n - a)) /\ n + i \in 1..(a + b) /\ ~(n + i <= a)
        /\ (n + i) - a = (n - a) + i
    BY <1>1
  <2>2. e[i] = t[(n + i) - a]
    BY <1>1, <1>4, <2>1
  <2> QED BY <1>2, <2>1, <2>2
<1>7. Len(e) = Len(d)
  BY <1>1, <1>2, <1>4
<1>8. e = d
  BY <1>2, <1>4, <1>6, <1>7, SeqEqual
<1> QED BY <1>8, <1>9 DEF e, d, u, a

\* The accepted packets as they were when they were sent.
Whole(acc) == [i \in 1..Len(acc) |-> Packet(i, acc[i])]

\* What they are.
LEMMA WholeType ==
    ASSUME NEW acc \in Seq(Nat)
    PROVE  /\ Len(acc) \in Nat /\ Whole(acc) \in Seq(PacketType) /\ Len(Whole(acc)) = Len(acc)
           /\ \A i \in 1..Len(acc) : /\ Whole(acc)[i] = Packet(i, acc[i])
                                     /\ Packet(i, acc[i]) \in PacketType
                                     /\ acc[i] \in Nat
<1>1. Len(acc) \in Nat /\ \A i \in 1..Len(acc) : acc[i] \in Nat
  BY LenProperties, ElementOfSeq
<1>2. \A i \in 1..Len(acc) : Packet(i, acc[i]) \in PacketType
  BY <1>1 DEF Packet, PacketType
<1>3. Whole(acc) \in [1..Len(acc) -> PacketType]
  BY <1>2 DEF Whole
<1>4. Whole(acc) \in Seq(PacketType)
  BY <1>1, <1>3, SeqDef
<1>5. Len(Whole(acc)) = Len(acc)
  BY <1>1 DEF Whole
<1>6. \A i \in 1..Len(acc) : Whole(acc)[i] = Packet(i, acc[i])
  BY DEF Whole
<1> QED BY <1>1, <1>2, <1>4, <1>5, <1>6

\* All bytes of a packet.
LEMMA PieceOfWhole ==
    ASSUME NEW i \in Nat, NEW n \in Nat
    PROVE  Piece(Packet(i, n)) = [k \in 1..n |-> <<i, k>>]
<1> DEFINE p == Packet(i, n)
<1>1. p.id = i /\ p.len = n /\ p.left = n
  BY DEF Packet
<1>2. Piece(p) = [k \in 1..p.left |-> <<p.id, p.len - p.left + k>>]
  BY DEF Piece
<1> HIDE DEF p
<1>3. \A k \in 1..n : n - n + k = k
  OBVIOUS
<1>4. Piece(p) = [k \in 1..n |-> <<i, n - n + k>>]
  BY <1>1, <1>2
<1> QED BY <1>3, <1>4 DEF p

\* The stream is all their bytes.
LEMMA StreamIsRest ==
    ASSUME accepted \in Seq(Nat)
    PROVE  Stream = Rest(Whole(accepted))
<1> DEFINE w == Whole(accepted)
           s == [i \in 1..Len(accepted) |-> [k \in 1..accepted[i] |-> <<i, k>>]]
<1>1. /\ Len(accepted) \in Nat /\ Len(w) = Len(accepted)
      /\ \A i \in 1..Len(accepted) : w[i] = Packet(i, accepted[i]) /\ accepted[i] \in Nat
  BY WholeType
<1> HIDE DEF w
<1>2. \A i \in 1..Len(accepted) : Piece(w[i]) = [k \in 1..accepted[i] |-> <<i, k>>]
  <2> TAKE i \in 1..Len(accepted)
  <2>1. i \in Nat /\ accepted[i] \in Nat /\ w[i] = Packet(i, accepted[i])
    BY <1>1
  <2> QED BY <2>1, PieceOfWhole
<1>3. Pieces(w) = s
  BY <1>1, <1>2 DEF Pieces
<1> QED BY <1>3 DEF Stream, Rest, w

\* A packet more.
LEMMA WholeAppend ==
    ASSUME NEW acc \in Seq(Nat), NEW n \in Nat
    PROVE  /\ Append(acc, n) \in Seq(Nat) /\ Packet(Len(acc) + 1, n) \in PacketType
           /\ Rest(Whole(Append(acc, n))) = Rest(Whole(acc)) \o Piece(Packet(Len(acc) + 1, n))
<1> DEFINE m == Len(acc)
           a == Append(acc, n)
           p == Packet(m + 1, n)
           s == Whole(acc)
           t == Append(s, p)
           u == Whole(a)
<1>1. /\ m \in Nat /\ a \in Seq(Nat) /\ Len(a) = m + 1 /\ a[m + 1] = n
      /\ \A i \in 1..m : a[i] = acc[i]
  BY AppendProperties, LenProperties
<1>2. p \in PacketType
  BY <1>1 DEF Packet, PacketType
<1>3. /\ s \in Seq(PacketType) /\ Len(s) = m
      /\ \A i \in 1..m : s[i] = Packet(i, acc[i])
  BY WholeType
<1> HIDE DEF a
<1>4. /\ u \in Seq(PacketType) /\ Len(u) = m + 1
      /\ \A i \in 1..(m + 1) : u[i] = Packet(i, a[i])
  BY <1>1, WholeType
<1> HIDE DEF s, u, m
<1>5. /\ t \in Seq(PacketType) /\ Len(t) = m + 1 /\ t[m + 1] = p
      /\ \A i \in 1..m : t[i] = s[i]
  <2> HIDE DEF p
  <2> QED BY <1>2, <1>3, AppendProperties
<1> HIDE DEF t
<1>6. ASSUME NEW i \in 1..(m + 1) PROVE t[i] = u[i]
  <2>1. i = m + 1 \/ i \in 1..m
    BY <1>1
  <2> QED BY <1>1, <1>3, <1>4, <1>5, <2>1
<1>7. t = u
  BY <1>4, <1>5, <1>6, SeqEqual
<1>8. Rest(t) = Rest(s) \o Piece(p)
  <2> HIDE DEF p
  <2> QED BY <1>2, <1>3, RestAppend DEF t
<1> QED BY <1>1, <1>2, <1>7, <1>8 DEF s, u, a, m

(***************************************************************************)
(* The bytes that were written and those that are left.                    *)
(***************************************************************************)

\* The bytes w were written; of the packets l all but the first k bytes are
\* to be written; together they are the accepted ones.
Sent(w, l, k, acc) ==
    /\ w \in Seq(Bytes) /\ k \in Nat /\ k <= Len(Rest(l))
    /\ w \o Drop(Rest(l), k) = Rest(Whole(acc))

\* A packet joins the list.
LEMMA SentAppend ==
    ASSUME NEW w, NEW l \in Seq(PacketType), NEW k, NEW acc \in Seq(Nat), NEW n \in Nat,
           Sent(w, l, k, acc)
    PROVE  Sent(w, Append(l, Packet(Len(acc) + 1, n)), k, Append(acc, n))
<1> DEFINE p == Packet(Len(acc) + 1, n)
           r == Rest(l)
           x == Piece(p)
           h == Rest(Whole(acc))
           rr == Rest(Append(l, p))
           hh == Rest(Whole(Append(acc, n)))
<1>1. p \in PacketType /\ hh = h \o x
  BY WholeAppend
<1>s. Sent(w, Append(l, p), k, Append(acc, n)) <=>
        w \in Seq(Bytes) /\ k \in Nat /\ k <= Len(rr) /\ w \o Drop(rr, k) = hh
  BY DEF Sent
<1>2. w \in Seq(Bytes) /\ k \in Nat /\ k <= Len(r) /\ w \o Drop(r, k) = h
  BY DEF Sent
<1>3. r \in Seq(Bytes)
  BY RestType
<1> HIDE DEF p
<1>4. x \in Seq(Bytes)
  BY <1>1, PieceType
<1>5. rr = r \o x
  BY <1>1, RestAppend
<1> HIDE DEF r, x, h, rr, hh
<1>6. Drop(rr, k) = Drop(r, k) \o x
  BY <1>2, <1>3, <1>4, <1>5, DropFirst
<1>7. Drop(r, k) \in Seq(Bytes)
  BY <1>2, <1>3, DropType
<1>8. w \o (Drop(r, k) \o x) = (w \o Drop(r, k)) \o x
  <2> DEFINE d == Drop(r, k)
  <2>1. d \in Seq(Bytes) /\ w \in Seq(Bytes)
    BY <1>2, <1>7
  <2> HIDE DEF d
  <2>2. Cat(Cat(w, d), x) = Cat(w, Cat(d, x))
    BY <1>4, <2>1, BytesAssociate
  <2> QED BY <2>2 DEF d, Cat
<1>9. k <= Len(rr)
  <2>1. Len(rr) = Len(r) + Len(x) /\ Len(r) \in Nat /\ Len(x) \in Nat
    BY <1>3, <1>4, <1>5, ConcatProperties, LenProperties
  <2> QED BY <1>2, <2>1
<1>10. w \o Drop(rr, k) = hh
  BY <1>1, <1>2, <1>6, <1>8
<1>11. Sent(w, Append(l, p), k, Append(acc, n))
  BY <1>s, <1>2, <1>9, <1>10
<1> QED BY <1>11 DEF p

\* writev takes the first bytes of the iovec.
LEMMA SentWrite ==
    ASSUME NEW w, NEW l \in Seq(PacketType), NEW acc, NEW n \in Nat, n <= Len(Gather(l)),
           Sent(w, l, 0, acc)
    PROVE  Sent(w \o SubSeq(Gather(l), 1, n), l, n, acc)
<1> DEFINE g == Gather(l)
           r == Rest(l)
           a == SubSeq(g, 1, n)
           b == Drop(g, n)
           h == Rest(Whole(acc))
<1>1. w \in Seq(Bytes) /\ w \o Drop(r, 0) = h
  BY DEF Sent
<1>s. Sent(w \o a, l, n, acc) <=>
        w \o a \in Seq(Bytes) /\ n \in Nat /\ n <= Len(r) /\ (w \o a) \o Drop(r, n) = h
  BY DEF Sent
<1>2. r \in Seq(Bytes) /\ n <= Len(g)
  BY RestType
<1>3. PICK t \in Seq(Bytes) : g \in Seq(Bytes) /\ r = g \o t
  BY GatherIsPrefix
<1> HIDE DEF r, g, h
<1>4. a \in Seq(Bytes) /\ b \in Seq(Bytes) /\ a \o b = g
  BY <1>2, <1>3, DropType
<1>5. Drop(r, n) = b \o t
  BY <1>2, <1>3, DropFirst
<1>6. Drop(r, 0) = r
  BY <1>2, DropNothing
<1>7. n <= Len(r)
  <2>1. Len(r) = Len(g) + Len(t) /\ Len(g) \in Nat /\ Len(t) \in Nat
    BY <1>3, ConcatProperties, LenProperties
  <2> QED BY <1>2, <2>1
<1> HIDE DEF a, b
<1>8. w \o a \in Seq(Bytes) /\ b \o t \in Seq(Bytes)
  BY <1>1, <1>3, <1>4, ConcatProperties
<1>9. (w \o a) \o (b \o t) = w \o r
  <2>1. (w \o a) \o (b \o t) = w \o (a \o (b \o t))
    <3> DEFINE v == b \o t
    <3>1. w \in Seq(Bytes) /\ a \in Seq(Bytes) /\ v \in Seq(Bytes)
      BY <1>1, <1>4, <1>8
    <3> HIDE DEF v
    <3>2. Cat(Cat(w, a), v) = Cat(w, Cat(a, v))
      BY <3>1, BytesAssociate
    <3> QED BY <3>2 DEF v, Cat
  <2>2. a \o (b \o t) = (a \o b) \o t
    <3>1. a \in Seq(Bytes) /\ b \in Seq(Bytes) /\ t \in Seq(Bytes)
      BY <1>3, <1>4
    <3>2. Cat(Cat(a, b), t) = Cat(a, Cat(b, t))
      BY <3>1, BytesAssociate
    <3> QED BY <3>2 DEF Cat
  <2> QED BY <1>3, <1>4, <2>1, <2>2
<1> QED BY <1>1, <1>s, <1>5, <1>6, <1>7, <1>8, <1>9 DEF a, g

\* The packet at the head is written as a whole.
LEMMA SentPop ==
    ASSUME NEW w, NEW l \in Seq(PacketType), l # <<>>, NEW k, NEW acc,
           Head(l).left <= k, Sent(w, l, k, acc)
    PROVE  Sent(w, Tail(l), k - Head(l).left, acc)
<1> DEFINE p == Head(l)
           m == Tail(l)
           x == Piece(p)
           r == Rest(l)
           q == Rest(m)
           h == Rest(Whole(acc))
<1>1. w \in Seq(Bytes) /\ k \in Nat /\ k <= Len(r) /\ w \o Drop(r, k) = h
  BY DEF Sent
<1>s. Sent(w, m, k - p.left, acc) <=>
        w \in Seq(Bytes) /\ k - p.left \in Nat /\ k - p.left <= Len(q) /\ w \o Drop(q, k - p.left) = h
  BY DEF Sent
<1>2. p \in PacketType /\ m \in Seq(PacketType)
  BY HeadTailProperties
<1>3. r = x \o q
  BY RestCons
<1>4. p.left <= k
  OBVIOUS
<1> HIDE DEF p, m, h, r
<1>5. x \in Seq(Bytes) /\ Len(x) = p.left /\ q \in Seq(Bytes)
  BY <1>2, PieceType, RestType
<1> HIDE DEF q, x
<1>6. k - Len(x) \in Nat /\ k - Len(x) <= Len(q) /\ Drop(x \o q, k) = Drop(q, k - Len(x))
  <2>1. Len(x) <= k /\ k <= Len(x \o q)
    BY <1>1, <1>3, <1>4, <1>5
  <2> QED BY <1>1, <1>5, <2>1, DropAllFirst
<1>7. Sent(w, m, k - p.left, acc)
  BY <1>1, <1>s, <1>3, <1>5, <1>6
<1> QED BY <1>7 DEF p, m

\* What is left of a packet after its first k bytes.
LEMMA PieceDrop ==
    ASSUME NEW p \in PacketType, NEW k \in Nat, k <= p.left
    PROVE  /\ [p EXCEPT !.left = p.left - k] \in PacketType
           /\ Piece([p EXCEPT !.left = p.left - k]) = Drop(Piece(p), k)
<1> DEFINE q == [p EXCEPT !.left = p.left - k]
           n == p.left
           x == Piece(p)
           y == Piece(q)
           d == Drop(x, k)
<1>1. n \in Nat /\ k <= n /\ n - k \in Nat /\ p.id \in Nat /\ p.len \in Nat
  BY DEF PacketType
<1>2. q \in PacketType /\ q.left = n - k /\ q.id = p.id /\ q.len = p.len
  BY <1>1 DEF PacketType
<1> HIDE DEF q
<1>3. /\ x \in Seq(Bytes) /\ Len(x) = n
      /\ \A j \in 1..n : x[j] = <<p.id, p.len - n + j>>
  BY PieceType
<1>4. /\ y \in Seq(Bytes) /\ Len(y) = n - k
      /\ \A j \in 1..(n - k) : y[j] = <<p.id, p.len - (n - k) + j>>
  <2>1. /\ y \in Seq(Bytes) /\ Len(y) = q.left
        /\ \A j \in 1..q.left : y[j] = <<q.id, q.len - q.left + j>>
    BY <1>2, PieceType
  <2> HIDE DEF y, n
  <2> QED BY <1>2, <2>1
<1> HIDE DEF n, x, y
<1>5. /\ d \in Seq(Bytes) /\ Len(d) = n - k
      /\ \A j \in 1..(n - k) : d[j] = x[k + j]
  <2>1. x \in Seq(Bytes) /\ k \in Nat /\ k <= Len(x)
    BY <1>1, <1>3
  <2>2. /\ d \in Seq(Bytes) /\ Len(d) = Len(x) - k
        /\ \A j \in 1..(Len(x) - k) : d[j] = x[k + j]
    BY <2>1, DropType
  <2> HIDE DEF d
  <2> QED BY <1>3, <2>2
<1> HIDE DEF d
<1>6. ASSUME NEW j \in 1..(n - k) PROVE y[j] = d[j]
  <2>1. k + j \in 1..n /\ p.len - n + (k + j) = p.len - (n - k) + j
    BY <1>1
  <2> QED BY <1>3, <1>4, <1>5, <2>1
<1>7. y = d
  BY <1>4, <1>5, <1>6, SeqEqual
<1> QED BY <1>2, <1>7 DEF y, d, x, q, n

\* The packet at the head is partly written.
LEMMA SentAck ==
    ASSUME NEW w, NEW acc, StateType, ~AckPacketFits, Sent(w, ds.mSendList, tmpLen, acc)
    PROVE  Sent(w, AckRest(ds.mSendList), 0, acc)
<1> DEFINE l == ds.mSendList
           k == tmpLen
           r == Rest(l)
           h == Rest(Whole(acc))
<1>0. l \in Seq(PacketType)
  BY DEF StateType, ObjectType
<1>1. w \in Seq(Bytes) /\ k \in Nat /\ k <= Len(r) /\ w \o Drop(r, k) = h
  BY DEF Sent
<1>2. ASSUME NEW m \in Seq(PacketType), Rest(m) = Drop(r, k) PROVE Sent(w, m, 0, acc)
  <2> DEFINE q == Rest(m)
  <2>1. q \in Seq(Bytes) /\ q = Drop(r, k)
    BY <1>2, RestType
  <2>2. Sent(w, m, 0, acc) <=> w \in Seq(Bytes) /\ 0 \in Nat /\ 0 <= Len(q) /\ w \o Drop(q, 0) = h
    BY DEF Sent
  <2> HIDE DEF q, r, k, h
  <2>3. Drop(q, 0) = q /\ Len(q) \in Nat
    BY <2>1, DropNothing, LenProperties
  <2> QED BY <1>1, <2>1, <2>2, <2>3
<1>3. CASE l = <<>>
  <2>1. r = <<>> /\ AckRest(l) = l
    BY <1>3, RestEmpty DEF AckRest
  <2>2. r \in Seq(Bytes) /\ Len(r) = 0
    BY <1>0, <2>1, RestType, EmptySeq
  <2>3. k = 0
    BY <1>1, <2>2
  <2>4. Drop(r, k) = r
    BY <2>2, <2>3, DropNothing
  <2> QED BY <1>0, <1>2, <2>1, <2>4
<1>4. CASE l # <<>>
  <2> DEFINE p == Head(l)
             t == Tail(l)
             q == [p EXCEPT !.left = p.left - k]
             m == [l EXCEPT ![1] = q]
  <2>1. /\ Len(l) \in Nat \ {0} /\ p = l[1] /\ 1 \in 1..Len(l) /\ p \in PacketType
        /\ t \in Seq(PacketType) /\ Len(t) = Len(l) - 1
        /\ \A i \in 1..Len(t) : t[i] = l[i + 1]
    BY <1>0, <1>4, EmptySeq, HeadTailProperties
  <2>2. k <= p.left
    <3>1. ~(p.left <= k) /\ p.left \in Nat
      BY <1>4, <2>1 DEF AckPacketFits, PacketType
    <3> QED BY <1>1, <3>1
  <2>3. q \in PacketType /\ Piece(q) = Drop(Piece(p), k)
    BY <1>1, <2>1, <2>2, PieceDrop
  <2>4. AckRest(l) = m
    BY <1>4, <2>1 DEF AckRest
  <2>5. r = Piece(p) \o Rest(t)
    BY <1>0, <1>4, RestCons
  <2>6. Piece(p) \in Seq(Bytes) /\ Len(Piece(p)) = p.left /\ Rest(t) \in Seq(Bytes)
    BY <2>1, PieceType, RestType
  <2>7. Drop(r, k) = Drop(Piece(p), k) \o Rest(t)
    <3> DEFINE x == Piece(p)
               y == Rest(t)
    <3>1. x \in Seq(Bytes) /\ y \in Seq(Bytes) /\ k \in Nat /\ k <= Len(x) /\ r = x \o y
      BY <1>1, <2>2, <2>5, <2>6
    <3> HIDE DEF x, y, r, k
    <3>2. Drop(r, k) = Drop(x, k) \o y
      BY <3>1, DropFirst
    <3> QED BY <3>2 DEF x, y
  <2> HIDE DEF q, l
  <2>8. /\ m \in Seq(PacketType) /\ Len(m) = Len(l)
        /\ \A i \in 1..Len(l) : m[i] = IF i = 1 THEN q ELSE l[i]
    BY <1>0, <2>1, <2>3, ExceptSeq
  <2> HIDE DEF m
  <2>9. m # <<>> /\ Head(m) = q
    <3>1. m # <<>>
      BY <2>1, <2>8, EmptySeq
    <3>2. Head(m) = m[1]
      BY <2>8, <3>1
    <3> QED BY <2>1, <2>8, <3>1, <3>2
  <2>10. Tail(m) = t
    <3> DEFINE u == Tail(m)
    <3>1. /\ u \in Seq(PacketType) /\ Len(u) = Len(m) - 1
          /\ \A i \in 1..Len(u) : u[i] = m[i + 1]
      BY <2>8, <2>9, HeadTailProperties
    <3> HIDE DEF u, t
    <3>2. Len(u) = Len(t)
      BY <2>1, <2>8, <3>1
    <3>3. ASSUME NEW i \in 1..Len(u) PROVE u[i] = t[i]
      <4>1. i + 1 \in 1..Len(l) /\ i + 1 # 1 /\ i \in 1..Len(t)
        BY <2>1, <2>8, <3>1
      <4> QED BY <2>1, <2>8, <3>1, <4>1
    <3>4. u = t
      BY <2>1, <3>1, <3>2, <3>3, SeqEqual
    <3> QED BY <3>4 DEF u
  <2>11. Rest(m) = Piece(q) \o Rest(t)
    BY <2>8, <2>9, <2>10, RestCons
  <2>12. Rest(m) = Drop(r, k)
    BY <2>3, <2>7, <2>11
  <2> HIDE DEF r, k
  <2>13. Sent(w, m, 0, acc)
    BY <1>2, <2>8, <2>12
  <2> QED BY <2>4, <2>13 DEF l
<1> QED BY <1>3, <1>4

(***************************************************************************)
(* The invariant of the stream.                                            *)
(***************************************************************************)

\* Bytes of the list that the kernel has already.
Skip == IF phase = "Ack" THEN tmpLen ELSE 0

\* Undefined behaviour ends the behaviour, and until then nothing is lost.
StreamInv ==
    /\ fault # "none" => phase = "Crashed"
    /\ fault = "none" => Sent(wire, ds.mSendList, Skip, accepted)

\* A call of a user: packets join the list and the accepted ones alike.
LEMMA StreamApply ==
    ASSUME SocketInv, NEW c \in CallType, Accept(c), NEW w, NEW k, Sent(w, ds.mSendList, k, accepted)
    PROVE  Sent(w, Apply(c, ds).mSendList, k, accepted')
<1>0. /\ ds \in ObjectType /\ ds.mSendList \in Seq(PacketType) /\ accepted \in Seq(Nat)
      /\ ObjectInv(ds, afterCopy, deleted) /\ c.len \in Nat
  BY DEF SocketInv, StateType, ObjectType, CallType
<1>1. Apply(c, ds).mSendList = IF c.kind = "send"
                            THEN Append(ds.mSendList, Packet(Len(accepted) + 1, c.len))
                            ELSE ds.mSendList
  BY <1>0, ApplyKeeps
<1>2. CASE c.kind = "send"
  <2>1. accepted' = Append(accepted, c.len)
    BY <1>2 DEF Accept
  <2>2. Apply(c, ds).mSendList = Append(ds.mSendList, Packet(Len(accepted) + 1, c.len))
    BY <1>1, <1>2
  <2>3. Sent(w, Append(ds.mSendList, Packet(Len(accepted) + 1, c.len)), k, Append(accepted, c.len))
    BY <1>0, SentAppend
  <2> QED BY <2>1, <2>2, <2>3
<1>3. CASE c.kind # "send"
  <2>1. accepted' = accepted /\ Apply(c, ds).mSendList = ds.mSendList
    BY <1>1, <1>3 DEF Accept
  <2> QED BY <2>1
<1> QED BY <1>2, <1>3

\* Every step keeps StreamInv.
LEMMA StreamStep == SocketInv /\ StreamInv /\ [Next]_vars => StreamInv'
<1> SUFFICES ASSUME SocketInv, StreamInv, [Next]_vars PROVE StreamInv'
  OBVIOUS
<1> USE DEF object, locals, loopq, kernel, history
<1>0. /\ StateType /\ ObjectInv(ds, afterCopy, deleted) /\ ds \in ObjectType
      /\ ds.mSendList \in Seq(PacketType) /\ accepted \in Seq(Nat)
  BY DEF SocketInv, StateType, ObjectType
<1>f. phase # "Crashed" => fault = "none" /\ Sent(wire, ds.mSendList, Skip, accepted)
  BY DEF StreamInv
<1>s. ASSUME ds'.mSendList = ds.mSendList, UNCHANGED <<accepted, wire>>, phase # "Crashed",
             phase # "Ack", phase' # "Ack", fault' = "none"
      PROVE  StreamInv'
  BY <1>f, <1>s DEF StreamInv, Skip
<1>t. ASSUME ds'.mSendList = ds.mSendList, UNCHANGED <<accepted, wire, phase, fault, tmpLen>>
      PROVE  StreamInv'
  BY <1>t DEF StreamInv, Skip
<1>a. ASSUME NEW c \in CallType, ds' = Apply(c, ds), Accept(c), UNCHANGED <<wire, phase, fault, tmpLen>>,
             phase # "Crashed"
      PROVE  StreamInv'
  <2>1. Sent(wire, Apply(c, ds).mSendList, Skip, accepted')
    BY <1>a, <1>f, StreamApply
  <2> QED BY <1>a, <1>f, <2>1 DEF StreamInv, Skip
<1>1. ASSUME NEW c \in Calls, Post(c) PROVE StreamInv'
  BY <1>t, <1>1 DEF Post
<1>2. ASSUME NEW c \in Calls, DataCallback(c) PROVE StreamInv'
  <2>1. c \in CallType
    BY CallsAreTyped
  <2> QED BY <1>a, <1>2, <2>1 DEF DataCallback
<1>3. CASE PeerReads \/ PeerSends \/ (\E how \in {"fin", "reset"} : PeerCloses(how))
  BY <1>t, <1>3 DEF PeerReads, PeerSends, PeerCloses
<1>4. CASE EpollWait \/ SwapAsync \/ AfterDone
  BY <1>f, <1>s, <1>4 DEF EpollWait, SwapAsync, AfterDone
<1>5. CASE (\E b \in BOOLEAN : RecvDone(b) \/ Schedule(b)) \/ WriteFails
  <2>1. /\ ds' = ProcCloseInLoop(ds) \/ ds' = ds
        /\ UNCHANGED <<accepted, wire, fault>> /\ phase \notin {"Crashed", "Ack"} /\ phase' # "Ack"
    BY <1>5 DEF RecvDone, Schedule, WriteFails
  <2>2. ds'.mSendList = ds.mSendList
    BY <1>0, <2>1, ProcCloseKeeps
  <2> QED BY <1>f, <1>s, <2>1, <2>2
<1>6. CASE CanSend
  <2> DEFINE e == [ds EXCEPT !.checkWrite = FALSE, !.mCanWrite = TRUE]
  <2>1. /\ e \in ObjectType /\ e.mSendList = ds.mSendList
        /\ e.mSocket = ds.mSocket /\ e.mIsPostFinalClose = ds.mIsPostFinalClose
        /\ e.mAfterLoopProcs = ds.mAfterLoopProcs /\ e.mIsPostFlush = ds.mIsPostFlush
    BY <1>0 DEF ObjectType
  <2>2. ds' = RunAfterFlush(e) /\ UNCHANGED <<accepted, wire, phase, fault, tmpLen>>
    BY <1>6 DEF CanSend
  <2> HIDE DEF e
  <2>3. ObjectInv(e, afterCopy, deleted)
    BY <1>0, <2>1, SameObject
  <2>4. ds'.mSendList = ds.mSendList
    BY <2>1, <2>2, <2>3, RunAfterFlushKeeps
  <2> QED BY <1>t, <2>2, <2>4
<1>7. CASE OnCloseEvent
  <2>1. ds' = OnClose(ds) /\ UNCHANGED <<accepted, wire, phase, fault, tmpLen>>
    BY <1>7 DEF OnCloseEvent
  <2>2. ds'.mSendList = ds.mSendList
    BY <1>0, <2>1, OnCloseKeeps
  <2> QED BY <1>t, <2>1, <2>2
<1>8. CASE RunAsync
  <2>1. CASE deleted
    BY <1>t, <1>8, <2>1 DEF RunAsync
  <2>2. CASE ~deleted
    <3> DEFINE c == Head(asyncCopy)
    <3>1. ds' = Apply(c, ds) /\ Accept(c) /\ c \in CallType
      BY <1>0, <1>8, <2>2, TailContains DEF RunAsync, StateType
    <3>2. UNCHANGED <<wire, phase, fault, tmpLen>> /\ phase # "Crashed"
      BY <1>8 DEF RunAsync
    <3> HIDE DEF c
    <3> QED BY <1>a, <3>1, <3>2
  <2> QED BY <2>1, <2>2
<1>9. CASE SwapAfter \/ WriteBlocks
  <2>1. ds'.mSendList = ds.mSendList
    BY <1>0, <1>9 DEF SwapAfter, WriteBlocks, ObjectType
  <2> QED BY <1>f, <1>s, <1>9, <2>1 DEF SwapAfter, WriteBlocks
<1>10. CASE RunFlush \/ RunShutdown \/ RunClose
  <2>1. ds'.mSendList = ds.mSendList
    BY <1>0, <1>10 DEF RunFlush, RunShutdown, RunClose, ObjectType
  <2>2. PICK proc, next : RunAfter(proc, next) /\ next \in {"Flush", "After"}
    BY <1>10 DEF RunFlush, RunShutdown, RunClose
  <2>3. fault' = "none" /\ phase' \in {"Flush", "After"}
    BY <2>2, RunAfterProps
  <2>4. phase = "After"
    BY <2>2 DEF RunAfter
  <2>5. UNCHANGED <<accepted, wire>>
    BY <1>10 DEF RunFlush, RunShutdown, RunClose
  <2> QED BY <1>s, <2>1, <2>3, <2>4, <2>5
<1>11. CASE FlushEnds
  <2>1. /\ ds' = ds /\ UNCHANGED <<accepted, wire>> /\ phase = "Flush"
        /\ (fault' = "none" /\ phase' = "After") \/ (fault' = "nullSocket" /\ phase' = "Crashed")
    BY <1>11 DEF FlushEnds, Continue
  <2>2. CASE fault' = "none" /\ phase' = "After"
    BY <1>s, <2>1, <2>2
  <2>3. CASE fault' = "nullSocket" /\ phase' = "Crashed"
    BY <2>3 DEF StreamInv
  <2> QED BY <2>1, <2>2, <2>3
<1>12. ASSUME NEW e \in {"EWOULDBLOCK", "other"}, WriteNothing(e) PROVE StreamInv'
  <2>1. ds' = [ds EXCEPT !.mCanWrite = FALSE, !.checkWrite = TRUE] \/ ds' = ProcCloseInLoop(ds)
    BY <1>12 DEF WriteNothing
  <2>2. ds'.mSendList = ds.mSendList
    <3>1. CASE ds' = [ds EXCEPT !.mCanWrite = FALSE, !.checkWrite = TRUE]
      BY <1>0, <3>1, WriteFlags
    <3>2. CASE ds' = ProcCloseInLoop(ds)
      BY <1>0, <3>2, ProcCloseKeeps
    <3> QED BY <2>1, <3>1, <3>2
  <2> QED BY <1>f, <1>s, <1>12, <2>2 DEF WriteNothing
<1>13. ASSUME NEW n \in 1..SndBuf, Writev(n) PROVE StreamInv'
  <2>1. /\ phase = "Flush" /\ phase' = "Ack" /\ tmpLen' = n /\ n <= Len(Gather(ds.mSendList))
        /\ wire' = wire \o SubSeq(Gather(ds.mSendList), 1, n)
        /\ UNCHANGED <<ds, accepted, fault>>
    BY <1>13 DEF Writev
  <2>2. fault = "none" /\ Sent(wire, ds.mSendList, 0, accepted)
    BY <1>f, <2>1 DEF Skip
  <2>3. n \in Nat
    BY LimitsAssumption
  <2>4. Sent(wire \o SubSeq(Gather(ds.mSendList), 1, n), ds.mSendList, n, accepted)
    BY <1>0, <2>1, <2>2, <2>3, SentWrite
  <2> QED BY <2>1, <2>2, <2>4 DEF StreamInv, Skip
<1>14. ASSUME NEW c \in CompleteCalls, AckComplete(c) PROVE StreamInv'
  <2> DEFINE cd == IF c.kind = "none" THEN ds ELSE Apply(c, ds)
             p  == Head(ds.mSendList)
  <2>1. /\ phase = "Ack" /\ ds.mSendList # <<>> /\ p.left <= tmpLen
        /\ tmpLen' = tmpLen - p.left /\ wire' = wire
        /\ ds' = [cd EXCEPT !.mSendList = Tail(@)]
    BY <1>14 DEF AckComplete, AckPacketFits
  <2>2. (fault' = "none" /\ phase' = "Ack") \/ (fault' # "none" /\ phase' = "Crashed")
    BY <1>14 DEF AckComplete, Continue
  <2>3. Sent(wire, ds.mSendList, tmpLen, accepted)
    BY <1>f, <2>1 DEF Skip
  <2>4. /\ cd \in ObjectType /\ Sent(wire, cd.mSendList, tmpLen, accepted')
        /\ cd.mSendList \in Seq(PacketType) /\ cd.mSendList # <<>> /\ Head(cd.mSendList) = p
    <3>1. CASE c.kind = "none"
      <4>1. cd = ds /\ accepted' = accepted
        BY <1>14, <3>1 DEF AckComplete
      <4> HIDE DEF cd
      <4> QED BY <1>0, <2>1, <2>3, <4>1
    <3>2. CASE c.kind # "none"
      <4>1. c \in CallType /\ c.len \in Nat /\ Accept(c) /\ cd = Apply(c, ds)
        BY <1>14, <3>2, CallsAreTyped DEF CallType, AckComplete
      <4>2. Sent(wire, Apply(c, ds).mSendList, tmpLen, accepted')
        BY <2>3, <4>1, StreamApply
      <4>3. /\ Apply(c, ds) \in ObjectType
            /\ Apply(c, ds).mSendList = IF c.kind = "send"
                            THEN Append(ds.mSendList, Packet(Len(accepted) + 1, c.len))
                            ELSE ds.mSendList
        BY <1>0, <4>1, ApplyKeeps
      <4>4. Apply(c, ds).mSendList \in Seq(PacketType)
        BY <4>3 DEF ObjectType
      <4>5. Apply(c, ds).mSendList # <<>> /\ Head(Apply(c, ds).mSendList) = p
        <5>1. CASE c.kind = "send"
          <6> DEFINE x == Packet(Len(accepted) + 1, c.len)
          <6>1. x \in PacketType
            BY <1>0, <4>1, LenProperties DEF Packet, PacketType
          <6>2. Apply(c, ds).mSendList = Append(ds.mSendList, x)
            BY <4>3, <5>1
          <6> HIDE DEF x
          <6>3. Append(ds.mSendList, x) # <<>> /\ Head(Append(ds.mSendList, x)) = Head(ds.mSendList)
            BY <1>0, <2>1, <6>1, AppendProperties, HeadTailAppend
          <6> QED BY <6>2, <6>3
        <5>2. CASE c.kind # "send"
          BY <2>1, <4>3, <5>2
        <5> QED BY <5>1, <5>2
      <4> HIDE DEF cd
      <4> QED BY <4>1, <4>2, <4>3, <4>4, <4>5
    <3> QED BY <3>1, <3>2
  <2> HIDE DEF cd
  <2>5. ds'.mSendList = Tail(cd.mSendList)
    BY <2>1, <2>4 DEF ObjectType
  <2>6. Sent(wire, Tail(cd.mSendList), tmpLen - p.left, accepted')
    <3> DEFINE l == cd.mSendList
    <3>1. l \in Seq(PacketType) /\ l # <<>> /\ Head(l) = p /\ Head(l).left <= tmpLen /\ Sent(wire, l, tmpLen, accepted')
      BY <2>1, <2>4
    <3> HIDE DEF l, p
    <3>2. Sent(wire, Tail(l), tmpLen - Head(l).left, accepted')
      BY <3>1, SentPop
    <3> QED BY <3>1, <3>2 DEF l
  <2> HIDE DEF p
  <2>7. CASE fault' = "none" /\ phase' = "Ack"
    BY <2>1, <2>5, <2>6, <2>7 DEF StreamInv, Skip
  <2>8. CASE fault' # "none" /\ phase' = "Crashed"
    BY <2>8 DEF StreamInv
  <2> QED BY <2>2, <2>7, <2>8
<1>15. CASE AckAll \/ AckPartial
  <2>1. phase = "Ack" /\ ~AckPacketFits /\ UNCHANGED <<accepted, wire>>
    BY <1>15 DEF AckAll, AckPartial
  <2>2. fault = "none" /\ Sent(wire, ds.mSendList, tmpLen, accepted)
    BY <1>f, <2>1 DEF Skip
  <2>3. Sent(wire, AckRest(ds.mSendList), 0, accepted)
    BY <1>0, <2>1, <2>2, SentAck
  <2>4. \/ phase' \in {"Flush", "After"} /\ fault' = "none" /\ ds'.mSendList = AckRest(ds.mSendList)
        \/ phase' = "Crashed" /\ fault' # "none"
    <3>1. CASE AckAll
      BY <1>0, <2>2, <3>1 DEF AckAll, ObjectType
    <3>2. CASE AckPartial /\ ds.mSocket
      BY <1>0, <2>2, <3>2 DEF AckPartial, Continue, ObjectType
    <3>3. CASE AckPartial /\ ~ds.mSocket
      BY <3>3 DEF AckPartial, Continue
    <3> QED BY <1>15, <3>1, <3>2, <3>3
  <2>5. CASE phase' \in {"Flush", "After"} /\ fault' = "none" /\ ds'.mSendList = AckRest(ds.mSendList)
    BY <2>1, <2>3, <2>5 DEF StreamInv, Skip
  <2>6. CASE phase' = "Crashed" /\ fault' # "none"
    BY <2>6 DEF StreamInv
  <2> QED BY <2>4, <2>5, <2>6
<1>16. CASE UNCHANGED vars
  BY <1>t, <1>16 DEF vars
<1> QED BY <1>1, <1>2, <1>3, <1>4, <1>5, <1>6, <1>7, <1>8, <1>9, <1>10, <1>11, <1>12, <1>13,
           <1>14, <1>15, <1>16 DEF Next, LoopStep, Environment

\* Nothing is lost, doubled or reordered on the way to the kernel, and
\* undefined behaviour is the end.
THEOREM StreamInvariant == Spec => []StreamInv
<1>1. Init => StreamInv
  <2> SUFFICES ASSUME Init PROVE StreamInv
    OBVIOUS
  <2>1. /\ ds.mSendList = <<>> /\ wire = <<>> /\ accepted = <<>> /\ phase = "Wait" /\ fault = "none"
    BY DEF Init
  <2>2. Whole(<<>>) = <<>>
    BY DEF Whole
  <2>3. <<>> \in Seq(Bytes) /\ Len(<<>>) = 0
    BY EmptySeq
  <2>4. Drop(<<>>, 0) = <<>> /\ <<>> \o <<>> = <<>>
    BY <2>3, DropNothing, ConcatEmptySeq
  <2>5. Sent(<<>>, <<>>, 0, <<>>)
    BY <2>2, <2>3, <2>4, RestEmpty DEF Sent
  <2> QED BY <2>1, <2>5 DEF StreamInv, Skip
<1>2. SocketInv /\ StreamInv /\ [Next]_vars => StreamInv'
  BY StreamStep
<1> QED BY <1>1, <1>2, SocketInvariant, PTL DEF Spec

\* Whatever users, the peer and partial writes do, the bytes the kernel was
\* given and those still in mSendList are the accepted packets, each byte
\* once and in order (DataSocket.cpp:447-527).
THEOREM SendsAreAccounted == Spec => []SendAccounting
<1>1. SocketInv /\ StreamInv => SendAccounting
  <2> SUFFICES ASSUME SocketInv, StreamInv, fault = "none" PROVE wire \o Unsent = Stream
    BY DEF SendAccounting
  <2>1. Sent(wire, ds.mSendList, Skip, accepted)
    BY DEF StreamInv
  <2>2. Stream = Rest(Whole(accepted))
    BY StreamIsRest DEF SocketInv, StateType
  <2>3. Unsent = SubSeq(Rest(ds.mSendList), IF phase = "Ack" THEN tmpLen + 1 ELSE 1, Len(Rest(ds.mSendList)))
    BY DEF Unsent, Rest, Pieces
  <2>4. (IF phase = "Ack" THEN tmpLen + 1 ELSE 1) = Skip + 1
    BY DEF Skip
  <2>5. Unsent = Drop(Rest(ds.mSendList), Skip)
    BY <2>3, <2>4 DEF Drop
  <2> QED BY <2>1, <2>2, <2>5 DEF Sent
<1> QED BY <1>1, SocketInvariant, StreamInvariant, PTL

\* Bytes that are left belong to packets of the list.
LEMMA RestContains ==
    ASSUME NEW l \in Seq(PacketType), NEW y, Contains(Rest(l), y)
    PROVE  \E i \in 1..Len(l) : y[1] = l[i].id
<1>1. /\ Pieces(l) \in Seq(Seq(Bytes)) /\ Len(Pieces(l)) = Len(l)
      /\ \A i \in 1..Len(l) : Pieces(l)[i] = Piece(l[i]) /\ l[i] \in PacketType
  BY PiecesType, ElementOfSeq
<1>2. Contains(FlattenSeq(Pieces(l)), y)
  BY DEF Rest
<1>3. PICK i \in 1..Len(l) : Contains(Pieces(l)[i], y)
  BY <1>1, <1>2, FlattenContains
<1> QED BY <1>1, <1>3, PieceType

\* The last byte of an accepted packet is in the stream.
LEMMA WholeContains ==
    ASSUME NEW acc \in Seq(Nat), NEW i \in 1..Len(acc), acc[i] > 0
    PROVE  Contains(Rest(Whole(acc)), <<i, acc[i]>>)
<1> DEFINE l == Whole(acc)
           n == acc[i]
<1>1. /\ l \in Seq(PacketType) /\ Len(l) = Len(acc) /\ l[i] = Packet(i, n) /\ Packet(i, n) \in PacketType
      /\ n \in Nat /\ Len(acc) \in Nat /\ i \in Nat
  BY WholeType
<1> HIDE DEF l
<1>2. /\ Pieces(l) \in Seq(Seq(Bytes)) /\ Len(Pieces(l)) = Len(acc) /\ Pieces(l)[i] = Piece(Packet(i, n))
  BY <1>1, PiecesType
<1>3. Piece(Packet(i, n)) = [k \in 1..n |-> <<i, k>>]
  BY <1>1, PieceOfWhole
<1>4. Contains(Piece(Packet(i, n)), <<i, n>>)
  <2>1. n \in 1..n
    BY <1>1
  <2>2. Len(Piece(Packet(i, n))) = n
    BY <1>1, PieceType DEF Packet
  <2> HIDE DEF n
  <2>3. Piece(Packet(i, n))[n] = <<i, n>>
    BY <1>3, <2>1
  <2> QED BY <2>1, <2>2, <2>3 DEF Contains
<1>5. \E j \in 1..Len(Pieces(l)) : Contains(Pieces(l)[j], <<i, n>>)
  BY <1>2, <1>4
<1>6. Contains(FlattenSeq(Pieces(l)), <<i, n>>)
  BY <1>2, <1>5, FlattenContains
<1> QED BY <1>6 DEF Rest, l

\* What is left after a part is contained in the whole.
LEMMA DropContains ==
    ASSUME NEW S, NEW s \in Seq(S), NEW n \in Nat, n <= Len(s), NEW y, Contains(Drop(s, n), y)
    PROVE  Contains(s, y)
<1>1. Drop(s, n) \in Seq(S) /\ SubSeq(s, 1, n) \in Seq(S) /\ SubSeq(s, 1, n) \o Drop(s, n) = s
  BY DropType
<1>2. Contains(SubSeq(s, 1, n) \o Drop(s, n), y)
  BY <1>1, ConcatContains
<1> QED BY <1>1, <1>2

\* Complete callbacks run once for each packet, in the order of the sends,
\* and only when the kernel has the last byte of the packet
\* (DataSocket.cpp:500-511).
THEOREM CompletesOnce == Spec => []CompleteOnce
<1>1. SocketInv /\ StreamInv => CompleteOnce
  <2> SUFFICES ASSUME SocketInv, StreamInv, fault = "none"
               PROVE  /\ completed \o [i \in 1..Len(ds.mSendList) |-> ds.mSendList[i].id]
                           = [i \in 1..Len(accepted) |-> i]
                      /\ \A i \in 1..Len(completed) :
                             accepted[i] > 0 => Contains(wire, <<i, accepted[i]>>)
    BY DEF CompleteOnce
  <2> DEFINE l == ds.mSendList
             a == Len(accepted)
             b == Len(completed)
             c == Len(l)
  <2>0. /\ l \in Seq(PacketType) /\ accepted \in Seq(Nat) /\ completed \in Seq(Nat)
        /\ a \in Nat /\ b \in Nat /\ c \in Nat
    BY LenProperties DEF SocketInv, StateType, ObjectType
  <2>1. /\ a = b + c
        /\ \A i \in 1..b : completed[i] = i
        /\ \A i \in 1..c : l[i].id = b + i
    BY DEF SocketInv, OrderInv
  <2>2. Sent(wire, l, Skip, accepted)
    BY DEF StreamInv
  <2>3. completed \o [i \in 1..c |-> l[i].id] = [i \in 1..a |-> i]
    <3> DEFINE s == [i \in 1..c |-> l[i].id]
               t == [i \in 1..a |-> i]
               u == completed \o s
    <3> HIDE DEF l, a, b, c
    <3>1. s \in Seq(Nat) /\ Len(s) = c /\ \A i \in 1..c : s[i] = b + i
      <4>1. \A i \in 1..c : s[i] = b + i /\ s[i] \in Nat
        <5> TAKE i \in 1..c
        <5>1. s[i] = l[i].id /\ l[i].id = b + i
          BY <2>1
        <5>2. b + i \in Nat
          BY <2>0
        <5> QED BY <5>1, <5>2
      <4>2. s \in [1..c -> Nat]
        BY <4>1
      <4>3. Len(s) = c
        BY <2>0
      <4>4. s \in Seq(Nat)
        BY <2>0, <4>2, SeqDef
      <4> QED BY <4>1, <4>3, <4>4
    <3>2. t \in Seq(Nat) /\ Len(t) = a /\ \A i \in 1..a : t[i] = i
      <4>1. t \in [1..a -> Nat]
        BY <2>0
      <4>2. Len(t) = a
        BY <2>0
      <4> QED BY <2>0, <4>1, <4>2, SeqDef
    <3> HIDE DEF s, t
    <3>3. /\ u \in Seq(Nat) /\ Len(u) = b + c
          /\ \A i \in 1..(b + c) : u[i] = IF i <= b THEN completed[i] ELSE s[i - b]
      <4>1. /\ u \in Seq(Nat) /\ Len(u) = b + Len(s)
            /\ \A i \in 1..(b + Len(s)) : u[i] = IF i <= b THEN completed[i] ELSE s[i - b]
        BY <2>0, <3>1, ConcatProperties DEF b
      <4> HIDE DEF u
      <4> QED BY <3>1, <4>1
    <3> HIDE DEF u
    <3>4. ASSUME NEW i \in 1..a PROVE u[i] = t[i]
      <4>1. CASE i <= b
        <5>1. i \in 1..b /\ i \in 1..(b + c)
          BY <2>0, <2>1, <4>1
        <5> QED BY <2>1, <3>2, <3>3, <4>1, <5>1
      <4>2. CASE ~(i <= b)
        <5>1. i - b \in 1..c /\ i \in 1..(b + c) /\ b + (i - b) = i
          BY <2>0, <2>1, <4>2
        <5> QED BY <3>1, <3>2, <3>3, <4>2, <5>1
      <4> QED BY <4>1, <4>2
    <3>5. u = t
      BY <2>1, <3>2, <3>3, <3>4, SeqEqual
    <3> QED BY <3>5 DEF u, s, t
  <2>4. ASSUME NEW i \in 1..b, accepted[i] > 0 PROVE Contains(wire, <<i, accepted[i]>>)
    <3> DEFINE y == <<i, accepted[i]>>
               r == Rest(l)
               d == Drop(r, Skip)
    <3>1. wire \in Seq(Bytes) /\ Skip \in Nat /\ Skip <= Len(r) /\ wire \o d = Rest(Whole(accepted))
      BY <2>2 DEF Sent
    <3>2. r \in Seq(Bytes)
      BY <2>0, RestType
    <3>3. d \in Seq(Bytes)
      BY <3>1, <3>2, DropType
    <3>4. i \in 1..Len(accepted)
      <4> HIDE DEF b, c
      <4> QED BY <2>0, <2>1
    <3>5. Contains(Rest(Whole(accepted)), y)
      BY <2>0, <2>4, <3>4, WholeContains
    <3>6. y[1] = i
      OBVIOUS
    <3> HIDE DEF d, y
    <3>7. Contains(wire, y) \/ Contains(d, y)
      <4>1. Contains(wire \o d, y)
        BY <3>1, <3>5
      <4>2. wire \in Seq(Bytes) /\ d \in Seq(Bytes)
        BY <3>1, <3>3
      <4> QED BY <4>1, <4>2, ConcatContains
    <3>8. ASSUME Contains(d, y) PROVE FALSE
      <4>1. Contains(r, y)
        BY <3>1, <3>2, <3>8, DropContains DEF d
      <4>2. PICK j \in 1..c : y[1] = l[j].id
        BY <2>0, <4>1, RestContains
      <4> HIDE DEF b, c, l
      <4>3. i = b + j
        BY <2>1, <3>6, <4>2
      <4> QED BY <2>0, <4>3
    <3>9. Contains(wire, y)
      BY <3>7, <3>8
    <3> QED BY <3>9 DEF y
  <2> QED BY <2>3, <2>4
<1> QED BY <1>1, SocketInvariant, StreamInvariant, PTL

\* The types that the invariants above do not speak of.
KernelType ==
    /\ room \in 0..SndBuf /\ edges \subseteq {"IN", "RDHUP", "OUT"}
    /\ peer \in {"open", "fin", "reset"}
    /\ calls \in 0..MaxCalls
    /\ fault \in {"none", "nullSocket", "invalidIterator", "deletedSocket"}
    /\ wire \in Seq(Nat \X Nat)

\* Two variables that are true or false.
FlagType == partial \in BOOLEAN /\ hangup \in BOOLEAN

\* The bytes of accepted packets have positions from one on.
LEMMA WholeBytes ==
    ASSUME NEW acc \in Seq(Nat), NEW y, Contains(Rest(Whole(acc)), y)
    PROVE  y \in Nat \X Nat
<1> DEFINE l == Whole(acc)
<1>1. /\ l \in Seq(PacketType) /\ Len(l) = Len(acc) /\ Len(acc) \in Nat
      /\ \A i \in 1..Len(acc) : l[i] = Packet(i, acc[i]) /\ acc[i] \in Nat
  BY WholeType
<1>c. Contains(FlattenSeq(Pieces(l)), y)
  BY DEF Rest
<1> HIDE DEF l
<1>2. /\ Pieces(l) \in Seq(Seq(Bytes)) /\ Len(Pieces(l)) = Len(acc)
      /\ \A i \in 1..Len(acc) : Pieces(l)[i] = Piece(l[i]) /\ l[i] \in PacketType
  BY <1>1, PiecesType, ElementOfSeq
<1>3. PICK i \in 1..Len(acc) : Contains(Pieces(l)[i], y)
  BY <1>2, <1>c, FlattenContains
<1> DEFINE n == acc[i]
           x == Piece(Packet(i, n))
<1>4. i \in Nat /\ n \in Nat /\ Contains(x, y)
  BY <1>1, <1>2, <1>3
<1>5. x = [k \in 1..n |-> <<i, k>>]
  BY <1>4, PieceOfWhole
<1>6. Len(x) = n
  BY <1>1, <1>2, PieceType DEF Packet
<1> HIDE DEF n, x
<1>7. PICK k \in 1..Len(x) : x[k] = y
  BY <1>4 DEF Contains
<1>8. y = <<i, k>> /\ k \in Nat
  BY <1>4, <1>5, <1>6, <1>7
<1> QED BY <1>4, <1>8

\* What was written is a part of the stream.
LEMMA WireType ==
    ASSUME NEW w, NEW l \in Seq(PacketType), NEW k, NEW acc \in Seq(Nat), Sent(w, l, k, acc)
    PROVE  w \in Seq(Nat \X Nat)
<1> DEFINE r == Rest(l)
           d == Drop(r, k)
           h == Rest(Whole(acc))
<1>1. w \in Seq(Bytes) /\ k \in Nat /\ k <= Len(r) /\ w \o d = h
  BY DEF Sent
<1>2. r \in Seq(Bytes)
  BY RestType
<1>3. d \in Seq(Bytes)
  BY <1>1, <1>2, DropType
<1> HIDE DEF r, d
<1>4. ASSUME NEW i \in 1..Len(w) PROVE w[i] \in Nat \X Nat
  <2>1. Contains(w, w[i])
    BY DEF Contains
  <2>2. Contains(w \o d, w[i])
    BY <1>1, <1>3, <2>1, ConcatContains
  <2> QED BY <1>1, <2>2, WholeBytes
<1>5. Len(w) \in Nat /\ w \in [1..Len(w) -> Bytes]
  BY <1>1, LenProperties
<1>6. w \in [1..Len(w) -> Nat \X Nat]
  BY <1>4, <1>5
<1> DEFINE T == Nat \X Nat
           n == Len(w)
<1>7. n \in Nat /\ w \in [1..n -> T]
  BY <1>5, <1>6
<1> HIDE DEF T, n
<1>8. w \in Seq(T)
  BY <1>7, SeqDef
<1> QED BY <1>8 DEF T

\* Every step keeps KernelType.
LEMMA KernelStep == SocketInv /\ StreamInv /\ KernelType /\ [Next]_vars => KernelType'
<1> SUFFICES ASSUME SocketInv, StreamInv, KernelType, [Next]_vars PROVE KernelType'
  OBVIOUS
<1> USE DEF object, locals, loopq, kernel, history
<1>0. SndBuf \in Nat /\ MaxCalls \in Nat
  BY LimitsAssumption
<1>1. ASSUME NEW c \in Calls, Post(c) \/ DataCallback(c) PROVE KernelType'
  <2>1. /\ calls < MaxCalls /\ calls' = calls + 1
        /\ UNCHANGED <<room, edges, peer, fault, wire>>
    BY <1>1 DEF Post, DataCallback
  <2> QED BY <1>0, <2>1 DEF KernelType
<1>2. CASE PeerReads \/ PeerSends \/ (\E how \in {"fin", "reset"} : PeerCloses(how))
  <2>1. UNCHANGED <<calls, fault, wire>>
    BY <1>2 DEF PeerReads, PeerSends, PeerCloses
  <2>2. room' \in 0..SndBuf
    BY <1>0, <1>2 DEF PeerReads, PeerSends, PeerCloses, KernelType
  <2>3. edges' \subseteq {"IN", "RDHUP", "OUT"} /\ peer' \in {"open", "fin", "reset"}
    BY <1>2 DEF PeerReads, PeerSends, PeerCloses, KernelType
  <2> QED BY <2>1, <2>2, <2>3 DEF KernelType
<1>3. CASE EpollWait \/ (\E b \in BOOLEAN : RecvDone(b)) \/ CanSend \/ OnCloseEvent \/ SwapAsync
  BY <1>3 DEF EpollWait, RecvDone, CanSend, OnCloseEvent, SwapAsync, KernelType
<1>4. CASE RunAsync \/ SwapAfter \/ AfterDone \/ (\E b \in BOOLEAN : Schedule(b))
  BY <1>4 DEF RunAsync, SwapAfter, AfterDone, Schedule, KernelType
<1>5. CASE RunFlush \/ RunShutdown \/ RunClose
  <2>1. PICK proc, next : RunAfter(proc, next)
    BY <1>5 DEF RunFlush, RunShutdown, RunClose
  <2>2. fault' = "none"
    BY <2>1, RunAfterProps
  <2>3. UNCHANGED <<room, edges, peer, calls, wire>>
    BY <1>5 DEF RunFlush, RunShutdown, RunClose
  <2> QED BY <2>2, <2>3 DEF KernelType
<1>6. CASE FlushEnds \/ WriteFails \/ WriteBlocks
  BY <1>6 DEF FlushEnds, WriteFails, WriteBlocks, Continue, KernelType
<1>7. ASSUME NEW e \in {"EWOULDBLOCK", "other"}, WriteNothing(e) PROVE KernelType'
  BY <1>7 DEF WriteNothing, KernelType
<1>8. ASSUME NEW n \in 1..SndBuf, Writev(n) PROVE KernelType'
  <2>1. n <= room /\ room' = room - n /\ UNCHANGED <<edges, peer, calls, fault>> /\ phase' = "Ack"
        /\ UNCHANGED <<ds, accepted>>
    BY <1>8 DEF Writev
  <2>2. room' \in 0..SndBuf
    BY <1>0, <2>1 DEF KernelType
  <2>3. StreamInv'
    BY StreamStep
  <2>4. Sent(wire', ds.mSendList, Skip', accepted)
    BY <2>1, <2>3 DEF StreamInv
  <2>5. ds.mSendList \in Seq(PacketType) /\ accepted \in Seq(Nat)
    BY DEF SocketInv, StateType, ObjectType
  <2>6. wire' \in Seq(Nat \X Nat)
    <3> DEFINE w == wire'
               k == Skip'
               l == ds.mSendList
    <3>1. Sent(w, l, k, accepted) /\ l \in Seq(PacketType)
      BY <2>4, <2>5
    <3> HIDE DEF w, k, l
    <3>2. w \in Seq(Nat \X Nat)
      BY <2>5, <3>1, WireType
    <3> QED BY <3>2 DEF w
  <2> QED BY <2>1, <2>2, <2>6 DEF KernelType
<1>9. ASSUME NEW c \in CompleteCalls, AckComplete(c) PROVE KernelType'
  <2>1. UNCHANGED <<room, edges, peer, wire>>
    BY <1>9 DEF AckComplete
  <2>2. calls' = calls \/ (calls < MaxCalls /\ calls' = calls + 1)
    BY <1>9 DEF AckComplete
  <2>3. fault' \in {"none", "invalidIterator"}
    BY <1>9 DEF AckComplete, Continue
  <2>4. calls' \in 0..MaxCalls
    BY <1>0, <2>2 DEF KernelType
  <2> QED BY <2>1, <2>3, <2>4 DEF KernelType
<1>10. CASE AckAll
  BY <1>10 DEF AckAll, KernelType
<1>11. CASE AckPartial
  BY <1>11 DEF AckPartial, Continue, KernelType
<1>12. CASE UNCHANGED vars
  BY <1>12 DEF vars, KernelType
<1> QED BY <1>1, <1>2, <1>3, <1>4, <1>5, <1>6, <1>7, <1>8, <1>9, <1>10, <1>11, <1>12
        DEF Next, LoopStep, Environment

\* Every step keeps FlagType.
LEMMA FlagStep == FlagType /\ [Next]_vars => FlagType'
<1> SUFFICES ASSUME FlagType, [Next]_vars PROVE FlagType'
  OBVIOUS
<1> USE DEF object, locals, loopq, kernel, history
<1>h. ASSUME NEW c, Accept(c), partial' = partial PROVE FlagType'
  BY <1>h DEF Accept, FlagType
<1>s. ASSUME UNCHANGED <<partial, hangup>> PROVE FlagType'
  BY <1>s DEF FlagType
<1>1. ASSUME NEW c \in Calls, Post(c) \/ DataCallback(c) PROVE FlagType'
  BY <1>h, <1>s, <1>1 DEF Post, DataCallback
<1>2. CASE PeerReads \/ PeerSends \/ (\E how \in {"fin", "reset"} : PeerCloses(how))
  BY <1>s, <1>2 DEF PeerReads, PeerSends, PeerCloses
<1>3. CASE EpollWait \/ (\E b \in BOOLEAN : RecvDone(b)) \/ CanSend \/ OnCloseEvent \/ SwapAsync
  BY <1>s, <1>3 DEF EpollWait, RecvDone, CanSend, OnCloseEvent, SwapAsync
<1>4. CASE RunAsync
  <2>1. partial' = partial /\ (Accept(Head(asyncCopy)) \/ hangup' = hangup)
    BY <1>4 DEF RunAsync
  <2> QED BY <1>h, <1>s, <2>1
<1>5. CASE SwapAfter \/ AfterDone \/ RunFlush \/ RunShutdown \/ RunClose
  BY <1>s, <1>5 DEF SwapAfter, AfterDone, RunFlush, RunShutdown, RunClose
<1>6. ASSUME NEW b \in BOOLEAN, Schedule(b) PROVE FlagType'
  BY <1>6 DEF Schedule, FlagType
<1>7. CASE FlushEnds \/ WriteFails \/ WriteBlocks \/ (\E e \in {"EWOULDBLOCK", "other"} : WriteNothing(e))
  BY <1>s, <1>7 DEF FlushEnds, WriteFails, WriteBlocks, WriteNothing
<1>8. ASSUME NEW n \in 1..SndBuf, Writev(n) PROVE FlagType'
  BY <1>8 DEF Writev, FlagType
<1>9. ASSUME NEW c \in CompleteCalls, AckComplete(c) PROVE FlagType'
  <2>1. partial' = partial /\ (Accept(c) \/ hangup' = hangup)
    BY <1>9 DEF AckComplete
  <2> QED BY <1>h, <1>s, <2>1
<1>10. CASE AckAll \/ AckPartial
  BY <1>s, <1>10 DEF AckAll, AckPartial
<1>11. CASE UNCHANGED vars
  BY <1>s, <1>11 DEF vars
<1> QED BY <1>1, <1>2, <1>3, <1>4, <1>5, <1>6, <1>7, <1>8, <1>9, <1>10, <1>11
        DEF Next, LoopStep, Environment

\* Every variable keeps its type: the kernel's buffer is never overrun and
\* only bytes of accepted packets are on the wire.
THEOREM TypeCorrect == Spec => []TypeOK
<1>1. Init => KernelType /\ FlagType
  <2> SUFFICES ASSUME Init PROVE KernelType /\ FlagType
    OBVIOUS
  <2>1. SndBuf \in Nat /\ MaxCalls \in Nat
    BY LimitsAssumption
  <2>2. FlagType
    BY DEF Init, FlagType
  <2>3. room \in 0..SndBuf /\ calls \in 0..MaxCalls
    BY <2>1 DEF Init
  <2>4. wire \in Seq(Nat \X Nat)
    BY DEF Init
  <2> QED BY <2>2, <2>3, <2>4 DEF Init, KernelType
<1>2. SocketInv /\ StreamInv /\ KernelType /\ [Next]_vars => KernelType'
  BY KernelStep
<1>3. FlagType /\ [Next]_vars => FlagType'
  BY FlagStep
<1>4. SocketInv /\ KernelType /\ FlagType => TypeOK
  <2> SUFFICES ASSUME SocketInv, KernelType, FlagType PROVE TypeOK
    OBVIOUS
  <2>1. disconnects \in Nat
    BY DEF SocketInv
  <2> QED BY <2>1 DEF SocketInv, StateType, ObjectType, KernelType, FlagType, TypeOK
<1> QED BY <1>1, <1>2, <1>3, <1>4, SocketInvariant, StreamInvariant, PTL DEF Spec
=============================================================================
