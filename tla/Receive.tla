------------------------------- MODULE Receive -------------------------------
(***************************************************************************)
(* The receiving half of brynet::net::DataSocket on Linux, without SSL:    *)
(* the edge-triggered socket, recv() with its growing buffer, the data     *)
(* callback, PromiseReceive as one such callback, and the heartbeat timer  *)
(* that closes a silent connection.  Sending is in module DataSocket.      *)
(*                                                                         *)
(* A byte is its position in the stream of the peer; what it says, for     *)
(* receiveUntil, is stream[position].  Time is what is left of the timers. *)
(***************************************************************************)
EXTENDS Buffer, TimerMgr, SequencesExt

CONSTANTS
    MaxBytes,           \* bound: bytes the peer sends
    InitialSize,        \* first size of the buffer (16*1024 + GROW_BUFFER_SIZE)
    Grow,               \* GROW_BUFFER_SIZE
    mMaxRecvBufferSize, \* largest size
    Delim,              \* the string of receiveUntil
    Streams,            \* what the peer's bytes may say
    Scripts,            \* receives a user asks for before the first byte
    Asked,              \* receives a user asks for later
    Periods,            \* heartbeat times a user sets, 0 switches it off
    MaxCalls            \* bound: calls of the user

ASSUME SizesAssumption ==
    /\ MaxBytes \in Nat /\ MaxCalls \in Nat
    /\ InitialSize \in Nat \ {0} /\ Grow \in Nat \ {0} /\ mMaxRecvBufferSize \in Nat
ASSUME DelimAssumption == Len(Delim) \in Nat \ {0}
ASSUME StreamsAssumption == \A s \in Streams : Len(s) = MaxBytes
ASSUME ScriptsAssumption ==
    LET Receives == [kind : {"len", "until", "cell"}, len : Nat] IN
    Scripts \subseteq Seq(Receives) /\ Asked \subseteq Receives
ASSUME PeriodsAssumption ==
    Periods \subseteq Nat /\ (Periods # {} => \E p \in Periods : \A q \in Periods : q <= p)

VARIABLES
    rb,         \* mRecvBuffer
    ds,         \* mSocket, mRecvData, mCheckTime, mTimer (0: no timer) of the DataSocket
    deleted,    \* its disconnect callback has run and deleted it
    timers,     \* the loop's TimerMgr
    phase, todo,\* where the loop thread is, and the callbacks left of the event
    short,      \* recv: the last read took less than tryRecvLen
    callback,   \* "none", "user" or "promise": mDataCallback
    pending,    \* mPendingReceives
    cell,       \* the length a user shares with a pending receive
    procLen,    \* process: bytes given to handles
    stream,     \* kernel and peer: what the bytes say
    sent, taken,\* ... bytes the peer has sent, and those recv has read
    edges, peer,\* ... edges epoll will report; "open", "fin" or "reset"
    calls,      \* calls of the user so far
    seen,       \* history: bytes the data callback has consumed, in order
    slices,     \* history: what the handles were given
    quiet,      \* history: time since the last data, or since setHeartBeat
    cause,      \* history: who closed the connection
    odd         \* history: the ways out of the contract that were taken

conn    == <<rb, ds, deleted>>
clock   == <<timers, quiet>>
where   == <<phase, todo, short>>
promise == <<pending, cell, procLen, slices>>
kernel  == <<sent, taken, edges, peer>>
fixed   == <<callback, stream>>
vars    == <<conn, clock, where, promise, kernel, fixed, calls, seen, cause, odd>>

Phases == {"Wait", "Events", "Recv", "Callback", "After", "Schedule", "Crashed"}

MaxPeriod == IF Periods = {} THEN 0 ELSE CHOOSE p \in Periods : \A q \in Periods : q <= p

\* growRecvBuffer on a full buffer: all of it is unread.
growRecvBuffer(b) ==
    IF ox_buffer_getsize(b) + Grow <= mMaxRecvBufferSize
    THEN ox_buffer_write(ox_buffer_new(ox_buffer_getsize(b) + Grow), Readable(b))
    ELSE b

Init ==
    /\ rb = ox_buffer_new(InitialSize)
    /\ ds = [mSocket |-> TRUE, mRecvData |-> FALSE, mCheckTime |-> 0, mTimer |-> 0,
             postClose |-> FALSE]
    /\ deleted = FALSE
    /\ timers = {} /\ quiet = 0
    /\ phase = "Wait" /\ todo = <<>> /\ short = FALSE
    /\ callback \in {"none", "user", "promise"}
    /\ pending \in IF callback = "promise" THEN Scripts ELSE {<<>>}
    /\ stream \in IF callback = "promise" THEN Streams ELSE {[i \in 1..MaxBytes |-> Delim[1]]}
    /\ cell = 0 /\ procLen = 0 /\ slices = <<>>
    /\ sent = 0 /\ taken = 0 /\ edges = {} /\ peer = "open"
    /\ calls = 0 /\ seen = <<>> /\ cause = "none" /\ odd = {}

-----------------------------------------------------------------------------
(* What the member functions do to the object.                             *)

\* procCloseInLoop, onClose: the descriptor is closed, the disconnect callback posted.
Close(d) == [d EXCEPT !.mSocket = FALSE, !.postClose = TRUE]

CloseFor(who) ==
    /\ ds' = IF ds.mSocket THEN Close(ds) ELSE ds
    /\ cause' = IF ds.mSocket THEN who ELSE cause

FreshTimer(ts) == CHOOSE i \in 1..(Cardinality(ts) + 1) : \A t \in ts : t.id # i

\* mTimer is not reset: the cancelled timer in the heap keeps the new one out.
SetHeartBeat_NoReset(period) ==
    /\ ds' = [ds EXCEPT !.mCheckTime = period,
                        !.mTimer = IF @ = 0 /\ period # 0 THEN FreshTimer(timers) ELSE @]
    /\ timers' = IF ds.mTimer # 0 THEN cancel(timers, ds.mTimer)
                 ELSE IF period # 0 THEN addTimer(timers, FreshTimer(timers), period) ELSE timers

\* setHeartBeat: cancel the old timer, start one for the new time.
SetHeartBeat(period) ==
    LET old == IF ds.mTimer # 0 THEN cancel(timers, ds.mTimer) ELSE timers
        d   == [ds EXCEPT !.mCheckTime = period, !.mTimer = 0] IN
    IF period # 0
    THEN /\ ds' = [d EXCEPT !.mTimer = FreshTimer(old)]
         /\ timers' = addTimer(old, FreshTimer(old), period)
    ELSE ds' = d /\ timers' = old

-----------------------------------------------------------------------------
(* The peer, the kernel and time.                                          *)

PeerSends ==
    /\ ds.mSocket /\ peer = "open" /\ sent < MaxBytes
    /\ \E n \in (sent + 1)..MaxBytes : sent' = n
    /\ edges' = edges \cup {"IN"}
    /\ UNCHANGED <<conn, clock, where, promise, taken, peer, fixed, calls, seen, cause, odd>>

PeerCloses(how) ==
    /\ ds.mSocket /\ peer = "open"
    /\ peer' = how
    /\ edges' = edges \cup {"IN", "RDHUP"}
    /\ UNCHANGED <<conn, clock, where, promise, sent, taken, fixed, calls, seen, cause, odd>>

\* Time passes; between the other steps, which do not look at the clock, it
\* may as well pass before or after them.
Tick ==
    /\ phase \in {"Wait", "Schedule"}
    /\ \E t \in timers : t.left > 0
    /\ timers' = Elapse(timers)
    /\ quiet' = IF quiet < MaxPeriod THEN quiet + 1 ELSE quiet
    /\ UNCHANGED <<conn, where, promise, kernel, fixed, calls, seen, cause, odd>>

-----------------------------------------------------------------------------
(* The loop thread: events, then recv().                                   *)

\* Closing first loses what is still unread.
EpollWait_CloseFirst ==
    /\ phase = "Wait"
    /\ phase' = "Events"
    /\ todo' = IF ~ds.mSocket THEN <<>>
               ELSE IF "RDHUP" \in edges THEN <<"onClose", "canRecv">>
               ELSE IF "IN" \in edges THEN <<"canRecv">> ELSE <<>>
    /\ edges' = {}
    /\ UNCHANGED <<conn, clock, short, promise, sent, taken, peer, fixed, calls, seen, cause, odd>>

EpollWait ==
    /\ phase = "Wait"
    /\ phase' = "Events"
    /\ todo' = IF ~ds.mSocket THEN <<>>
               ELSE IF "RDHUP" \in edges THEN <<"canRecv", "onClose">>
               ELSE IF "IN" \in edges THEN <<"canRecv">> ELSE <<>>
    /\ edges' = {}
    /\ UNCHANGED <<conn, clock, short, promise, sent, taken, peer, fixed, calls, seen, cause, odd>>

\* canRecv (entering recv) or the onClose of an EPOLLRDHUP.
Dispatch ==
    /\ phase = "Events" /\ todo # <<>>
    /\ todo' = Tail(todo)
    /\ IF Head(todo) = "canRecv" THEN phase' = "Recv" /\ UNCHANGED <<ds, cause>>
                                 ELSE phase' = "Events" /\ CloseFor("peer")
    /\ UNCHANGED <<rb, deleted, clock, short, promise, kernel, fixed, calls, seen, odd>>

EventsDone ==
    /\ phase = "Events" /\ todo = <<>>
    /\ phase' = "After"
    /\ UNCHANGED <<conn, clock, todo, short, promise, kernel, fixed, calls, seen, cause, odd>>

tryRecvLen == ox_buffer_getwritevalidcount(rb)

\* recv leaves its loop: the socket is closed, the buffer is full, the data
\* is read (EWOULDBLOCK), or the stream has ended, which closes.  A reset may
\* come before the bytes that are unread, or after them: kernels differ.
RecvBreaks ==
    /\ phase = "Recv"
    /\ ~ds.mSocket \/ tryRecvLen = 0 \/ taken = sent \/ peer = "reset"
    /\ phase' = "Events"
    /\ IF ds.mSocket /\ tryRecvLen > 0 /\ peer # "open" THEN CloseFor("peer")
                                                        ELSE UNCHANGED <<ds, cause>>
    /\ UNCHANGED <<rb, deleted, clock, todo, short, promise, kernel, fixed, calls, seen, odd>>

\* ::recv reads what there is, the buffer grows when it is full of unread
\* bytes, and the data callback is called, if there is one.  Without one the
\* bytes do not count as data for the heartbeat: mRecvData stays as it is.
RecvReads ==
    /\ phase = "Recv" /\ ds.mSocket /\ tryRecvLen > 0 /\ taken < sent
    /\ LET n == IF sent - taken < tryRecvLen THEN sent - taken ELSE tryRecvLen
           b == ox_buffer_addwritepos(Store(rb, [i \in 1..n |-> taken + i]), n) IN
        /\ rb' = IF ox_buffer_getreadvalidcount(b) = ox_buffer_getsize(b)
                 THEN growRecvBuffer(b) ELSE b
        /\ taken' = taken + n
        /\ short' = (n < tryRecvLen)
    /\ ds' = [ds EXCEPT !.mRecvData = @ \/ callback # "none"]
    /\ quiet' = 0
    /\ procLen' = 0
    /\ phase' = "Callback"
    /\ UNCHANGED <<deleted, timers, todo, pending, cell, slices,
                   sent, edges, peer, fixed, calls, seen, cause, odd>>

\* Every read is taken for a short one.
Consume_AlwaysEnds(proclen) ==
    LET over == proclen > ox_buffer_getreadvalidcount(rb)
        b    == ox_buffer_addreadpos(rb, IF over THEN 0 ELSE proclen) IN
    /\ rb' = IF ox_buffer_getwritevalidcount(b) = 0 \/ ox_buffer_getreadvalidcount(b) = 0
             THEN ox_buffer_adjustto_head(b) ELSE b
    /\ seen' = IF over THEN seen ELSE seen \o SubSeq(Readable(rb), 1, proclen)
    /\ phase' = "Events"
    /\ odd' = IF over THEN odd \cup {"overrun"} ELSE odd

\* The rest of the iteration, once the callback has returned proclen.  A
\* larger proclen than was offered fails the assertion, or leaves recv.
Consume(proclen) ==
    IF proclen > ox_buffer_getreadvalidcount(rb)
    THEN phase' = "Events" /\ odd' = odd \cup {"overrun"} /\ UNCHANGED <<rb, seen>>
    ELSE LET b == ox_buffer_addreadpos(rb, proclen) IN
         /\ rb' = IF ox_buffer_getwritevalidcount(b) = 0 \/ ox_buffer_getreadvalidcount(b) = 0
                  THEN ox_buffer_adjustto_head(b) ELSE b
         /\ seen' = seen \o SubSeq(Readable(rb), 1, proclen)
         /\ phase' = IF short THEN "Events" ELSE "Recv"
         /\ odd' = odd

NoCallback ==
    /\ phase = "Callback" /\ callback = "none"
    /\ Consume(0)
    /\ UNCHANGED <<ds, deleted, clock, todo, short, promise, kernel, fixed, calls, cause>>

\* A user's callback consumes as much as it likes of what it is offered.
UserCallback(n) ==
    /\ phase = "Callback" /\ callback = "user" /\ n <= ox_buffer_getreadvalidcount(rb)
    /\ Consume(n)
    /\ UNCHANGED <<ds, deleted, clock, todo, short, promise, kernel, fixed, calls, cause>>

-----------------------------------------------------------------------------
(* PromiseReceive::process as the data callback: one action per round of   *)
(* its loop.                                                               *)

offered == ox_buffer_getreadvalidcount(rb)
left    == offered - procLen

\* The bytes from procLen on, as they read.
Text == [i \in 1..left |-> stream[Readable(rb)[procLen + i]]]

\* Where memsearch finds the string in a text that is not shorter than it.
Matches(text) ==
    {p \in 0..(Len(text) - Len(Delim)) : SubSeq(text, p + 1, p + Len(Delim)) = Delim}
memsearch(text) == CHOOSE p \in Matches(text) : \A q \in Matches(text) : p <= q

front == Head(pending)
wanted == IF front.kind = "cell" THEN cell ELSE front.len

\* What a handle may ask for: nothing, or one receive, queued behind the others.
Asks == {<<>>} \cup {<<r>> : r \in IF calls < MaxCalls THEN Asked ELSE {}}

\* A handle is given n bytes.  What it returns keeps its receive in front or
\* not; it may change the shared length and ask for another receive.
Handle(kind, n, keep) ==
    /\ slices' = IF kind = "len" /\ n = 0 THEN slices
                 ELSE Append(slices, [kind |-> kind, from |-> Len(seen) + procLen, len |-> n])
    /\ \E c \in (IF \E i \in 1..Len(pending) : pending[i].kind = "cell" THEN 0..1 ELSE {cell}) :
           cell' = c
    /\ \E more \in Asks :
           /\ pending' = (IF keep THEN pending ELSE Tail(pending)) \o more
           /\ calls' = calls + Len(more)

InProcess == phase = "Callback" /\ callback = "promise" /\ pending # <<>> /\ left >= 0

ReceiveLen(keep) ==
    /\ InProcess /\ front.kind # "until" /\ left >= wanted
    /\ Handle("len", wanted, keep /\ wanted > 0)
    /\ procLen' = procLen + wanted
    /\ UNCHANGED <<conn, clock, where, kernel, fixed, seen, cause, odd>>

\* The string that ends the slice is left for the next receive.
ReceiveUntil_KeepDelim(keep) ==
    /\ InProcess /\ front.kind = "until" /\ left >= Len(Delim)
    /\ Matches(Text) # {}
    /\ Handle("until", memsearch(Text), keep)
    /\ procLen' = procLen + memsearch(Text) + 1
    /\ UNCHANGED <<conn, clock, where, kernel, fixed, seen, cause, odd>>

ReceiveUntil(keep) ==
    /\ InProcess /\ front.kind = "until" /\ left >= Len(Delim)
    /\ Matches(Text) # {}
    /\ Handle("until", memsearch(Text), keep)
    /\ procLen' = procLen + memsearch(Text) + Len(Delim)
    /\ UNCHANGED <<conn, clock, where, kernel, fixed, seen, cause, odd>>

\* Fewer bytes than the string has: haysize -= needlesize wraps and memsearch
\* reads on behind the data, until it faults or meets the string in whatever
\* the memory holds, which makes process return more than it was offered.
ReceiveUntilOverreads(keep) ==
    /\ InProcess /\ front.kind = "until" /\ left < Len(Delim)
    /\ odd' = odd \cup {"overread"}
    /\ \/ phase' = "Crashed" /\ UNCHANGED <<promise, calls>>
       \/ /\ phase' = phase
          /\ Handle("until", left, keep)
          /\ procLen' = offered + 1
    /\ UNCHANGED <<conn, clock, todo, short, kernel, fixed, seen, cause>>

\* process returns: no receive is left, or the first one needs more bytes.
ProcessReturns ==
    /\ phase = "Callback" /\ callback = "promise"
    /\ InProcess => IF front.kind = "until" THEN left >= Len(Delim) /\ Matches(Text) = {}
                                            ELSE left < wanted
    /\ Consume(procLen)
    /\ UNCHANGED <<ds, deleted, clock, todo, short, promise, kernel, fixed, calls, cause>>

-----------------------------------------------------------------------------
(* Calls of the user on the loop thread, the end of the round, the timers. *)

OnLoop == phase \in {"Callback", "After"} /\ calls < MaxCalls /\ calls' = calls + 1

\* The heartbeat does not look at pending receives: it is left to the other callbacks.
CallSetHeartBeat(period) ==
    /\ OnLoop /\ ~deleted /\ callback # "promise" /\ phase = "After"
    /\ SetHeartBeat(period)
    /\ quiet' = 0
    /\ UNCHANGED <<rb, deleted, where, promise, kernel, fixed, seen, cause, odd>>

CallDisconnect ==
    /\ OnLoop /\ ~deleted /\ ds.mSocket
    /\ CloseFor("user")
    /\ UNCHANGED <<rb, deleted, clock, where, promise, kernel, fixed, seen, odd>>

\* receive() outside of a handle: bytes that are buffered already are not
\* looked at before the next ones arrive.
CallReceive ==
    /\ OnLoop /\ callback = "promise" /\ phase = "After" /\ ds.mSocket
    /\ \E r \in Asked : pending' = Append(pending, r)
    /\ odd' = IF pending = <<>> THEN odd \cup {"late"} ELSE odd
    /\ UNCHANGED <<conn, clock, where, cell, procLen, slices, kernel, fixed, seen, cause>>

\* The destructor forgets the timer.
RunClose_NoCancel ==
    /\ phase = "After" /\ ds.postClose
    /\ deleted' = TRUE
    /\ ds' = [ds EXCEPT !.postClose = FALSE]
    /\ UNCHANGED <<rb, clock, where, promise, kernel, fixed, calls, seen, cause, odd>>

\* The disconnect callback deletes the DataSocket: its destructor cancels.
RunClose ==
    /\ phase = "After" /\ ds.postClose
    /\ deleted' = TRUE
    /\ ds' = [ds EXCEPT !.postClose = FALSE]
    /\ timers' = cancel(timers, ds.mTimer)
    /\ UNCHANGED <<rb, quiet, where, promise, kernel, fixed, calls, seen, cause, odd>>

AfterDone ==
    /\ phase = "After" /\ ~ds.postClose
    /\ phase' = "Schedule"
    /\ UNCHANGED <<conn, clock, todo, short, promise, kernel, fixed, calls, seen, cause, odd>>

\* PingCheck asks for the next timer while schedule() still holds the one
\* that called it: mTimer is not expired and no timer is started.
PingCheck(t) ==
    LET rest   == pop(timers, t)
        starts == ~Alive(rest, t.id, ds.mTimer) /\ ds.mCheckTime # 0 IN
    IF ds.mRecvData
    THEN /\ ds' = [ds EXCEPT !.mRecvData = FALSE,
                             !.mTimer = IF starts THEN FreshTimer(rest) ELSE 0]
         /\ timers' = IF starts THEN addTimer(rest, FreshTimer(rest), ds.mCheckTime) ELSE rest
         /\ odd' = IF starts THEN odd ELSE odd \cup {"notRearmed"}
         /\ cause' = cause
    ELSE /\ timers' = rest
         /\ odd' = odd
         /\ ds' = [IF ds.mSocket THEN Close(ds) ELSE ds EXCEPT !.mTimer = 0]
         /\ cause' = IF ds.mSocket THEN "heartbeat" ELSE cause

\* A cancelled timer is skipped but stays on top of the heap.
RunTimer_NoPop(t) ==
    /\ phase = "Schedule" /\ t \in Due(timers)
    /\ IF ~t.mActive \/ deleted THEN UNCHANGED <<timers, ds, cause, odd>> ELSE PingCheck(t)
    /\ UNCHANGED <<rb, deleted, quiet, where, promise, kernel, fixed, calls, seen>>

\* schedule() pops a timer whose time is up and calls it if it is active.
RunTimer(t) ==
    /\ phase = "Schedule" /\ t \in Due(timers)
    /\ IF ~t.mActive
       THEN timers' = pop(timers, t) /\ UNCHANGED <<ds, cause, odd>>
       ELSE IF deleted
       THEN timers' = pop(timers, t) /\ odd' = odd \cup {"deletedTimer"} /\ UNCHANGED <<ds, cause>>
       ELSE PingCheck(t)
    /\ UNCHANGED <<rb, deleted, quiet, where, promise, kernel, fixed, calls, seen>>

ScheduleDone ==
    /\ phase = "Schedule" /\ Due(timers) = {}
    /\ phase' = "Wait"
    /\ UNCHANGED <<conn, clock, todo, short, promise, kernel, fixed, calls, seen, cause, odd>>

-----------------------------------------------------------------------------
ProcessStep ==
    \E keep \in BOOLEAN : ReceiveLen(keep) \/ ReceiveUntil(keep) \/ ReceiveUntilOverreads(keep)

LoopStep ==
    \/ EpollWait \/ Dispatch \/ EventsDone
    \/ RecvBreaks \/ RecvReads
    \/ NoCallback \/ (\E n \in 0..ox_buffer_getreadvalidcount(rb) : UserCallback(n))
    \/ ProcessStep \/ ProcessReturns
    \/ RunClose \/ AfterDone
    \/ (\E t \in timers : RunTimer(t)) \/ ScheduleDone

Environment ==
    \/ PeerSends \/ (\E how \in {"fin", "reset"} : PeerCloses(how)) \/ Tick
    \/ (\E p \in Periods : CallSetHeartBeat(p)) \/ CallDisconnect \/ CallReceive

Next == LoopStep \/ Environment

Spec == Init /\ [][Next]_vars

\* The loop goes on, its epoll_wait has a timeout; time passes, also when
\* Tick is possible only now and then.
FairSpec == Spec /\ WF_vars(LoopStep) /\ SF_vars(Tick)

-----------------------------------------------------------------------------
(* Properties.                                                             *)

\* No byte is lost, doubled or reordered on its way from the kernel through
\* growing, wrapping and moving buffers into the data callback: what callbacks
\* consumed, what the buffer holds unread and what the kernel still has are
\* the stream (DataSocket.cpp:206-295, buffer.c).
BytesInOrder ==
    /\ seen \o Readable(rb) = [i \in 1..taken |-> i]
    /\ rb.read_pos <= rb.write_pos /\ rb.write_pos <= ox_buffer_getsize(rb)
    /\ ox_buffer_getsize(rb) <= mMaxRecvBufferSize \/ ox_buffer_getsize(rb) = InitialSize

\* Edge-triggered epoll reports data once: when the loop waits with unread
\* bytes in the kernel an edge is due, except after the one way recv stops
\* early, a buffer that is full at its largest size and a callback that took
\* nothing (DataSocket.cpp:213), or a callback that broke its contract.
NoRecvStall ==
    phase = "Wait" /\ ds.mSocket /\ taken < sent /\ "overrun" \notin odd =>
        \/ "IN" \in edges
        \/ /\ ox_buffer_getreadvalidcount(rb) = ox_buffer_getsize(rb)
           /\ ox_buffer_getsize(rb) + Grow > mMaxRecvBufferSize

\* A peer that sends and then closes is heard out: when its FIN closes the
\* connection all its bytes were read, except into a buffer that is full.
ReadBeforeClose ==
    cause = "peer" /\ peer = "fin" /\ "overrun" \notin odd =>
        taken = sent \/ ox_buffer_getwritevalidcount(rb) = 0

\* The handles of PromiseReceive are given successive slices of the stream,
\* each up to the first string it waits for, or of the length asked for;
\* when the loop waits the first receive really needs more bytes.  The two
\* ways this fails are receiveUntil on fewer bytes than its string has
\* (PromiseReceive.h:14), and a receive() that comes after its bytes.
PromiseSlices ==
    "overread" \notin odd =>
        /\ \A i \in 1..Len(slices) :
              LET s == slices[i]
                  Reads(from, n) == [k \in 1..n |-> stream[from + k]]
                  next == s.from + s.len + (IF s.kind = "until" THEN Len(Delim) ELSE 0) IN
              /\ s.kind = "until" =>
                     /\ memsearch(Reads(s.from, s.len + Len(Delim))) = s.len
              /\ i < Len(slices) => slices[i + 1].from = next
        /\ phase = "Wait" /\ callback = "promise" /\ pending # <<>> /\ "late" \notin odd =>
              LET text == [k \in 1..Len(Readable(rb)) |-> stream[Readable(rb)[k]]] IN
              IF front.kind = "until" THEN Matches(text) = {}
              ELSE wanted = 0 \/ Len(text) < wanted

\* The heartbeat of a DataSocket with a data callback closes only a connection
\* that was silent for its time, and no timer ever calls a DataSocket that is
\* deleted (DataSocket.cpp:64, 697).  Without a data callback mRecvData is
\* never set (DataSocket.cpp:270) and also a peer that talks is closed.
HeartbeatIsFair ==
    [][/\ cause' = "heartbeat" /\ cause # "heartbeat" /\ callback # "none" =>
              quiet >= ds.mCheckTime
       /\ "deletedTimer" \notin odd']_vars

\* A connection with a heartbeat is closed in the end when its peer falls
\* silent.  The exception is the code's: after a period with data the timer
\* is not started again (DataSocket.cpp:712).
SilenceIsNoticed ==
    ds.mSocket /\ ds.mCheckTime # 0 ~>
        ~ds.mSocket \/ ds.mCheckTime = 0 \/ "notRearmed" \in odd \/ phase = "Crashed"

\* What datasocket.zh-cn.md:81 says of setHeartBeat: a connection is closed
\* when the time since the last data reaches the time of the heartbeat.  The
\* stream is finite, so every peer is silent in the end.
SilenceIsAlwaysNoticed == ds.mSocket /\ ds.mCheckTime # 0 ~> ~ds.mSocket \/ ds.mCheckTime = 0

\* process gives its caller back the thread, whatever its handles return and
\* as long as they ask for receives of some length (PromiseReceive.h:84), and
\* the timers that are due are worked off (schedule).  Nothing is said of
\* recv, which has no limit per round (DataSocket.cpp:210): a peer that always
\* fills the buffer keeps the loop thread there.
RoundsEnd ==
    /\ phase = "Callback" ~> phase # "Callback"
    /\ phase = "Schedule" ~> phase = "Wait"
=============================================================================
