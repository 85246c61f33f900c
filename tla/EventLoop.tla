----------------------------- MODULE EventLoop ------------------------------
(***************************************************************************)
(* brynet::net::EventLoop on Linux (epoll): one thread drives loop(), any  *)
(* thread hands it work with pushAsyncProc() and wakes it through an       *)
(* eventfd.  The wakeup is suppressed by two atomic flags, mIsInBlock and  *)
(* mIsAlreadyPostWakeup, that are read and written without the queue's     *)
(* mutex; every read, write and exchange of them is a step of its own.     *)
(*                                                                         *)
(* The work itself is abstract: a proc is the number of the call that      *)
(* pushed it.  User code that runs on the loop thread (channel callbacks,  *)
(* procs, timers, the frame callback of the worker) does the one thing     *)
(* that matters to the loop: it calls pushAfterLoopProc, directly or in a  *)
(* proc that pushAsyncProc runs inline.                                    *)
(***************************************************************************)
EXTENDS Naturals, Sequences

CONSTANTS
    Threads,    \* the threads that share the EventLoop
    None,       \* mSelfThreadID before the loop has a thread (-1)
    MaxProcs,   \* bound: calls of pushAsyncProc that reach the queue
    MaxAfter    \* bound: calls of pushAfterLoopProc

ASSUME ThreadsAssumption == None \notin Threads
ASSUME BoundsAssumption == MaxProcs \in Nat /\ MaxAfter \in Nat

VARIABLES
    pc,                     \* where each thread is, see PCs
    mSelfThreadID,          \* the thread of the loop
    mRunIOLoop,             \* the flag the driver tests before each loop()
    mIsInBlock,
    mIsAlreadyPostWakeup,
    eventfd,                \* the counter of the eventfd is not zero
    ready,                  \* the eventfd is on epoll's ready list
    gotWakeup,              \* the wakeup channel is among the events returned
    timeout,                \* "zero" or "block": the argument of epoll_wait
    mAsyncProcs, mCopyAsyncProcs,
    mAfterLoopProcs, mCopyAfterLoopProcs,
    pushed, executed,       \* async procs: number accepted, those run in order
    afterPushed, afterRan   \* after-loop procs, likewise

queues == <<mAsyncProcs, mCopyAsyncProcs, pushed, executed>>
after  == <<mAfterLoopProcs, mCopyAfterLoopProcs, afterPushed, afterRan>>
kernel == <<eventfd, ready, gotWakeup>>
flags  == <<mIsInBlock, mIsAlreadyPostWakeup>>
driver == <<mSelfThreadID, mRunIOLoop>>
vars   == <<pc, driver, flags, kernel, timeout, queues, after>>

\* wakeup() in a thread that is not the loop's.
WakeupPCs == {"ReadBlock", "Exchange", "Write"}
\* The points of loop(), in program order.
LoopPCs == {"EpollWait", "Unblock", "Events", "ResetPost", "SetBlock", "Swap",
            "RunAsync", "SwapAfter", "RunAfter", "Schedule"}
PCs == {"Idle"} \cup WakeupPCs \cup LoopPCs
\* The points of loop() where user code runs.
CallbackPCs == {"Events", "RunAsync", "RunAfter", "Schedule"}

isInLoopThread(t) == mSelfThreadID = t

Goto(t, l) == pc' = [pc EXCEPT ![t] = l]

Init ==
    /\ pc = [t \in Threads |-> "Idle"]
    /\ mSelfThreadID = None
    /\ mRunIOLoop = TRUE
    /\ mIsInBlock = TRUE
    /\ mIsAlreadyPostWakeup = FALSE
    /\ eventfd = FALSE /\ ready = FALSE /\ gotWakeup = FALSE
    /\ timeout = "block"
    /\ mAsyncProcs = <<>> /\ mCopyAsyncProcs = <<>>
    /\ mAfterLoopProcs = <<>> /\ mCopyAfterLoopProcs = <<>>
    /\ pushed = 0 /\ executed = <<>>
    /\ afterPushed = 0 /\ afterRan = <<>>

-----------------------------------------------------------------------------
(* pushAsyncProc() and wakeup() in another thread.                         *)

\* The proc is appended under mAsyncProcsMutex, then wakeup() is called.
\* Before the first loop() no thread is the loop's: its future thread
\* queues as well.
PushAsyncProc(t) ==
    /\ pc[t] = "Idle"
    /\ ~isInLoopThread(t)
    /\ pushed < MaxProcs
    /\ pushed' = pushed + 1
    /\ mAsyncProcs' = Append(mAsyncProcs, pushed + 1)
    /\ Goto(t, "ReadBlock")
    /\ UNCHANGED <<driver, flags, kernel, timeout, mCopyAsyncProcs, executed, after>>

\* wakeup() called for itself (TcpService::wakeup, wakeupAll).
Wakeup(t) ==
    /\ pc[t] = "Idle"
    /\ ~isInLoopThread(t)
    /\ Goto(t, "ReadBlock")
    /\ UNCHANGED <<driver, flags, kernel, timeout, queues, after>>

\* The flag is cleared and the loop left asleep.
StopDriver_NoWakeup(t) ==
    /\ pc[t] = "Idle"
    /\ ~isInLoopThread(t)
    /\ mRunIOLoop
    /\ mRunIOLoop' = FALSE
    /\ UNCHANGED <<pc, mSelfThreadID, flags, kernel, timeout, queues, after>>

\* TcpService::stopWorkerThread: clear the flag, then wakeup().
StopDriver(t) ==
    /\ pc[t] = "Idle"
    /\ ~isInLoopThread(t)
    /\ mRunIOLoop
    /\ mRunIOLoop' = FALSE
    /\ Goto(t, "ReadBlock")
    /\ UNCHANGED <<mSelfThreadID, flags, kernel, timeout, queues, after>>

ReadBlock(t) ==
    /\ pc[t] = "ReadBlock"
    /\ Goto(t, IF mIsInBlock THEN "Exchange" ELSE "Idle")
    /\ UNCHANGED <<driver, flags, kernel, timeout, queues, after>>

Exchange(t) ==
    /\ pc[t] = "Exchange"
    /\ mIsAlreadyPostWakeup' = TRUE
    /\ Goto(t, IF mIsAlreadyPostWakeup THEN "Idle" ELSE "Write")
    /\ UNCHANGED <<driver, mIsInBlock, kernel, timeout, queues, after>>

\* WakeupChannel::wakeup: every write to an eventfd is a new edge.
Write(t) ==
    /\ pc[t] = "Write"
    /\ eventfd' = TRUE
    /\ ready' = TRUE
    /\ Goto(t, "Idle")
    /\ UNCHANGED <<driver, flags, gotWakeup, timeout, queues, after>>

-----------------------------------------------------------------------------
(* loop().                                                                 *)

\* getTimerMgr() makes its first caller the loop's thread.
GetTimerMgr(t) ==
    /\ pc[t] = "Idle"
    /\ mSelfThreadID = None
    /\ mSelfThreadID' = t
    /\ UNCHANGED <<pc, mRunIOLoop, flags, kernel, timeout, queues, after>>

\* loop() that blocks although after-loop procs wait.
Loop_AlwaysBlock(t) ==
    /\ pc[t] = "Idle"
    /\ mRunIOLoop
    /\ mSelfThreadID \in {None, t}
    /\ mSelfThreadID' = t
    /\ timeout' = "block"
    /\ Goto(t, "EpollWait")
    /\ UNCHANGED <<mRunIOLoop, flags, kernel, queues, after>>

\* The driver's while (*runIoLoop) and the head of loop().  In a thread that
\* is not the loop's the call returns and changes nothing.
Loop(t) ==
    /\ pc[t] = "Idle"
    /\ mRunIOLoop
    /\ mSelfThreadID \in {None, t}
    /\ mSelfThreadID' = t
    /\ timeout' = IF mAfterLoopProcs = <<>> THEN "block" ELSE "zero"
    /\ Goto(t, "EpollWait")
    /\ UNCHANGED <<mRunIOLoop, flags, kernel, queues, after>>

\* epoll_wait returns the wakeup channel.  A channel on the ready list is
\* polled again: it is reported only if the eventfd is still readable.
\* Edge triggered: reporting takes it off the list.
EpollWakeup(t) ==
    /\ pc[t] = "EpollWait"
    /\ ready /\ eventfd
    /\ ready' = FALSE
    /\ gotWakeup' = TRUE
    /\ Goto(t, "Unblock")
    /\ UNCHANGED <<driver, flags, eventfd, timeout, queues, after>>

\* epoll_wait returns without it: other channels, a signal or the timeout.
EpollOther(t) ==
    /\ pc[t] = "EpollWait"
    /\ gotWakeup' = FALSE
    /\ Goto(t, "Unblock")
    /\ UNCHANGED <<driver, flags, eventfd, ready, timeout, queues, after>>

\* With a zero timeout epoll_wait cannot stay.
EpollReturns(t) == EpollWakeup(t) \/ (timeout = "zero" /\ EpollOther(t))

Unblock(t) ==
    /\ pc[t] = "Unblock"
    /\ mIsInBlock' = FALSE
    /\ Goto(t, "Events")
    /\ UNCHANGED <<driver, mIsAlreadyPostWakeup, kernel, timeout, queues, after>>

\* WakeupChannel::canRecv, at its turn among the events.
CanRecv(t) ==
    /\ pc[t] = "Events"
    /\ gotWakeup
    /\ gotWakeup' = FALSE
    /\ eventfd' = FALSE
    /\ UNCHANGED <<pc, driver, flags, ready, timeout, queues, after>>

EventsDone(t) ==
    /\ pc[t] = "Events"
    /\ ~gotWakeup
    /\ Goto(t, "ResetPost")
    /\ UNCHANGED <<driver, flags, kernel, timeout, queues, after>>

\* The flag is never taken back.
ResetPost_Missing(t) ==
    /\ pc[t] = "ResetPost"
    /\ Goto(t, "SetBlock")
    /\ UNCHANGED <<driver, flags, kernel, timeout, queues, after>>

ResetPost(t) ==
    /\ pc[t] = "ResetPost"
    /\ mIsAlreadyPostWakeup' = FALSE
    /\ Goto(t, "SetBlock")
    /\ UNCHANGED <<driver, mIsInBlock, kernel, timeout, queues, after>>

\* The loop stays marked as running.
SetBlock_Missing(t) ==
    /\ pc[t] = "SetBlock"
    /\ Goto(t, "Swap")
    /\ UNCHANGED <<driver, flags, kernel, timeout, queues, after>>

SetBlock(t) ==
    /\ pc[t] = "SetBlock"
    /\ mIsInBlock' = TRUE
    /\ Goto(t, "Swap")
    /\ UNCHANGED <<driver, mIsAlreadyPostWakeup, kernel, timeout, queues, after>>

\* processAsyncProcs: swap under the mutex, then run the copy without it.
Swap(t) ==
    /\ pc[t] = "Swap"
    /\ mCopyAsyncProcs' = mAsyncProcs
    /\ mAsyncProcs' = mCopyAsyncProcs
    /\ Goto(t, "RunAsync")
    /\ UNCHANGED <<driver, flags, kernel, timeout, pushed, executed, after>>

\* The newest proc runs first.
RunAsync_Newest(t) ==
    /\ pc[t] = "RunAsync"
    /\ mCopyAsyncProcs # <<>>
    /\ executed' = Append(executed, mCopyAsyncProcs[Len(mCopyAsyncProcs)])
    /\ mCopyAsyncProcs' = SubSeq(mCopyAsyncProcs, 1, Len(mCopyAsyncProcs) - 1)
    /\ UNCHANGED <<pc, driver, flags, kernel, timeout, mAsyncProcs, pushed, after>>

RunAsync(t) ==
    /\ pc[t] = "RunAsync"
    /\ mCopyAsyncProcs # <<>>
    /\ executed' = Append(executed, Head(mCopyAsyncProcs))
    /\ mCopyAsyncProcs' = Tail(mCopyAsyncProcs)
    /\ UNCHANGED <<pc, driver, flags, kernel, timeout, mAsyncProcs, pushed, after>>

RunAsyncDone(t) ==
    /\ pc[t] = "RunAsync"
    /\ mCopyAsyncProcs = <<>>
    /\ Goto(t, "SwapAfter")
    /\ UNCHANGED <<driver, flags, kernel, timeout, queues, after>>

\* processAfterLoopProcs: only the procs that are there when it starts.
SwapAfter(t) ==
    /\ pc[t] = "SwapAfter"
    /\ mCopyAfterLoopProcs' = mAfterLoopProcs
    /\ mAfterLoopProcs' = mCopyAfterLoopProcs
    /\ Goto(t, "RunAfter")
    /\ UNCHANGED <<driver, flags, kernel, timeout, queues, afterPushed, afterRan>>

\* The list is cleared before the procs behind the first have run.
RunAfter_ClearEarly(t) ==
    /\ pc[t] = "RunAfter"
    /\ mCopyAfterLoopProcs # <<>>
    /\ afterRan' = Append(afterRan, Head(mCopyAfterLoopProcs))
    /\ mCopyAfterLoopProcs' = <<>>
    /\ UNCHANGED <<pc, driver, flags, kernel, timeout, queues,
                   mAfterLoopProcs, afterPushed>>

RunAfter(t) ==
    /\ pc[t] = "RunAfter"
    /\ mCopyAfterLoopProcs # <<>>
    /\ afterRan' = Append(afterRan, Head(mCopyAfterLoopProcs))
    /\ mCopyAfterLoopProcs' = Tail(mCopyAfterLoopProcs)
    /\ UNCHANGED <<pc, driver, flags, kernel, timeout, queues,
                   mAfterLoopProcs, afterPushed>>

RunAfterDone(t) ==
    /\ pc[t] = "RunAfter"
    /\ mCopyAfterLoopProcs = <<>>
    /\ Goto(t, "Schedule")
    /\ UNCHANGED <<driver, flags, kernel, timeout, queues, after>>

\* mTimer->schedule() has run the expired timers and loop() returns.
Return(t) ==
    /\ pc[t] = "Schedule"
    /\ Goto(t, "Idle")
    /\ UNCHANGED <<driver, flags, kernel, timeout, queues, after>>

\* User code on the loop thread: a channel callback, a proc, a timer or the
\* frame callback after loop() calls pushAfterLoopProc.
PushAfterLoopProc(t) ==
    /\ isInLoopThread(t)
    /\ pc[t] \in CallbackPCs \cup {"Idle"}
    /\ afterPushed < MaxAfter
    /\ afterPushed' = afterPushed + 1
    /\ mAfterLoopProcs' = Append(mAfterLoopProcs, afterPushed + 1)
    /\ UNCHANGED <<pc, driver, flags, kernel, timeout, queues,
                   mCopyAfterLoopProcs, afterRan>>

-----------------------------------------------------------------------------
\* The steps that follow by themselves once a call has begun.
WakeupStep(t) == ReadBlock(t) \/ Exchange(t) \/ Write(t)
BodyStep(t) ==
    \/ Unblock(t) \/ CanRecv(t) \/ EventsDone(t) \/ ResetPost(t) \/ SetBlock(t)
    \/ Swap(t) \/ RunAsync(t) \/ RunAsyncDone(t)
    \/ SwapAfter(t) \/ RunAfter(t) \/ RunAfterDone(t) \/ Return(t)
\* The steps that a caller or the network decides on.
CallStep(t) ==
    \/ PushAsyncProc(t) \/ Wakeup(t) \/ StopDriver(t)
    \/ GetTimerMgr(t) \/ PushAfterLoopProc(t)

Next == \E t \in Threads :
    \/ CallStep(t) \/ WakeupStep(t)
    \/ Loop(t) \/ EpollWakeup(t) \/ EpollOther(t) \/ BodyStep(t)

Spec == Init /\ [][Next]_vars

\* Threads that are inside a call go on, a thread that may drive the loop and
\* is free again and again calls loop() (strong: before the first loop() the
\* same thread may also push and wake), and
\* epoll_wait returns when it has the wakeup event or a zero timeout.  It is
\* NOT assumed that other events arrive or that a timeout expires: sleeping
\* out the 100 ms of the worker would hide a lost wakeup.
Fairness == \A t \in Threads :
    /\ WF_vars(WakeupStep(t))
    /\ SF_vars(Loop(t))
    /\ WF_vars(EpollReturns(t))
    /\ WF_vars(BodyStep(t))

FairSpec == Spec /\ Fairness

-----------------------------------------------------------------------------
(* Properties.                                                             *)

\* Every variable of the loop keeps its type (EventLoop.h:95-110).
TypeOK ==
    /\ pc \in [Threads -> PCs]
    /\ mSelfThreadID \in Threads \cup {None}
    /\ mRunIOLoop \in BOOLEAN
    /\ mIsInBlock \in BOOLEAN
    /\ mIsAlreadyPostWakeup \in BOOLEAN
    /\ eventfd \in BOOLEAN /\ ready \in BOOLEAN /\ gotWakeup \in BOOLEAN
    /\ timeout \in {"zero", "block"}
    /\ mAsyncProcs \in Seq(Nat) /\ mCopyAsyncProcs \in Seq(Nat)
    /\ mAfterLoopProcs \in Seq(Nat) /\ mCopyAfterLoopProcs \in Seq(Nat)
    /\ pushed \in Nat /\ executed \in Seq(Nat)
    /\ afterPushed \in Nat /\ afterRan \in Seq(Nat)

\* epoll_wait would report the wakeup channel.
Deliverable == ready /\ eventfd

\* Some thread has still to finish a wakeup().
WakeupComing == \E t \in Threads : pc[t] \in WakeupPCs

\* No lost wakeup.  A loop that sits in epoll_wait (EventLoop.cpp:221) while
\* procs wait in mAsyncProcs has the wakeup event to take or a thread that
\* is still inside the wakeup() that belongs to a push: it never sleeps on
\* queued work because a pusher trusted a stale mIsInBlock or
\* mIsAlreadyPostWakeup.
NoLostWakeup ==
    \A t \in Threads :
        pc[t] = "EpollWait" /\ mAsyncProcs # <<>> => Deliverable \/ WakeupComing

\* The suppression flag never outlives the wakeup it stands for: while
\* mIsAlreadyPostWakeup makes other threads skip their write
\* (EventLoop.cpp:289), that write is on its way or delivered, or the loop is
\* between epoll_wait and the reset of the flag.
PostFlagIsBacked ==
    mIsAlreadyPostWakeup =>
        \/ Deliverable
        \/ \E t \in Threads : pc[t] \in {"Write", "Unblock", "Events", "ResetPost"}

\* What the proof of NoLostWakeup rests on, in its parts: one thread is in
\* loop(); ...
LoopIsExclusive ==
    \A t \in Threads : pc[t] \in LoopPCs => mSelfThreadID = t
\* ... mIsInBlock is false exactly from line 223 to line 250; ...
BlockFlagMarksEvents ==
    mIsInBlock <=> ~ \E t \in Threads : pc[t] \in {"Events", "ResetPost", "SetBlock"}
\* ... the copy is empty except while it is run; ...
CopyIsEmptyOutsideRun ==
    mCopyAsyncProcs # <<>> => \E t \in Threads : pc[t] = "RunAsync"
\* ... and queued procs have a wakeup or a loop that is about to swap.
QueuedIsNoticed ==
    mAsyncProcs # <<>> =>
        \/ Deliverable
        \/ WakeupComing
        \/ \E t \in Threads : pc[t] \in {"Unblock", "Events", "ResetPost", "SetBlock", "Swap"}

\* The inductive invariant of the wakeup protocol (EventLoop.cpp:157-296):
\* together its parts say that from any point of wakeup() and loop() a queued
\* proc is on its way to the loop.
WakeupInv ==
    /\ LoopIsExclusive
    /\ BlockFlagMarksEvents
    /\ PostFlagIsBacked
    /\ CopyIsEmptyOutsideRun
    /\ QueuedIsNoticed

\* After-loop procs run once each and in the order they were pushed, across
\* the swap of the two lists and pushes that happen while the copy runs.
AfterLoopOrder ==
    afterRan \o mCopyAfterLoopProcs \o mAfterLoopProcs = [i \in 1..afterPushed |-> i]

\* EventLoop implements the queue it promises to other threads: swap and copy
\* are invisible, nothing is lost, doubled or overtaken, and a queued proc is
\* run without the help of a timeout while the loop is driven.
Queue == INSTANCE AsyncQueue WITH
    pending <- mCopyAsyncProcs \o mAsyncProcs,
    driven <- mRunIOLoop

ImplementsAsyncQueue == Queue!ASpec

\* The safety half of the same refinement.
ImplementsAsyncQueueSafely == Queue!AInit /\ [][Queue!ANext]_(Queue!avars)

\* stopWorkerThread can join: once the flag is cleared and wakeup() called,
\* the loop thread leaves loop() without waiting for a timeout.
StopIsNoticed ==
    ~mRunIOLoop ~> \A t \in Threads : pc[t] \notin LoopPCs

\* Every after-loop proc is run while the loop is driven.
AfterLoopProcsRun ==
    mAfterLoopProcs # <<>> ~> (mAfterLoopProcs = <<>> \/ ~mRunIOLoop)

\* What the documentation says of pushAfterLoopProc: the proc is called at
\* the end of loop(), before it returns.
AfterLoopProcsRunBeforeReturn ==
    [][\A t \in Threads : Return(t) => mAfterLoopProcs = <<>>]_vars
=============================================================================
