-------------------------- MODULE EventLoopProofs ---------------------------
(***************************************************************************)
(* Machine-checked proofs about EventLoop, for any set of threads and any  *)
(* bounds: type correctness, no lost wakeup, no sleep on after-loop procs, *)
(* the refinement of AsyncQueue (safety), the order of after-loop procs.   *)
(***************************************************************************)
EXTENDS EventLoop, SequenceTheorems, TLAPS

(***************************************************************************)
(* Type correctness.                                                       *)
(***************************************************************************)

USE DEF Goto, isInLoopThread, PCs, WakeupPCs, LoopPCs, CallbackPCs

\* Every step of EventLoop.cpp keeps its variables within their types.
LEMMA TypeStep == TypeOK /\ [Next]_vars => TypeOK'
<1>1. TypeOK /\ UNCHANGED vars => TypeOK'
  BY DEF TypeOK, vars, driver, flags, kernel, queues, after
<1>2. ASSUME TypeOK, NEW t \in Threads, CallStep(t) PROVE TypeOK'
  <2>1. CASE PushAsyncProc(t)
    BY <1>2, <2>1 DEF TypeOK, PushAsyncProc, driver, flags, kernel, after
  <2>2. CASE Wakeup(t) \/ StopDriver(t)
    BY <1>2, <2>2 DEF TypeOK, Wakeup, StopDriver, driver, flags, kernel, queues, after
  <2>3. CASE GetTimerMgr(t)
    BY <1>2, <2>3 DEF TypeOK, GetTimerMgr, driver, flags, kernel, queues, after
  <2>4. CASE PushAfterLoopProc(t)
    BY <1>2, <2>4 DEF TypeOK, PushAfterLoopProc, driver, flags, kernel, queues
  <2> QED BY <1>2, <2>1, <2>2, <2>3, <2>4 DEF CallStep
<1>3. ASSUME TypeOK, NEW t \in Threads, WakeupStep(t) PROVE TypeOK'
  <2>1. CASE ReadBlock(t)
    BY <1>3, <2>1 DEF TypeOK, ReadBlock, driver, flags, kernel, queues, after
  <2>2. CASE Exchange(t)
    BY <1>3, <2>2 DEF TypeOK, Exchange, driver, flags, kernel, queues, after
  <2>3. CASE Write(t)
    BY <1>3, <2>3 DEF TypeOK, Write, driver, flags, kernel, queues, after
  <2> QED BY <1>3, <2>1, <2>2, <2>3 DEF WakeupStep
<1>4. ASSUME TypeOK, NEW t \in Threads, Loop(t) PROVE TypeOK'
  BY <1>4 DEF TypeOK, Loop, driver, flags, kernel, queues, after
<1>5. ASSUME TypeOK, NEW t \in Threads, EpollWakeup(t) \/ EpollOther(t) PROVE TypeOK'
  BY <1>5 DEF TypeOK, EpollWakeup, EpollOther, driver, flags, kernel, queues, after
<1>6. ASSUME TypeOK, NEW t \in Threads,
             Unblock(t) \/ CanRecv(t) \/ EventsDone(t) \/ ResetPost(t) \/ SetBlock(t)
      PROVE TypeOK'
  <2>1. CASE Unblock(t) \/ CanRecv(t)
    BY <1>6, <2>1 DEF TypeOK, Unblock, CanRecv, driver, flags, kernel, queues, after
  <2>2. CASE EventsDone(t) \/ ResetPost(t)
    BY <1>6, <2>2 DEF TypeOK, EventsDone, ResetPost, driver, flags, kernel, queues, after
  <2>3. CASE SetBlock(t)
    BY <1>6, <2>3 DEF TypeOK, SetBlock, driver, flags, kernel, queues, after
  <2> QED BY <1>6, <2>1, <2>2, <2>3
<1>7. ASSUME TypeOK, NEW t \in Threads,
             Swap(t) \/ RunAsyncDone(t) \/ SwapAfter(t) \/ RunAfterDone(t) \/ Return(t)
      PROVE TypeOK'
  <2>1. CASE Swap(t)
    BY <1>7, <2>1 DEF TypeOK, Swap, driver, flags, kernel, after
  <2>4. CASE RunAsyncDone(t)
    BY <1>7, <2>4 DEF TypeOK, RunAsyncDone, driver, flags, kernel, queues, after
  <2>2. CASE SwapAfter(t) \/ RunAfterDone(t)
    BY <1>7, <2>2 DEF TypeOK, SwapAfter, RunAfterDone, driver, flags, kernel, queues, after
  <2>3. CASE Return(t)
    BY <1>7, <2>3 DEF TypeOK, Return, driver, flags, kernel, queues, after
  <2> QED BY <1>7, <2>1, <2>2, <2>3, <2>4
<1>8. ASSUME TypeOK, NEW t \in Threads, RunAsync(t) PROVE TypeOK'
  <2>1. Head(mCopyAsyncProcs) \in Nat /\ mCopyAsyncProcs' \in Seq(Nat)
    BY <1>8, HeadTailProperties DEF TypeOK, RunAsync
  <2>2. executed' \in Seq(Nat)
    BY <1>8, <2>1 DEF TypeOK, RunAsync
  <2> QED BY <1>8, <2>1, <2>2 DEF TypeOK, RunAsync, driver, flags, kernel, after
<1>9. ASSUME TypeOK, NEW t \in Threads, RunAfter(t) PROVE TypeOK'
  <2>1. Head(mCopyAfterLoopProcs) \in Nat /\ mCopyAfterLoopProcs' \in Seq(Nat)
    BY <1>9, HeadTailProperties DEF TypeOK, RunAfter
  <2>2. afterRan' \in Seq(Nat)
    BY <1>9, <2>1 DEF TypeOK, RunAfter
  <2> QED BY <1>9, <2>1, <2>2 DEF TypeOK, RunAfter, driver, flags, kernel, queues
<1> QED BY <1>1, <1>2, <1>3, <1>4, <1>5, <1>6, <1>7, <1>8, <1>9 DEF Next, BodyStep

\* Type correctness of the whole loop: in particular the queues only ever
\* hold procs that were pushed as such.
THEOREM TypeCorrect == Spec => []TypeOK
<1>1. Init => TypeOK
  <2> SUFFICES ASSUME Init PROVE TypeOK
    OBVIOUS
  <2>1. /\ mAsyncProcs \in Seq(Nat) /\ mCopyAsyncProcs \in Seq(Nat)
        /\ mAfterLoopProcs \in Seq(Nat) /\ mCopyAfterLoopProcs \in Seq(Nat)
        /\ executed \in Seq(Nat) /\ afterRan \in Seq(Nat)
    BY DEF Init
  <2>2. pc \in [Threads -> PCs] /\ timeout \in {"zero", "block"}
    BY DEF Init
  <2> QED BY <2>1, <2>2 DEF Init, TypeOK
<1> QED BY <1>1, TypeStep, PTL DEF Spec

(***************************************************************************)
(* No lost wakeup.  The proof goes through WakeupInv, one step per action. *)
(***************************************************************************)

\* Every step of wakeup() and loop() preserves the wakeup invariant.
LEMMA WakeupInvStep == TypeOK /\ WakeupInv /\ [Next]_vars => WakeupInv'
<1> USE DEF WakeupInv, LoopIsExclusive, BlockFlagMarksEvents, PostFlagIsBacked,
     CopyIsEmptyOutsideRun, QueuedIsNoticed, Deliverable, WakeupComing
<1>1. TypeOK /\ WakeupInv /\ UNCHANGED vars => WakeupInv'
  BY DEF vars, driver, flags, kernel, queues
<1>2. ASSUME TypeOK, WakeupInv, NEW t \in Threads, CallStep(t) PROVE WakeupInv'
  <2>1. CASE PushAsyncProc(t)
    <3>1. pc[t] = "Idle" /\ pc' = [pc EXCEPT ![t] = "ReadBlock"] /\ WakeupComing'
      BY <2>1, <1>2 DEF TypeOK, PushAsyncProc
    <3>2. UNCHANGED <<driver, flags, kernel, mCopyAsyncProcs>>
      BY <2>1 DEF PushAsyncProc
    <3>3. \A u \in Threads : u # t => pc'[u] = pc[u]
      BY <1>2, <3>1 DEF TypeOK
    <3>4. pc'[t] = "ReadBlock"
      BY <1>2, <3>1 DEF TypeOK
    <3>5. \A u \in Threads : pc'[u] # "ReadBlock" => pc'[u] = pc[u]
      BY <3>3, <3>4
    <3>6. \A u \in Threads : pc[u] # "Idle" => pc'[u] = pc[u]
      BY <3>1, <3>3
    <3>7. LoopIsExclusive' /\ CopyIsEmptyOutsideRun'
      BY <1>2, <3>2, <3>5, <3>6 DEF driver
    <3>8. BlockFlagMarksEvents' /\ PostFlagIsBacked'
      BY <1>2, <3>2, <3>5, <3>6 DEF flags, kernel
    <3>9. QueuedIsNoticed'
      BY <3>1
    <3> QED BY <3>7, <3>8, <3>9
  <2>2. CASE Wakeup(t) \/ StopDriver(t)
    <3>1. pc[t] = "Idle" /\ pc' = [pc EXCEPT ![t] = "ReadBlock"] /\ WakeupComing'
      BY <2>2, <1>2 DEF TypeOK, Wakeup, StopDriver
    <3>2. UNCHANGED <<mSelfThreadID, flags, kernel, mAsyncProcs, mCopyAsyncProcs>>
      BY <2>2 DEF Wakeup, StopDriver, driver, queues
    <3> QED BY <1>2, <3>1, <3>2 DEF TypeOK, flags, kernel
  <2>3. CASE GetTimerMgr(t)
    BY <1>2, <2>3, ThreadsAssumption DEF TypeOK, GetTimerMgr, flags, kernel, queues
  <2>4. CASE PushAfterLoopProc(t)
    BY <1>2, <2>4 DEF PushAfterLoopProc, driver, flags, kernel, queues
  <2> QED BY <1>2, <2>1, <2>2, <2>3, <2>4 DEF CallStep
<1>3. ASSUME TypeOK, WakeupInv, NEW t \in Threads, ReadBlock(t) PROVE WakeupInv'
  BY <1>3 DEF TypeOK, ReadBlock, driver, flags, kernel, queues
<1>4. ASSUME TypeOK, WakeupInv, NEW t \in Threads, Exchange(t) PROVE WakeupInv'
  BY <1>4 DEF TypeOK, Exchange, driver, kernel, queues
<1>5. ASSUME TypeOK, WakeupInv, NEW t \in Threads, Write(t) PROVE WakeupInv'
  BY <1>5 DEF TypeOK, Write, driver, flags, queues
<1>6. ASSUME TypeOK, WakeupInv, NEW t \in Threads, Loop(t) PROVE WakeupInv'
  BY <1>6, ThreadsAssumption DEF TypeOK, Loop, flags, kernel, queues
<1>7. ASSUME TypeOK, WakeupInv, NEW t \in Threads, EpollWakeup(t) \/ EpollOther(t)
      PROVE WakeupInv'
  BY <1>7 DEF TypeOK, EpollWakeup, EpollOther, driver, flags, queues
<1>8. ASSUME TypeOK, WakeupInv, NEW t \in Threads, Unblock(t) PROVE WakeupInv'
  BY <1>8 DEF TypeOK, Unblock, driver, kernel, queues
<1>9. ASSUME TypeOK, WakeupInv, NEW t \in Threads, CanRecv(t) \/ EventsDone(t)
      PROVE WakeupInv'
  BY <1>9 DEF TypeOK, CanRecv, EventsDone, driver, flags, kernel, queues
<1>10. ASSUME TypeOK, WakeupInv, NEW t \in Threads, ResetPost(t) PROVE WakeupInv'
  BY <1>10 DEF TypeOK, ResetPost, driver, kernel, queues
<1>11. ASSUME TypeOK, WakeupInv, NEW t \in Threads, SetBlock(t) PROVE WakeupInv'
  BY <1>11 DEF TypeOK, SetBlock, driver, kernel, queues
<1>12. ASSUME TypeOK, WakeupInv, NEW t \in Threads, Swap(t) PROVE WakeupInv'
  BY <1>12 DEF TypeOK, Swap, driver, flags, kernel
<1>13. ASSUME TypeOK, WakeupInv, NEW t \in Threads, RunAsync(t) \/ RunAsyncDone(t)
       PROVE WakeupInv'
  <2>1. CASE RunAsync(t)
    BY <1>13, <2>1 DEF TypeOK, RunAsync, driver, flags, kernel
  <2>2. CASE RunAsyncDone(t)
    BY <1>13, <2>2 DEF TypeOK, RunAsyncDone, driver, flags, kernel, queues
  <2> QED BY <1>13, <2>1, <2>2
<1>14. ASSUME TypeOK, WakeupInv, NEW t \in Threads,
              SwapAfter(t) \/ RunAfter(t) \/ RunAfterDone(t) \/ Return(t)
       PROVE WakeupInv'
  <2>1. PICK l \in {"RunAfter", "Schedule", "Idle"} :
            pc' = [pc EXCEPT ![t] = l] /\ pc[t] \in {"SwapAfter", "RunAfter", "Schedule"}
                                      /\ (l = "Idle" \/ pc[t] \in LoopPCs)
    BY <1>14 DEF TypeOK, SwapAfter, RunAfter, RunAfterDone, Return
  <2>2. UNCHANGED <<mSelfThreadID, flags, kernel, mAsyncProcs, mCopyAsyncProcs>>
    BY <1>14 DEF SwapAfter, RunAfter, RunAfterDone, Return, driver, queues
  <2> QED BY <1>14, <2>1, <2>2 DEF TypeOK, flags, kernel
<1> QED BY <1>1, <1>2, <1>3, <1>4, <1>5, <1>6, <1>7, <1>8, <1>9, <1>10, <1>11,
           <1>12, <1>13, <1>14 DEF Next, WakeupStep, BodyStep

\* The wakeup invariant holds throughout every run of the loop.
THEOREM WakeupInvariant == Spec => []WakeupInv
<1>1. Init => WakeupInv
  BY DEF Init, WakeupInv, LoopIsExclusive, BlockFlagMarksEvents, PostFlagIsBacked,
     CopyIsEmptyOutsideRun, QueuedIsNoticed
<1> QED BY <1>1, TypeCorrect, WakeupInvStep, PTL DEF Spec

\* For any number of threads: a loop in epoll_wait with procs in mAsyncProcs
\* has its wakeup delivered or under way.
THEOREM NoWakeupIsLost == Spec => []NoLostWakeup
<1>1. WakeupInv => NoLostWakeup
  BY DEF WakeupInv, LoopIsExclusive, QueuedIsNoticed, NoLostWakeup
<1> QED BY <1>1, WakeupInvariant, PTL

\* The suppression flag is always backed by a write that is coming or has
\* been delivered, or by a loop that is about to reset it.
THEOREM PostFlagBacked == Spec => []PostFlagIsBacked
<1>1. WakeupInv => PostFlagIsBacked
  BY DEF WakeupInv
<1> QED BY <1>1, WakeupInvariant, PTL

(***************************************************************************)
(* EventLoop implements AsyncQueue (safety).                               *)
(***************************************************************************)

\* Handing the copy and the queue over in one sequence: a push lands behind
\* everything that waits, ...
LEMMA PushBehind ==
  ASSUME NEW c \in Seq(Nat), NEW q \in Seq(Nat), NEW x \in Nat
  PROVE  c \o Append(q, x) = Append(c \o q, x)
  OBVIOUS

\* ... and running the head of the copy takes the oldest of all.
LEMMA RunOldest ==
  ASSUME NEW c \in Seq(Nat), NEW q \in Seq(Nat), c # <<>>
  PROVE  /\ c \o q # <<>>
         /\ Head(c \o q) = Head(c)
         /\ Tail(c \o q) = Tail(c) \o q
<1>1. Len(c) \in Nat \ {0} /\ Len(q) \in Nat
  BY EmptySeq, LenProperties
<1>2. c \o q # <<>>
  BY <1>1
<1>3. Head(c \o q) = Head(c)
  BY <1>1
<1>4. Tail(c \o q) = Tail(c) \o q
  BY <1>1
<1> QED BY <1>2, <1>3, <1>4

\* Each step of EventLoop is a push, a run or a stop of AsyncQueue or is
\* invisible there; in particular the unlocked run of the copy after the
\* swap neither loses nor reorders procs.
LEMMA QueueStep == TypeOK /\ WakeupInv /\ [Next]_vars => [Queue!ANext]_(Queue!avars)
<1> SUFFICES ASSUME TypeOK, WakeupInv, [Next]_vars
             PROVE  [Queue!ANext]_(Queue!avars)
  OBVIOUS
<1>1. CASE UNCHANGED vars
  BY <1>1 DEF vars, queues, driver, Queue!avars
<1>2. ASSUME NEW t \in Threads, PushAsyncProc(t) PROVE Queue!APush
  <2>1. mCopyAsyncProcs \o Append(mAsyncProcs, pushed + 1)
          = Append(mCopyAsyncProcs \o mAsyncProcs, pushed + 1)
    <3>1. mCopyAsyncProcs \in Seq(Nat) /\ mAsyncProcs \in Seq(Nat) /\ pushed + 1 \in Nat
      BY DEF TypeOK
    <3> QED BY <3>1, PushBehind
  <2>2. mCopyAsyncProcs' = mCopyAsyncProcs /\ mAsyncProcs' = Append(mAsyncProcs, pushed + 1)
    BY <1>2 DEF PushAsyncProc
  <2>3. mCopyAsyncProcs' \o mAsyncProcs' = Append(mCopyAsyncProcs \o mAsyncProcs, pushed + 1)
    BY <2>1, <2>2
  <2> QED BY <1>2, <2>3 DEF PushAsyncProc, driver, Queue!APush
<1>3. ASSUME NEW t \in Threads, RunAsync(t) PROVE Queue!ARun
  BY <1>3, RunOldest DEF RunAsync, driver, TypeOK, Queue!ARun
<1>4. ASSUME NEW t \in Threads, StopDriver(t) PROVE Queue!AStop
  BY <1>4 DEF StopDriver, queues, Queue!AStop
<1>5. ASSUME NEW t \in Threads, Swap(t) PROVE UNCHANGED Queue!avars
  <2>1. mCopyAsyncProcs = <<>>
    BY <1>5 DEF WakeupInv, CopyIsEmptyOutsideRun, LoopIsExclusive, Swap
  <2>2. mCopyAsyncProcs' \o mAsyncProcs' = mCopyAsyncProcs \o mAsyncProcs
    BY <1>5, <2>1, ConcatEmptySeq DEF Swap, TypeOK
  <2> QED BY <1>5, <2>2 DEF Swap, driver, Queue!avars
<1>6. ASSUME NEW t \in Threads,
             Wakeup(t) \/ GetTimerMgr(t) \/ PushAfterLoopProc(t) \/ WakeupStep(t)
      PROVE UNCHANGED Queue!avars
  BY <1>6 DEF Wakeup, GetTimerMgr, PushAfterLoopProc, WakeupStep, ReadBlock,
     Exchange, Write, driver, queues, Queue!avars
<1>7. ASSUME NEW t \in Threads, Loop(t) \/ EpollWakeup(t) \/ EpollOther(t)
      PROVE UNCHANGED Queue!avars
  BY <1>7 DEF Loop, EpollWakeup, EpollOther, driver, queues, Queue!avars
<1>8. ASSUME NEW t \in Threads,
             \/ Unblock(t) \/ CanRecv(t) \/ EventsDone(t) \/ ResetPost(t) \/ SetBlock(t)
             \/ RunAsyncDone(t) \/ SwapAfter(t) \/ RunAfter(t) \/ RunAfterDone(t)
             \/ Return(t)
      PROVE UNCHANGED Queue!avars
  <2>1. UNCHANGED <<driver, queues>>
    BY <1>8 DEF Unblock, CanRecv, EventsDone, ResetPost, SetBlock, RunAsyncDone,
       SwapAfter, RunAfter, RunAfterDone, Return
  <2> QED BY <2>1 DEF driver, queues, Queue!avars
<1> QED BY <1>1, <1>2, <1>3, <1>4, <1>5, <1>6, <1>7, <1>8
        DEF Next, CallStep, BodyStep, Queue!ANext

\* For any number of threads and pushes, the mutex, the swap and the copy
\* behave like one queue that runs each proc once and in order.
THEOREM ImplementsQueue == Spec => ImplementsAsyncQueueSafely
<1>1. Init => Queue!AInit
  BY DEF Init, Queue!AInit
<1> QED BY <1>1, TypeCorrect, WakeupInvariant, QueueStep, PTL
        DEF Spec, ImplementsAsyncQueueSafely

(***************************************************************************)
(* After-loop procs run once each and in order.                            *)
(***************************************************************************)

\* The copy is empty when it is swapped in: processAfterLoopProcs leaves it so.
AfterCopyIsEmptyOutsideRun ==
    mCopyAfterLoopProcs # <<>> => \E t \in Threads : pc[t] = "RunAfter"

AfterInv == AfterLoopOrder /\ AfterCopyIsEmptyOutsideRun

\* The numbers of the first n procs, and one more.
LEMMA CountOn ==
  ASSUME NEW n \in Nat
  PROVE  Append([i \in 1..n |-> i], n + 1) = [i \in 1..(n + 1) |-> i]
<1> DEFINE s == [i \in 1..n |-> i]
           u == [i \in 1..(n + 1) |-> i]
<1>1. s \in Seq(Nat) /\ Len(s) = n /\ u \in Seq(Nat) /\ Len(u) = n + 1
  <2>1. s \in [1..n -> Nat] /\ u \in [1..(n + 1) -> Nat] /\ n + 1 \in Nat
    OBVIOUS
  <2> QED BY <2>1, SeqDef, LenProperties
<1>2. \A i \in 1..n : s[i] = i
  OBVIOUS
<1>3. \A i \in 1..(n + 1) : u[i] = i
  OBVIOUS
<1> HIDE DEF s, u
<1>4. /\ Append(s, n + 1) \in Seq(Nat) /\ Len(Append(s, n + 1)) = n + 1
      /\ \A i \in 1..n : Append(s, n + 1)[i] = i
      /\ Append(s, n + 1)[n + 1] = n + 1
  BY <1>1, <1>2, AppendProperties
<1>5. \A i \in 1..(n + 1) : Append(s, n + 1)[i] = u[i]
  BY <1>3, <1>4
<1>6. Append(s, n + 1) = u
  BY <1>1, <1>4, <1>5, SeqEqual
<1> QED BY <1>6 DEF s, u

\* Moving the head of the copy behind what has run changes nothing in sequence.
LEMMA RunMovesOn ==
  ASSUME NEW a \in Seq(Nat), NEW c \in Seq(Nat), c # <<>>
  PROVE  Append(a, Head(c)) \o Tail(c) = a \o c
<1>1. Head(c) \in Nat /\ Tail(c) \in Seq(Nat) /\ Len(c) \in Nat \ {0} /\ Len(Tail(c)) = Len(c) - 1
  BY HeadTailProperties, EmptySeq
<1> DEFINE x == Append(a, Head(c))
           u == Tail(c)
           m == Len(a)
           n == Len(c)
           f == x \o u
           g == a \o c
<1>2. /\ x \in Seq(Nat) /\ Len(x) = m + 1 /\ x[m + 1] = c[1] /\ m \in Nat
      /\ \A i \in 1..m : x[i] = a[i]
  BY <1>1, AppendProperties, HeadTailProperties, LenProperties
<1>3. u \in Seq(Nat) /\ Len(u) = n - 1 /\ n \in Nat \ {0} /\ \A i \in 1..(n - 1) : u[i] = c[i + 1]
  BY <1>1, HeadTailProperties
<1> HIDE DEF x, u
<1>4. /\ f \in Seq(Nat) /\ Len(f) = Len(x) + Len(u)
      /\ \A i \in 1..(Len(x) + Len(u)) : f[i] = IF i <= Len(x) THEN x[i] ELSE u[i - Len(x)]
  BY <1>2, <1>3, ConcatProperties
<1>5. /\ g \in Seq(Nat) /\ Len(g) = m + n
      /\ \A i \in 1..(m + n) : g[i] = IF i <= m THEN a[i] ELSE c[i - m]
  BY ConcatProperties
<1> HIDE DEF m, n, f, g
<1>6. Len(x) + Len(u) = m + n
  BY <1>2, <1>3
<1>7. ASSUME NEW i \in 1..(m + n) PROVE f[i] = g[i]
  <2>1. f[i] = IF i <= m + 1 THEN x[i] ELSE u[i - (m + 1)]
    BY <1>2, <1>4, <1>6
  <2>2. g[i] = IF i <= m THEN a[i] ELSE c[i - m]
    BY <1>5
  <2>3. CASE i <= m
    <3>1. i \in 1..m /\ i <= m + 1
      BY <1>2, <1>3, <2>3
    <3> QED BY <1>2, <2>1, <2>2, <2>3, <3>1
  <2>4. CASE i = m + 1
    <3>1. ~(i <= m) /\ i - m = 1 /\ i <= m + 1
      BY <1>2, <2>4
    <3> QED BY <1>2, <2>1, <2>2, <2>4, <3>1
  <2>5. CASE i > m + 1
    <3>1. ~(i <= m) /\ ~(i <= m + 1) /\ i - (m + 1) \in 1..(n - 1) /\ (i - (m + 1)) + 1 = i - m
      BY <1>2, <1>3, <2>5
    <3>2. u[i - (m + 1)] = c[i - m]
      BY <1>3, <3>1
    <3> QED BY <2>1, <2>2, <3>1, <3>2
  <2> QED BY <1>2, <1>3, <2>3, <2>4, <2>5
<1>8. f = g
  BY <1>4, <1>5, <1>6, <1>7, SeqEqual
<1> QED BY <1>8 DEF f, g, x, u

\* Every step keeps the order of the after-loop procs.
LEMMA AfterInvStep == TypeOK /\ WakeupInv /\ AfterInv /\ [Next]_vars => AfterInv'
<1> SUFFICES ASSUME TypeOK, WakeupInv, AfterInv, [Next]_vars
             PROVE  AfterInv'
  OBVIOUS
<1> DEFINE a == afterRan
           c == mCopyAfterLoopProcs
           q == mAfterLoopProcs
<1>1. /\ a \in Seq(Nat) /\ c \in Seq(Nat) /\ q \in Seq(Nat) /\ afterPushed \in Nat
      /\ a \o c \o q = [i \in 1..afterPushed |-> i]
  BY DEF TypeOK, AfterInv, AfterLoopOrder
<1>2. ASSUME NEW t \in Threads, PushAfterLoopProc(t) PROVE AfterInv'
  <2>1. a' = a /\ c' = c /\ q' = Append(q, afterPushed + 1) /\ afterPushed' = afterPushed + 1 /\ pc' = pc
    BY <1>2 DEF PushAfterLoopProc
  <2>2. (a \o c) \o Append(q, afterPushed + 1) = Append((a \o c) \o q, afterPushed + 1)
    <3>1. a \o c \in Seq(Nat) /\ afterPushed + 1 \in Nat
      BY <1>1
    <3> QED BY <1>1, <3>1, PushBehind
  <2>3. a \o c \o Append(q, afterPushed + 1) = [i \in 1..(afterPushed + 1) |-> i]
    BY <1>1, <2>2, CountOn
  <2>4. AfterLoopOrder'
    BY <2>1, <2>3 DEF AfterLoopOrder
  <2> QED BY <2>1, <2>4 DEF AfterInv, AfterCopyIsEmptyOutsideRun
<1>3. ASSUME NEW t \in Threads, SwapAfter(t) PROVE AfterInv'
  <2>1. c = <<>>
    BY <1>3 DEF SwapAfter, AfterInv, AfterCopyIsEmptyOutsideRun, WakeupInv, LoopIsExclusive
  <2>2. a' = a /\ c' = q /\ q' = <<>> /\ afterPushed' = afterPushed /\ pc'[t] = "RunAfter"
    BY <1>3, <2>1 DEF SwapAfter, TypeOK
  <2>3. a \o c = a /\ (a \o q) \o <<>> = a \o q
    BY <1>1, <2>1, ConcatEmptySeq
  <2>4. AfterLoopOrder'
    BY <1>1, <2>2, <2>3 DEF AfterLoopOrder
  <2> QED BY <2>2, <2>4 DEF AfterInv, AfterCopyIsEmptyOutsideRun
<1>4. ASSUME NEW t \in Threads, RunAfter(t) PROVE AfterInv'
  <2>1. /\ c # <<>> /\ a' = Append(a, Head(c)) /\ c' = Tail(c) /\ q' = q
        /\ afterPushed' = afterPushed /\ pc' = pc /\ pc[t] = "RunAfter"
    BY <1>4 DEF RunAfter
  <2>2. a' \o c' = a \o c
    BY <1>1, <2>1, RunMovesOn
  <2>3. AfterLoopOrder'
    BY <1>1, <2>1, <2>2 DEF AfterLoopOrder
  <2> QED BY <2>1, <2>3 DEF AfterInv, AfterCopyIsEmptyOutsideRun
<1>5. ASSUME NEW t \in Threads, RunAfterDone(t) PROVE AfterInv'
  BY <1>5 DEF RunAfterDone, after, AfterInv, AfterCopyIsEmptyOutsideRun, AfterLoopOrder
<1>6. ASSUME UNCHANGED after, \A t \in Threads : pc[t] = "RunAfter" => pc'[t] = "RunAfter"
      PROVE  AfterInv'
  BY <1>6 DEF after, AfterInv, AfterCopyIsEmptyOutsideRun, AfterLoopOrder
<1>7. CASE UNCHANGED vars
  BY <1>6, <1>7 DEF vars
<1>8. ASSUME NEW t \in Threads, PushAsyncProc(t) \/ Wakeup(t) \/ StopDriver(t) \/ GetTimerMgr(t)
      PROVE AfterInv'
  BY <1>6, <1>8 DEF PushAsyncProc, Wakeup, StopDriver, GetTimerMgr, TypeOK
<1>9. ASSUME NEW t \in Threads, WakeupStep(t) PROVE AfterInv'
  BY <1>6, <1>9 DEF WakeupStep, ReadBlock, Exchange, Write, TypeOK
<1>10. ASSUME NEW t \in Threads, Loop(t) \/ EpollWakeup(t) \/ EpollOther(t) PROVE AfterInv'
  BY <1>6, <1>10 DEF Loop, EpollWakeup, EpollOther, TypeOK
<1>11. ASSUME NEW t \in Threads,
              \/ Unblock(t) \/ CanRecv(t) \/ EventsDone(t) \/ ResetPost(t) \/ SetBlock(t)
              \/ Swap(t) \/ RunAsync(t) \/ RunAsyncDone(t) \/ Return(t)
       PROVE  AfterInv'
  BY <1>6, <1>11 DEF Unblock, CanRecv, EventsDone, ResetPost, SetBlock, Swap, RunAsync,
     RunAsyncDone, Return, TypeOK
<1> QED BY <1>2, <1>3, <1>4, <1>5, <1>7, <1>8, <1>9, <1>10, <1>11 DEF Next, CallStep, BodyStep

\* After-loop procs run once each and in the order they were pushed
\* (EventLoop.cpp:263-273), for any number of them and any mix of pushes
\* before, between and while they run.
THEOREM AfterLoopProcsInOrder == Spec => []AfterLoopOrder
<1>1. Init => AfterInv
  <2> SUFFICES ASSUME Init PROVE AfterInv
    OBVIOUS
  <2>1. <<>> \o <<>> \o <<>> = [i \in 1..0 |-> i]
    <3>1. [i \in 1..0 |-> i] = <<>>
      OBVIOUS
    <3> QED BY <3>1, ConcatEmptySeq
  <2> QED BY <2>1 DEF Init, AfterInv, AfterLoopOrder, AfterCopyIsEmptyOutsideRun
<1>2. AfterInv => AfterLoopOrder
  BY DEF AfterInv
<1> QED BY <1>1, <1>2, TypeCorrect, WakeupInvariant, AfterInvStep, PTL DEF Spec
=============================================================================
