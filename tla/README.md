# A verification project for brynet

brynet is a TCP library for C++11: event loops on worker threads, connections
that belong to a loop and are used from any thread, a service that names them
by 64-bit ids, and helpers on top (connector, listener, HTTP, WebSocket). This
directory holds TLA+ models of its core for the Linux build, the TLC
configurations that check them and TLAPS proofs that most of their safety
properties hold for every size of the system. `PROJECT.json` lists the runs, the source lines behind every
definition, the hazards, the mutants and the theorems.

## 1. Inventory

| Component | State | Operations | Hard behaviour | What makes it correct |
|---|---|---|---|---|
| `EventLoop` | two lists of async procs, two of after-loop procs, `mIsInBlock`, `mIsAlreadyPostWakeup`, eventfd in an edge-triggered epoll set, the loop's thread | `pushAsyncProc`, `pushAfterLoopProc`, `wakeup`, `loop`, `getTimerMgr` | flags read and written without the mutex that guards the queue; procs run from an unlocked copy | no wakeup is lost; each proc runs once, in order; `stop` is noticed; after-loop procs do not wait for traffic |
| `DataSocket` | socket, send list with the rest of each packet, `mCanWrite`, `mIsPostFlush`, `mIsPostFinalClose`, receive buffer, heartbeat timer | `send`, flush, `canRecv`, `canSend`, `onClose`, `postShutdown`, `postDisConnect`, heartbeat | partial writes, edges reported once, callbacks that call back in the middle of a flush, raw `this` in queued lambdas, deletion | bytes and complete callbacks accounted for; one disconnect callback, last; nothing stalls; nothing is used after it is gone |
| `TcpService` table | per loop a `TypeIDS` (values, stack of free slots) and a serial number | add, enter, close, calls by id | ids outlive sessions, slots are reused, loops are restarted | an id reaches its session or nobody; slots neither shared nor lost |
| `TcpService` workers | `mServiceGuard`, `mIOLoopGuard`, the vector of loops, the run flag, threads | `startWorkerThread`, `stopWorkerThread`, lookups | join with a mutex held; callbacks on workers take it | no worker outlives the table it indexes; calls return |
| `AsyncConnector` | map and poll set by descriptor, `mIsRun`, `mThreadGuard`, worker | `asyncConnect`, `startWorkerThread`, `stopWorkerThread`, worker passes | success, refusal, timeout and stop race; callbacks reconnect; the kernel reuses descriptors | one callback per request; no descriptor leaks or is polled after it was given away |
| `WrapTcpService`, `TCPSession` | shared pointers to sessions | forwards to `TcpService` | enter callback looks its own loop up | as `TcpService` |
| Timer, `TimerMgr` | heap of weak/shared timers | add, cancel, schedule, nearest end time | callbacks that add timers; heartbeat re-arms from inside its own timer | runs once, not early, in order; heartbeat keeps running |
| Receive path, `PromiseReceive` | ring of the receive buffer, list of promises | `recv`, grow, adjust, data callback | full buffer with edge-triggered epoll; partial consumption | bytes reach the callback in order, none lost |
| `ListenThread`, `SyncConnector` | run flag, thread, listen socket; promise | start, stop, accept; connect with a deadline | stop by connecting to itself; late callback after the deadline | stop returns; a socket is not lost |
| `HttpService`, `HTTPParser`, http_parser | parser state and what its callbacks collect, keep-alive, upgrade | data and disconnect callback, `tryParse`, parse callbacks | messages cut anywhere, several on one session, messages the parser refuses | each message is presented once, when it is complete, as it was sent |
| WebSocket frames | cached fragments and their type | frame build and extract, `ProcessWebSocket` | fragments with control frames between them, three forms of the length | WebSocket messages survive any fragmentation |
| Containers (`stack.c`, `fdset.c`, `MsgQueue`, `WaitGroup`) | rings, sets, counters | push, pop, grow, add, del, wait | ring indices at their limits; notify without the mutex | behave as sequences and sets; a wait ends |
| sockets, SSL, digests, coroutine, files | | | | vendored code, standard algorithms or thin wrappers |

Interaction: a `TcpService` owns workers, each with one `EventLoop` and one
table of sessions. User threads reach a `DataSocket` only through
`pushAsyncProc` of its loop; the `DataSocket` defers flush, shutdown and its own
deletion with `pushAfterLoopProc` to the end of the round. `AsyncConnector` has
a worker and an `EventLoop` of its own. Callbacks of users run on workers and
may call everything again; on the loop thread `pushAsyncProc` runs the proc
inline. The 40 places where this is hard to test are the `hazards` of
`PROJECT.json`; the ones no property covers yet carry the reason.

## 2. Modules

| Module | Models | Composes |
|---|---|---|
| `AsyncQueue` | what `pushAsyncProc` promises: a queue that runs each proc once, in order, while the loop is driven | abstract specification |
| `EventLoop` | `EventLoop.cpp` | refines `AsyncQueue` |
| `EventLoopProofs` | the theorems about `EventLoop` | extends `EventLoop` |
| `DataSocket` | sending, closing and deleting one connection, its loop, the kernel, the peer | takes the queue of its loop from `AsyncQueue` |
| `TcpService`, `MCTcpService` | the table of sessions and the ids; the symmetry set for TLC | queue per loop from `AsyncQueue` |
| `WorkerLifecycle` | starting and stopping workers, with the locks | abstracts the loop to "returns in the end", which `StopIsNoticed` of `EventLoop` shows |
| `Connector` | `AsyncConnector` and the kernel's descriptors | queue from `AsyncQueue` |
| `Buffer`, `TimerMgr` | `buffer.c`; `Timer.cpp` and `Timer.h` | operators, used by `Receive` |
| `Receive`, `MCReceive` | receiving on one connection, `PromiseReceive`, the heartbeat; streams and scripts for TLC | `Buffer`, `TimerMgr` |
| `HttpFormat`, `UrlParser`, `HttpParser`, `HttpExecute` | `HttpFormat.h`; the URL parser; the callbacks of `HTTPParser`; `http_parser_execute` | operators, each extends the one before |
| `WebSocketFormat` | `WebSocketFormat.h` and the loop of `ProcessWebSocket` over the frames of a read | operators |
| `HttpService`, `MCHttp` | the HTTP and WebSocket side of one session; the streams for TLC | the two above |
| `Listen` | `ListenThread` and `SyncConnector` | reduces `Connector` to its promise of one callback per request, but for one that a shared connector loses |
| `DataSocketProofs`, `TcpServiceProofs`, `WorkerLifecycleProofs`, `ConnectorProofs`, `ReceiveProofs`, `ListenProofs` | the inductive invariants of these modules and the theorems about them | each extends its module |
| `WebSocketProofs` | the theorems about `WebSocketFormat`: operators, not a specification | extends `WebSocketFormat` |

Names of variables and actions are those of the code. An operator with a
suffix after an underscore (`RunAsync_Newest`, `OnClose_NoTest`, ...) is
a mutant: a plausible bug with the parameters of the definition behind it. It is
part of no specification; each property is broken by its mutant.

### EventLoop
One action per read, write or exchange of shared state. `pc` gives the point
each thread is at: `ReadBlock`, `Exchange`, `Write` are the three steps of
`wakeup()` (lines 287-296), the ten points of `LoopPCs` are `loop()` in program
order. The eventfd is its counter (`eventfd`) and its place on epoll's ready list
(`ready`): epoll looks at the counter again before it reports, and reporting takes
the channel off the list. `EpollOther` is every other reason to return, a
timeout included. Procs are numbered by their push. `pushAsyncProc` on the loop
thread runs its proc inline and leaves no trace. Bounds: `MaxProcs`, `MaxAfter`.

### DataSocket
The loop thread goes through the phases `Wait`, `Events`, `Async`, `After`
(with `Flush` and `Ack` inside a flush) and `Schedule`, as `loop()` does. `ds` is
the object with its lambdas in `mAfterLoopProcs`; `Apply` is what `send`,
`postDisConnect` and `postShutdown` do when they run on the loop. `Writev(n)`
takes any number of bytes that the send buffer has room for, `AckComplete` and
its neighbours are the loop over the packets in `quickFlush`, a complete callback may
call back (`CompleteActs`). Undefined behaviour is recorded in `fault` and ends
the behaviour. Two simplifications: the data callback stands for the whole
receive path, and `Schedule(TRUE)` for a heartbeat that finds no traffic; both
are modelled in `Receive`.
`writev` given only empty packets returns 0 and leaves `errno` alone: the code
then acts on a stale value, so both outcomes are possible (`WriteNothing`).

### TcpService
`loopData[l]` is `IOLoopData` with its `TypeIDS`: `mValues`, `mIds` (the free
stack) and `mNextId`. `MakeID` packs loop, slot and serial with the widths of
`SessionId` as constants (`IndexMod`, `IidMod`). `known` are the ids users hold,
with the socket they were given for: they are never forgotten. `reached` records for every call the socket
that was meant and the one that was found. A stop leaves everything as it is; a start makes new tables.

### WorkerLifecycle
Every lock is a step. `Begin` starts a call, `LockService` and the second lock
follow, `Join` waits for one worker at a time with both mutexes held. Workers
test the flag, run `loop()`, and in it callbacks may make the same calls
(`WorkerCallback`), as the enter callback of `WrapTcpService` does with the lookup. A worker that
stops the service joins itself: the error is swallowed, its own entry is dropped
(`TCPService.cpp:172-179`), and the process ends by the destructor of a joinable thread, or the worker runs on without a
table if a `TCPSession` holds the entry. The model records this as `fault = "selfJoin"` and ends there.

### Connector
The worker's round is `Procs` (the loop), `Check` (`checkConnectStatus`), `Timeout`
(`checkTimeout`), and at the end `CauseAllFailed`. A callback is a state
(`Callback`) in which user code drops the socket or asks for another
connection, which on the worker is processed inline. `asyncConnect` holds
`mThreadGuard` meanwhile: a request that is answered at once runs its callback nested
and under the mutex (`mThreadGuard = "worker"` until `NestedReturns`). If that callback asks for
a connection too, its thread waits for itself with `std::mutex` (C++11 build);
`shared_lock` (C++17) does not define the case, and `NestedConnects`, which no fairness
forces, is the outcome that gets through. `stopWorkerThread` is three steps: called, mutex taken, joined. `NewFd` is the lowest free
descriptor. Time is abstract: any entry may be out of time in any pass.
`stopWorkerThread` from a callback on the worker itself is not modelled: its join fails, `catch(...)` hides it, and dropping
`mThread` while it is joinable ends the process.

### Receive
The receiving half of `DataSocket`. A byte is its position in the stream of the
peer, so that a lost, doubled or moved byte shows; what the bytes say
(`stream`) matters to `receiveUntil` only. `rb` is the buffer of `buffer.c` with
its memory. The phases are those of `DataSocket`, with `Recv` and `Callback`
inside: `RecvReads` is one `::recv` up to the data callback, `Consume` what
follows the callback, `RecvBreaks` every way out of the loop. The data callback
is none, a user's that takes as much as it likes, or `PromiseReceive::process`,
one action per round of its loop; handles may keep their receive, change a
length they share and ask for another receive (`Asks`). A receive over fewer bytes than its string has makes
`memsearch` wrap around: `ReceiveUntilOverreads` lets it fault or find a string
behind the data. Timers have the time that is left; `PingCheck` runs while
`schedule` still holds the timer, and therefore does not start the next one. `quiet` is the time since bytes were last read, whether or not there is a
callback; `mRecvData` of the code knows only of bytes read with one. After a reset
the bytes in the kernel may still be read or be gone.
`odd` records when a behaviour took one of the ways out that the properties
name. User calls happen in the phases in which the loop runs user code.

### HTTP and WebSocket
The wire is a sequence of symbols: a character where the parser looks at single
characters, a piece of a word where it matches a word letter by letter (names
and values of headers, methods, `HTTP/`). Names have two pieces, so the end of a
read can cut them. `http_parser_execute` takes one symbol after the other
through operators that each stand for a group of its states and call the
operators of `HttpParser`, which are the callbacks. Runs of characters are
handed to callbacks one at a time: they append. Requests come from any client: `HttpRequest` builds
the text of one, HEAD included, which `setMethod` of brynet's own client refuses with an assertion (`HttpFormat.h:64`). A header that is too long is
noticed at the symbol that exceeds the limit; the code notices it at the end of
a run, with the same error. `Read(n)` is the data callback: it gets what it did
not consume before and n new symbols. `Base` and `Small` in
`WebSocketFormat` are 256 and 125 in the code; the run uses 2 and 1, so that
payloads of four bytes already need the longest form, and an assumption of
`MCHttp` evaluates the lengths at the real limits. Payload and mask are bytes of
eight bits whatever the base of the length. `TakeFrames` is the loop of
`ProcessWebSocket`, `HandleFrame` what it does with one frame.

### Listen
Callers hold `mListenThreadGuard` from `stopListen` to the end of its join. The
flag, the connection to itself and the join are steps; the listen thread tests
the flag, accepts, tests again, calls back. `backlog` is the kernel's queue:
a handshake needs no accept, and a full queue makes connects wait. A call of
`SyncConnectSocket` or `SyncConnectSession` owns a promise. Its request can fail after it
reached the queue (`ConnectFails`: refused, or timed out), before anything left
the process (`ConnectFailsHere`: no descriptor, or `connect` fails at once) or be lost by a
connector that others use too (`RequestLost`, the overwritten entry of `Connector`). `terminated` is
`std::terminate`, from a promise set twice or a joinable thread destroyed.
`reachable` and `cbStops` are fixed at the start: whether the port can be
reached over IPv4, and whether the accept callback calls `stopListen`.

## 3. Runs

Passing runs. Deadlock checking is on for `EventLoop` and `DataSocket`, whose
loops go on for ever; it is off where the program may come to rest with nothing left to
do (all calls used up, workers stopped).

| Run | Instance | Checks |
|---|---|---|
| `EventLoop` | 2 threads, 3 async and 2 after-loop procs; 66,389 states | `NoLostWakeup`, `WakeupInv`, `AfterLoopOrder`; refinement of `AsyncQueue`, safety and liveness; `StopIsNoticed`, `AfterLoopProcsRun` |
| `DataSocket` | packets of 0, 1 and 3 bytes, send buffer 2, 2 packets per `writev`, 3 calls, complete callbacks that shut down; 363,249 states | `NoFault`, `CloseIsLast`, `SendAccounting`, `CompleteOnce` (never before the last byte is written), `NoSendStall`; `SendsComplete`, `ClosedIsReported` |
| `TcpService` | 3 sockets, 2 loops, 2 slots per growth, 2 calls, 1 restart; 42,520 states up to symmetry | `NoFreshMisdelivery`, `NoDanglingSlot`, `OpenIsReachable`, `SlotsConserved` |
| `WorkerLifecycle` | 2 users, 2 workers, 2 starts, callbacks that start, stop and look up; 4,968 states | `NoWorkerOutlivesLoops`, `JoinsOnlyStopped`; `StopReturnsOrIsCalled` |
| `Connector` | 1 user, 3 requests, 2 descriptors; 33,685 states | `NoOtherRequestLost`, `CalledOnce`, `NoFdLeak`, `PolledIsOurs`; `RequestsAreAnswered`, `StopReturns` |
| `Receive` | 5 bytes, a buffer of 3 that grows to 4, a string of 2 symbols, heartbeats of 0 and 2, 2 calls; 255,832 states | `BytesInOrder`, `NoRecvStall`, `ReadBeforeClose`, `PromiseSlices`, `HeartbeatIsFair`; `SilenceIsNoticed`, `RoundsEnd` |
| `Http` | 14 streams of up to 6 messages or frames in reads of 1, 2, 3, 7 or 20 symbols or to the end of a message; 16,462 states | `OneCallPerMessage`, `MessagesAsSent`, `FramesAsSent` |
| `Listen` | 2 users, 3 calls, a backlog of 1, with and without a callback that stops and a port that is reachable, connects that fail here or are lost; 141,240 states | `StoppedIsSilent`; `CallsReturn` |

Why the bounds are enough:
- `EventLoop`: a lost wakeup needs one pusher between the loop's reset of a flag and
  its swap and another that trusts the flag; both threads may play either
  part, one of them drives the loop while the other pushes three times. Three threads and two procs pass as well
  (309,322 states, too slow for the regular run); the invariants are proved
  for any number.
- `DataSocket`: 3 bytes do not fit into the send buffer, so a packet needs
  several writes; three packets exceed one `writev`; the empty packet is there. Three
  calls allow send, send and a close or shutdown in every order.
- `TcpService`: three sockets on a loop that grows by two make the table
  grow and reuse slots; a stop and a start make ids of two generations meet.
- `Receive`: five bytes fill the buffer at both of its sizes and leave one over, whatever the callback
  took. A buffer of 4 holds the string (c l) with the false start before it (x c c l), so a
  receive gets the two bytes up to the first match, and the one after it gets the rest; the other stream has the string
  twice in a row. A heartbeat can be set, run out, be replaced and be switched off, with and
  without bytes in between, before and after the close. `CONSTRAINT Combined` of `MCReceive` keeps
  heartbeats to two bytes and a plain callback, and `PromiseReceive` to three receives; it cuts choices of the
  user and the peer and no fair step. The safety properties pass without heartbeats and without that bound too (3,412,805 states).
- `Http`: a read of one symbol at any point cuts every message everywhere. The streams
  have bodies with a length, in chunks and none, folded and empty headers, absolute
  URLs, HTTP/0.9, `Connection: close`, responses, an upgrade with fragments; and
  messages the code does not serve (CONNECT, a URL over the limit, a
  response without end, a status line without text, a payload whose length is refused).
  `CONSTRAINT Separate` ends a behaviour at a read that holds the end of one
  HTTP message and more: nothing is claimed about pipelining (see below).
- `Listen`: three calls are a start, a stop and somebody else's connect, start or stop; a backlog of one
  is full with the first connection. Any of the connects may fail in each of the three ways.
- `Connector`: two descriptors make a third request run out of descriptors and reuse
  numbers. One user is enough: each call of a user holds the mutex from beginning to end.

Runs that end in a violation. Each shows a way in which the code does not do
what its documentation says.

| Run | What it shows |
|---|---|
| `DataSocketCompleteDisconnect` | A complete callback that disconnects its own session: `quickFlush` goes on with a null `mSocket` (`DataSocket.cpp:481`). `wrap_tcp_service.zh-cn.md:54` calls it safe at any time. |
| `TcpServiceReusedId` | After a restart serial numbers begin at 0 again; an old id reaches a session of somebody else. `tcp_service.zh-cn.md:50` calls any use of an id safe. |
| `WorkerLifecycleStopDeadlock` | `stopWorkerThread` joins a worker whose callback waits for `mIOLoopGuard`, which `stopWorkerThread` holds. Same line of the documentation. |
| `ConnectorFdReuse` | A success callback that closes its socket and connects again gets the same descriptor; `erase(it)` then removes the new request, whose callbacks never run, although `connector.zh-cn.md:21` promises one. |

The passing runs say what holds apart from these: `NoFreshMisdelivery` is about
ids of the present workers, `StopReturnsOrIsCalled` names the
deadlock with a callback as its exception, `StopReturns` and `RequestsAreAnswered` both deadlocks over `mThreadGuard`
(`Stuck`), `NoOtherRequestLost` the overwritten entry,
`SilenceIsNoticed` the heartbeat that is not started again (`"notRearmed"`), and `CallsReturn` of `Listen` a stop
that woke nobody (`Unwoken`) and a lost request.

Further disagreements met on the way. They can be had from the same modules
with the constants or the property named; no run is kept for them.
- `eventloop.zh-cn.md:26` says an after-loop proc runs before `loop()` returns; one
  pushed by a timer or another after-loop proc runs in the next round
  (`AfterLoopProcsRunBeforeReturn` of `EventLoop`).
- `datasocket.zh-cn.md:52` says the disconnect after `postShutdown` comes from
  the peer; a flush after it meets EPIPE and closes (`ShutdownWaitsForPeer`).
- A complete callback that sends on its own session invalidates the iterator that
  `erase` uses (`"send"` in `CompleteActs`, `NoFault`).
- An empty packet may close the connection (`WriteNothing`).
- The assertions at `TCPService.cpp:284` (call after stop) and `Typeids.h:39` (more
  sockets on a loop than `IndexMod`) can fail (`AssertsHold`).
- `stopWorkerThread` from a callback on one of the workers drops a thread that runs
  (`fault = "selfJoin"`, `NoWorkerOutlivesLoops` without its premise).
- `asyncConnect` after `stopWorkerThread` dereferences a null `mIsRun`
  (`NoFault` of `Connector`); a callback that connects while a stop waits, or
  while it is nested in another `asyncConnect`, is a deadlock (`Stuck`).

Behaviour of the receiving side and of HTTP that the passing properties step around, by a
premise or by claiming less:
- After a period with data the heartbeat is not started again (`DataSocket.cpp:712`): a peer that falls silent later
  is never disconnected. `datasocket.zh-cn.md:81` says it is when the time since the last data is over
  (`SilenceIsAlwaysNoticed` of `Receive`, which fails); `SilenceIsNoticed` names it `"notRearmed"`.
- Without a data callback the heartbeat closes a peer that talks: `mRecvData` is set only where a
  callback is called (`DataSocket.cpp:270`), while `datasocket.zh-cn.md:42` speaks of data
  received. `HeartbeatIsFair` asks for a callback.
- `recv` has no limit per round (`DataSocket.cpp:210`): a peer that fills every read keeps the loop
  thread there. `RoundsEnd` claims that a data callback, with all the handles it runs, returns and that
  `schedule` ends, and nothing of `recv`.
- `receiveUntil` on fewer bytes than its string has reads behind the data
  (`PromiseReceive.h:14`, `"overread"`); a receive asked for outside of a handle
  waits for the next bytes even if its own are buffered (`"late"`).
- A data callback that consumes nothing of a full buffer stops reception for
  good: `tryRecvLen` is 0 whatever comes (`DataSocket.cpp:213`). `NoRecvStall` and `ReadBeforeClose` name the full buffer.
- On a keep-alive session `mUrl`, `mBody` and `mStatus` are never cleared: later messages
  are presented with the bodies and status texts of earlier ones, and their path
  is that of the URLs put together. `MessagesAsSent` claims their headers only.
- Pipelined requests: everything in one read is parsed as if it were one message, one callback is made,
  and a begun message is dropped by `http_parser_init`.
- After `Connection: close` further data calls `httpCallback` again with the old message.
- A message the parser refuses is neither consumed nor answered nor closed.
- A response without a length never completes, since the end of the stream is
  not told to the parser; CONNECT is never served, its URL has no path.
- `HttpResponse` writes `200 OKUNKNOWN`, a missing `break` (`HttpFormat.h:193`), and `0UNKNOWN` for `NONE`.
- `mStatusCode` and `mWSFrameType` are not initialised; the model gives them a value and no property looks at it.
- A frame longer than 2^31 - 1 can be built and not taken apart; it looks incomplete for ever.
- `stopListen` on an IPv6 listener does not reach it (`Connector.cpp:261` knows
  `AF_INET` only) and joins for ever; from the accept callback it ends the process. `CallsReturn` fails
  without these premises.
- A `stopListen` whose connect fails before it leaves the process (no descriptor, `Connector.cpp:261`) does
  not look at the result and joins a thread that sleeps in `accept`, until somebody else connects (`Unwoken`).
- `SyncConnectSocket` on a shared connector waits for ever if its request is lost as in `ConnectorFdReuse`.
- A `send` after `postShutdown` never completes; `SendsComplete` claims nothing once `shutWR` is set.
- `SyncConnectSession` that gives up leaves a session nobody holds.

## 4. Fairness

- `EventLoop`: a thread inside `wakeup()` or `loop()` goes on (weak); the driver
  calls `loop()` again (strong, because the same thread may make other calls
  before); `epoll_wait` returns when it has the wakeup event or a zero timeout.
  Other events and timeouts are deliberately *not* fair: waiting out the worker's 100 ms would hide a lost wakeup.
- `DataSocket`: the loop goes on, as `EventLoop` shows; a peer that stays
  connected reads. User calls, data and failures are not fair.
- `WorkerLifecycle`: runnable threads run; a mutex that is free again and again
  is handed on; `loop()` returns.
- `Connector`: the worker goes on and runs what is queued; callbacks return unless they wait for a mutex; a stop
  takes the mutex once it stays free; time passes, so that an unfinished connection
  times out in the end. The network's answers are not fair.

- `Receive`: the loop goes on; time passes. `Tick` is strongly fair because it is a step only
  in `Wait` and `Schedule`, to keep the interleavings down. The peer and the user owe nothing.
- `Listen`: threads that can run do, the accept callback returns, a connect ends
  in one of its callbacks (`RequestsAreAnswered` of `Connector`) unless it is lost, which nobody owes. `AcceptFails` is not fair: an
  accept that happens to be interrupted must not be what ends a stop.
- `HttpService` states safety only.

## 5. Proofs

Each `...Proofs` module but `WebSocketProofs` states an inductive invariant, proves that `Init` implies
it and that every action keeps it, one lemma per part, and derives the
properties. TLC checked each invariant on the instances of section 3 before it was
proved. The theorems hold for every value of the constants that the named
assumptions of the modules allow; the bounds on calls, bytes, procs or sessions
may be as large as one likes.

| Property | Theorem | For every |
|---|---|---|
| `WakeupInv`, `NoLostWakeup`, `AfterLoopOrder`, `ImplementsAsyncQueueSafely` | `WakeupInvariant`, `NoWakeupIsLost`, `AfterLoopProcsInOrder`, `ImplementsQueue` of `EventLoopProofs` | set of threads, number of procs |
| `NoWorkerOutlivesLoops`, `JoinsOnlyStopped` | `WorkersDoNotOutliveLoops`, `OnlyStoppedAreJoined` of `WorkerLifecycleProofs` | number of users, workers, starts |
| `StoppedIsSilent` | `StopIsSilent` of `ListenProofs` | number of users, calls, length of the backlog |
| `NoDanglingSlot`, `NoFreshMisdelivery`, `OpenIsReachable`, `SlotsConserved` | `SlotsHoldOpenSockets`, `FreshIdsReachTheirSession`, `OpenSessionsAreReachable`, `SlotsAreConserved` of `TcpServiceProofs` | number of sockets, loops, slots, calls, restarts |
| `CalledOnce`, `PolledIsOurs`, `NoOtherRequestLost`, `NoFdLeak` | `RequestsAreCalledOnce`, `WorkerPollsItsOwn`, `OnlyOverwritingLoses`, `NoDescriptorLeaks` of `ConnectorProofs` | number of users, requests, descriptors |
| `CloseIsLast`, `NoSendStall`, `NoFault`, `SendAccounting`, `CompleteOnce`, `TypeOK` | `DisconnectIsLast`, `SendsDoNotStall`, `NoFaultWithoutReentry`, `SendsAreAccounted`, `CompletesOnce`, `TypeCorrect` of `DataSocketProofs` | size of packets, send buffer, `writev`, number of calls |
| `BytesInOrder`, `NoRecvStall`, `ReadBeforeClose`, `PromiseSlices`, `HeartbeatIsFair` | `BytesArriveInOrder`, `UnreadBytesAreNoticed`, `FinClosesLast`, `HandlesGetSlices`, `HeartbeatClosesTheSilent` of `ReceiveProofs` | stream, string, script of receives, size of the buffer, heartbeat times |
| frames are read back, not before they are complete, all of a read and in order | `FrameReadBack`, `FrameIncomplete`, `FrameRefused`, `FramesTaken` of `WebSocketProofs` | payload, mask, opcode, cut, number of frames, base of the length |

### The invariants and why they are needed

`EventLoop`. `NoLostWakeup` is not inductive: it speaks of a loop that is in `epoll_wait`
and says nothing of how a push that was made earlier is remembered. `WakeupInv`
adds it. At most the loop's thread is in `loop()` (`LoopIsExclusive`);
`mIsInBlock` is false exactly while events are handled
(`BlockFlagMarksEvents`), so a pusher that sees it false is seen by the swap
that follows; `mIsAlreadyPostWakeup` stands for a write that is coming,
delivered, or taken by a loop that has yet to reset it (`PostFlagIsBacked`), so
a pusher that skips its write is covered; hence queued procs always have a
wakeup or a loop on its way to the swap (`QueuedIsNoticed`).
`CopyIsEmptyOutsideRun` is what makes the swap invisible in the refinement, where
`pending` is the copy followed by the queue: `QueueStep` maps each action to a push,
a run, a stop or a stutter.

`WorkerLifecycle`. `ServiceGuardHeld` says which points of `startWorkerThread`
and `stopWorkerThread` are inside `mServiceGuard`, `CallsAreInLoop` that a worker calls from its loop only. Hence only one thread at a
time can be between the reset of the flag and the drop of the loops, and what its join
saw stays true.

`Listen`. `ThreadInv` says that the thread object, the thread and its socket
come and go together, `CallbackInv` that the accept callback calls nothing but
`stopListen`. A promise is not set while a request that will set it is under way
(`PromiseInv`). `NumbersInv` shows that the numbers of calls, a bound of the
model, never run out for the connects that a `stopListen` still has to make.

`TcpService`. `SlotInv` says that a used slot holds an open session of its loop
whose id names the slot, `OpenInv` that the id of an open session has a slot in
the table, `QueueInv` what the queued procs may still name. They hold whatever
wraps around and give `NoDanglingSlot`. The other three properties need
that numbers do not wrap, which the code never tests: `FitInv`
(slots in use and free slots are a partition of the table) is proved from
`[]SlotsFit`, at most `IndexMod` slots (65,536 in the code) in a table, and
`FreshIdsReachTheirSession` from `[]SerialsFit`, at most `IidMod` sessions (2^32)
per loop since the start of its worker. They are hypotheses of the theorems, met
by every behaviour with few enough sockets.

`Connector`. `WorkerInv` says where the worker is, that one that was told to stop leaves while a user holds
the mutex, and that the worker holds it only in a callback, `QueueInv` that nothing is queued behind the proc of a stop. `PlaceInv` says where
a request is (not asked for, queued, in the map, called) and that it is in one place only. `PollInv`
and, while no entry was overwritten, `KeptInv` say who owns a descriptor; both are needed because the
kernel may give the number of a closed descriptor to the next request.
Assumptions: there is a descriptor, `None` is no user, request or descriptor, `"stop"` is no request, and `"worker"` is neither a user
nor `None`.

`DataSocket`. `ObjectInv` says that a connection without a socket has its disconnect
callback queued, or behind it, and that nothing is queued behind that; it holds for the two
lists of after-loop procs together. `WriteInv` adds the write readiness: a connection that may not
write has asked for `EPOLLOUT` and, if the socket is writable, the edge is not lost. `OrderInv`
numbers the packets of the list. `NoFault` is false for complete callbacks that send or
disconnect (run `DataSocketCompleteDisconnect`); its theorem has
`CompleteActs \subseteq {"none", "shutdown"}` as a hypothesis. The other
theorems hold for all complete callbacks.

The bytes need an invariant of their own. `SendAccounting` alone is not inductive: nothing in it says
that the bytes `writev` took, `tmpLen`, are not more than the list holds, or that a faulty step is the
last one. `Sent(wire, list, k, accepted)` says that the wire, followed by the rests of the
packets of the list without their first k bytes, is the accepted stream, and that the list has k bytes.
`StreamInv` is `Sent` with k the bytes not yet acknowledged inside `Ack` and 0
elsewhere, for as long as there is no fault. A send appends to the list and
to the accepted stream alike (`SentAppend`), a `writev` moves bytes to the wire and
raises k (`SentWrite`), the acknowledgement of a packet lowers k by its rest (`SentPop`) and a
partial one shortens the packet (`SentAck`). `CompletesOnce` follows: the
last byte of a packet that is acknowledged is in the accepted stream, and not in the list any more. Streams of bytes are
`FlattenSeq` of the pieces of the packets. What it does to an appended packet and to a concatenation
(`FlattenAppend`, `FlattenConcat`) is proved by induction over the length, in the form of `SetInduction`:
a set of numbers with 0 and the successor of each of its members has all numbers,
which follows from the well-foundedness of `<` and takes a set, not an operator, so that the provers can use it.

`Receive`. `StreamInv` says that the callback has consumed a prefix of the stream and that the buffer
holds the next bytes, wherever they are in its memory; the lemmas about the operators of
`Buffer` (`StoreProps`, `AdjustProps`, `AddReadProps`, `GrowProps`) keep it. `RoomInv` adds
what makes the one early end of `recv` harmless: a buffer without room is full of unread bytes and as
large as it may be. `StallInv` says for each point of the round which
edge or which `recv` is ahead of unread bytes, `LastInv` that the `onClose` of an event
has its `recv` behind it. `TimerInv` is about the heartbeat: at most one timer is
active, it is that of the socket, and, with a data callback, quiet time and time left add up to the period: without one
bytes end the quiet and `mRecvData` does not know of them. `PromiseInv` says that
the slices end where `process` is, and that outside of the callback the first receive needs
more than there is; `PrefixSearch` is the lemma that a search over what
had arrived finds the same first string as one over the whole stream.
The exceptions of the properties (`"overrun"`, `"overread"`, `"late"`, a full
buffer) are those of section 3. Assumptions: sizes are numbers, a buffer is not
empty, neither is the string, and a largest period exists (any finite set of periods has one).

`WebSocketFormat`. `HoldsFrame` says that a buffer has the bytes of a frame where they belong, as far as the
buffer goes; a whole frame with anything behind it and every beginning of a frame satisfy it (`BeginsLikeFrame`).
`ReadLength` takes the three forms of the length apart: that four digits make up the number
they were taken from (`Digits`) and that a quotient below half the base passes the test
of the highest bit. `XorInverse` is about the eight bits of a byte. `FramesTaken` is an induction
over the turns of the loop: after j turns j frames are taken, and after the last
complete one the loop stands still. Its `Chain` names what is left after each frame, and the state that
`HandleFrame` makes of the frames in their order. Assumption: the base is at least 2. The lengths are those below `Refused`, 2^31 in
the code; `FrameRefused` is about the longer ones that `wsFrameBuild` still encodes.

### Only model-checked

- All liveness (`StopIsNoticed`, `SendsComplete`, `RequestsAreAnswered`, ...) and the fair half of the
  refinement: fairness and ENABLED are out of the prover's reach.
- `OneCallPerMessage`, `MessagesAsSent`, `FramesAsSent` of `HttpService`: what the recursive functions of
  the HTTP parser compute for a whole stream, its upgrade request included. `FramesTaken` is the part of `FramesAsSent` that
  begins after the upgrade: the frames of one read, with the state of the earlier ones. A stream that is cut into reads
  is one use of it per read, since what a read leaves is the beginning of the next frame.

## 6. Not modelled

The Windows (IOCP) branches, SSL, `normalFlush`, allocation failure, and the lifetimes of
`shared_ptr`. The plain `bool`s of the workers and of the listen thread are treated as atomic; see the
hazard at `TCPService.cpp:202`. Of http_parser: `http_parse_host` beyond plain
names, most methods, pausing, the non-strict build, the call with no data that tells the end of the
stream (`http_parser.c:648-667`, brynet never makes it) and the overflow checks of 64-bit lengths (1602, 1984). The containers (`stack.c`, `array.c`, `fdset.c`, `packet.h`,
`MsgQueue`, `WaitGroup`) are sequential code that unit tests reach, except
`WaitGroup`, whose hazard is listed. The digests, base64,
coroutine, process status and file helpers hold no state of the network library;
sockets and SSL helper are thin wrappers of system calls.

The type invariants (`TypeOK`) of `TcpService`, `WorkerLifecycle`,
`Connector` and `Listen` are part of the invariants that are proved, that of `DataSocket` is a theorem (`TypeCorrect`); that of
`Receive` appears there as `StateType`, with the types the arguments use. No run lists them.

## 7. Plan

All components of the inventory with concurrency or ordering of their own are
modelled, and every safety property of the runs is proved except the three of `HttpService`. What is
left: a specification of the HTTP grammar that is not the parser itself, against which `http_parser_execute` could be
proved by induction over the symbols as `FramesTaken` is over frames; with it the three properties would follow.
No module has a RECURSIVE operator, so that all of them can be proved about.

## 8. Running

    tlc -config DataSocket.cfg DataSocket
    tlc -config TcpService.cfg MCTcpService
    tlc -config Receive.cfg MCReceive
    tlc -config Http.cfg MCHttp
    for m in EventLoop WorkerLifecycle Listen TcpService Connector DataSocket Receive WebSocket
    do tlapm ${m}Proofs.tla; done

Each configuration belongs to the module named in `PROJECT.json`. The longest
run takes about two minutes with two workers.
