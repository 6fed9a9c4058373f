# A verification project for the b-board server core

TLA+ models of the C++ network core in `src/src/core/`, checked with TLC and
proved with TLAPS. Paths below are relative to `src/src/core/`.

## 1. The system

A multi-threaded reactor in the style of muduo. One *base* loop accepts
connections; a pool of threads runs one loop each; every connection lives on one
loop. Loops talk to each other only by *functors*, closures put into another
loop's queue.

| component | state | operations | talks to |
|---|---|---|---|
| `EventLoop` (`reactor/event_loop`) | `quit_`, `looping_`, `calling_pending_functors_`, `pending_functors_` (under `mutex_`), `wakeup_fd_`, `active_channels_` | `loop`, `quit`, `runInLoop`, `queueInLoop`, `wakeup` | poller, channels, timers; other threads call it |
| `EPollPoller`, `Channel` (`reactor/`, `net/channel`) | `channels_`, `status_` and `events_` of a channel, the kernel's interest list, `ep_events_` | `updateChannel`, `removeChannel`, `poll`, `enable…`/`disable…`, `remove` | kernel; called by owners of channels |
| `TcpServer`, `TcpConnection` (`net/`) | `connections_`, `next_` of the pool; `state_`, buffers, channel of a connection | `newConnection`, `connectEstablished`, four event handlers, `send`, `shutdown`, `removeConnection`, `connectDestroyed`, destructors | loops, application callbacks, application threads |
| `Acceptor`, `Socket` (`net/`) | the listening socket, `idle_fd_`, `new_connection_callback_` | `listen`, `handleRead`, destructor | kernel; shares the descriptor table with every thread |
| `EventLoopThread`, `EventLoopThreadPool` (`thread/`) | `loop_` (written under `mutex_`), `threads_`, `loops_` | `start`, `startLoop`, `threadFunc`, destructors | makes and quits loops |
| `Buffer` (`net/buffer`) | array, `reader_index_`, `writer_index_` | `append`, `retrieve…`, `prepend`, `shrink`, `readFd` | connections, HTTP |
| `TimerManager` (`utils/timer`) | `timers_`, `active_timers_`, heap of timers | `addTimer`, `cancel`, `processTimers` | the loop, callbacks |
| `HttpParser`, `HttpServer` (`http/`) | parser state, `content_length_`, the request, `http_callback_` | `parseRequest`, `reset`, `onMessage`, `onRequest` | connections, the user's callback |
| `Logger`, `InetAddress`, options of `Socket` | – | – | not modelled (section 7) |

What is hard here: functors and `quit()` racing with the loop's rounds; a
connection's closing that passes through two loops while events, sends and the
last `shared_ptr` come from elsewhere; `state_` and `loop_` read without a lock;
descriptors and addresses used again at once, also the acceptor's own spare one;
a destructor that hands work to threads it then stops; output that is partly
written, partly buffered and partly still in functors when the stream is to end;
callbacks that change the structure being walked; input cut anywhere by TCP. `PROJECT.json` lists each hazard at its
line with the properties that would catch it.

## 2. Modules

| module | models | composed of |
|---|---|---|
| `TaskQueue` | abstract: the FIFO queue of functors a loop promises | |
| `EventLoop` | `EventLoop` with concurrent callers | refines `TaskQueue` |
| `EPollPoller` | poller, channels, kernel interest list, descriptor and address reuse | |
| `TcpServer` | life of connections over base loop, worker loops and one foreign thread | loops, channels, pool and connections together |
| `EventLoopThreadPool` | start and destruction of the pool's threads | |
| `ServerTeardown` | `start()` to the end of `~TcpServer()`, with the rounds of the loops | extends `EventLoopThreadPool` |
| `ByteStream` | abstract: bytes in order, the end after the last of them | |
| `ConnectionOutput` | what goes out on one connection, in bytes | refines `ByteStream` |
| `Acceptor` | accepting when the process runs out of descriptors | |
| `Buffer` | the byte queue, with its bytes | |
| `TimerManager` | timers on a heap with reused addresses | |
| `HttpParser`, `HttpServer` | parser as a function of one round; the server on one connection | `HttpServer` extends `HttpParser` |
| `EventLoopProofs`, `EPollPollerProofs`, `TcpServerProofs`, `ConnectionOutputProofs`, `AcceptorProofs`, `TimerManagerProofs` | theorems | extend their component |
| `ServerTeardownProofs` | theorems about the pool and the server over it | extends `ServerTeardown` |
| `HttpServerProofs` | theorems about the server with its parser, and about the buffer its input is in | extends `HttpServer` and `Buffer` |
| `MCTcpServer`, `MCBuffer`, `MCHttpServer` | pools, symmetry, uses and requests for TLC | |

How state and actions correspond to the code:

* **EventLoop.** `pc` is the line of `loop()`. A section under `mutex_` is one
  step. `queueInLoop()`/`quit()` of a caller are two steps, for `wakeup()` comes
  after the unlock. User code on the loop is `Callback`: nothing, queue one functor,
  or quit. `wakeup()` writes a `uint16_t`; that an eventfd refuses it is
  `EventfdWrite`. `looping_ = true` and `quit_ = false` at the entry of `loop()` are
  two steps. `submitted`, `executed` and `swapped` (how many functors had been
  pushed at the last swap) are history.
* **EPollPoller.** One action per channel operation, each with the `epoll_ctl` it
  ends in. `ptr`/`mask` are the kernel's list. A closed descriptor and a freed
  address can be taken by the next channel. `Destroy` asks for what `TcpServer`
  shows (`DiesUnregistered`): channels die removed and outside event handling.
* **TcpServer.** Handlers are operators from an outcome to the set of possible
  outcomes, so that `handleEvent()`, which calls up to four of them, is their
  composition; one handler is one step of its loop. `send()`/`shutdown()` of the
  foreign thread are several steps. A connection exists as long as
  `connections_`, a functor (called or not, until its batch goes) or the
  application refers to it. Failed asserts are recorded in `failed` and execution
  goes on, as with `NDEBUG`. The poller is used through what `EPollPoller` proves.
* **EventLoopThreadPool.** The base thread and the pool's threads step by step;
  `loop_` tested and then read again by `~EventLoopThread()` are two steps, and
  the second read may be the compiler's copy of the first.
* **ServerTeardown.** Every action of the pool, and around them the server:
  connections are made, closed by their peers, and handed by
  `removeConnectionInLoop()` or by the destructor's loop over `connections_` to
  their own loops. A loop's life between entering and leaving `loop()` has rounds
  (test of `quit_`, poll and handlers, swap, functors one by one), since it is the
  last round that decides which functors are called. What goes with `~EventLoop()`
  is never called.
* **ConnectionOutput.** A handler or functor on the loop is one step; a call from
  the other thread is two or three (read `state_`, set it, queue). A byte is the
  number of its message, `write(2)` takes any number of bytes, fails for now, or
  finds the connection gone. `written` and `sent` are the history `ByteStream`
  speaks of: what `sendInLoop()` accepted and what the socket took.
* **Acceptor.** Every system call of `handleRead()` is a step, for other threads
  open and close descriptors of the same table between any two of them. `errno`
  may be overwritten by the two log calls before it is tested. `stray` records a
  `close()` of somebody else's descriptor, `raced` that somebody opened one in the
  windows of the `EMFILE` path. `accept()` and `open()` may also fail at any time
  for a reason that is not this process's (`ENFILE`, `ENOMEM`, `EINTR`,
  `ECONNABORTED`; `other` in the model); `starved` records that such a failure
  met the new spare.
* **Buffer.** Arrays of bytes with `size_t` arithmetic modulo `Word`. `use` is
  the set of operations an owner calls, since what holds depends on it.
* **TimerManager.** `expired` is walked one entry per step, and each callback may
  add or cancel. `misuse` records an access to a deleted timer.
* **HttpServer.** The stream is a sequence of units (text of a line, CRLF, body
  unit); `HandleRead(n)` hands over any prefix. The constant `Stoul` gives the
  number in each `Content-Length` header. An answer is recorded as the
  parsed request it answers. `callback` is the constructor's lambda or the
  user's; the endless recursion of the former is its stack overflow.

## 3. Runs

Bounds are named in the modules (`MaxFunctors`, `MaxData`, `MaxForeign`,
`MaxBytes`, `MaxTimers`, `MaxTime`, `MaxRequests`, `MaxConns`, `MaxMessages`,
`MaxFd`).

| run | bounds | shows |
|---|---|---|
| `event_loop` | 2 callers, 4 functors | no functor lost, repeated or overtaken; none is called in the round during which it was queued, so that functors cannot keep the loop from its events; functors run; `quit()` ends a loop that has cleared `quit_`; refinement of `TaskQueue`. Four pushes are enough for one in `pending_functors_`, one in the local vector, one called and one in flight |
| `poller` | 2 addresses, 2 descriptors, list of 1 | the kernel's list is what the channels say; `epoll_ctl` never fails; no starvation though the list starts too small. An address can come back with the other descriptor and the other way round |
| `server` | 2 connections, no worker or 2, callbacks send | asserts, pairing of callbacks, clean death; without workers the close callback is nested in the handler |
| `server_app` | 1 connection, no worker or 1, all application calls | what remains true under shutdown and foreign calls; a lost peer is always forgotten and its connection destroyed |
| `teardown` | 2 threads, 2 connections, loops may quit themselves | start, service and destruction in all interleavings: a connection is torn down once, by its loop when that is polling as it is handed over; functors go to living loops; `~TcpServer()` returns. Two of each, so that one connection can close by itself while the other is destroyed, on the same loop or another |
| `output` | 3 messages of 0 or 2 bytes, high water mark 3 | bytes keep their order; the end comes last and does come; the two callbacks leave nobody waiting; refinement of `ByteStream`. A message of 2 can be cut in the middle, two of them pass the mark, and a third can overtake |
| `acceptor` | 3 clients, 3 descriptors | the spare descriptor under every interleaving with threads that open and close, and under shortages of the system; every client is answered. Three descriptors leave one for the spare and two that others can take in its windows |
| `buffer` | 8 bytes of room at most, reserve 2, initial 2, stack buffer 3 | byte queue; every branch of `makeSpace` and `readFd` is taken |
| `timers` | 2 addresses, 3 timers, clock to 3, intervals 0 and 1 | memory safety, no leak, cancel, firing; fewer addresses than timers, so that addresses are reused |
| `http` | 3 requests of 7 kinds, sent ahead or not, callback set or not | right answers under every cut; `onMessage()` returns |

Every property of these runs has a mutant in `PROJECT.json`: a faulty variant
(`Bug…`) of a modelled operation that TLC shows to break it.

### Disagreements with the repository's own words

Two runs check what a comment or an assert says and find it violated; `findings`
in `PROJECT.json` quotes the line.

| run | what happens |
|---|---|
| `event_loop_wakeup` | `wakeup()` never wakes: the eventfd refuses 2-byte writes; the 10 ms poll timeout hides it |
| `server_dtor` | a connection that was shut down dies in `kDisconnecting`, without a down callback |

Others appear as the exceptions and restrictions of the passing runs. Each can be
seen by lifting the restriction:

| lift | what TLC then finds |
|---|---|
| `AssertsHold` instead of `LoopAssertsHold` in `server_app` | a foreign `send()` that reaches the loop after `handleClose()` registers the channel again; it is closed and removed twice (`net/tcp_server.cpp:124`) |
| `DiesUnregistered` in `server_app` | the last `shared_ptr` is dropped by another thread while an event is in `active_channels_`; `tie_` cannot protect, for the channel dies with the connection (`net/channel.cpp:32`) |
| `LoopsOutliveUse` in `teardown` | `~EventLoopThread()` is still inside `quit()`, about to call `wakeup()`, when the thread has left `loop()` and destroyed it (`thread/eventloop_thread.cpp:16`), though `thread/eventloop_thread_pool.cpp:19` takes the loops to live as long as the program |
| `c \in late` in `PollingLoopsTearDown` | a loop that is past its swap gets the `connectDestroyed()` functor and then `quit()`, and leaves without calling it: the connection goes without its down callback (`net/tcp_server.cpp:43`) |
| `owner = "gone" => basePending = <<>>` as an invariant of `teardown` | a `removeConnectionInLoop()` bound to the raw server pointer is left in the base loop, which calls it if it goes on (`net/tcp_server.cpp:112`) |
| `endBy = "functor"` in `NothingDropped` | a thread calls `send()` and then `shutdown()`; `handleWrite()` drains older output, sees `kDisconnecting` and ends the stream before the `send` functor has run (`net/tcp_connection.cpp:237`) |
| `Broken` in `EndFollowsShutdown` | a peer that closes its writing side only is treated as gone, and buffered output is dropped (`net/tcp_connection.cpp:205`) |
| `raced` in `SpareKept` and `PeersAnswered` | another thread takes the descriptor the spare was closed for; `idle_fd_` stays -1 while the table is full, and a client may wait in the queue while the loop spins (`net/acceptor.cpp:73`) |
| `starved` in `SpareKept` and `PeersAnswered` | `open()` fails for want of the system (`ENFILE`, `ENOMEM`) and is tried again only after the next `EMFILE`: `idle_fd_` is -1 until then, and there is no spare to accept with when the table is full (`net/acceptor.cpp:77`) |
| `looping` for `pc \notin {"start", "entered"}` in `QuitEndsLoop` | a `quit()` that finds `looping_` already true, between `reactor/event_loop.cpp:58` and `:59`, is overwritten by `quit_ = false` and the loop goes on |
| `early # {}` in `ServerDestructorReturns` | `loop()` clears `quit_` on entry, so a `quit()` before it is lost and `join()` waits for ever (`reactor/event_loop.cpp:59`) |
| `ActiveTimersExist` in `timers` | expired timers stay in `active_timers_` (`utils/timer.cpp:79`, where line 77 says they are removed); a `cancel()` of such a timer finds its entry and reads and deletes it again, though the `find` at lines 51-52 looks as if it did nothing. This is why `timers` has callers that cancel waiting timers only |
| a use `{"append", "retrieve", "shrink"}` in `buffer` | `shrink()` calls `readableBytes()` after it moved the reader (`net/buffer.cpp:135`) |
| a use `{"append", "prepend"}` in `buffer` | the free space wraps below zero in `makeSpace()` (`net/buffer.cpp:82`) |
| `waited` in `NothingOwed` | one request is parsed per read; one sent ahead waits for more input (`http/http_server.cpp:68`) |
| `callback = "user"` in `OnMessageReturns` | the default callback and `onRequest()` call each other (`http/http_server.cpp:25`) |

Three more are plain from the source: HTTP/1.0 does not close a connection
(`http/http_server.cpp:78`), a header line without a colon ends the headers
(`http/http_parser.cpp:67`), and a `Content-Length` in any other spelling, which
HTTP allows, is not seen, so that its body is taken for the next request
(`http/http_parser.cpp:64`). The requests of `http` have neither of the last two.

## 4. Fairness

Weak fairness of each loop thread (the scheduler runs it; `poll()` returns after
10 ms at the latest) and of calls already begun by other threads. No fairness of
the application, of peers, of spurious wakeups, or of anybody queueing or
quitting. Timers: the clock advances. HTTP: what was sent arrives. Output: a peer
that is there goes on reading, so that the socket becomes writable again; peers
that reset or close are behaviours of their own. Teardown: the base thread and the
pool's threads, but nobody has to destroy the server. Acceptor: the base loop, and
strong fairness of `GiveUpSpare`, since whether the logger's writes overwrite
`errno` is up to each call and they do not do so every time, and of `accept()`
being decided by the table and the queue, since shortages of the system pass;
clients and other threads owe nothing.

## 5. Proofs

For every value of the constants:

* `EventLoopProofs`: `TypeCorrect`, `QueueOrder` (`ExactlyOnceInOrder`),
  `RoundsAreClosed` (`RoundIsClosed`), `Refinement` (`Spec => Abstract!Spec`). The
  invariant adds that the local vector is empty outside the functor phase:
  otherwise the swap could lose what it still held. For `RoundsAreClosed` it adds
  that what was called and what is left in that vector are together as many as had
  been pushed at the swap, which follows at the swap from `ExactlyOnceInOrder`.
* `EPollPollerProofs`: `TypeCorrect`, `InterestListCorrect`, `MapCorrect`,
  `NoCtlFailure`. The invariant is the three properties together with the fact
  that living channels have distinct descriptors (the kernel gives out free ones):
  `epoll_ctl` succeeds because the list mirrors the status, and the list keeps
  mirroring it because `epoll_ctl` succeeds.
* `TcpServerProofs`, for every pool, any number of connections and everything
  callbacks and other threads may do with `send()` and `shutdown()`: `TypeCorrect`,
  `LoopAsserts` (`LoopAssertsHold`), `ReadsOnlyKnown` (`ReadOnlyWhileKnown`). For
  servers in which no other thread and no `write_complete_callback_` sends (`Calm`):
  `ServerAsserts` (`AssertsHold`), `DiesOutOfPoller` (`DiesUnregistered`). For those
  in which nothing calls `shutdown()` either (`NoShutdown`): `HeardOfOnce`
  (`UpAndDownOnce`). The two conditions are what the constants of the run `server`
  satisfy, and section 3 shows that the properties fail without them: a late send
  registers a closed channel again, and `connectDestroyed()` makes no down callback
  for a connection in `kDisconnecting`. The invariant `SInv` is about the functors
  each loop has yet to call, the rest of its batch followed by
  `pending_functors_`: `established` waits exactly for connections in
  `kConnecting`, `remove` only for ones no longer read from, both on the right
  loop; if `Calm`, `remove` waits at most once and for a known connection,
  `destroyed` at most once and for one that is neither known nor registered, and a
  connection that has left `connections_` is out of the poller or has its
  `destroyed` waiting. Handlers preserve it because each of them leaves the channel
  of a connection alone, or closes it once (`Follows`, `Closes`).
* `ServerTeardownProofs`, for pools of every size and any number of connections.
  Of the pool: `TypeCorrect`, `LoopsReady`, `PoolJoins`, `DeathNeedsSelfQuit`; the
  invariant ties `loop_` and the loop's life to how far the thread is, the end of a
  loop to who called `quit()`, and that to how far the destructor has come. Of the
  server: `PoolSpec` (`TeardownSpec => Spec` of the pool: the server only restricts
  when the pool's steps happen), and from it `NoDeadLoopIsUsed`
  (`LoopsOutliveServer`) and `ServerKeepsPool` (`NoThreadOutlivesPool` and
  `DiesOnlyOfSelfQuit` under `~TcpServer()`); the invariant adds that
  `connections_` is empty once the destructor has come to the pool, so that a loop
  dead before that has quit itself. `TearsDownOnce` (`TornDownOnce`) rests on
  `OnceInv`: in the work of a loop no functor is repeated and `established` comes
  before `destroyed`, and each stage of a connection's life has its functor in
  exactly one place. `TearsDownInTime` (`PollingLoopsTearDown`) adds `OnTimeInv`: a
  functor that reached a loop in `poll()` is called before the loop tests `quit_`
  again.
* `ConnectionOutputProofs`: `TypeCorrect`, `Order` (`NothingOvertakes`),
  `Draining` (`BufferIsDrained`), `Refinement` (`Spec => Stream!Spec`), `Release`
  (`FullIsReleased`), `OwnShutdownDropsNothing` (`NothingDropped`). The
  invariant adds that until `handleClose()` the channel is enabled for writing
  exactly while there is buffered output, and that then the end has not been sent:
  it is why a message is never written past the buffer, and why `shutdownInLoop()`,
  which looks at the channel only, does not cut the stream short. For the last
  theorem it also says where in the queue the functors of the other thread are.
* `AcceptorProofs`: `TypeCorrect`, `NoStrayClose` (`ClosesOnlyItsOwn`), `NoLeak`
  (`NothingLeaks`), `SpareSurvives` (`SpareKept`). `idle_fd_` keeps its number
  after it was closed, so the invariant says for each place in `handleRead()` what
  the acceptor owns, and that without a race the descriptor it gave up is still
  free when it asks again, whether its second `accept()` has failed or not.
* `HttpServerProofs`, of the buffer: `LayoutIsKept` (`IndicesInOrder`), `BufferIsAQueue`
  (`HoldsContent`), for every size of array, reserve and stack buffer and owners
  that satisfy `CarefulUses`: who calls `prepend()` does not append, read or shrink,
  and who calls `shrink()` does not retrieve. The run's uses satisfy it
  (`UsesAssumption` in `MCBuffer`), and section 3 shows what happens to others. The
  invariant adds that the reader stays behind the reserve for owners that append,
  which `makeSpace()` counts on when it moves the bytes down, and that the array
  stays shorter than `Word`, so that its free space does not wrap.
* `HttpServerProofs`, of HTTP on one connection, for every set of requests, any
  number of them and every cut of the stream. Whatever the requests are:
  `HttpTypes`, `AnswersHaveEnds` (`AnswersAreDelimited`) and the action property
  `RoundsConsume`, that `parseRequest()` is never entered in `kGotAll` and its loop
  goes on only with a shorter buffer. The invariant `SInv` adds that a complete
  request is in the parser exactly from `onRequest()` to the reset, and that an open
  connection has sent no closing answer. For requests that are well formed or refused
  at their first line (`WellFormedRequests`: a colon in each header, and with each
  body a right `Content-Length`, spelt as `http/http_parser.cpp:64` compares it; the requests of the run satisfy it,
  `MixedAssumption` in `MCHttpServer`): `EachAnswerIsRight` (`AnswersMatch`) and
  `WaitingClientIsAnswered` (`NothingOwed`). Their invariant `TInv` says where the
  server is in the stream. `Ahead` gives each request its place in what is in the
  buffer and on the wire, negative for what was taken; `Follows` says that the parser
  holds exactly the line, the headers and the length, or all, of the current request
  up to there. A round reads one line or the body and moves all places by what it
  took; an answer moves on to the next request, whose place is then 0. For
  `NothingOwed` it adds that `onMessage()` returns without an answer only when the
  buffer has no complete line or body (`Stuck`), which it has once all of the
  request was read. No induction over the stream is needed: a request's units are
  given in closed form (`Encode`, `HeaderLines`), so each round compares a few places.
* `TimerManagerProofs`: `TypeCorrect`, `NoDeletedTimerIsUsed` (`MemorySafe`),
  `HeapMatchesTimers` (`TimersAreScheduled`), and the action property `CancelIsFinal`
  (`CancelledStaysQuiet`). The invariant follows `processTimers()` through its
  loops: a living timer is in `timers_` or in what is left of `expired`, under its
  own expiration and only once, and what callbacks may cancel is in `timers_`.

Assumptions are the named `ASSUME`s of the modules, which TLC evaluates in the
runs, and the conditions named above, which are hypotheses of their theorems.

Only model-checked: liveness (all `~>` properties and the fairness part of the
refinements), since TLAPS has no rules for it here. Every invariant and action
property of the passing runs is a theorem. The type invariants of the proved modules
are theorems and not part of the runs; `MapMirrorsChannels`, `LoopsAreReady`,
`BufferIsDrained` and the property of `RoundsConsume` likewise.

## 6. Plan

The components are modelled, and the safety properties of the passing runs are
proved. What could be added is what of `DiesUnregistered` holds in `TcpServer` with
application threads that send, as an invariant of `server_app` first.

## 7. Not modelled

`Logger` (formatting and files; `LOG_FATAL`'s abort is in `EPollPoller` and
`Acceptor`; that the message may be lost, for `std::cout` is not flushed before
the abort, is plain from `utils/logger.h`), `InetAddress` and socket options (plain
data and system calls), descriptor 0 as an accepted connection, which
`net/acceptor.cpp` and `net/socket.cpp` treat differently and a process with a
standard input does not meet, the text of HTTP
requests and responses, bodies announced by a `Content-Length` in another
spelling, calls of `cancel()` for timers that have expired or are being called,
the exception `std::stoul` throws for a
`Content-Length` that is no number, memory ordering of the unsynchronised
`state_` beyond interleaving, and that accepted sockets are blocking, so that
`write(2)` may stop a loop (`net/socket.cpp:29`): a partial write stands for it.
