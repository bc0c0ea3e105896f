# A TLA+ model of libiak

libiak is a small C++11 library: event loops over epoll, TCP connections,
servers and clients on them (`src/net`), a synchronous and an asynchronous
logger (`src/log`), and some utilities (`src/base`, `src/util`). The hard part
of it is concurrent and edge-triggered, and has hardly a test: the programs
under `src/*/tests` run one scenario each and check almost nothing.

This directory models that part, and the date, time-zone and formatting code
under the loggers: one module per component, a TLC configuration per question,
and proofs of the event loop, the pool of loops, the reading of a connection, the
server, the client, the loggers, their backend and the calendar. Every definition names its lines of the source in
`PROJECT.json` (`map`); `hazards` there lists what can go wrong and which
property would show it.

    tlc -workers 2 -config EventLoop.cfg MCEventLoop    # a run
    tlapm EventLoopProofs.tla                           # the proofs

## 1. The system

### Components

| component | state | operations | correct if |
|---|---|---|---|
| `Channel` | what a descriptor wants to be told (`read_`, `write_`), what it has been told and not yet used up (`readable_`, `writeable_`), what `handleEvents` has to call (`rread_`, ...), `actived_` | open, close, enable/disable, `onRead`... from the poller, `handleEvents` from the loop | no edge is dropped while someone waits for it |
| `EPollPoller` | the epoll instance | add, update, remove a channel, `poll` | every registered channel is told of every edge |
| `EventLoop` | `pendingFunctors_` under `mutex_`, `quit_`, an eventfd and its channel, the actived channels | `loop`, `quit`, `runInLoop` from any thread | functors run once, in order, and the loop never sleeps on work |
| `EventLoopThreadPool` | loops and threads | start, getLoop, destructor | destruction ends |
| `Buffer`, `BufferPool` | rings of bytes in a list | take, put, takeNext, putNext | a ring holds `count` bytes from `pop` to `push` |
| `TcpConnection` | establish/close flags, two lists of rings, sizes, callbacks | establish, shutdown, close, sendPack from any thread; PeekData, ReadData, and the channel's callbacks in its loop | the stream arrives whole and in order both ways; the object outlives what refers to it |
| `Acceptor` | `accept_`, `listenning_`, an idle descriptor | listen, close, `onRead` | every client is accepted or refused, and the loop gets on with the rest |
| `TcpServer` | `connections_`, the next loop | listen, `onAccept`, `onClose`, destructor | each connection is removed and freed once |
| `Connector` | `connect_`, `connecting_`, the channel of the attempt | connect, close, `onWrite` | one attempt at a time, no socket left behind |
| `TcpClient` | `connect_`, `retry_`, `connection_` | connect, `onConnect`, `onClose`, destructor | one connection, or an attempt at one |
| `AsyncLogging` | a list of loggers with lines, `running_`, a latch, the backend thread | append from any thread, start, stop | every line is written once, in order; stop returns |
| `AsyncLogger` | current, next and backup buffers, full buffers, the file | append, the swap under the mutex, the write outside it, rolling | producers and backend never share a buffer |
| `Logger`, `LogFile` | a file, a count, times of the last roll and flush | append, flush, roll | a file is rolled at its size and its day |
| `LogStream`, `LogMessage` | a line in a fixed buffer | `<<` | digits are right, the buffer is not overrun |
| `Date`, `TimeZone` | a Julian day; the transitions of a zone | conversions | they agree with the calendar and invert each other |
| `MinHeap`, `BlockingQueue`, `CountDownLatch` | a vector; a queue; a count | insert, remove; put, take; wait, countDown | order; no lost wakeup |
| the rest of `src/base`, `Socket`, `InetAddress` | - | thin wrappers of system calls | - |

### How they interact

Everything a connection, an acceptor or a connector does happens in the thread
of its loop. Another thread, and often the same one, gets there by
`runInLoop`, which queues a functor and writes an eventfd; the functor holds a
`shared_ptr` to its object, except where it holds a raw `this`
(`TcpConnection::sendPack`, `TcpServer::onClose`, all callbacks). A loop turns
in three phases: `poll` marks channels, `handleActivedChannels` calls their
callbacks, `doPendingFunctors` runs the functors that were queued before.
Descriptors are edge-triggered, and `readable_`/`writeable_` guard against
telling a channel twice; an owner has to clear them by
`disableReadable`/`disableWriteable`, and one that forgets hears nothing more.

A server's connections live on its own loop or on the loops of a pool. A
connection that closes tells its server by `onClose`, which queues
`removeConnection` on the server's loop, which queues `destroyInLoop` on the
connection's loop, whose end usually frees the connection and its descriptor.
A client does the same in its one loop and asks its connector again.

Loggers share one mutex and one condition variable with the backend: the first
line since the last swap lists the logger and notifies; the backend swaps all
listed loggers' buffers under the mutex and writes them outside it.

### What is hard to test

`PROJECT.json`'s `hazards` has the list with lines. In short: a functor queued
between the loop's last look at the queue and its sleep; an edge that comes while
a channel still believes it has one; full and empty rings that look alike;
reads and writes that end exactly at, inside, or behind a buffer; a direct
write past a backlog; a raw `this` against the destruction of its object; a
reused descriptor; a server or client destroyed in the middle of accepting or
connecting; an acceptor with no descriptor left; a close from the peer, the user and the server at once; the flag
of `stop` and `quit` against the thread that tests it; pointers to a log buffer
that are moved, not copied; a clock that stands still, jumps or is set back while
files are rolled by it; the hour that comes twice; the last digit of the smallest
integer.

## 2. The modules

| module | models | by |
|---|---|---|
| `Executor` | what `runInLoop` promises | functors are submitted, run one at a time and in order, and no more once the loop is left |
| `Channel` | `Channel` | a record of its flags, one operator per method; `handleEvents` is split into one operator per callback, so that the owner of the channel puts its callback in between |
| `EPollPoller` | `EPollPoller` and epoll | `Dispatch`, from reported events to channel flags, and the registration, whose mask is or-ed into an uninitialised word (`EPollPoller.cpp:54`): the outcomes are an edge-triggered one, a one-shot one, and a rejected one |
| `EventLoop` | `EventLoop` | actions of the loop thread at a `stage` of `loop()`, and of any thread: `RunInLoop` and `Quit` (the critical section) and `Wakeup` (the write after it); it implements `Executor` (`E == INSTANCE Executor WITH ...`: batch and queue together are what waits) |
| `EventLoopThreadPool` | `EventLoopThreadPool` | the owner at a `phase` of the pool's life, going through its loops one by one; per loop a thread at a `stage` of `loop()`, with the wakeup taken as one step, since `EventLoop` has its parts; a functor is the stage at which it found the loop |
| `AsyncLogging` | `AsyncLogging`, `AsyncLogger`'s buffers, `CountDownLatch` | the owner in `start`/`stop`, the producers' `LogLine`, the backend at a step `thread` of `threadFunc` |
| `Logger` | `Logger`, `LogFile`, the file side of `AsyncLogger`, the stamp and the FATAL branch of `LogMessage` | threads between a message's constructor and destructor, a wall clock that ticks, jumps and is set back, a process that is killed and started again |
| `LogStream` | `LogStream` and the pieces of a `LogMessage` | the length of the text, the furthest place written to, the digits of the last number; integers have `Width` bits |
| `Date`, `TimeZone` | `Date`, `TimeZone` | operators, and a walk through time beside which a calendar turns its leaves by the Gregorian rules |
| `Buffer` | `Buffer`, `BufferPool` | a ring as a record with its bytes; a list of rings as a sequence |
| `TcpRead` | `onRead`, `PeekData`, `ReadData`, and the end: `onClose`, `close`, `destroyInLoop` | one action per round of `onRead`'s loop, for the callback, for `ReadData`, for arriving bytes or the end of the stream, for each close and the destruction |
| `TcpWrite` | `send`, `writeData`, `onWrite` | the same for the other direction |
| `TcpServer` | `TcpServer`, `Acceptor`, `TcpConnection`'s life cycle, `getLoop` of the pool | one functor queue per loop; actions for each functor, for each branch of `accept`, for the user's calls split at the test of `close_`, for peers and the destructor |
| `TcpClient` | `TcpClient`, `Connector` | one functor queue; actions for each functor, each outcome of `connect`, the answer of the kernel, the destructor |
| `MCEventLoop`, `MCTcpServer`, `MCLogStream`, `MCTimeZone` | - | the instances for TLC: the clients, the descriptors, the pieces of a message, zones with their years |
| `QueueLemmas`, `EventLoopProofs`, `TcpConnectionProofs`, `AsyncLoggingProofs`, `LoggerProofs`, `TcpServerProofs`, `TcpClientProofs`, `TimeZoneProofs` | - | the proofs |

`EventLoop`, `TcpRead`, `TcpWrite`, `TcpServer` and `TcpClient` use `Channel`
and `EPollPoller` by `INSTANCE`; `TcpRead` and `TcpWrite` extend `Buffer`;
`TimeZone` extends `Date`.

An operator just above a definition and of nearly its name
(`RunInLoopNoSelfWakeup` above `RunInLoop`) is a faulty variant of it. The
specifications do not use these; they are there to show that the properties
notice such a fault (`PROJECT.json`, `mutants`).

### How far the abstraction goes

* A critical section of a mutex is one step; everything between two sections,
  and a section's notify or write after it, is a step of its own.
* A functor is a name and an object. `TcpServer` and `TcpClient` take functors
  one by one from the queue instead of swapping batches. That is what `Executor`
  promises, and `EventLoop`, which has the swap, is proved to implement it.
* Bytes are numbers in the order of the stream, so that loss, repetition and
  reordering all show. Rings have 2 or 3 places instead of 4096. Log lines are
  numbers and a length.
* `TcpRead`, `TcpWrite`, `TcpServer` and `TcpClient` take the registration with
  epoll to have come out edge-triggered; the other outcomes of the
  uninitialised mask are explored in `EventLoop` only.
* `TcpRead` and `TcpWrite` begin established; `TcpServer` leaves the bytes out,
  `TcpWrite` the end of the connection. `writeData`, which is public, is entered
  through `send` only. A `recvCallback` may call `ReadData`, `sendCallback` does
  nothing.
* The user of a `TcpServer` calls what it holds a pointer to. It destroys the
  server from the server's loop, as the raw `this` of the acceptor's callback
  asks for; a client likewise. Inside `Acceptor::onRead` that is the
  `connectCallback` of the connection just accepted.
* `accept4` sets a descriptor aside before it looks at the queue, as Linux does:
  without one it fails with EMFILE whether or not a client waits. The rounds
  `onRead` then makes on an empty queue change nothing and are stuttering.
* `Logger`: the second look at the clock inside one roll is not apart from the
  first, the 64K stdio buffer never fills by itself, a kill does not fall inside
  `appendBuffers`, and `fwrite` does not fail. The file of an `AsyncLogger` is
  appended to in buffers; its `flush()` is empty (`AsyncLogger.cpp:105`), so that
  a FATAL message of an asynchronous logger aborts with its line in memory, and
  `FatalIsWritten` is about synchronous loggers.
* `LogStream`: a piece is its length; `snprintf` of a double is not modelled. A
  message whose text leaves one byte loses its newline (`LogMessage.cpp:80`), as one with less than 32 bytes loses its line number.
* `TimeZone`: times of 31 bits, on either side of 1970, for the conversions, all
  years for the dates. A zone file has its transitions and types; one that ends
  early is used with the types it has, and one without any has no defined
  behaviour (`TimeZone.cpp:195`).
* `EventLoopThreadPool`: a wakeup always arrives; the store of `quit_` and the
  write of the eventfd are one step; `start` is called at most once, and the
  owner posts to no loop once it destroys the pool.
* History variables (`ran`, `delivered`, `flushed`, `written`, `inside`, `late`,
  `begun`, `abandoned`, `stray`, `raced`, `lost`) record what a property needs; no guard reads them.

## 3. The runs

### Runs that hold

| run | instance | shows |
|---|---|---|
| `EventLoop` | 2 client threads, the loop itself, 3 functors, any number of quits, all registrations | no wakeup is lost; functors run once and in order; the loop implements `Executor`; functors all run, and a quit ends a running loop (liveness) |
| `AsyncLogging` | 2 loggers, 4 lines, of 2 thirds of a buffer and of a whole one, 9 buffers, 2 starts | a logger is listed once, recycling never meets an empty vector, no two pointers reach one buffer, lines reach the file once and in order; each is written while the backend runs; `stop` returns unless it hits the window below |
| `TcpRead` | rings of 3, 10 bytes in all portions, closes of the peer and the user at any time | the counts agree; the stream is intact and `PeekData` shows what `ReadData` gives; a peer's last bytes are read before its close destroys the connection; every byte is read and the end of the stream closes |
| `TcpWrite` | rings of 3, 12 bytes, a kernel that takes 4 | the counts agree, the list is intact, and a short write is always resumed |
| `TcpServer` | 2 clients, 1 to 3 descriptors, the server's loop alone or with a pool of 2, 1 user call, or 2 where one loop and two descriptors are shared | a connection is removed once; a freed connection is out of reach of sends and poller; one that is established first has its buffers when it is written to and when it is freed; a server destroyed empty is not called; closed connections are freed and closes are seen, unless the acceptor has no descriptor left and spins; on a pool's loop closes are seen even then; clients do not wait for ever |
| `TcpClient` | 4 connections, 3 refusals | one attempt or one connection; the functor that frees a channel finds it closed; a client destroyed while idle or connecting is not called and leaves no socket; a client that wants a connection gets one |
| `Logger` | 2 threads, 4 lines of length 1 or 3, files of 3, periods of 2 s, a clock up to 3 that is set back once, a repeated hour, a restart | every line is in one file, in order, or was lost with its process and all later ones; a file outgrows its size only within the second it was opened in; no file is kept past its period, or unflushed, for more appends than the count allows; a FATAL line is out before the abort; stamps are right |
| `LogStream` | 16 bytes, 8-bit integers, all of them, pieces of 1, 3 and 17 | nothing is written past the buffer, and every number that was appended reads back as itself, the smallest one too |
| `TimeZone` | 1900 to 2500 day by day; five zone files, in steps of 900 s around their transitions | dates, days of the week, UTC and local time agree with the calendar, and each conversion is undone by its inverse |

`EventLoopThreadPool.cfg` goes with the proofs of the pool and is not among the
runs of `PROJECT.json`: it checks `DeletedAfterAllThreads` and
`QueuedAsleepIsRun`, which are proved, before one tries to prove them, and the
liveness property `DestructionEndsUnlessRaced`, on a pool of two that is started
or not, posted to by its owner and by its functors, and destroyed at any point.
`TcpServerSafety.cfg` (module `MCTcpServer`) checks the three invariants, which are
proved, with two user calls everywhere. `TcpServerFull.cfg` checks
`DisconnectSeen`, and TLC finds it violated: the test sets a `disconnectCallback`
and expects to be told (`TcpServer_test.cpp:30`); a second client takes the last
descriptor, `accept4` says EMFILE before it looks at the queue, `onRead` goes
round without an end, and the first connection, on the same loop, never hears
that its peer has closed.

Some of these properties excuse something, and the excuse is needed; take it
away and TLC shows why:

* `CountsAgree`, `StreamIntact`, `ReadBeforeRelease`, `EveryByteIsRead` of
  `TcpRead` (`inside`): a `ReadData` that ends inside a buffer behind the first
  moves `pop` and not `count` (`TcpConnection.cpp:203`); when `push` and `pop`
  meet, `onRead` takes for empty a ring whose count is not 0.
* `QueueIntact`, `ResumesAfterShortWrite` (`stray`): after a `writev` that took
  the whole list, `onWrite` goes round again with an empty head, whose equal push
  and pop line 389 takes for full, and gives `writev` the whole ring
  (`TcpConnection.cpp:389`, 439).
* `FreedUnreachable`, `PeerCloseSeen`: calls that passed the test of `close_`
  before the connection closed and queued their functor after it (`late`), and
  connections a server was destroyed with (`abandoned`). A late `sendPack` runs
  on a freed connection: its functor holds a raw `this`.
* `ClosedIsFreed`, `PeerCloseSeen` (`AcceptorSpins`): from some point on
  `Acceptor::onRead` goes round with no descriptor left, and the server's loop
  does nothing else; `TcpServerFull.cfg` shows it. `removeConnection` is a functor of
  that loop, so that no connection is freed then, on whatever loop
  it lives.
  `NobodyWaits` needs no such excuse: the acceptor that spins refuses who comes.
* `EstablishedBeforeUse` in `FreedUnreachable`: a user that closes, sends or drops before it calls
  `establish()`; the destructor then walks a `readHead_` that nobody has set
  (`TcpConnection.cpp:38`).
* `EmptyServerUncalled`: a server destroyed with connections is called by those
  that close before their `destroyInLoop` has run; a client likewise
  (`IdleClientUncalled`).
* `NobodyWaits`: an `accept` that fails for a reason other than EAGAIN, EMFILE
  and ENFILE returns with `readable_` set (`Acceptor.cpp:91`, "FIXME"), and the
  acceptor never hears of a client again. `ConnectsEventually` excuses the like
  in `Connector.cpp:60`.
* `StopReturnsUnlessRaced`: the window that `AsyncLoggingStop` shows, and a
  second `start()`: the latch, used up by the first, lets `stop()` come before
  the new thread's `assert(running_ == true)`.
* `QuitEndsRunningLoop` speaks of a loop that runs. A `quit()` before `loop()`
  has stored `quit_ = false` is lost (`EventLoop.cpp:51`), and `loop()` blocks
  for good: destroying an `EventLoopThreadPool` right after `start()` may hang in
  `join` (`raced` in `DestructionEndsUnlessRaced`).
* `QueuedAsleepIsRun`: a functor queued behind the batch, or before `loop()` has
  begun, is dropped by a `quit()` that the loop sees before it polls again.
* `OversizedOnlyWithinASecond`: `rollFile` does nothing twice in one second, and
  a clock that was set back keeps it from rolling until it is past its last roll.
* `StampsTrue`: second 0, which `t_lastSecond` starts from.
* `LocalTimeReturns`: a clock that is set back by anything but the end of an hour
  of summer time; the constant 3600 of `TimeZone.cpp:265` knows no other.

### Runs that find a disagreement

| run | what the source says | what TLC finds |
|---|---|---|
| `AsyncLoggingStop` | the test ends with `log.stop();` | the flag and the notification, both without the mutex, fall between the backend's test and its wait, and `join` hangs |
| `TcpWriteOrder` | the test echoes a stream with `sendPack` | `send` writes directly while earlier bytes wait in the list: they are overtaken |
| `TcpWriteBacklog` | the same | `onWrite` returns early, with `writeable_` set, when there is nothing to write, which is how a connection's first EPOLLOUT ends; later ones are then ignored, and a backlog stays |

### Bounds, and why they are enough

* `EventLoop`: three functors put one in the batch, one in the queue and one in
  a call; two clients and the loop give every pair of callers against the loop.
  The proofs have no bounds.
* `EventLoopThreadPool`: two loops are one that is quit, joined or deleted while
  the other still runs; three functors fill a batch, a queue and the one that
  posts. The safety properties are proved without bounds.
* `AsyncLogging`: four lines fill the current, the next and a new buffer and
  leave one for the other logger, so that batches of up to four buffers are
  recycled while others are filled. Nine buffers are one more than the loggers
  start with; `MakeNew` waits when none is left, which stands for a line that
  is never logged. Two starts are what it takes to meet a used latch.
* `TcpRead`, `TcpWrite`: rings of 3 places let a ring wrap with one byte on each
  side; 10 and 12 bytes fill three buffers and come round again.
* `TcpServer`: of two clients with two descriptors the second
  takes the first one's again while functors of the first may still wait, or
  takes the last; with one descriptor the first client takes the last and the
  second is refused, with three both live and the acceptor goes on. Two user
  calls race each other, the peer and the server; with a pool of two the clients
  live on loops of their own, apart from the server's, and one call is
  enough to establish one or to close it. The kernel gives the lowest
  descriptor that is free.
* `TcpClient`: four connections, three refusals are several turns of each retry.
  The safety properties are proved without bounds.
* `Logger`: lines of a third of a file and of a whole one fill, overfill and
  leave room in a file; four seconds are two periods with a second of each to
  come again. `kCheckTimeRoll_ = 0` still skips an append (`count_` is compared
  before it is counted).
* `LogStream`: 8 bits have their smallest and largest number within reach; the
  room a number asks for is its digits and sign and the 0, as the code's 32 is
  for 64 bits.
* `TimeZone`: the years `Date.h` speaks of, with every rule for leap years; zones
  with summer time in either half of the year, of half an hour, of a negative
  one (Dublin), without any, and one whose file is cut short. For the calendar
  the proof has no bounds.

Where a run has `CHECK_DEADLOCK FALSE` the bounds, or a system that is at rest,
end the behaviour.

### Fairness

Threads are scheduled: a step of a loop or of the backend that stays possible is
taken (`WF`), and a call that has begun is finished. `EventLoop` uses strong
fairness for the loop because a call from a callback holds the loop up, over
and over but never for good. `PollOther`, the return of `epoll_wait` for
any other reason, is given no fairness, so that what is shown there is owed to
the eventfd alone. In `EventLoopThreadPool` the destructor, once begun, goes on;
the owner need not begin it. `TcpWrite` has the peer read on, `TcpClient` has the kernel
answer a connect. Users, peers, log lines, spurious wakeups, `stop` and
destruction have none: they come or not.

## 4. The proofs

Each is for every value of the constants; the assumptions are those named
`...Assumption` in the modules, which say what the parameters are (numbers, a
loop's thread that is no client, lines with a length, steps of time that make whole
days).

### `EventLoopProofs`

* `TypeCorrect`: `Spec => []TypeOK`. `TypeOK` is inductive. What makes it more
  than types is the wakeup channel, which is in one of two states, at rest or
  holding an edge between `poll` and `handleEvents`; `WakeupChannelStates`
  computes what the code does to these two.
* `NeverSleepsOnWork`: `Spec => []NoLostWakeup`. Asleep with a functor queued or
  `quit_` set, the loop is about to be woken. This is not inductive: nothing is
  known of a loop that is about to sleep. `Announced` extends it to every stage
  at which the loop no longer takes from the queue (`QueuedIsAnnounced`) and to
  a set `quit_` (`QuitIsAnnounced`); with `TypeOK` it is. The case to look at is
  `HandleActivedChannels`, which empties the eventfd: `swap` comes after it and
  takes whatever the swallowed wakeup was for.
* `RunExactlyOnceInOrder`: `Spec => []ExactlyOnceInOrder`. What ran, the batch
  and the queue are together 1, 2, ..., `submitted`. The lemmas of `QueueLemmas`
  (appending to the last of two queues, moving a head to the queue in front)
  carry the three steps that move a functor.
* `LoopImplementsExecutor`: `Spec => ImplementsExecutor`, which is `E!Spec` under
  the mapping. `ExecutorInit` and `ExecutorStep` map the initial states and each
  step: the swap and everything about the eventfd stutter, a functor that runs is
  the first that waits (`HeadOfFirst`).

Of the pool, under `Pool == INSTANCE EventLoopThreadPool`:

* `LoopsOutliveThreads`: `DeletedAfterAllThreads`, for a pool of any size.
  `JoinedSoFar` says what the join loop knows half way: every thread before
  `next` has ended. It lasts because no step leads out of "left", and none gives
  a loop a thread once `start` is over (`UnstartedSoFar`).
* `QuitKeepsSleepersFunctors`: `QueuedAsleepIsRun`. `AsleepMarks` says it of every
  stage: what was queued in `poll` or before the swap is gone from the queue when
  the loop is at any other.

### `TcpConnectionProofs`

The reading half: rings of any capacity, any number of bytes, of rounds of `readv`,
of callbacks, of `ReadData` and closes. `IInv` is inductive (`Invariant`):

* `Stream` says where each byte is. `Has(b, base)`: the bytes of a ring from `pop`
  on are `base + 1`, `base + 2`, ...; `Holds`: those of a list follow each other,
  a ring's base being what the counts before it add up to (`Upto`). What was
  delivered lies before the first ring, what the kernel holds behind the last.
* `Enough` and `TypeOK` also hold after a `ReadData` that ended inside a buffer
  behind the first: `readSize_` never says more than the counts, so that `ReadData`
  and `PeekData` always find their end.
* `Flags` and `Draining`: once `onClose` has noticed the peer's close, `onRead` is
  still to come, or running, while the kernel holds a byte.

The work is in two lemmas about the list. `readv` fills the room of the tail, before
or around its end, then the next buffer (`SlotsOfRing`, `TailHas`); a push that
comes round to pop is a full ring and not an empty one because its count says so.
`ReadData` drops whole buffers and moves the pop of one (`PopMoves`, `HeadKeeps`,
`RestKeeps`). From there:

* `CountsAlwaysAgree`: `CountsAgree`. `StreamAlwaysIntact`: `StreamIntact`; the
  contents, a concatenation, are the numbers behind `delivered` (`ContentsIs`).
* `AlwaysReadBeforeRelease`: `ReadBeforeRelease`.

The writing half is `W == INSTANCE TcpWrite`, its variables named anew, its buffers
those of the reading half (`SameBuffers`); `WriteAssumption` is what `TcpWrite`
assumes of its constants. `WInv` is inductive (`WriteInvariant`):

* `WListed` holds in every state: the fields of each ring agree, only the first has
  been read from the middle (`Rings`), the counts add up to `writeSize_`, and what
  was written and what waits are as many bytes as `writeData` was given.
* `WStream` says where each byte is, with the same `Holds` as above. It holds until
  a round of `onWrite` begins with an empty head, whose equal push and pop it takes
  for those of a full ring. `WListed` outlives that: what `writev` was given too much
  is found to be more than the counts, or is taken off like any other bytes.

`writeData` fills the tail, round its end if need be, and then the buffers it adds,
each full but the last (`WrittenIs`, `NewIs`, `WrittenHolds`). `writev` is given what
the first two buffers hold, in order (`IovIs`), and what remains of the list after
any part of it still follows what was written (`RestIsLeft`: a head cut short, a head
dropped, a head dropped and the next cut short, the only buffer emptied). From there:

* `WriteCountsAlwaysAgree`: `W!CountsAgree`. `QueueAlwaysIntact`: `W!QueueIntact`.

The counts and contents of a list are recursive functions. `QueueLemmas` does
induction up to a number over a set (`InductionUpTo`), the predicate of the
library's theorem being nothing the provers can instantiate, and with it proves that
running sums exist, grow and can be found in (`SumsExist`, `SumsGrow`, `SumsFind`),
which place of a concatenation holds what (`FlattenPlaces`), and what one part more
behind or in front makes of it (`FlattenAppend`, `FlattenFront`).

### `AsyncLoggingProofs`

The invariant `IInv` is `TypeOK`, the three results, and what links them across
the mutex: a batch exists only while the backend writes it and names no logger
twice (`BatchWhileWriting`), a logger outside of it has both spare buffers back
(`RestOutsideBatch`), and a next buffer in use has left a full one behind
(`SpareReplaced`).

* `ListedOnce`: `ListedOnceWhileNotEmpty`.
* `RecycleNeverUnderflows`: `RecycleFindsBuffers`. A swap takes as many buffers
  from the backend as it leaves in the batch.
* `NeverWaitsOnLines`: `NoLineMissesTheWait`. The wait has no predicate, so that
  it must not be entered while a logger is listed.
* `BuffersNeverShared`: `NoSharedBuffer`. `NoneShared` is stated of all that a
  logger reaches: its two vectors, the current and the next buffer, the two that
  the swap takes. `Apart` keeps them apart within a logger, where NULL may be
  there twice, and what two loggers reach is disjoint. Every
  handover, of a full buffer (`NextApart`), in the swap and in the recycling, leaves
  to be reached what was reached before, but for a buffer that was new.
* `EveryLineOnceInOrder`: `LinesOnceInOrder`. `LinesInv` adds to the order of the
  lines of a logger (`InOrder`: the file, the batch, the full buffers, the current
  one) that no other buffer holds a line (`Clean`): a spare one that still held
  its lines would write them twice. That a line appended to one buffer is in no
  other is `NoneShared`.

### `LoggerProofs`

The log, the files, the threads and the clock of one process after another, for
any number of threads and lines, any clock, file size, period and count. `IInv` is
inductive (`Inductive`), which none of the properties is alone:

* `EveryLineKept`: `LinesKept`. `Numbered` says that a number is given once and
  the files ascend, `Kept` and `LostLast` where a line is. A process that is
  killed loses what stdio holds, so that the invariant has to know that these are
  the last lines of all, over every file (`BufferedLast`): a roll flushes what it
  leaves behind.
* `SizeLimitKept`: `OversizedOnlyWithinASecond`. The property adds up lines of a
  file, `writtenBytes_` is a counter. `Counted` says that the counter is the
  number of bytes of the opening, a set of (line, place in the line) rather than a
  sum, so that no induction is needed (`BytesAdded`). `LateFits` carries the
  property for the file that is still written, `Since` keeps an opening from
  coming again after a later one.
* `ClockLookedAt`: `LooksAtTheClock`. `DueCounted`: the lines at the end that were
  due and changed nothing are counted by `count_`, which starts again at its limit.
* `FatalWritten`: `FatalIsWritten`. `AbortsFlushed`: after the flush other threads
  may append and be buffered, but only behind the FATAL line.
* `StampsOfTheSecond`: `StampsTrue`, an action property, from `ThreadsOK`: the
  text a thread keeps is of the second it keeps.

`Outcome` reduces an append to two cases, `Rolled` and `Stayed`; each part of
the invariant is carried over both once, and `AppendKeeps` puts them together.
Because it speaks of any log and files, not of the variables, the backend's
step, which appends twice, uses it twice. `DieKeeps` (files cut short),
`RestartKeeps` (a log of a new process) and `FlushKeeps` are the others.

### `TcpServerProofs`

Any number of loops, connections, descriptors and calls. The properties are about
connections and what the queues hold of them; `Safe(q)` states the invariant for
any queues `q`, so that an action is what it takes from a queue, then what it
appends (`Taken`, `Appended`; one loop's functors in `TailKeeps`, `MoreKeeps`).

* `ConnectionsRemovedOnce`: `RemovedOnce`, by `HeldUntilRemoved`: a connection
  that is not closed is in `connections_`, and one that is has one
  `removeConnection` waiting, or has left. That its own descriptor is its place
  there (`UnderItsDescriptor`) is what keeps a reused descriptor from taking it.
* `FreedNeverReached`: `FreedUnreachable`. `ClosedThenDestroyed`: a closed
  connection is held by its `removeConnection`; then its `destroyInLoop` waits with
  no functor that uses the connection behind it (`Settled`); then that has run and
  nothing is left (`Gone`). The order in the queue is the point: the number of
  functors alone says nothing about which comes first. `EstablishWaits` is the
  same for a user's first `establish()`, which waits ahead of any send.
* `DestroyedUncalled`: `EmptyServerUncalled`, by `Outlived`.

### `TcpClientProofs`

`OneAtATime`, `ResetsClosedChannel` and `DestroyedIdleUncalled` prove the three
safety properties of the run `TcpClient`. Alone none of them lasts:

* `Attempts` adds to the count of attempts that the connector wants what its
  client wants, and that a destroyed client left it nothing to do, or unwilling:
  so `ConnectIgnored` cannot drop the one functor of a live client, and `OnWrite`
  is of a live client only.
* `Resets` adds that no "reset" waits behind a "connect" (`Ordered`): the next
  attempt, which opens a channel, finds no reset left. `OnWrite` appends a reset,
  and may, since the client then has its attempt in `connecting_` and, by
  `Attempts`, none in the queue.
* `Connections` adds that a live client's connection is the only one open.

Functors are counted by `Times`; `QueueLemmas` proves what `Append` and `Tail` do
to it.

### `TimeZoneProofs`

* `DayOfDate`: `getJulianDayNumber` undoes `getYearMonthDay`. The days of
  centuries, years and months that the one takes away, by rounding division, are
  those the other adds up (`DayOfCentury`, `DayOfYear`, `DayOfMonth`, `DayNumber`).
* `DateIsTheCalendars`: `Spec => []CalendarAgrees`. `IInv` (`WalkKeeps`) says that the
  day is counted as the leaf is turned. It lasts because a leaf turned is one more day
  (`LeafTurned`: the next day of a month, the first of the next, New Year; at
  the end of February `YearLength` tells the leap years), and it is enough
  because `getYearMonthDay` undoes `getJulianDayNumber` for a day there is
  (`DateOfDay`, by `LastDays`: the 366th day of a year and the 36525th of a
  century come only where the divisions leave room for them).
* `UtcIsTheCalendars`: `Spec => []UtcAgrees`. The walk's steps meet again at
  midnight (`StepsFit`), so that a time is a number of days and a second of the
  day, before 1970 too, where the division rounds the other way (`DayQuotient`).
  The date is then the calendar's; the day of the year counts from New Year
  (`DayOfTheYear`); hours, minutes and seconds put together again are the second
  they came from (`HmsOf`), and so is the whole time (`UtcOf`, for every second of
  a day, whatever the step).
* `LocalTimeComesBack`: `Spec => []LocalTimeReturns`, for any zone file that meets
  `ZoneAssumption`: 32-bit numbers, and transitions in order, as `std::lower_bound`
  expects them by gmttime and by localtime: they are further apart than the offsets
  of the file differ, without which the local times would not be sorted. What is
  read of it, whole or cut short, is then such a zone (`ZoneIs`). `lower_bound`
  finds the last transition that is not after the key (`LowerBoundIs`, `FoundIs`).
  A local time is therefore looked up where it was made, or one transition later
  (`LocalDivides`); the second only in a time that comes again, and there
  `fromLocalTime`'s second look finds the time exactly when the clock is set back
  by an hour from summer time (`Returns`). Both ways the seconds pass through a date
  and come back (`RoundTrip`, by `DayOfDate` and `HmsOf`).

### Only model-checked

Liveness needs fairness and ENABLED, which are beyond the prover. Of the invariants
`NoOverrun` and `NumbersReadBack` of `LogStream` are checked on their runs and not
proved: how many digits a number has, and what they spell, takes an induction over
the number.

## 5. Not modelled

* `TcpConnection`: `shutdown`, which only calls shutdown(2); the setters; the
  bytes of a connection that is not established.
* `Connector` apart from `TcpClient`, which closes its connector once and does not
  use it again.
* `MinHeap`, `BlockingQueue`: nothing in the repository uses them.
* `BoundedBlockingQueue`: it does not compile when it is used (it calls `full()`
  of a deque and `wait()` without a lock), so that it has no behaviour.
* `Atomic`, `Singleton`: wrappers of one operation. `ProcessInfo`, `FileUtil`:
  reading of `/proc` and of files. `Socket`, `InetAddress`: one system call per
  function; what the calls may return is in the modules that make them.
* The wording of a line (`LogMessage`, `Logging`), a message without a logger,
  which goes to stdout, and the digits of doubles.
* The growth of the poller's event array, and other uses of a channel's
  registration than adding it.

## 6. Plan

Done: the event loop, the executor it implements, and the pool of loops; logging
down to the files, the text and the dates; reading and writing; server and
client; the proofs above.

What is left, in order:

1. `TcpConnection` with the bytes of both directions and its life cycle in one
   module, so that `TcpRead`, `TcpWrite` and `TcpServer` share a close.
2. `LogStream` with the digits of doubles.
