# A TLA+ development for the echo server

The repository is a small TCP server library in the style of muduo (one
reactor per thread) with an echo server on top and an asynchronous logger
beside it. This directory models its concurrent core, checks the models with
TLC on small instances and proves the most important results with TLAPS for
all instances.

## 1. The system

| component | state it keeps | operations | interacts with |
|---|---|---|---|
| `EventLoop` | `quit_`, `looping_`, `pendingFunctors_` (mutex), `callingPendingFunctors_`, the eventfd, `activeChannels_` | `loop`, `quit`, `runInLoop`, `queueInLoop`, `wakeup`, `handleRead`, `doPendingFunctors` | any thread may call it; it polls the poller, runs channels and functors |
| `Channel` | `events_`, `revents_`, `index_`, `tie_` | enable/disable, `remove`, `tie`, `handleEvent` | calls its loop's poller; calls back the connection |
| `Poller`, `EPollPoller` | `channels_`, the kernel's epoll set | `poll`, `updateChannel`, `removeChannel` | holds raw channel pointers |
| `TcpConnection` | `state_`, input and output `Buffer`, channel, socket | `connectEstablished`, `connectDestroyed`, `handleRead/Write/Close/Error`, `send`, `shutdown` | runs on its loop; user callbacks; `closeCallback_` to the server |
| `Acceptor`, `TcpServer` | listening socket; `connections_` | `listen`, `handleRead`; `newConnection`, `removeConnection`, `removeConnectionInLoop`, destruction | main loop, and the pool's loops through functors |
| `EventLoopThreadPool`, `EventLoopThread`, `Thread` | `loops_`, `next_`; `loop_` (mutex, condition variable) | `start`, `getNextLoop`, destruction; `startLoop`, `threadFunc` | the server's thread and one thread per loop |
| `Buffer` | the vector, `readerIndex_`, `writerIndex_` | `append`, `retrieve`, `readFd`, `writeFd` | connection and socket |
| `AsyncLogging`, `FixedBuffer` | four circulating buffers, `buffers_`, `running_` (mutex, condition variable) | `append`, `start`, `stop`, the logging thread | every thread logs; writes to `LogFile` |
| `LogFile`, `FileUtil` | the open file, counters, time of the last roll and flush | `append`, `flush`, `rollFile` | the clock, the file system |
| `Logger`, `LogStream` | a record under construction in a 4 KB `FixedBuffer`; `g_output`, `g_flush` | construction, `operator<<`, `finish`, output, flush and abort | `AsyncLogging::append` or stdout |
| `Socket`, `InetAddress`, `CurrentThread`, `main.cc` | - | wrappers and wiring | system calls |

What makes each of them correct, and what is hard about it:

- **EventLoop.** The push of a functor and the write of the wakeup are two
  steps, and the loop drains the eventfd, swaps the queue and tests `quit_` at
  different times. Correct: no functor and no `quit()` is slept on, every
  functor is run once and in order.
- **Connection life.** A connection is created on the main loop, lives on a
  loop of the pool, is forgotten by the main loop and destroyed on its own
  loop; channels and `shutdownInLoop` hold raw pointers; one epoll event can run
  several callbacks, each of which may close the connection. Correct: nothing
  dangles, the poller's idea of the epoll is right, the user hears of the
  connection's end, and everything comes back when the peer is gone. Threads
  of the user may keep a connection and call `send()` and `shutdown()`, which test
  `state_` and act on it later.
- **Thread pool.** Loops live on the stacks of their threads. Correct: `start()`
  returns live loops, `getNextLoop()` is fair, destruction of the server ends the
  threads and releases every connection, those included whose
  `connectDestroyed` is still in the queue of a loop that has quit.
- **Buffer.** Correct: indices in order, no byte lost or out of place.
- **AsyncLogging.** Correct: no empty pointer among the recycled buffers, no
  record lost, repeated or reordered.
- **LogFile.** It depends on a clock that is read twice in one append, may stand
  still, run ahead and be set back between any two readings, and on a disk that
  may refuse a write. Correct: no file is opened twice, none is counted past its
  size or kept past its day for long, and what is written is flushed in time.
- **Logger.** Everything happens at the end of a fixed buffer, field by field.
  Correct: no byte outside the buffer, no number wrong, a record that fits is
  complete, and a FATAL record is out before the process is.

`PROJECT.json` lists these hazards with the line at which each one bites and
the properties that cover it.

## 2. Modules

| module | models | kind |
|---|---|---|
| `TaskQueue` | what the queue of a loop promises: FIFO, each functor run at most once, and only after it was handed over | abstract specification |
| `EventLoop` | `EventLoop.cc` with any set of calling threads | implements `TaskQueue` |
| `EventLoopProofs` | | theorems |
| `TcpServer`, `MCTcpServer` | `TcpServer`, `Acceptor`, `TcpConnection`, `Channel`, `EPollPoller` on several loops | composition; each loop appears with its queue as `TaskQueue` promises it and is woken as `EventLoop` shows |
| `TcpServerRecords`, `TcpServerProofs` | | lemmas about one connection's record; theorems about the server, without and with threads of the user |
| `TcpServerUsers` | `send()`, `shutdown()` and the release of a connection on a thread of the user | extends `TcpServer` |
| `EventLoopThreadPool`, `EventLoopThreadPoolProofs` | `EventLoopThreadPool`, `EventLoopThread`, `Thread`, `~TcpServer()` | theorems |
| `Buffer`, `BufferProofs` | `Buffer.h`, `Buffer.cc` | theorems |
| `AsyncLogging` | `AsyncLogging`, `FixedBuffer` | |
| `LogFile` | `LogFile`, `FileUtil` | a component without steps of its own |
| `Logging` | which steps of the logging thread call the `LogFile` | composition of `AsyncLogging` and `LogFile` |
| `LoggingProofs` | | theorems about `AsyncLogging`, `LogFile` and `Logging` |
| `Logger`, `MCLogger` | `Logger`, `LogStream`, `FixedBuffer<4096>` | |
| `LoggerProofs` | | theorems |
| `SequenceFacts` | | lemmas of more than one component: induction, `FlattenSeq` |

Definitions keep the names of the code. Operators whose names say what is
wrong with them (`QuitNoWakeup`, `ResetForgotten`, ...) are not part of any
specification: they are variants of the definition that follows them, used
to see that the properties notice the mistake.

### EventLoop

`pc` is the owner's place in `loop()` and `doPendingFunctors()`. A caller's
`QueueInLoop` or `Quit` changes the shared state and leaves `waking[t]` set;
`Wakeup(t)` is the write to the eventfd. In `preloop`, `inChannel` and
`inFunctor` the owner runs code of the user and may call the loop itself.
`PollReturns` may return any subset of the ready channels, or none.
`EventfdMax` only bounds the state: one wakeup after the other adds 1 to the
eventfd's counter, whose real limit no run of the program comes near, and
nothing but whether it is positive is ever looked at. `ran` and `early` are
history variables.

Each functor object of the model is handed over at most once, and `TaskQueue`
takes it only if it is neither queued nor run (`Fresh`). A functor that was run
and kept in the vector, or run without being taken out of it, is therefore no
step of `TaskQueue`.

A loop that has ended (`pc = "done"`) still takes calls, as the object may
outlive `loop()`; the destruction of the loop object is not part of this module.

### TcpServer

`conn[c]` is one record per connection: the object, its channel (`events`,
`index`) and its socket (`unread`, `fin`, `reset`, `err`, `shutWr`, and `reg`, whether
the kernel's epoll has it). The operations of `EPollPoller`, `Channel` and
`TcpConnection` are functions from record to record, composed as the code calls
them; `Became` adds what they leave in the queues and in the poller's map.
`Live` is the set of connections some `shared_ptr` still owns: the map's, one
that a thread of the user has (`held`), or a functor's, including functors of the current batch that have been run but
whose copies still exist (`spent`). `Peer...` actions are the peer seen through
the socket. The user may do one of `UserActs` in any UP or message callback: nothing,
send, shut down, or send and then shut down (after `shutdown()` neither call has
an effect). In a DOWN callback both are without effect, since the state is
`KDisconnected`.

Kernel behaviour that is assumed: data is read before an error or the end of
the stream; a RST gives EPOLLHUP, EPOLLERR until SO_ERROR is fetched, and
EPOLLIN; EPOLLHUP and EPOLLERR are reported without being asked for; a write to
a reset socket fails with ECONNRESET once, then with EPIPE and a SIGPIPE, which
ends the process (`died`); a write after the own `shutdown(SHUT_WR)` is an EPIPE
at once. `handleRead()` calls `handleClose()` directly at the end of the stream and
`handleError()`, which fetches SO_ERROR, for a failed read.

Sizes of data are abstracted: `out` says whether there is a backlog, and a
write takes all or part of it.

A callback on a connection that is not alive ends the process (`died =
"dangling"`): what the code would do is undefined.

### TcpServerUsers

A thread of the user gets a `shared_ptr` to a connection (`Take`), calls `send()` or
`shutdown()` and lets go (`Release`). `Call` is the test of `state_`, `SendQueues`,
or `ShutdownSets` and then `ShutdownQueues`, are what follows it, so that any step
of the loops comes in between. `sendInLoop` is bound to the raw `this`: the model reaches behaviours in which
it is run after the connection was destroyed (a `send()` queued behind
`connectDestroyed`, then `Release`). They are not a disagreement with any document,
since none says from which threads `send()` may be called, and they end there;
`PeerGoneIsDestroyed` makes an exception for a process that has died.

### EventLoopThreadPool

`parent` and `at` are the server's thread and the worker it is busy with;
`child[i]` is thread i. `startLoop()` looks for the loop (`wait`) and, if there is none,
sleeps on the condition variable (`asleep`) until `Publish` notifies it or it wakes up
for no reason (`SpuriousWakeup`, which is not fair: the notification has to do).
The thread withdraws its loop under the lock (`Withdraw`) before it ends and the loop
with it (`EndThread`). `~EventLoopThread()` reads `loop_` and calls `quit()` in two
steps, because it does so without the lock. `Quitters` are workers whose own
callbacks may call `quit()`.

`~TcpServer()` is part of this module: `Destroy`, then `QueueDestroyed(i)` once per
connection, then the pool. Connections are counted per loop: in the map
(`unqueued`), as functor (`queue`), after their `connectDestroyed()` (`told`), or gone
with the queue of a loop that ended before it ran them (`released`).

### Buffer

The i-th byte put into a buffer is the number i, so that a byte that is lost
or moved shows. `append()` is one action with the three cases of `makeSpace()`.
`ReadFd(n)` is `readv()` with result n and what the code makes of it; `WriteFd(n)` is
`writeFd()` with the `retrieve(n)` that `handleWrite()` calls. `intact` remembers
whether one of the two calls that are known to lose bytes (section 4) has
happened: `BytesKept` is about all behaviours up to then.

### AsyncLogging, LogFile, Logging

The i-th record is the number i and takes one unit of a buffer. The thread
holds the mutex for its whole round except inside `wait_for()`; the round is
`Collect` (with the test of `running_` or the return of the wait), one `WriteBuffer`
per buffer and `Refill`. `stop()` takes no lock and comes at any time. `file` is the
sequence of records given to `output.append()`.

`LogFile` keeps the object and the files it has closed in one record, `output`; its
operations are functions on it, with the readings of the clock as parameters.
`AppendChunk` reads the clock, lets the disk take all or part of the chunk, rolls
and flushes; `rollFile()` reads the clock again, whatever it shows by then: the
thread may be descheduled for any time in between and the clock set back or
corrected. `now` is the last reading; a smaller one is a setback, and `setbacks`
counts them within an append and between two. `Logging` says which step of the
thread makes which call.

### Logger

A field is a text of some size or a number. The sizes are those of the code
(4096, 32, 17 + 7 + 6 for time and level), so that the limits are the real ones.
`LowDigitsFirst` is the loop of `formatInteger()` with C's truncating division.
`touched` counts the bytes of `data_` written, the NUL behind a number included.
`sink[t]` is where the record of thread t is: with `defaultOutput` in stdio's buffer
until it is written, with `asyncLog` in the buffers of `AsyncLogging`.

## 3. Runs

| run | instance | shows |
|---|---|---|
| `EventLoop` | 2 callers, 3 functors, `EventfdMax` 2; 69 878 states | `TypeOK`, `NoLostWakeup`, its inductive form `WakeupInv`, `ImplementsTaskQueue`, and under fairness `PromptDispatch`, `QuitStopsLoop` |
| `TcpServerSafety` | 2 connections, 2 descriptors, 1 loop, one call per callback; 936 983 states | `NoFatal`, `NoDangling`, `DestroyedAfterDown`, `DownIsFinal` |
| `TcpServerUsers` | 1 connection, 2 loops, up to two calls per callback, a thread with 2 calls; 166 982 states | `NoFatal`, `NeverUpAgain`, `PeerGoneIsDestroyed` |
| `TcpServerUsersDown` | the same with 1 call | violation of `GivesUpWriting` |
| `EventLoopThreadPool` | 3 threads, one of which may quit by itself, up to 2 connections on each; 42 thousand states | `LoopsExist`, `Balanced`, `ConnectionsReleased`, `StartReturns`, `RunningLoopQuits`, `TeardownEnds` |
| `EventLoopThreadPoolDestroy` | 2 threads | violation of `PoolIsDestroyed` |
| `Buffer` | 10 bytes; room for 3, extra buffer of 2; 64 thousand states | `TypeOK`, `BytesKept` |
| `BufferReadFd`, `BufferWriteFd` | 7 bytes | violations of `NoByteLost`, `WriteFdSendsReadable` |
| `Logging` | buffers of 2 records, 5 records, files of 2, days of 2 seconds, 3 seconds, 1 setback, 1 refused write; 357 thousand states | `SpareAvailable`, `RecordsInOrder`, `FilesHoldLog`, `FlushedBetweenRounds`, `FreshFiles`, `SizeBound`, `DayBound`, `FlushLag`, `RollsForAReason`, `RecordsReachFile`, `StopEndsThread` |
| `AsyncLoggingStop` | 3 records | violation of `AllWrittenAtEnd` |
| `Logger` | 2 threads, 2 fields each, out of 4 texts and 4 numbers; 412 thousand states | `NoOverrun`, `NumbersReadBack`, `CompleteWhenItFits`, `NewlineOrFull`, `FatalIsWritten` |

**Bounds.** Two foreign threads and three functors allow pushes of both threads
before, during and after each swap, with one functor being run and two queued;
a counter of 0, 1 or more tells all that the loop can see of the eventfd. In `TcpServer` the loops share nothing but
queues, so two connections on one loop meet in every way that two connections
can (same poll, same batch, reuse of a descriptor by the second). There `UserActs`
leaves out the send followed by a shutdown in one callback, which would nearly
double the states; it is in `TcpServerUsers`, and the theorems hold for it too.
`MCTcpServer` declares connections and descriptors symmetric, `MCLogger` the
threads; runs with liveness properties use no symmetry. With a foreign thread
one connection is enough: the thread meets the loop of its connection and the
main loop, both of which are there, and two calls let a `shutdown()` follow a
`send()` that has not run yet. Two connections on each of three loops give queues
of different lengths when the server is destroyed. Five records in buffers of two
pile up two full buffers and the current one, more than the two that are kept;
they fill files of two records more than once, and three seconds of a clock with
two-second days have a change of day and room for a setback. In the buffer, each
of the three cases of `append()` occurs, several times in one behaviour. The texts
of `Logger` leave 33, 2 and 1 bytes behind the prefix, the numbers contain the
smallest int, 0, and zeros inside and at the end. `MaxBytes`, `MaxRecords`, `MaxCalls`,
`MaxFields`, `MaxTime`, `MaxSetbacks` and `MaxFailures` restrict how long a behaviour
is, not what it does.

Deadlock is not checked: each system may stop when its users stop (and a
bound is reached), when the loop has quit or the process has died.

**Fairness.** `EventLoop`: the owner takes its steps, callers finish the `wakeup()`
they have begun, and a poll returns when the eventfd is readable; that the poll
times out is deliberately not assumed, callers need not call at all.
`TcpServer`: each loop keeps running while the process does, its `poll()` returning
when there is something to do, which is what `PromptDispatch` shows of a loop;
peers and users have no fairness. `EventLoopThreadPool`: every thread is
scheduled. `TcpServerUsers`: besides the loops, a call that the user's thread has
begun returns, and the thread lets go of a connection some time, without which
no server can destroy it. `AsyncLogging` and `Logging`: the logging thread is scheduled and its `wait_for()`
returns after `flushInterval_`.

## 4. Where code and documentation disagree

Each is a run that TLC refutes.

1. `TcpServerUsersDown`: `sendInLoop()` logs "disconnected, give up writing" and goes
   on. A `send()` of another thread that passed its test before the close makes
   the connection write and turns its write interest on again after the DOWN.
   `NoFatal` and `NeverUpAgain` show what remains true then.
2. `BufferReadFd`: `readFd()` loses the bytes in the writable part when the read
   fills it.
3. `BufferWriteFd`: `writeFd()` writes the unused part of the vector.
4. `AsyncLoggingStop`: the last flush does not write what is still in memory.
5. `EventLoopThreadPoolDestroy`: `loop()` clears `quit_`, so the destruction of a
   pool whose thread has not entered `loop()` yet never ends.

Seen while modelling, without a run of their own:

- on a reset, one event calls `handleClose()` from `handleError()` and again from
  `handleRead()`, so the connection callback gets DOWN two or three times
  (`include/Callbacks.h:12` speaks of a change of state); `NoFatal`, `NoDangling` and
  `DownIsFinal` show that this is harmless for the library itself;
- `formatInteger(0)` writes nothing: `NumbersReadBack` states it as the one exception;
- `formatTime()` keeps 17 of the 19 characters of "YYYY/MM/DD HH:MM:SS"
  (`log/Logger.cc:65`), so no record shows its seconds; `localtime()` is not
  thread-safe;
- `include/Logger.h:90` describes a level below which records are not written; there
  is none;
- a clock set back can close a file that is neither over its size nor of another
  day: with a file of the period 86400 opened at 86401, `append()` reads 86399, so
  that the day seems to differ, and `rollFile()` reads 86402, which is past
  `lastRoll_`. `RollsForAReason` therefore speaks of a clock that is not set back;
- after a refused write `writtenBytes_` does not count the part that was written, so
  a file may exceed `rollsize_` by it: `SizeBound` is about the counter;
- in `main()` a FATAL record goes to `asyncLog` and the flush to stdout: the record is
  in memory when `abort()` ends the process (`FatalIsWritten` is about the default
  output only).

## 5. Proofs

For every value of the constants allowed by `LoopAssumption`,
`BufferAssumption`, `LoggingAssumption`, `LogFileAssumption`, `LoggerAssumption`,
`ServerAssumption`, `UsersAssumption` and `PoolAssumption`, which say only that sizes, intervals and
bounds are numbers in the ranges the code gives them (`LoggerAssumption`: the
numbers and the line of a statement are ints):

- `EventLoopProofs!TypeCorrect`, `WakeupCovers`, `WakeupSafety`: `Safety => []TypeOK`,
  `Safety => []WakeupInv` and `Safety => []NoLostWakeup`. `NoLostWakeup` speaks of the blocked loop only and
  is not inductive: what is queued while the loop handles channels or runs
  functors matters when it blocks later. `WakeupInv` says where the wakeup may
  be missing: only between the draining of the eventfd and the swap, where
  nothing is needed because the swap will take the functor along. It also
  needs that `callingPendingFunctors_` is set exactly from the swap to the last
  functor (part of `TypeOK`), which is what makes the owner wake itself up, and
  that the local vector is empty outside the batch. One step per action (`WakeupStep`).
- `EventLoopProofs!Refinement`: `Safety => ImplementsTaskQueue`, with
  `functors \o pendingFunctors_` as the abstract queue. The swap is a
  stuttering step because the local vector is empty then, which comes from
  `WakeupInv`. That a functor is `Fresh` when it is handed over comes from the
  callers' side: each hands its own over once (`Unused`).
- `BufferProofs!IndicesInOrder`: `Spec => []TypeOK`, all operations, by induction
  on the steps; `append()` first (`AppendTyped`), since `readFd()` uses it on a vector
  that `readv()` has changed.
- `BufferProofs!BytesAlwaysKept`: `Spec => []BytesKept`; inductive together with
  `TypeOK` (`AppendKeepsBytes` for the three cases, `ReadKeepsBytes` for a read that
  leaves room).
- `LoggingProofs!SpareAlwaysAvailable`, `BuffersTyped`: `SpareAvailable` and
  `TypeOK` need each other: `newBuffer2` stays a buffer because a second one is
  there to replace it, and it is there because `append()` uses up `nextBuffer_`
  only when it adds to `buffers_`. Since a round takes several steps, `LoggingInv`
  also says what is true between rounds (`AtRest`): nothing is left to be written
  and `newBuffer1` is there.
- `LoggingProofs!RecordsAlwaysInOrder`: `Safety => []RecordsInOrder`. With `LoggingInv`
  it is nearly inductive by itself (`OrderInv`): in addition the buffers that are
  recycled must be empty, or records written once would come back. The records
  form a concatenation of four parts (`Parts`), and each step moves a piece from one
  part to the next (`PartsAppend`, `PartsCollect`, ...).
- `LoggingProofs!FilesAreFresh`, `SizeIsBounded`, `DayIsBounded`, `LagIsBounded`,
  `AlwaysFlushedBetweenRounds`, `RollsHaveReasons`: the properties of `LogFile` and
  `Logging` from one invariant, `FileInv`, which relates the file, the counter and the
  times of the last roll and flush to the clock. `append()` is cut into what it
  does one after the other (`AppendStages`: write, roll, flush), with a lemma for each. The
  bounds that a clock set back breaks are in it as implications from
  `setbacks = 0`; `RollsHaveReasons` needs the same, since only then the day that
  `rollFile()` notes is not before the one `append()` saw, with no bound on how far
  the two readings are apart.
- `LoggingProofs!FilesAlwaysHoldLog`: `HoldInv`, the files together (`Total`) are the
  records handed over without the refused ones. A refused rest of a buffer can
  only be its end, which is what makes the removal commute with the write.
- `LoggerProofs!NeverOverrun`, `NumbersAlwaysReadBack`, `AlwaysCompleteWhenItFits`,
  `AlwaysNewlineOrFull`, `FatalAlwaysWritten`: `LoggerInv` says of every record under way
  that it is `Complete` as far as it has come, of a finished one that it `EndsWell`, and
  how far the record of a thread that aborts has come. `formatInteger()` is proved
  for every int: an int has at most ten digits (`AtMostTenDigits`, so that a number
  never needs more than the 32 bytes it is given), and the digits read back as the number
  (`DigitsValue`), by induction along C's division (`QuotientInduction`).
- `TcpServerProofs!EpollAlwaysAgrees`: `Safety => []NoFatal`. The inductive invariant
  is that the record of every connection `Agrees`: the kernel has the fd exactly when
  the index is `Added`. One lemma for each function of the poller, the channel and the
  connection that a callback is made of shows that it keeps the agreement, up to
  `HandleEventAgrees` for the four callbacks of one event; no assumption is made about
  the order in which a connection meets its events and functors. The callback counters
  range over the naturals here; that they are bounded is part of `TypeOK`.
- `TcpServerProofs!TypeCorrect`, `NothingDangles`, `DestroyedOnlyAfterDown`,
  `DownStaysDown`: the four invariants of the run `TcpServerSafety` that need the order
  of things, from `ServerInv`. Its heart is `Anchored`: a connection that a poller knows
  is in the map, or a `removeConnectionInLoop` waits for it on the main loop, or a
  `connectDestroyed` on its own. Each of the three holds a `shared_ptr`, and each step
  that takes one away provides the next. Around it: every functor waits on its own
  loop and suits the history of its connection (`Places`), `connectEstablished` waits
  once (`Once`), a raw `shutdownInLoop` has a functor behind it that owns the connection
  (`Order`), a descriptor belongs to one connection that is alive (`OwnFd`), and what a
  poll returned is still registered (`Acts`). `Orderly` is what the record of one
  connection remembers of `handleClose()`, which runs up to three times: after the
  first one nothing turns an interest on again (`EventOrderly`, which follows the four
  callbacks of one event). `TypeOK` comes last, since the bounds of its counters are
  results.
- `TcpServerProofs!NoneIsFatalWithUsers`, `NeverUpAfterDown`: `UsersSafety => []NoFatal` and
  `UsersSafety => []NeverUpAgain`. With other threads a `sendInLoop` and a `shutdownInLoop`
  may wait without an owner and meet a connection that is gone, so `ServerInv` is
  no invariant (`Order` fails), and a `setState(kDisconnecting)` that comes late
  takes a record out of `Orderly`. `UsersInv` is what remains. Of the record: `Sound`
  (it is reported up once, and after the first DOWN the state is one of the two that
  none of the callbacks leaves for `KConnected`). Of the loops, while the process
  runs: `Places` and `Once` as before, events and calls of other threads belong to
  connections that have been established (`EventsMet`, `CallersMet`), and `Agrees`
  holds of every connection that is alive (`LiveAgree`) and no longer of one whose
  fd its last owner has closed. `LiveStep` shows that no step but the accept brings a
  connection to life, `MovedStep` what any change of one record keeps.
- `EventLoopThreadPoolProofs!PoolTyped`, `AlwaysBalanced`, `LoopsAlwaysExist`,
  `AllReleased`: the four invariants of the pool, from `PoolInv`. `Balanced` needs the
  place of `next_` in the rotation (the loops before it have one connection more);
  `LoopsExist` that the starting thread waits for a published loop, and that no loop
  other than the ones that may quit by themselves ends before it is told to;
  `ConnectionsReleased` that a joined thread has ended, and that the server has emptied
  its map and queues nothing any more.

`SequenceFacts` has what several of these need. The prover cannot instantiate the
library's induction theorems, whose parameter is an operator; with the predicate given as a set
(`SetInduction`, from the library's well-foundedness of `<`) it can. A recursive
function or the function that `FlattenSeq()` chooses is dealt with in the same two
steps each time: there is a function that satisfies the recursion, and any two agree.

Only model-checked: all liveness properties, since fairness is out of the prover's
reach. Every invariant of a passing run is stated by a theorem.

## 6. Not modelled

- `writeCompleteCallback_` and `highWaterMarkCallback_`: the echo server uses
  neither. `sendFile()` is empty.
- The caller's string that the functor of a foreign `send()` points into.
- The bytes of a connection: `Buffer` and `TcpServer` are separate modules, joined by the
  abstraction `out`. An echo of bytes through both buffers would only repeat the
  two losses of section 4.
- The wakeup that `quit()` writes after the loop has seen `quit_` and is gone, and the
  detached thread of an `AsyncLogging` that is gone: undefined behaviour.
- A pool of zero threads (its `baseLoop_` is never initialised).
- `EPollPoller`'s event list: `poll()` reports all ready channels in `TcpServer`, any
  of them in `EventLoop`.
- A failing `fflush()` or `fclose()`: the code ignores both results
  (`log/FileUtil.cc:44`), so what the disk refuses there is lost without a trace. In
  the model only `fwrite()` is refused (`lost`); `FilesHoldLog`, `FlushLag` and
  `FlushedBetweenRounds` rest on it: they say which calls are made, and when.
- More in one callback than a `send()` and a `shutdown()` behind it.
- What follows the death of the process by SIGPIPE or by a callback on a destroyed
  connection; liveness (`PeerGoneIsDestroyed`) exempts it. A failing `accept4()` has no
  run, since it changes no state.
- A loop that quits by itself while `~EventLoopThread()` is between its test of `loop_`
  and `quit()`: what the call does to a destroyed loop is undefined, and `LoopsExist`
  exempts the loops of `Quitters`.
- `errno` across log statements; a failing `fopen()`; two seconds with the same local
  time, and so the same file name, when the clock goes back from summer time.
- The texts of log records and their times (`Timestamp`): layout.
- `Socket`, `InetAddress`, `CurrentThread`, `DefaultPoller`: wrappers without state of
  their own.

## 7. Plan

Done, in this order: `EventLoop` with `TaskQueue` (the core every other part
relies on), `TcpServer`, `Buffer`, `AsyncLogging`, `EventLoopThreadPool` and the proofs
above; then foreign threads on connections, `~TcpServer()`, `LogFile` with the logging
thread, `Logger`; then the proofs about `TcpServer`, `Logging`, `Logger` and
`TcpServerUsers`.

Next: the refinement of more abstract specifications.
