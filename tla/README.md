# ClearMoon in TLA+

This directory is a verification project for ClearMoon, a multi-reactor C++
network library (`src/`). It holds TLA+ modules translated from the C++ source,
TLC configurations that check them on small instances, and theorems with
proofs for TLAPS. `PROJECT.json` maps every definition to the source lines it
stands for and lists the runs, the hazards the properties are aimed at and the
proved theorems.

Contents: [Inventory](#inventory) · [What is hard](#what-is-hard-in-this-code) ·
[Modules](#modules) · [Runs](#runs-bounds-and-what-they-show) ·
[Fairness](#fairness) · [Proofs](#what-is-proved) ·
[Disagreements](#where-code-and-text-disagree) ·
[Abstractions](#abstractions) · [Not modelled](#not-modelled) · [Plan](#plan)

## Inventory

| Component (source) | State it keeps | Operations | Talks to | What makes it correct |
|---|---|---|---|---|
| **EventLoop** (`net/EventLoop.*`) | `quit_` (atomic), `pendingFunc_` under `mutex_`, the eventfd's counter, `activeChannels_` | `loop`, `quit`, `runInLoop`/`queueInLoop`, `weakup`, `handleWeakup`, `doPendingFuncs` | any thread posts functors; Poller and TimerQueue are called by its own thread | every functor runs once and in order; the loop never sleeps over work; a quit ends it; what was posted before the end is run |
| **EventLoopThread** (`net/EventLoopThread.*`) | `loop_`, `joined_` under `mutex_`, the `std::thread` | `start`, `join`, `threadFunc`, destructor | owns one EventLoop on the other thread's stack | `loop_` is usable whenever it is used; the destructor returns and drains |
| **EventLoopThreadPool** (`net/EventLoopThreadPool.*`) | `threads_`, `loops_`, `next_` | `start`, `getNextLoop`, destructor | TcpServer takes loops from it | only loops that are alive are handed out |
| **TimerQueue, Timer, TimerId** (`net/Timer*`) | `timers_` by expiration, `activeTimers_` and `cancelligTimer_` by sequence number, `handleTimer_`, the timerfd, `s_numCreated_` | `addTimer`, `cancel`, `handleRead`, `getExpired`, `reset`, `resetTimerFd` | runs user callbacks in its loop; other threads reach it through `runInLoop` | nobody leaks or dangles; the sets agree; the timerfd is armed; a cancel hits its own timer |
| **Channel, Poller, Epoller** (`net/Channel.*`, `net/Poller/*`) | `events_`, `added_`, `index_`, the channel map and the kernel's interest list | `enable*`/`disable*`, `update`, `remove`, `handleEvent`, `poll` | calls its owner's callbacks | registered exactly while its owner lives |
| **TcpConnection** (`net/TcpConnection.*`) | `state_`, its Channel, the idle timer, `writeBuffer_`, the file being sent, the retransmission map | `send*`, `sendFile`, `shutdown`, `forceClose`, `handleRead/Write/Close/Error`, `connectEstablelished/Destroyed`, `onIdleTimeout` | its IO loop; TcpServer through `closeCallback_`; user threads | closes once; no callback after destruction; an open one is watched; bytes in order |
| **TcpServer, Acceptor** (`net/TcpServer.*`, `net/Acceptor.*`) | `connections_`, `nextConnId_`, `started_`, the listening socket | `start`, `newConnection`, `removeConnection(InLoop)`, `stop` | base loop and IO loops post to each other | every closed connection is removed and cleaned up, exactly once |
| **TcpClient, Connector** (`net/TcpClient.*`, `net/Connector.*`) | `state_`, the socket and Channel of an attempt, the connect timer | `start`, `connect`, `handleWrite/Error/Timeout`, `stop` | one loop; hands its socket to a TcpConnection | one outcome per attempt; a timer ends only its own attempt |
| **Buffer** (`net/Buffer.*`) | storage, `readIndex_`, `writeIndex_` | `append`, `retrieve`, `readFd`, `makeSpace`, integers in network order | sockets, HTTP | behaves as a byte queue; indices stay ordered |
| **HTTP** (`net/Http/*`) | parser state per connection, request under construction | `parse`, `onMessage`, `onConnection` | callbacks of TcpConnection | parsing does not depend on how the request was cut into reads |
| **AsyncLogger, Logger** (`net/Log/*`) | `currentBuffer_`, `nextBuffer_`, `buffers_`, `running_`, the file | `append`, `start`, `stop`, `threadFunc`, `write` | any thread appends; one thread writes | nothing appended is lost; `stop` returns; buffers are recycled |
| **Task pool** (`base/BlockQueue.*`, `ThreadPool.*`, `CountDownLatch.*`, `Thread.*`) | bounded queue, two conditions, `stopped_`, workers | `addTask`, `getTask`, `stop`, `start`, `join` | producers, workers | nobody waits for ever; each task runs at most once |
| **Lock wrappers** (`base/Mutex.h`, `Condition.h`, `CurrentThread.*`) | none of their own | thin wrappers of pthreads | everything above | not modelled: one critical section is one action |
| **Socket, addresses, timestamps** (`net/Socket.*`, `InetAddress.*`, `Timestamp.*`) | a descriptor or a value | system calls, conversions | everything above | not modelled: their results are choices of the actions |
| **Programs and tests** (`main.cc`, `test/*`) | none | samples and an echo test | the library | not modelled: no logic of the library |

How they interact. The base loop accepts a socket, creates the TcpConnection,
keeps it in `connections_` and posts `connectEstablelished` to an IO loop. From
then on the connection's callbacks run in that loop only. A close in the IO loop
calls `closeCallback_`, which posts `removeConnectionInLoop` to the base loop,
which erases the name and posts `connectDestroyed` back. Other threads reach a
connection through `send`, `shutdown` and `forceClose`: each tests `state_` in
the caller's thread, two of them store it there, and all post a functor. Timers
(idle time-out, connect time-out, retransmission) run in the loop that owns
them, between the callbacks of channels. Channels and timers are held by raw
pointers, connections by `shared_ptr` in the map, in functors and by users.

## What is hard in this code

The full list, each entry at its line, is `PROJECT.json` "hazards". In short:

- *Sleep and wake.* A push to `pendingFunc_`, a write to the eventfd, the read
  that zeroes it and the swap of the queue run in two threads in any order.
- *Shutting down.* `quit_` is reset by `loop()`, skipped by `quit()` when already
  set, and stored without a wakeup by the loop's own thread; the destructor of an
  EventLoopThread uses a pointer that the other thread clears.
- *Timers that change the timer set while it is being worked through*: a callback
  cancels itself, a neighbour of the same expiry, or a timer long dead whose
  address now belongs to another.
- *A connection closed from six places*, several of which one report of epoll can
  reach, while another list of the same iteration still names it.
- *State tested in one thread and stored later*, over what the IO loop stored
  meanwhile.
- *Reports that cross* between the IO loop, the base loop and `stop()`.
- *Partial writes.* `write` and `sendfile` take any part of what they are given, in
  the middle of which more bytes, a file, an error or a close may come; write events
  must be on exactly while something waits.
- *A parser between reads*: `HttpContext` keeps its state and `onMessage` does not keep
  the request; two requests in one read leave the second in the buffer.
- *Buffers that change hands without a lock*: `append()` and the back-end of the log
  swap the same pointers, and a round that took more buffers than it can put back
  changes what the next wait sees.
- *Attempts that overlap*: the connect timer of one attempt that a failed one left
  behind, a client that goes while an attempt or a close is under way.

## Modules

```
TaskQueue            what runInLoop promises            (abstract)
   ^ implemented by
EventLoop            one loop and the threads that post to it
   ^ EXTENDS
EventLoopThread      a loop on a thread of its own
   ^ EXTENDS: EventLoopThreadProofs       (the proofs of both)

TimerQueue           timers of one loop
   ^ EXTENDS: TimerQueueProofs

ConnectionLife       what a TcpServer promises of a connection    (abstract)
   ^ implemented by TcpServer
Channel <- TcpConnection <- TcpServer, Client     (operators, operators, two compositions)
              ^ EXTENDS      ^ EXTENDS
   TcpConnectionProofs <- TcpServerProofs, ClientProofs

Buffer <- Transfer <- HttpSession         (operators, operators, the composition)
Buffer <- AsyncLogger                     (the other composition)
             ^ EXTENDS Transfer: TransferProofs (with the lemmas on Buffer)
                  ^ EXTENDS, with HttpSession and AsyncLogger: StreamProofs

BlockQueue <- ThreadPool                  (operators, the composition)
   ^ implements TaskQueue      ^ EXTENDS: ThreadPoolProofs
MC*                  instances for TLC
```

- **TaskQueue**: `Submit` appends a functor that was never handed over before,
  `Run` runs the oldest. `EventLoop!Queue` is the refinement mapping: `waiting` is
  the rest of `doPendingFuncs`' local list followed by `pendingFunc_`.
- **EventLoop**: one action per critical section of `mutex_`, access of `quit_`, or
  system call on the eventfd. `EnterLoop`, `TestQuit`, `Poll`, `HandleWeakup`,
  `HandleIo`, `SwapPending`, `RunTask` and `BatchDone` are the loop thread in
  source order; `Push`, `Weakup`, `QuitTest` and `QuitStore` are `queueInLoop` and
  `quit` in another thread. A callback or functor may call `quit()` (the argument
  `q`). `executed` and `owed` are history.
- **EventLoopThread** extends it with the owner (constructor, `start`, `join`,
  destructor) and `threadFunc`. `DestroyLock`, `DestroyQuits`, `DestroyUnlock` and
  `DestroyJoin` are the destructor; `InitCallback`, `Publish`, `LoopRuns`,
  `Unpublish` and `DestroyLoop` are the thread.
- **TimerQueue**: the heap maps addresses to timers so that addresses are reused; a
  birth number (history) tells apart timers that lived at one address.
  `HandleRead`, `RunCallback` (one timer's callback and one call it makes of
  `addTimer` or `cancel`) and `Reset` are `handleRead()`; `RunFunctor` is what other
  threads posted; `OtherReadsSeq`/`OtherAdds` split the unsynchronised
  `s_numCreated_++` of Timer's constructor.
- **Channel**: `Update`, `Remove`, `Callbacks` and `Reports` as operators on a
  record. Registration in `ChannelMap_` and in the kernel is `index = "kAdded"`.
- **TcpConnection**: each member function as an operator from a connection record to
  the records it may become, since each runs to its end in the IO thread.
  `UserCode` is one call that a callback makes of its own connection.
- **ConnectionLife**: the stages of a connection (accepted, open, closed, removed from
  the map, destroyed), which it goes through once. `TcpServer!Stage` is the refinement
  mapping; it reads the map, `closes` and the queue of the loop, and of `state_` only
  whether the connection is new, because other threads overwrite the rest.
- **TcpServer**: `connections_`, base loop, IO loops with their lists of
  reports, expired timers and functors, and user threads. `Call`, `Store`, `Post` are
  the three steps of `shutdown`/`forceClose`/`send` in a foreign thread; `Stop`,
  `BaseCalls`, `StopReturns` are `stop()`. `revived` records the connections whose
  `kDisConnected` was overwritten, `lateSends` those to which a `send` was posted after their
  removal. `AcceptFails` and `AcceptRecovers` begin and end the rounds that
  `Acceptor::handleRead` makes over a failing `accept`; in between (`spinning`) the base
  loop does nothing.
- **Client**: a `TcpClient`, its `Connector` and the connections they make, with the
  operators of `TcpConnection`. Attempt *n* makes connection *n*, so that a timer, a
  channel and a connection can be told from those of another attempt. `Connect` has
  the three ways `::connect` may end; `HandleConnected`, `HandleFailed`, `HandleError` and
  `HandleTimeout` are the Connector's callbacks, `DisconnectInLoop`/`DisconnectByOther`
  and `Destroy` the user's calls in either thread, `RunFunctor` what they posted,
  `ConnectionEvent` and `IdleTimeout` the connections' own callbacks. `ExpireTimers` takes
  due timers out of the queue, to `expired` and `expiring`; all of these run
  (`HandleTimeout`, `IdleTimeout`), with calls of the user between them, before the
  loop does anything else. A cancel reaches only timers still in the queue. `muted` is the
  connection whose close callback `~TcpClient` has replaced.
- **Buffer**: the vector and its two indices as a record, each operation a function from
  a buffer to a buffer. A cell that holds no byte is `Junk`, so that a read of it shows.
- **Transfer**: the way out of a connection: `send`, `sendFile` and `handleWrite` as sets
  of connections, one for each answer of the kernel. `wire` and `promised` are history:
  what the socket took and what was accepted for it.
- **HttpSession**: one connection of the HTTP server over `Buffer` and `Transfer`. The
  client's requests are a stream of tokens that arrives in pieces of any size; `Parse`
  is the loop of `HttpContext::parse` as a recursive function, `OnMessage` is
  `HttpServer::onMessage` with the callback of `test/HttpCallback.cc`. Write events,
  the peer's close, the idle timer and a `forceClose` of another thread interleave. A close
  leaves the callbacks of its report that are still to run (`left`): they read and write as
  `Channel::handleEvent` lets them.
- **AsyncLogger**: front-end threads in `append()` (`BeginAppend`, `AppendData`), the
  back-end in `threadFunc()` (`TestRunning`, `TestWaiting`, `FallAsleep`, `Swap`,
  `WriteOne`, `Refill`), and `start()` and `stop()` (`StopClears`, `StopNotifies`,
  `StopJoins`). The wait is split between its test and its sleep because `stop()`
  notifies without the mutex. Bytes are numbered in the order of `append()`. Its
  specification is `LSpec` (with fairness `LFairSpec`), as that of `EventLoopThread` is
  `TSpec`, because `StreamProofs` reasons about it beside `HttpSession`.
- **BlockQueue**: `getTask`, `addTask` and `stop` as operators, one per way a
  thread can go between getting `mutex_` and giving it up. A thread in
  `emptyCond_.wait()` or `fullCond_.wait()` is in `emptyWait` or `fullWait`; a notify
  takes it out, and it then looks at the condition anew. `taken` is history.
- **ThreadPool**: the owner in `start()` (with `Thread::start` and the
  `CountDownLatch`) and in the destructor, the workers in `work()`, producers and
  tasks in `addTask`. `pc` and `ownerPc` say where each thread is; `item` is the task
  a thread is handing over.

Operators whose comment says *fault* are plausible bugs. Nothing in a
specification uses them: each is the mutated form of a definition next to
it, listed in `PROJECT.json` "mutants" with the property that notices it.

## Runs, bounds and what they show

| Run | Instance | Properties | States |
|---|---|---|---|
| `event_loop` | 2 callers, 2 posts each, any number of quits | `TypeOK` `NoLostWakeup` `ExitDrains` `ImplementsTaskQueue` `TaskEventuallyRuns` `QuitLeadsToExit` | 80 k |
| `event_loop_thread` | the owner and one other thread, 2 posts each | `TTypeOK` `QuitOnLiveLoop` `DestructorDrains` `DestructorReturnsIfEntered` | 99 k |
| `timer_queue` | 2 addresses, 2 timers, expirations 0..2, one-shot and repeating, added by the loop's callbacks and by another thread | `OneOwner` `SetsAgree` `DeadlineArmed` `OwnIdOnly` `CancelledStaysOut` `NeverEarly` `DueTimersLeave` | 513 k |
| `tcp_server` | 1 connection, 1 IO loop, 1 user thread with 2 calls, `stop()` | `DestroyedIsQuiet` `CleanupIsComing` `DestroyedOnce` `OpenIsWatched` `ClosedIsRemoved` `ForceCloseCloses` `ImplementsConnectionLife` | 498 k |
| `client` | 3 attempts, 5 calls of the user | `AttemptIsTimed` `HeldWhileOpen` | 1.73 M |
| `http_session` | up to 2 requests of 4 kinds, a file of 2 tokens, 1 token per `sendfile` | `HandledAsSent` `RepliesInOrder` `WriteEventsMatchWork` `AllAnswered` | 105 k |
| `async_logger` | 2 threads, messages of 1 and 2 bytes, 4 bytes in all, files of 2, 2 days | `LogInOrder` `StopReturns` `BackEndRests` | 920 k |
| `thread_pool` | 2 workers, 2 producers, a queue of 2 places, 4 tasks | `TypeOK` `NobodyWaitsInVain` `DestroyedIsClean` `TakenInOrder` `StartIsOver` `DestructorIsOver` `TaskIsTaken` | 59 k |
| `destructor_returns` | as `event_loop_thread` | `DestructorReturns`, violated | |
| `cancelled_runs` | 2 timers that expire together | `CancelledNeverRuns`, violated | |
| `destructor_assertion` | as `tcp_server` | `DestructorAssertion`, violated | |
| `split_requests` | one POST in two reads | `HandledHoweverSplit`, violated | |

The type invariants of `TimerQueue` and `TcpServer` are the first conjunct of
`SetsAgree` and of `DestroyedOnce`.

Why these bounds are enough to be interesting:

- *event_loop*. The races need one thread between its push and its write, another
  whose write is swallowed by the same read, and a functor that arrives during a
  batch: two callers with two posts give all of these, and a quit of
  each caller on top. `weakFd` is not bounded; it is at most the number of calls.
- *event_loop_thread*. One other thread suffices to keep the loop busy with functors
  that are not the owner's; a second owner cannot exist.
- *timer_queue*. Two timers are what a race between two entries of a set needs, and
  two addresses make the second timer either a neighbour or the heir of the first's
  address. With expirations up to 2 there are two different deadlines in the
  future and a repeating timer can come due again. The same properties hold with three
  timers (`MaxBirths = 3`), which takes longer than a routine run should.
  Fault `DueSoon` and the re-arm faults are found within these bounds.
- *tcp_server*. The life of a connection involves one IO loop, the base loop and
  other threads; connections do not refer to one another. The user has two calls, so
  that a `shutdown` and a `forceClose`, or one of them and a `send`, both race with
  a close by the loop. The safety properties also hold with `MaxConns = 2` on one loop and no
  user thread (2.5 million states, more than a routine run should take), which adds two names in
  one list of reports and `stop()`'s walk over its copy.
- *client*. Three attempts let a timer of the first meet the third; with five calls
  `connect`, `disconnect`, `connect` and their counterparts of the other thread all
  fit into one behaviour, followed by the destructor. Two attempts and two connections
  are enough for timers of one expiry to cancel each other.
- *http_session*. Two requests are what it takes for a reply to meet an earlier one
  that is not out yet, and a request to arrive behind another in one read. A POST is
  seven tokens, so the read buffer both grows and moves its bytes to the front within
  two requests; `ExtraData = 5` lets one read fill the vector and the extra buffer, as
  well as leave some behind. A reply is two tokens, a file two chunks: each can be cut.
- *async_logger*. The vector of a new buffer has no room, so every message fills a
  buffer at first: with four bytes the back-end may find more buffers than `buffA` and
  `buffB` can take back, which is the burst that leaves `buffersToWrite` unemptied. Two
  bytes per file and two days give both reasons to change files. (The code's buffers
  are larger in proportion; the fault `FillNextOnly` and both faults of the wait are
  found within these bounds.)
- *thread_pool*. Four tasks fill two places and leave two threads waiting for room,
  while two workers can be the ones that wait or both wait for tasks; each side
  then has more than one waiter, which is where a notify that wakes too few would show.
- Deadlock checking is off in every run, because each of these programs may rest:
  an idle loop blocks in epoll_wait, a quit loop is done, and the bounds on posts,
  timers and calls run out. That something *must* still happen is said by the
  liveness properties instead.

## Fairness

Weak fairness is assumed of what a scheduler and a kernel grant: a thread inside a
call of the library takes its next step; `epoll_wait` returns once the eventfd or the
timerfd is readable; time passes in `TimerQueue`. It is *not* assumed that a user
calls anything, that other descriptors become ready, that an idle timer expires or
that anyone quits. So `TaskEventuallyRuns` rests on the eventfd alone and
`DueTimersLeave` on the timerfd alone. In `ThreadPool` a thread that does not wait goes
on, a task that runs returns unless it waits in `addTask`, and no wait ends but by a
notify (spurious wakeups may happen and help nobody); nobody need add a task or destroy
the pool. In `HttpSession` the loop reads what has arrived, a socket that is waited for
as writable takes some bytes again and again, and posted functors run; nobody need close.
In `AsyncLogger` each thread that can go on does; nobody need log or call `stop()`,
midnight need not come, and no spurious wakeup is counted on. `Client` has safety
properties only. In `TcpServer` `removeConnectionInLoop` has strong fairness: whenever
`Acceptor::handleRead` comes out of its loop the base loop runs the functors it has before
it polls again, so one that could run again and again does run; that `accept` ever stops
failing is not assumed. In `TcpServer` and `TimerQueue`, that an IO
loop with functors is polled is `EventLoop`'s `NoLostWakeup` and
`TaskEventuallyRuns`.

## What is proved

Each theorem holds for every value of the constants under the assumptions named in the
modules, which say no more than that bounds are natural numbers and sets are sets of what
their names say. `EventLoopThreadProofs`: every set of callers, every number of posts
(`EventLoopAssumption`) and any owner among the callers (`OwnerAssumption`).
`ThreadPoolProofs`: every number of workers, places and tasks (`BlockQueueAssumption`,
`ThreadPoolAssumption`, 0 included) and every set of producers that are not workers.
`TimerQueueProofs`: every set of addresses and intervals, every number of timers, every
time (`TimerQueueAssumption`). `ClientProofs`: every number of attempts and calls
(`ClientAssumption`). `TcpServerProofs`: every number of connections, of IO loops, of
which there is one at least, and of calls, and every set of user threads, none of which is
the one named `"base"` (`TcpServerAssumption`). `TransferProofs` and `StreamProofs`: bytes
of any kind, every size of the prepended space, of the extra buffer, of a chunk and of a
file, and any requests and any number of them (`BufferAssumption`, `TransferAssumption`,
`HttpSessionAssumption`); every set of logging threads and of lengths that are not zero,
and any size at which a file is rolled, number of bytes and number of days
(`AsyncLoggerAssumption`).

Every safety invariant and every safety property that a run checks is stated by a theorem below.

The loop, in `EventLoopThreadProofs`

| Theorem | States | Argument |
|---|---|---|
| `TypeCorrect` | `Spec => []TypeOK` | inductive as it stands, with the four conjuncts on the shape of `loop()` |
| `WakeupNeverLost` | `Spec => []NoLostWakeup` | `NoLostWakeup` speaks of the poll and the test; it is made inductive by `WakeupPending`, the same claim everywhere except during the dispatch, where the eventfd may have been read and the swap is still to come |
| `ExitHasDrained` | `Spec => []ExitDrains` | `OwedAccounted`: on the way out, what was owed is run, in the batch, or in the queue that the last swap takes |
| `QueueRefinement` | `Spec => ImplementsTaskQueue` | `AllNumbered`: no list holds a number above its caller's count, so a push is new; each action then maps to `Submit`, `Run` or a stutter |
| `NothingLost` | `Spec => []AllHeld` | each step that takes a functor from one list puts it in the next |

Its thread, in `EventLoopThreadProofs`

| Theorem | States | Argument |
|---|---|---|
| `ThreadTypeCorrect` | `TSpec => []TTypeOK` | part of `TInv` |
| `QuitMeetsLiveLoop` | `TSpec => []QuitOnLiveLoop` | `QuitInside`: `locked` holds exactly while the owner is in the destructor's critical section, and clearing `loop_` needs the lock |
| `DestructorHasDrained` | `TSpec => []DestructorDrains` | `DrainInv`: unless a callback quits, only the destructor does, after the owner's last post, so no functor of the owner is behind the last swap; with `AllHeld` all of them have run |

`ThreadPoolProofs`

| Theorem | States | Argument |
|---|---|---|
| `PoolTypeCorrect` | `Spec => []TypeOK` | with `OwnerAt`: where the owner's loop stands, and that a thread not yet running has counted nothing down |
| `NobodySleepsOver` | `Spec => []NobodyWaitsInVain` | inductive given the types: a queue no longer than `maxSize_` gets its first free place, and its first task, only in the step that wakes all who wait for it |
| `PoolKeepsOrder` | `Spec => TakenInOrder` | `Fresh`: a task being handed over has not been in the queue, and no two threads hand over the same; `AddPuts` is then a `Submit`, `GetTakes` a `Run` |
| `DestructorLeavesNothing` | `Spec => []DestroyedIsClean` | `Accounted`: `currentThreadNum` is the number of workers that `start()` has been through less the cardinality of those that have ended, and the destructor has joined all before its own |

`TimerQueueProofs`. `QInv` is the core: the types, `OneOwner`, `Filed` (both sets hold each
timer under what it is now), `Differ` (no two functors add one timer), `NewIsFree` (what
another thread got from `operator new` is nobody's yet) and `ExpiredInv` (a timer's expiration
does not move while its callback waits). A callback or functor files one timer, frees
one or leaves all alone (`UserCodeEffect`, `CancelEffect`), and each of the three keeps `QInv`.

| Theorem | States | Argument |
|---|---|---|
| `TimersHaveOneOwner` | `Spec => []OneOwner` | part of `QInv`; `reset()` moves `Repeats` back to the sets and frees the rest of `expired` |
| `SetsStayAlike` | `Spec => []SetsAgree` | `Filed`, read as equalities of sets |
| `NoneRunsEarly` | `Spec => NeverEarly` | `ExpiredInv`: what is in `expired` was due at `readNow` |
| `TimerfdIsArmed` | `Spec => []DeadlineArmed` | `Armed`, the same claim of each timer alone; a timer that is not the first to expire rests on the one before it |
| `CancelledStayOut` | `Spec => []CancelledStaysOut` | `StopInv`: no two live timers have one birth, and one that was stopped and lives is in `expired` with its key in `cancelligTimer_` |
| `IdsEndTheirOwn` | `Spec => []OwnIdOnly` | `Numbered`: without a race for a number, ids differ in it and each live timer has its own; and what `reset()` frees has run |

`TcpConnectionProofs` has no theorem of a specification but what the server and the client need
to know of a connection's functions. `Effect(k, d)`: whatever the kernel answers and the callbacks
call, a function that makes `d` of the connection `k` leaves an open one open, as watched as before
and with its timer, or closes it with one call of `closeCallback_`, or leaves a closed one closed.
`Stays(k, d)`: one that waits with its write side shut over unsent bytes remains so, and nothing
connects it again. `Sound` is what they keep: a registered channel is known to be added, and only one
with bytes to send asks for write events. `HandleEffect` and its neighbours show these of each
callback, by way of each call that user code may make in it.

`TcpServerProofs`. Four invariants speak of a connection and of where it still may be named;
none is inductive. `SInv` says of every accepted connection where it is on its way out:

- `Owned`: it is in `connections_`, and then, if it closed, its removal is in `baseQ`; or it has
  left the map, and then it was closed, and either its `"destroyed"` functor is in its loop's
  queue and it was never destroyed, or it was destroyed once and no such functor is left.
- `Placed`: a functor in an IO loop's queue is for a connection of that loop, `"established"` is
  there just while the connection is new, and it and `"destroyed"` are there once.
- `Dispatching`, `Calling`: what a loop has in hand (reports, expired timers) and what a user is in
  the middle of calling is an established connection, in the loop's case one of its own.
- `Sent`: each `"send"` functor of a connection outside the map and outside `lateSends` stands
  before the `"destroyed"` one, so that when this has run no other is left.
- `Life`: unless a store has overwritten its state (`revived`) the state says whether it was closed;
  open it is watched and timed; destroyed it is quiet and nothing names it.
- `Fresh`, `Sound` and the types: before `connectEstablelished` nothing has touched it.

A removal that finds the name gone posts nothing, so two closes of one connection, which post
two removals, give one `"destroyed"`: that is `Owned` across `RemoveConnectionInLoop`.

| Theorem | States | Argument |
|---|---|---|
| `AccountIsKept` | `Spec => []SInv` | one lemma per action, from `Effect` |
| `CleanupRunsOnce` | `Spec => []DestroyedOnce` | `Owned`, in and out of the map |
| `CleanupAlwaysComes` | `Spec => []CleanupIsComing` | what `Owned` leaves of a closed connection that `Life` does not call quiet |
| `DestroyedStaysQuiet` | `Spec => []DestroyedIsQuiet` | one that left the map and is in no queue was destroyed; `Life`, and `Sent` for what its loop's queue still has |
| `OpenStaysWatched` | `Spec => []OpenIsWatched` | `Life`; `Owned` would have it closed outside the map |
| `LifeRefinement` | `Spec => ImplementsConnectionLife` | under `SInv` the stage is what the map and the counters say (`Seen`), so each action's effect on one connection is one abstract step (`NewConnGoes`, `RemoveGoes`, `RunFunctorGoes`) or, by `Effect`, `Close` or a stutter (`AdvanceGoes`); no exception for connections whose state was overwritten |

`ClientProofs`

| Theorem | States | Argument |
|---|---|---|
| `AttemptsAreTimed` | `Spec => []AttemptIsTimed` | with `Members`: while an attempt goes on `connectTimeoutId_` names its timer, and a timer is either in the queue or taken out, so that cancelling it ends it unless it is taken out; then its timeout ends no other attempt but as `late` records |
| `ConnectionsAreHeld` | `Spec => []HeldWhileOpen` | `HInv`: a connected one is named by `connection_` (`OneConn`), a disconnecting one is held by the functor that goes to close it or waits with its write side shut; what `connection_` names is open (`NamedInv`), and an attempt under way has no connection yet (`ChannelInv`). The callbacks of one report, three at most, are followed one after the other |

The buffer, in `TransferProofs` (theorems about operators; their invariant `IsBuffer` says that the
indices are in order and within the vector, and that the vector never gets shorter than
`kCheapPrepend`)

| Theorem | States |
|---|---|
| `AppendAdds` | `append` leaves what was to be read followed by the data, whether the vector grows, its bytes move or neither |
| `RetrieveTakes` | `retrieve(n)` leaves what is behind the first *n* bytes |
| `ReadFdAdds` | `readFd` leaves what was to be read followed by all that `readv` took |
| `PrependAdds` | `prepend` of what fits leaves it in front |

The way out, in `TransferProofs` and `StreamProofs`. `Good(c, S)` says of a connection that its parts
have their types over the bytes `S`, that a file is open exactly while it is sent, that write
events are on exactly while something waits, and that what was accepted is on the wire, in the
buffer or in the rest of the file, in that order. `TransferProofs` shows that every function of
the connection keeps it, whatever the kernel answers, from the theorems on the buffer;
`StreamProofs` shows it of every step.

| Theorem | States | Argument |
|---|---|---|
| `RepliesStayInOrder` | `Spec => []RepliesInOrder` | `Good`, which for a closed connection says that the wire and what waits are a prefix, also after the callbacks left of the report |
| `WriteEventsAreRight` | `Spec => []WriteEventsMatchWork` | `Good`; a file with nothing left to read was empty from the start |

The way in and the log, in `StreamProofs`

| Theorem | States | Argument |
|---|---|---|
| `RequestsArriveAsSent` | `Spec => []HandledAsSent` | `Parsed`: until a read ends inside a request, `handled` is the first requests of the script and what is in `readBuffer_` and on its way is the stream of the others. Inside a read, `ParserInv` says of each of the parser's states what it has of the request in hand and what bytes of it are to come, and each turn of `parse()` keeps it |
| `EveryByteInOrder` | `LSpec => []LogInOrder` | `LogInv`: until two threads race, only one thread at a time is inside `append()` and it holds the bytes that come next (`FrontInv`); there is a current buffer and, but while the back-end writes, one in `buffA` to take its place, and the ones handed out next have nothing to be read in them (`RowsInv`); written, waiting, full and current are the bytes in order (`AllHere`); a file's name is no later than the day it was looked for (`FilesInv`) |

Both speak of functions that recurse over data: the turns of `parse()`, and `FlattenSeq`, which
joins the requests of a stream and the buffers of a row. The library's induction rule takes an
operator, which no installed prover instantiates, so the proofs use its consequence for sets:
`Counting` shows that a set of naturals with 0 in it and the successor of each of its members is
all of them, from the least element of what would be missing (`WFMin` on `<`). A claim about
*n* turns or *n* parts then is a set of such *n*.

Only model-checked: every liveness property (tlapm reasons neither about fairness with
ENABLED nor about leads-to). The four runs that expect a violation are counterexamples and
have nothing to prove.

## Where code and text disagree

Four runs expect a violation; `PROJECT.json` "findings" quotes the lines.

1. `DestructorReturns`: `start()` returns when `loop_` is published, which is before
   `loop()` stores `quit_ = false` (`EventLoop.cc:52`). The `quit()` of a destructor in
   between is undone and its join waits for ever. Once the thread is past that
   store the destructor always returns (`DestructorReturnsIfEntered`).
2. `CancelledNeverRuns`: `handleRead()` skips timers whose `isCancelled()` is set
   (`TimerQueue.cc:172`), and nothing sets it. A timer cancelled by an earlier callback
   of the same expiry runs once more; it is not restarted (`CancelledStaysOut`).
3. `DestructorAssertion`: `shutdown()` may store `kDisConnecting` over the
   `kDisConnected` of a close it raced with; when the channel still asks for write
   events nothing corrects the state and `~TcpConnection`'s assertion fails.
   `DestroyedIsQuiet`, `CleanupIsComing` and `OpenIsWatched` leave out the connections
   in `revived`, whose state was overwritten in this way.
4. `HandledHoweverSplit`: the parser is said to wait for the rest of a request
   (`README.md:249`, `HttpContext.h:27`). It does, but `onMessage` makes a new `HttpRequest`
   for every read (`HttpServer.cc:33`), so what an earlier read parsed is lost: the callback
   gets `kInvalid`, and the body of a POST becomes the next request line. Requests that
   were not cut are handled as sent (`HandledAsSent`).

Some behaviours are in the models and contradict no text: `start()` can wait for ever
if a callback quits the loop before `start()` has looked at `loop_`, and the
destructor of an EventLoopThread that was never started ends the program
(`DestroyUnstarted`). Others are excepted from a property by a history variable that says
that they have happened: a `send` of another thread that passes its test before the
connection is removed and is posted after it, whose functor holds a bare `this`
(`lateSends`); an `accept` that fails for good with another error than `EAGAIN`, over which the
base loop runs no functor and no descriptor is freed (`spinning`); two constructors in `s_numCreated_++` at once (`raced` in
`TimerQueue`); bytes or a file accepted while a file is being sent, which go before it or
replace it (`overtaken`); a read that ends inside a request or over the next one (`torn`,
`piled`); a notification of `stop()` between the back-end's test and its sleep, and a stop
while it writes (`missed`, `late`); a burst that leaves `buffersToWrite` unemptied, after
which the back-end goes round without sleeping (`burst`); two threads at the log's buffers
at once (`raced` in `AsyncLogger`); `connect()` called over an attempt or a connection
(`again`), a connect timer that a failed `handleWrite` left armed (`stale`), a connect
timer that was taken out of the queue before it was cancelled and ends the next attempt, whose
TimerId it drops (`late` in `Client`), a `shutdown()` over
unsent bytes (`cut`) and a use of a client or Connector that is gone (`dangling`).

## Abstractions

- *EventLoop*: `queueInLoop`'s second condition (`callingPendingFunc_`) is not
  modelled, because `runInLoop` calls the functor at once in the loop's own thread and
  nothing else calls `queueInLoop`: only other threads reach it, and they always
  write the eventfd. A second `loop()` on one object is not modelled.
- *EventLoopThread*: nobody is inside `runInLoop` when the loop is destroyed (the
  callers' side of the contract, the guard of `DestroyLoop`), and from outside
  only the owner's destructor calls `quit`. `exiting_` is never read.
- *TimerQueue*: a unit of time is the 100 microseconds that `howMuchTimeFromNow()`
  never goes below. The wall clock does not jump. One callback makes at most one call
  on the queue. The other thread passes each TimerId to `cancel` once; the loop
  any number of times, also after its timer died. After `MaxTime`, where no new timer
  asks for a time, the clock moves on to `MaxTime + 2` only between callbacks.
  The destructor is left out.
- *TcpServer*: functor queues are FIFO and not lost, as `EventLoop` shows. The
  server has been started; a second `start()` and `~TcpServer` are left out. The
  acceptor takes one socket per step, which allows more interleavings than its
  loop; it may fail whenever it listens, and no functor runs until it recovers. A functor
  of `send` that outlives its connection is let run on the record as it was left. A callback makes one call on its connection, and a write-complete
  callback may close but does not send again. Bytes are abstracted to whether
  `writeBuffer_` is empty; sends are not of length zero; what becomes of the bytes, and
  files, are in `Transfer`. An error of a write after `SHUT_WR` is taken as
  an error return, that is, SIGPIPE as ignored by the program. Users are given
  a connection by `connectionCallback_` and may keep it as long as they like.
- *ThreadPool*: a producer begins no call once the destructor runs and has left its
  call before the members are destroyed (the callers' side of the contract). A thread
  that could not be created makes `join()` fail its assertion, `ownerPc = "aborted"`.
  When every worker runs a task that waits in `addTask` on a full queue the pool
  stands still until its destructor (`Stuck`); `TaskIsTaken` excepts this, which no text
  denies. An empty `std::function` handed in by a user would end a worker; it is not
  modelled, nor `setMaxSize`, which has no caller, nor other pools that share the
  static `currentThreadNum`.
- *Transfer, HttpSession*: all calls are made by the loop's own thread, as the HTTP
  callback does; another thread only calls `forceClose`. A token stands for a run of
  bytes that are read or written together; `findCRLF` finds whole line ends. A file does
  not change while it is sent. The callback is the one of `test/HttpCallback.cc`.
- *AsyncLogger*: behaviours end at the first data race, because no outcome of one can be
  listed; up to it every interleaving is there, with spurious wakeups. A restart after
  `stop()` is left out, and a message that is longer than a buffer grows it, as in
  `Buffer`.
- *Client*: what another thread does to `connection_` in one call is one step (the race
  inside `shutdown()` itself is in `TcpServer`). Behaviours end where an object that
  is gone would be used. A connection's events are those of `TcpConnection`. Which timers
  are due together, and in which order they run, is left open.
- Logging, names, addresses and message contents are left out throughout.

## Not modelled

- *Retransmission* (`sendWithRetransmit`, `ackReceived`, `TcpConnection.cc:29-54, 193-251,
  550-585`): nothing in the repository calls it, and who would acknowledge what is the
  user's protocol, so its environment could only be invented.
- *The bytes of a `send` of another thread*: `TcpServer` has its steps, `Transfer` the bytes of
  sends by the loop.
- *`~TcpServer`*: it calls `stop()`, which is modelled, and destroys the members; a close
  callback that outlives them is undefined behaviour that no text speaks of.
- *EventLoopThreadPool's `start()` and destructor over several threads*: loops over what
  `EventLoopThread` models for one.
- *`~TimerQueue`, and a wall clock that is set back or forth*: `Timestamp::now()` only grows.
- *Readers and writers of integers in Buffer, `retrieveUntil`*: conversions; the latter has no
  caller.
- *A race on `HttpServer::context_`*, one `std::map` for all IO loops: it has no outcome
  that a model could list.
- *Socket, InetAddress, Timestamp, the wrappers of pthreads, Logger's formatting, the programs
  and the test*: system calls, conversions and samples; what system calls return is a
  choice of the actions that make them.

## Plan

Done: the loop, its thread, the timers, a server's and a client's connections, the way
of bytes and files out of a connection, the HTTP parser over the buffer, the log and the
task pool are modelled, and all their safety properties proved. Left, in this order:

1. EventLoopThreadPool over several threads, with a loop that ends early.
2. The bytes of a send of another thread; a wall clock that jumps; `~TimerQueue`.
