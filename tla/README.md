# muma: TLA+ models and proofs

muma is a C++ network library for Windows in the manner of muduo: event loops,
one per thread, that wait for sockets and timers and run functors queued by other
threads, TCP servers and clients built on them, and a thread pool beside them.
This directory holds TLA+ modules of its core, the TLC configurations that check
them on small instances, and TLAPS proofs about all of them: the event loop and the
thread that owns it, the registration of channels, the timers, the thread pool, the
buffer and the connection, the server and the client.

Files are named in full in `PROJECT.json` (`map`); here `EventLoop.cpp` stands for
`src/src/net/EventLoop.cpp`, `Mutex.h` for `src/include/base/Mutex.h`, and so on.

To check: `tlc -config TcpServer.cfg TcpServer.tla` for a run, `tlapm
EventLoopProofs.tla` for the proofs.

## 1. The system

### Components, their state and their operations

| component | state | operations |
|---|---|---|
| `EventLoop` | `_quit`, `_pendingFunctors` under a mutex, the vector of channels, a `TimerQueue`, a `Poller` | `loop`, `quit`, `queueInLoop`, `runInLoop`, `runAt`/`runAfter`/`runEvery`, `cancel`, `NewChannel`, `DeleteChannel` |
| `Poller` | two parallel vectors: Windows event handles, and (channel, handle, mask) | `poll`, `wakeup`, `updateChannel`, `removeChannel` |
| `Channel` | interests, last events, its index in the poller and in the loop | `handleEvent`, `enable…`, `disable…`, `remove` |
| `TimerQueue`, `Timer` | two ordered sets of raw `Timer` pointers, one waitable timer | `addTimer`, `cancel`, `handleRead` |
| `TcpConnection` | state, socket, channel, input and output `Buffer` | `sendInLoop`, `close`, `connectEstablished`, `connectDestroyed`, `handleRead`/`Write`/`Close` |
| `Buffer` | a vector of bytes, reader and writer index | `append`, `retrieve`, `prepend`, `readFd` |
| `TcpServer`, `TcpAcceptor` | the map of connections, the listening channel | `start`, `newConnection`, `closeConnection`, `deleteConnection`, the destructor |
| `EventLoopThread`, `EventLoopThreadPool` | a thread that runs a loop on its stack, the pointer to it, an event; loops handed out in turn | `startLoop`, `threadFunc`, `getNextLoop`, the destructors |
| `TcpClient`, `TcpConnector` | at most one attempt and one connection | `connect`, `disconnect`; `start`, `stop`, the timeout |
| `ThreadPool`, `Condition` | a deque under a mutex, a semaphore | `start`, `execute_task`, `stop`, the workers |
| `RwLock`, `Event`, `Timestamp`, `TcpSocket`, `InetAddress` | small | |

### How they interact

Everything that belongs to a loop is done on its thread. Other threads push a
functor (`queueInLoop`) and signal the poller's wakeup event, two separate steps.
In each round the loop polls, calls the handlers of the signaled channels, swaps
the queue of functors away and runs the batch. The wakeup event is the first of
the array that is waited for, so it hides every channel in that poll; the timer's
channel is the second.

A connection of a server lives on a loop of the pool, its entry in the map on the
server's loop: opening, closing and deleting it is a relay of functors with raw
pointers between the two. The client has the connector and its one connection on the
same loop; the socket changes hands when the attempt succeeds.

One oddity runs through the library: `runInLoop` (`EventLoop.cpp:109-119`) has its
test inverted. On the loop thread it *queues*, on another it *runs at once*. All
models have it as it is. Its first effect is that work on the loop thread is delayed to
the batch; its second that some operations that are called from other threads
run next to the loop, which their assertions forbid.

### What is hard about it, and what makes each part correct

- *Interleaving of a push and its wakeup with swap, poll and reset*: no functor is
  left with the loop asleep, no quit is missed; functors run in order, once.
- *The scan of `poll`* over the events behind the first: no event is reset unseen.
- *Channels that come and go* by swap and pop, with operations from other threads that
  are overtaken: indices, vectors, handles and selections agree.
- *Timers with raw pointers*, cancelled from callbacks, with addresses used again, a clock
  that is read several times and an alarm that may fire for nothing: one owner each,
  none lost, no due timer without an alarm.
- *Two-step put and take* of the thread pool: tokens match tasks, stop returns, a
  second start finds the tokens of the first stop.
- *A loop on the stack of another thread*: published before it is used, quit and joined
  before it goes.
- *Connections handed from loop to loop*: closed once, deleted once, no functor left
  for a deleted one, every close reported, also by a destructor that runs in between.
- *An attempt to connect* that may succeed, fail, time out or be stopped, with old
  timers and queued functors around: its socket is closed once, by whoever has it.
- *Partial writes and writable events that are recorded once*: bytes stay in order,
  what is kept gets written.

`PROJECT.json` (`hazards`) lists these and others at their lines, also those nothing
checks yet.

## 2. The modules

| module | models | abstracts |
|---|---|---|
| `TaskQueue` | what a loop, and a thread pool, promise: a FIFO queue, executed one by one | |
| `EventLoop` | `loop`, `poll`, `quit`, `queueInLoop`, `doPendingFunctors`, at the grain of single Windows calls | what handlers do |
| `EventLoopProofs` | theorems about `EventLoop`, and on these about `EventLoopThread` | |
| `EventLoopThread` | the thread and its owner around `EventLoop`: start, publication, use, quit, join | creation of threads that fails |
| `ChannelTable` | registration: channels, indices, handles, `WSAEventSelect`, `~EventLoop` | polling |
| `ChannelTableProofs` | theorems about `ChannelTable` | |
| `TimerQueue` | timers on a loop reduced to the order of its steps | other channels, units of time |
| `TimerQueueProofs` | theorems about `TimerQueue` | |
| `ThreadPool` | pool, semaphore, workers, producers, and an owner that starts and stops it in turn | what tasks do |
| `ThreadPoolProofs` | theorems about `ThreadPool` | |
| `TcpServer` | connections over the server's loop and several others, from accept to the server's destructor | data, addresses |
| `TcpServerProofs` | theorems about `TcpServer` | |
| `TcpClient` | client, connector and connection on one loop, as long as the client lives | data, error codes |
| `TcpClientProofs` | theorems about `TcpClient` | |
| `Buffer` | the buffer's functions as operators | capacity of the vector |
| `BufferProofs` | theorems about `Buffer` | |
| `TcpConnection` | sending, receiving and closing, over `Buffer` | what happens after the close |
| `TcpConnectionProofs` | theorems about `TcpConnection`, on those of `BufferProofs` | |

**EventLoop.** `loopPc` is the place of the loop thread: `check` (the loop
condition), `poll`, `reset` (index 0 was returned and its event is about to be reset),
`scan` (the zero-timeout waits), `dispatch`/`handler`, `swap`, `batch`/`functor`.
`PushFunctor` and `WakeUp` are the two steps of `queueInLoop` on another thread,
`SetQuit` and `WakeUp` those of `quit`; `LoopPost` and `LoopQuit` are the same calls
by a handler or functor. `posted` and `ran` are history. `EventLoop` implements
`TaskQueue`: the abstract queue is `functors \o pending`, it is closed when `loop`
returns. `Spec` is its safety part; the thread that runs it has the fairness.

**EventLoopThread.** Composes the loop with the thread that makes it and with its
owner. Each step of `EventLoop` is a step here, guarded by `thread` and `owner`: the loop's
own by `thread = "running"`, the calls of users by `owner = "running"`, the init
callback's by `thread = "init"`. `Publish` and `SetEvent` are the two assignments of
`threadFunc`; `DestroyQuits` and `DestroyWakes` the two halves of the destructor's `quit`;
`Join` waits for the thread. It implements `EventLoop` by construction of the variables, which
`ThreadImplementsLoop` proves, and so `TaskQueue`.

**ChannelTable.** `channels`, `chanEvents`, `events`, `pollIndex` and `loopIndex` are the
code's; `open` and `selected` are what Windows knows of handles and sockets.
Operations on the loop thread are actions; from other threads they go to `pending` and
are executed by `RunFunctor`, possibly after later ones of the loop thread. A deleted
address can be created again. Users do not use a channel after they asked for its deletion.

**TimerQueue.** `heap` maps addresses to `Timer` objects; `timers` and `activeTimers`
are the two sets; `due` and `signaled` are the waitable timer. Readings of the clock
differ, for `Timestamp::now` leaves `tm_isdst` uninitialised and `_mktime64` takes an hour off
when it finds something positive there: `now` is time by the earliest reading, and each reading
is later by a member of `ClockErrors`. `cancelledOff` are cancels from other threads, which
run there and then (the inverted `runInLoop`).

**ThreadPool.** `execute_task` is `Push` and `Signal`, the workers go through
`CheckRunning`, `Wake`, `TakeTask` and `TaskReturns`, `stop` through `Stop`,
`ClearQueue`, `Broadcast` and `Join`. `Released` is `ReleaseSemaphore`, which fails
beyond the maximum. `Start` comes again after `Join`, with the tokens that are left. A
pool that is stopped when quiet implements `TaskQueue` as well.

**TcpServer.** Each loop has `phase`, `ready`, `queue` and `batch`. It begins in phase
`start`: a pool's thread has made its loop known when `start` returns but may enter `loop`
later (`EnterLoop`), which clears `_quit` and so loses a quit that came before. The functors are
those of the code: listen, connectEstablished, close, closeConnectionInLoop,
connectDestroyed, deleteConnectionInLoop and the deletion. The state of a freed
connection stays, to see who still refers to it. `~TcpServer` goes through `Destroy`
(`release`), `DestroyConnection` for each entry of the map, `DestroyPool`, `DestroyThread` for
each loop, which is quit and joined as `EventLoopThread` shows, and `PoolGone`; `stopped` is the
thread it has come to. `DestroyIn` says
where it runs: after `loop` has returned, or in one of its callbacks, where the
loop waits for it. Its waits for the deletions are no steps: the copies of the `Event` have
closed its handle, and a wait on that fails at once.

**TcpClient.** Attempts are numbered; the number names the socket, the connector's
channel, the timer and the connection. `channel`, `transferred` and `timeid` are the
connector's members. A functor `reset` records the attempt it was queued for, which
the code does not: `FunctorsFresh` compares it with what it finds. The dispatch
runs expired timers before the other channels, since the timer's channel comes
first, and one channel's handler at a time. There is no end of the client: `~TcpClient` is
private and nothing in the class deletes a client.

**Buffer, TcpConnection.** A buffer is a record of cells and two indices, each member
function an operator. The connection numbers the bytes of both directions, so that
`content(output)` must be the numbers from `sent + 1` to `accepted`. The socket is
external: `room` in its send buffer, and the recording of `FD_WRITE` as Windows
documents it: at `WSAEventSelect` if there is room, later when room appears, and after
that again only when a send would have blocked. `send` takes as much as there is
room for, or all of a message when there is any room, both of which Windows may do.
`close` is called on the loop thread; the header declares it unsafe elsewhere.

The modules that need a loop each have their own reduced one instead of an instance of
`EventLoop`: poll (wakeup before channels), dispatch, one batch. That reduction rests on
what `EventLoop` shows: order, no lost wakeup, one batch per round.

## 3. The runs

| run | module | question | states |
|---|---|---|---|
| `loop` | EventLoopThread | from start to destructor, is anything lost, overtaken or left asleep between the owner, another caller, three functors, two channels and the loop? | 102 280 |
| `timers` | TimerQueue | do sets, heap and alarm agree, does every timer run? | 869 628 |
| `timers_off_loop` | TimerQueue | violation: a cancel from another thread has no effect | |
| `channels` | ChannelTable | do tables, indices, handles and selections agree after any history? | 67 988 |
| `pool` | ThreadPool | do tokens match tasks, does a quiet pool stop, over two starts and stops? | 121 626 |
| `pool_stop` | ThreadPool | violation: stop with queued tasks hangs | |
| `server` | TcpServer | is every connection closed, reported and deleted once, and does the destructor return? | 177 533 |
| `server_close` | TcpServer | violation: connectDestroyed twice | |
| `server_release` | TcpServer | violation: a connection is made after the destructor has closed the acceptor | |
| `client` | TcpClient | does every socket have one owner, does every attempt end or get reported, do queued functors and timers find what they were meant for? | 19 611 |
| `client_delete` | TcpClient | violation: a connection deleted inside its own channel's handler | |
| `connection` | TcpConnection | do bytes stay in order, is output written? | 372 526 |

Properties, by what they are about:

- *Order and conservation*: `TasksConserved`, `PollInOrder`, `TaskQueueSpec` (EventLoopThread
  and ThreadPool), `StreamsInOrder`.
- *No sleep on work*: `NoLostWakeup`, `NoLostQuit`, `TokensMatch`, `AlarmSet`,
  `WritingIffOutput`.
- *Ownership of raw pointers, sockets and handles*: `OneOwner` (TimerQueue and TcpServer),
  `SetsAgree`, `NoTimerLost`, `NoStaleFunctor`, `SocketOwned`, `FunctorsFresh`,
  `AttemptAgrees`, `LoopPublished`.
- *Agreement of tables*: `IndicesAgree` (with `HandlesAgree`: no handle is leaked or closed
  while in use), `SelectAgrees`.
- *What a step may not do*: `CancelIsPrompt`, `DestroyedOnce`.
- *What must happen*: `QuitTerminates`, `ChannelServed`, `TimerServed`,
  `StopTerminates`, `DestructorReturns` (EventLoopThread and TcpServer), `CloseIsTold`, `AttemptReported`, `OutputFlushed`, and
  `StoppedMeansDone` for what then holds.

Each is stated with a comment next to its definition, and `PROJECT.json` (`mutants`) names for
each a faulty variant of a mapped definition that makes it fail.

### Bounds, and why they suffice

- `EventLoopThread`: two callers, one of them the owner, so that one's wakeup falls between
  the push and the wakeup of the other, and a call meets the destructor; three functors, so that one runs, one is in the batch and one is
  pending; two channels, so that one is signaled behind the scan of the other. The
  theorems below do without bounds.
- `TimerQueue`: one caller beside the loop thread, whose calls `EventLoop` orders; two addresses and two timers, for reuse of an address and for a second timer to
  change the earliest expiration; time 0 and 1 with delays of 0 and 2 (never due) and
  interval 1; `MaxTimers` bounds calls of `addTimer`, `MaxTime` ends time. The
  theorems below are for any of these.
- `ChannelTable`: the timer and two sockets, the least for a swap with the last
  that moves another socket (the theorems below are for any number); `MaxQueued` is 2, for two operations of other threads in a
  row with one of the loop thread between.
- `ThreadPool`: three workers, two producers, three tasks: tasks of two producers
  in the queue at once, workers that wait, are woken and run; two starts, so that the tokens of a stop
  meet new workers. The theorems below do without bounds. `MaxCount` stands for LONG_MAX: as in the code it is the least
  number at which a broadcast on a semaphore that is not 0 overflows.
- `TcpServer`: three connections on two loops, so that `getNextLoop` wraps round and two share a
  loop. `PeerCloses` and `UserCloses` say who may end which: one the peer, one the user,
  one nobody but the destructor. Pool threads may enter `loop` at any time after `start`, also when
  the destructor quits them. The theorems below are for any numbers.
- `TcpClient`: three attempts, so that the timer of a failed one would meet two newer
  ones; six requests. The theorems below do without bounds.
- `TcpConnection`: buffers of 2 and 1 bytes and a second receive buffer of 1, messages of
  1 and 3 bytes, 4 sent and 3 received: vectors grow, contents move to the front,
  receives are split, sends are partial. One functor of another thread waits at a time;
  their order is `EventLoop`'s subject. The theorems below do without bounds.

Deadlock is checked where the loop can always go on. It is off for `EventLoopThread` and
`ChannelTable` (the loop is destroyed), `TimerQueue` (time ends) and `ThreadPool` (the pool
stops). In `TcpServer`, `Terminated` is the state after the destructor.

### Fairness, and why the code justifies it

Weak fairness of the loop thread's steps and of `WakeUp`: a thread that runs gets on,
and between its push and its wakeup a caller does not stop for ever. Weak fairness of
an owner that waits in `startLoop` or is in a destructor, of workers, of the owner inside `start` and `stop`, and of a producer about to signal, for the
same reason. Timers expire because time passes (`Tick`, `Fire`, `Expire`). In
`TcpConnection` the peer reads (`Drain`): without it output rightly stays. A pool's thread enters `loop` at some time.
Nobody has to post, send, connect, answer, close, disconnect or stop. Functors are finitely many; with an
endless supply of functors that queue functors the code does starve its channels.
The poll timeout is not relied on, so a lost wakeup would not be hidden by it.

## 4. What is proved

`EventLoopProofs`, for any sets of callers and functors and any number of channels
(assumption: `NumChannels` is a positive natural number):

- `TypeCorrect`: `Spec => []TypeOK`. Strengthened by `HandlerInv` (a running handler has a
  channel), without which the tail of an empty list could be taken.
- `NoWakeupLost`, `NoQuitLost`: the two invariants of section 3 are inductive together with
  typing. The argument is the order of steps: signal after the push, reset before the swap.
- `FunctorsConserved`: with `BatchInv` (a batch exists only inside `doPendingFunctors`),
  without which the swap would drop the rest of a batch.
- `ScanInOrder`: with `ScanInv` (what is collected lies in front of `scanFrom`).
- `BatchOnlyShrinks`: an action property: what functors post never joins the batch that runs.
- `ImplementsTaskQueue`: `Spec => TQ!SafetySpec`, by `TaskQueueStep`: each action is a
  `Post`, an `Execute`, a `Close` or a stutter of the abstract queue. It needs
  `FunctorsConserved` to see that a functor that is posted is new to the abstract queue.

The same module, of `EventLoopThread`, for any callers with an owner among them (assumption:
`Owner \in Callers`):

- `ThreadImplementsLoop`: `ThreadSpec => Spec`: every step of thread, owner and users is a step of
  `EventLoop` or leaves its variables alone. So what is shown of the loop holds of
  the one that is published: `ThreadLoopSafe` and `ThreadImplementsTaskQueue`.
- `ThreadTypeCorrect`, `NobodyGetsNull`: by the invariant `Handshake`, which orders the two
  threads: the event is set only after the pointer, and before `startLoop` there is neither
  thread nor event. Without it the owner's step out of `startLoop` says nothing of the
  pointer.

`ChannelTableProofs`, for any number of channels and any interests (assumption: `NumChannels` is a
positive natural number, `MaxQueued` a natural one):

- `TableTypeCorrect`, `TablesAgree`, `SelectionsAgree`: `TypeOK`, `IndicesAgree` and `SelectAgrees` always hold.
  `IndicesAgree` alone is not inductive: a stale index of a deleted channel would be taken for an entry
  when the table grows again. So `Agree` asks that an index outside its table be `kInvalidChannelIndex`,
  `AliveInv` that a channel that does not exist have no index; `EntriesInv` that events differ and the
  first two entries stay, so that closing an event leaves the others open; `QueueInv` that a queued
  functor finds its channel, registered by nobody before its own `AddChannel`, and that nothing is queued
  behind a deletion. Each table is bounded because it holds a channel once (`TableBound`), which also gives
  `updateChannel` a free handle. `AppendAgrees` and `RemoveAgrees` are the two operations on a
  table, used for the poller's and the loop's.

`TimerQueueProofs`, for any callers and any number of addresses, timers and units of time, any delays and
intervals, and readings of the clock that differ by any natural numbers (assumption: `TimerConstants`).
`IInv` consists of

- `SetsInv`: both sets hold the same addresses (`Listed`), with the expiration and the sequence number
  that their objects have. So `cancelInLoop`, which searches one set, finds the entry of the other, and what
  `getExpired` takes goes from both.
- `OwnInv`: every Timer waits to be added, is listed, or is in handleRead's vector, one of these and once.
- `ObjectInv`: a Timer is what its sequence number was asked for. A one-shot that `reset` deletes has run,
  as `LoopInv` says that the timers in front of `nextRun` have; so `NoTimerLost` survives `reset`.
- `OrderInv`: a cancel that waits has been asked for, and is behind the addition of its timer, so that a
  queued cancel that finds nothing finds a timer that is gone. A cancel from another thread has no such
  order, which is what `timers_off_loop` shows; it breaks no invariant, as a timer that waits to be added
  is not listed.
- `CancelInv` and `PromptInv`: a cancelled timer that is alive has a cancel in the queue, and the loop does not look
  at its timer channel while one waits there. `CancelIsPrompt` follows.
- `AlarmSet` itself: no reading is earlier than `now`, so an alarm is never set too late for what it was set for.

Each action has a lemma that takes the whole invariant over its step; `DataKept`, `AlarmKept`, `LoopKept`,
`OrderTail`, `CancelTail` and `CancelFound` are what they share, and lemmas about `Waiting`, the batch
followed by the queue. From `Invariant` follow `TimerTypeCorrect`, `BothSetsAgree`, `TimersOwned`,
`AlarmInTime`, `TimersKept`, and the action property `CancelledNotPicked`. `getExpired` copies
in the order of the set: `InOrder` is the set of the sequences in which that can be, at most one, instead of a
sort, whose result would need an induction. That there is one at all is what TLC shows: without it
`GetExpired` could not happen and `TimerServed` would fail.

`ThreadPoolProofs`, for any numbers of workers and starts, any finite sets of producers and
tasks, and a maximum of the semaphore that is at least tasks and workers together
(`PoolConstants`; LONG_MAX is):

- `PoolTypeCorrect`: `Spec => []TypeOK`.
- `TokensNeverShort`: `Spec => []TokensMatch`. `TokenInv` states it at every place of the owner, not
  only while the pool runs. `OwnerInv` (where the owner is tells the flag, and where workers
  can be) is needed because `start` forgets its old workers: none of them may hold a token.
  `CountInv` (no more queued tasks than were handed over) bounds the queue below the maximum, so
  that a `signal` that fails on a full semaphore still leaves enough tokens. The steps count finite
  sets: `WokenCount`, `CountsFinite`.
- `StopLeavesNothing`: `StopWhenQuiet => (Spec => []StoppedMeansDone)`, by `DoneInv`: what was handed
  over is what was taken or is queued, and from `stop` on nothing is queued.
- `PoolImplementsTaskQueue`: `StopWhenQuiet => (Spec => TQ!SafetySpec)`: with `DoneInv` a task that
  is pushed is new to the abstract queue, and `ClearQueue` has nothing to clear.

`BufferProofs`, for any bytes, sizes and prefix (assumption: 0 is a byte and
`kCheapPrepend` is a natural number): every operation keeps
0 <= reader <= writer <= size and a vector that has room for the prefix
(`BufferOK`), and

- `NewBufferRight`: a new buffer is empty, with the room the constructor asserts;
- `MakeSpaceRight`: `makeSpace` makes room, keeps the content and, when it moves it,
  finds `kCheapPrepend < reader`, as it asserts;
- `AppendRight`: the content becomes `content \o bytes`;
- `RetrieveRight`: the first `len` bytes go, no others;
- `PrependRight`: the content becomes `bytes \o content`, if the bytes fit;
- `ReadFdRight`: the content becomes `content \o bytes`, also when the receive was split.

They rest on lemmas on overwriting a part of a vector and on two buffers whose
readable cells agree (`SameContent`).

`TcpConnectionProofs`, for buffers, messages and bounds of any size (assumption:
`ConnectionConstants`: the sizes are natural numbers, and the bytes are numbered):

- `StreamsStayInOrder`: `Spec => []StreamsInOrder`. The inductive `Flow` adds what the steps rest on:
  both buffers are in order (`BufferOK`), no more is sent or consumed than was accepted or received,
  and the functors that wait carry lengths of messages. Each handler then follows from one theorem
  about the buffer: `KeepRight` from `AppendRight`, `WriteRight` and `ConsumeRight` from
  `RetrieveRight`, `ReadRight` from `ReadFdRight`.
- `WritesWhenNeeded`: `Spec => []WritingIffOutput`. `connectEstablished` makes the state connected
  without a look at buffer and interest; so the proof needs `StartInv`: it waits once, before all
  others, and nothing is sent before it has run.
- `ConnectionTypeCorrect`: `Spec => []TypeOK`, the indices of both buffers included.

`TcpServerProofs`, for any number of loops and connections, any peers and users and any
number of functors that wait (assumptions: `ServerConstants`, and `ClosedByOne`: a connection that its
peer may end is not closed by the user, there are no socket errors beside closes, and the server is
destroyed after its loop has returned, or never). Without `ClosedByOne` the theorems are false:
`server_close` shows connectDestroyed called twice, behind which a deletion may wait for its connection
already, and a destructor in a callback deletes connections whose closeConnectionInLoop waits behind
it in the batch. The inductive invariant `IInv` has these parts:

- `FitInv`: every functor of a loop that will run it is in the right loop and finds its connection in the
  state it was left in. It is what `NoStaleFunctor` follows from, and too weak alone: when a functor runs,
  the others of its connection must still fit.
- `Unique` and `DeleteLast`: so no two functors do the same to one connection, wherever they
  wait (closeConnectionInLoop and the connectDestroyed it becomes count as one), and behind a deletion
  nothing waits for its connection in its loop.
- `OwnInv`: a connection that exists is in the map or has one deletion in some loop, also in one that has returned.
- `ConnInv`: what a socket has signaled, who closed, how often the connection was destroyed, by its state.
- `LoopInv`: while the server's loop lives so do all, so that functors that cross from it find a loop; and a
  loop that takes a batch has finished the one before.

A step takes the first functor of at most one loop and queues at most one (`Moved`); `UniqueMoved`,
`DeleteLastMoved`, `DeletionsKept`, `DeletionCome` and `DeletionGone` say once what that does to each
part, and `Stepped` puts them together for every action. From `Invariant` follow

- `ConnectionsDestroyedOnce`, `FunctorsNotStale`, `ConnectionsOwned` and `ServerTypeCorrect`:
  `ClosedByOne => (Spec => []P)` for `DestroyedOnce`, `NoStaleFunctor`, `OneOwner` and `TypeOK`.

`TcpClientProofs`, for any numbers of attempts and requests (assumptions: `ClientConstants`, and
`Patient`: users wait for one request to be carried out before the next; section 5 says what happens
otherwise). `IInv` consists of

- `PhaseInv`: a batch exists only in its phase, handlers' work only in the dispatch;
- `QueueInv`: what waits is the work of one request and at most one reset, in an order (`Orderly`)
  from which each functor finds what it was queued for (`Meant`); a stop or a close that a functor queues
  runs before any handler, as the loop was woken (`BatchInv`);
- `QuietInv`: before a start runs nothing is under way, or a stop or disconnect in front of it will
  end it, so a new attempt never meets an old one's channel, timer or events;
- `AttemptInv`, `SocketInv`, `EventInv`: channel, timer, socket, connection and events agree.

Each functor and handler has a lemma that takes the whole invariant over its step, from lemmas on
what one part keeps. `SocketsOwned`, `FunctorsStayFresh`, `AttemptsAgree` and `ClientTypeCorrect` follow:
`Patient => (Spec => []P)` for `SocketOwned`, `FunctorsFresh`, `AttemptAgrees` and `TypeOK`.

*Only model-checked*: liveness (`ChannelServed`, `QuitTerminates`, `DestructorReturns`, `TimerServed`,
`StopTerminates`, `CloseIsTold`, `AttemptReported`, `OutputFlushed`), which the prover does not do. The
refinements are proved for safety and checked by TLC with liveness. Every invariant that a run
checks is a theorem: the server's under `ClosedByOne`, the client's under `Patient`,
`StoppedMeansDone` under `StopWhenQuiet`, all as in the runs.

## 5. Where code and documents differ

- `server_close`: `TcpConnection.h:65-66` wants `connectDestroyed` to be called once; a user's
  `close` that crosses the peer's calls it twice.
- `timers_off_loop`: `EventLoop.h:54-55` calls `cancel` safe from other threads; it runs on them, and
  does nothing to a timer whose `addTimerInLoop` is still queued.
- `pool_stop`: `broadcast` is thought to be enough to wake all (`Mutex.h:173`); with tokens
  left it fails and `stop` waits for ever.
- `server_release`: `TcpServer.cpp:33` closes the acceptor first, to prevent new connections; `release`
  only forgets it, and a loop that goes on accepts for a server that is gone.
- `client_delete`: `TcpConnector.cpp:151` says that a channel cannot be deleted inside its
  handler; `TcpClient::removeConnection`, called by `handleClose`, deletes the connection and with it
  the channel whose handler runs.

More were met that no run shows, since they hang on what users do or on chance:

- With `Patient = FALSE`, users who do not wait for one request to be carried out before the next,
  `SocketOwned`, `FunctorsFresh` and `AttemptAgrees` fail in `TcpClient`. Two disconnects queue two
  closes, the second on a freed connection. A disconnect and a connect from a timeout's
  callback, with the attempt's error in the same poll, meet a channel that waits for its
  `resetChannel`. A disconnect and a connect in a row leave the timer of an old attempt
  behind, which reports on the new one and clears the id of its timer.
- `EventLoopThread` publishes its loop before it is in `loop`, which clears `_quit`: a quit in
  between is lost and the destructor waits for ever. A server that is destroyed soon after `start`
  meets it in its pool. `DestructorReturns` excepts it, in `EventLoopThread` and in `TcpServer`.
- A second `stop` of a thread pool may hang although the pool is quiet, when the tokens of the first
  are nearly used up. `StopTerminates` is about the first.
- In `handleWrite` a partial send is not tried again: `OutputFlushed` excepts it (`short`).

## 6. What is not modelled

- The second step of data races: code that runs on the wrong thread because of `runInLoop`
  is modelled as one step next to the loop (`cancel`), or its users keep to the loop thread
  (`close`, the first `connect`), which the assertions ask for.
- What a wakeup does to the freed stack of a loop that returned in the middle of a `quit`, and what a
  released acceptor reads of a freed server: both find what was there.
- Failures to create a thread or a socket, and an accept that fails.
- Users who close a connection when its server is being destroyed, or quit a loop of the pool.
- `~TcpClient`, which is private, in a class without friends that deletes no client, and so
  `~TcpConnector`, which only it calls.
- A channel deleted by the handler of another one while both are about to be dispatched, which
  only a rule for users prevents.
- The limit of 64 handles, beyond which `WaitForMultipleObjects` fails.
- `~TimerQueue`, which uses its channel after the loop has deleted it.
- `TcpConnector::restart`, which nothing calls, and `retry`, which the constructor switches off.
- The answer callback of `sendInLoop`, the caller's data pointer, and `Buffer::swap` and its
  searches. Callbacks of a channel or a connection that are replaced while it is in use.
- `RwLock`, which no code of the repository uses, `Event` but for its two uses above, and the
  conversions of `Timestamp`.
- `TcpSocket`, `SocketsOps` and `InetAddress`, wrappers without state, of which `TcpSocket`'s blocking
  calls are used by nobody; `ThreadPool-nolockqueue`, which does not fit its header, and
  `unfinished`, which nothing builds.

## 7. Order and next steps

Order: the loop first, since everything rests on it (`TaskQueue`, `EventLoop`), and the
thread that owns it (`EventLoopThread`); then what it keeps (`ChannelTable`, `TimerQueue`), what
runs on it (`TcpServer`, `TcpClient`, `TcpConnection` over `Buffer`), each with its reduced loop, and
`ThreadPool` beside it. Proofs follow the same order.

Of use next: an abstract connection, a stream in each direction that ends once, that
`TcpConnection` implements, so that server and client could rest on it; an abstract set of timers, each
added, fired or cancelled, that `TimerQueue` implements; the client's theorems without `Patient`, for the
requests that do no harm.
