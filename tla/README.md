# Verification of the epoll server

The repository is a tutorial that builds an epoll server in 34 steps; each
directory is a snapshot of the whole program. This project is about the last one,
`src/34_router`: a reactor with one accepting thread, several I/O threads, an
optional pool of worker threads, and an HTTP server with a router on top. Paths
below are relative to `src/34_router/src`.

## 1. The system

### Threads

* The **main thread** executes `EventLoop::Run` of the main loop
  (`TcpServer::Start`); its only channels are the listening socket, an eventfd and
  a timer. Every accept runs `TcpServer::OnNewConnection` on it. The handler of
  SIGINT and SIGTERM (`bin/server.cpp`) runs on it too, at any point.
* The **I/O threads** are the threads of the pool of `TcpServer`; each executes
  `EventLoop::Run` of one sub-loop until the loop is stopped. A connection belongs
  to the sub-loop `fd % m_ThreadNum` for its life.
* The **workers** are the threads of the pool of `HttpServer` (none in
  `bin/server.cpp`, 5 by default). They parse, route and answer requests, and hand
  the answer back to the I/O thread with `EventLoop::QueueInLoop`.

### Components

| component | state | operations | what makes it correct |
|---|---|---|---|
| `net/EventLoop` | `m_TaskQueue`+`m_Mtx`, eventfd, timerfd, `m_Conns`+`m_ConnsMtx`, `m_Stop` | `Run`, `Stop`, `QueueInLoop`, `HandleWakeUp`, `HandleTimer`, `OnNewConnection` | no wake-up or stop request is lost; tasks run once, in order; the timer removes idle connections only |
| `net/Epoll`, `net/Channel` | the epoll tree, `m_InEpoll`, `m_Events`, `m_REvents` | `UpdateChannel`, `RemoveChannel`, `Loop`, `HandleEvent` | a `Channel*` returned by the kernel is alive when it is used; `m_InEpoll` tells what is in the tree |
| `net/ThreadPool` | `m_TaskQueue`+`m_Mtx`+`m_CondVar`, `m_Stop` | `AddTask`, the thread function, `Stop` | every task is started once and in order; no notification is lost; all threads leave on stop |
| `net/TcpServer` | `m_Conns`+`m_ConnsMtx`, the loops, the pool | `OnNewConnection`, `OnCloseConnection`, `OnErrorConnection`, `RemoveConnetion`, `Start`, `Stop` | its map and the maps of the loops agree; closed connections are released |
| `net/Connection` | buffers, `m_Disconnect`, `m_LastTime` | `OnMessage`, `OnWrite`, `OnClose`, `Send`, `SendInLoop`, `IsTimeout` | answers go out completely and to a connection that exists |
| `net/Buffer` | the bytes, the separator | `Append`, `AppendWithSeparator`, `PickMessage` | messages come out as they were put in, however the stream is cut |
| `net/Acceptor`, `net/Socket`, `net/InetAddress` | descriptors | accept, bind, listen, close | a descriptor has one owner |
| `http/HttpServer` | the pool of workers | `HandleMessage`, `OnMessage`, `Stop` | answers in the order of the requests; an orderly shutdown |
| `http/HttpRouter` | the patterns and their split form | `AddPattern`, `Route`, `CheckPathPattern` | the first pattern that matches, its keys and no others |
| `http/HttpRequest`, `http/HttpResponse`, `util/Str` | none | parsing, formatting | line by line parser, `Split`, `Trim` |

Components interact through calls (callbacks set once, those of a connection when it is
already being served), through the
two task queues, through the two maps, and through shared pointers: a `Connection`
lives as long as the local variable of `OnNewConnection`, a map or a request bound
for a worker holds it. The `Channel*` in the epoll events and the `this` bound by
`Connection::Send` hold nothing.

### What is hard here

Interleavings of the I/O threads, the workers and the main thread on queues, maps
and flags; condition variables and eventfds that must not lose a wake-up; tests
(`m_Disconnect`, `m_Stop`) that are stale when they are acted upon; objects that a
timer destroys while somebody has a raw pointer to them; descriptors that the kernel
hands out again; edge-triggered events that come once; the cutting of the stream.
`PROJECT.json` lists each hazard at its line with the properties that watch it.

## 2. The modules

| module | models | checked by |
|---|---|---|
| `TaskMailbox` | what an event loop promises to those who queue tasks (abstract) | refinement in `MCEventLoop.cfg`; safety part proved |
| `EventLoop` | `net/EventLoop` without timer and connections, `Epoll::Loop` | `MCEventLoop.cfg` |
| `EventLoopProofs` | proofs about `EventLoop` | the proof system |
| `TaskPool` | what a thread pool promises to those who add tasks (abstract) | refinement in `MCThreadPool.cfg`; safety part proved |
| `ThreadPool` | `net/ThreadPool` | `MCThreadPool.cfg`, `MCThreadPoolStop.cfg` |
| `ThreadPoolProofs` | proofs about `ThreadPool` | the proof system |
| `Connections` | who holds, uses and destroys a connection: `TcpServer`, the maps and the timer of `EventLoop`, `Connection`, `Channel`, `Epoll` | `MCConnections.cfg`, `MCConnectionsLive.cfg`, `MCConnectionsUsed.cfg` |
| `ConnectionsProofs` | proofs about `Connections` | the proof system |
| `QueueLemmas` | facts about queues, joined sequences and the places in them, prefixes and induction, for the proof modules | the proof system |
| `ReplyStream` | what a connection promises to those who send through it (abstract) | refinement in `MCConnectionIO.cfg`; safety part proved |
| `ConnectionIO` | the bytes of one connection: `Connection`, `Channel::HandleEvent`, edge-triggered epoll, the way through `HttpServer` and back | `MCConnectionIO.cfg` |
| `ConnectionIOProofs` | proofs about `ConnectionIO` | the proof system |
| `Shutdown` | the signal handler of `bin/server.cpp`, `HttpServer::Stop`, `TcpServer::Stop`, the mutexes of the maps; an instance of `ThreadPool` | `MCShutdown.cfg`, `MCShutdownSignal.cfg` |
| `ShutdownProofs` | proofs about `Shutdown`, through those about `ThreadPool` | the proof system |
| `Text` | `Split`, `Trim`, `SubStr`, `At` of `Str` with one byte to a character | through `HttpRouter` and `Str` |
| `HttpRequest` | the parser of requests | through `HttpRouter` |
| `HttpRouter` | `HttpRouter` under several threads, with `HttpServer::OnMessage` | `MCHttpRouter.cfg` |
| `HttpRouterProofs` | proofs about `HttpRouter`, `HttpRequest` and `Text` | the proof system |
| `Framing` | `net/Buffer` at both ends of a stream | `MCFraming.cfg` |
| `CharString` | what a `Str` promises to those who change it (abstract) | refinement in `MCStr.cfg`; proved |
| `Str` | one `Str` with its cached length, for both widths of characters | `MCStr.cfg` |
| `BytesProofs` | proofs about `Framing` and `Str`, the two classes that keep bytes | the proof system |

`Text` is extended by `HttpRequest` and `Str`, `HttpRequest` by `HttpRouter`.
`BytesProofs` extends both `Framing` and `Str`, which share the lemmas about joined
sequences; therefore the specification of `Str` is `StrSpec`, of `StrInit` and `StrNext`. The
`MC` modules are what the configurations instantiate; they add symmetry sets and the
messages, patterns and strings of an instance. Operators introduced by a comment that
begins with "Mutant" are not part of the model: they are wrong variants of the
definition that follows, kept to show that a property notices the mistake.

Where a component runs into another one's business it takes that one's result: the
queue of the workers and the task queue of the loop are plain sequences in
`Connections` and `ConnectionIO`, because `ThreadPool` and `EventLoop` are shown to be
first-in first-out queues that lose nothing; `ConnectionIO` leaves it to `Connections`
how long a connection lives.

### EventLoop

The variables are the members `m_TaskQueue`, `m_Mtx` (its owner), the counter of
the eventfd and `m_Stop`, a program counter for the loop thread, for each thread
inside `QueueInLoop` and for the one inside `Stop`, and two history variables
(`submitted`, `executed`). `QueueInLoop` is three steps (lock, push and unlock,
write to the eventfd); `HandleWakeUp` is read, lock, one step per task, unlock.
`epoll_wait` returns any non-empty set of at most `MaxEvents` channels
(`s_MaxEvents`); the eventfd is level-triggered, so it is missing from the set only
when the set is full. The 10 s timeout is a return without channels; a failure of
`epoll_wait` ends the process (`EpollFails`). Other channels
are opaque here: handling them touches nothing of this module. The tasks are opaque
as well: the only task of the program, `Connection::SendInLoop`, does not call back
into the queue.

### ThreadPool

One program counter per thread: the test of `while (!m_Stop)`, the acquisition of
`m_Mtx` (before or after waiting), blocked on the condition variable, executing a
task. The evaluation of the predicate and what follows it under the lock is one
step, because nobody can interfere with the queue; but a thread that found nothing
keeps the mutex until it is on the condition variable, and in between `Stop` can set
`m_Stop` and notify. `notify_one` wakes any waiting thread or nobody;
`SpuriousWakeUp` is always possible. `Returning` separates the two pools of the
program: requests return, `EventLoop::Run` does not by itself.

### Connections

One sub-loop with its descriptors (sub-loops share none), the main thread, the
workers. The constructor of a connection makes it known to a loop that runs; until the
main thread has assigned its callbacks (`SetCallbacks`, a beginning and an end) an event
may find them unset, set, or half written, and calling a half-written `std::function` is
`undefined`. Whether a connection is alive is not a variable: it is created and somebody
holds it (`Held`), so every step that drops the last holder destroys it and frees
its descriptor, as `shared_ptr` and `~Socket` do. The events of one `epoll_wait` are
a set dispatched in any order. `HandleTimer` is the iteration, then two steps per
idle descriptor: the erase in the loop and the erase in the server. What a read
returns is a choice: a part of a message, a message, or the end. A connection is
idle (`quiet`) when time has passed since its last message. Using a destroyed
connection, or inserting into the map during the unlocked iteration of the timer, may
make the loop `undefined`; a failing `epoll_ctl` makes the process `exit`; both end
the behaviour, as does a failing `epoll_wait`, and what is shown about the maps is shown
for all behaviours up to that point.

### ConnectionIO

One connection, its socket, its client and the kernel's ready list. A channel enters
the list when something happens to its socket or when `EPOLL_CTL_MOD` finds it ready,
and leaves it with the report; a report holds all that is true at that moment.
`HandleEvent` is a choice between reading and writing, never both. `OnMessage` is one
step per `read`, per picked message and for the end; what `send` takes is what fits.
A message goes to `SendInLoop` at once when there are no workers, else through a
worker (`TakeMessage`, the test of `m_Disconnect`, `QueueReply`) and the task queue.
The main thread assigns the callbacks for closing, for messages and for the end of
sending, one after the other, while events are served already: while it is at one of them
(`mainPc`) the I/O thread may find that one unset, set or half written. An early message is
picked and dropped, an early close is not told to anybody, and the call of a half-written
`std::function` crashes. A reset leaves one error in the socket; `ECONNRESET` is none
of the cases of the loop in `OnMessage`, a second `send` is SIGPIPE. `exit` (an update
of a channel that has left the tree), `failed` (`epoll_wait`), `crash` and `killed` end
the process. The reply is abstracted to `ReplyLen` units that name
the message answered. The rules of the kernel (when epoll reports, what `read` and
`send` return) are external: they are those of Linux.

### Shutdown

The handler runs on the main thread, so once `sigPc # "none"` the main thread takes
no other step and keeps what it holds. The main thread constructs the server, then
accepts; the part of `OnNewConnection` that matters is the two scopes of mutexes. The
I/O threads are threads of an instance of `ThreadPool` whose tasks are the runs of the
loops; inside `Run` a thread tests `m_Stop`, goes through the map of its loop without the
mutex when the timer is due (`Scan`), and takes the mutexes of the maps to close a
connection or to erase idle ones. `ScanRaces` is what that iteration can do to a map that
the main thread is inserting into, or was interrupted in: a crash, or a thread that
follows the links for ever. The signal may also interrupt `malloc`, `free` or stdio of the
main thread (`inLibc`); then the handler, which deletes and prints, may wait for itself
(`HandlerLost`), and so may each I/O thread for it (`LostInLibc`). `lost` holds the threads
that go on no more for one of these reasons. `HttpServer::Stop` and `TcpServer::Stop`
are: main loop, each sub-loop, `ThreadPool::Stop` with its joins, delete, exit. Linux
may deliver a signal to any thread that does not block it and prefers the main thread
of the process; the model has the main thread, and one signal. A loop that was stopped is
woken up and `epoll_wait` does not fail there: both are in `EventLoop`.

### HttpRequest and HttpRouter

A request is given by its meaning, `Encode` makes it a message, `Parse` is the parser
of the code over words and single bytes (`Text`). `AnswerRight` and `LfRequestParsed`
compare what the program makes of the message with the meaning, through `Fits`,
`Chosen` and `ParametersOf`, which do not use the parser or the loop of
`CheckPathPattern`. The value of a header is several words joined by colons, as a host with
a port is. Splitting a pattern is five steps (test, begin and end of the
assignment, mark, match), and touching a vector that another thread assigns is a
choice between going on and `undefined`.

### Framing

`Radix` and `HeaderLen` stand for 256 and 4, so that `size_t`, the header and `int`
get different widths while all lengths at their borders are small (`Weight` is what each byte
of the header counts). A header of which
less than four bytes have arrived is read all the same: the byte behind the data is
the NUL of `std::string`, those after it are arbitrary (`HeadersRead`). `len + 4` may
or may not wrap around (signed overflow). A negative length that passes the comparison
throws. With `m_Sep = 2` `AppendWithSeparator` appends nothing (`Buffer.cpp:28-31`), so
the stream is then filled by `Append` (`AppendRaw`).

### Str

The object under a sequence of its operations; `length` is the cached `m_Length`,
`mixed` remembers that characters of another width came in since it was last counted.
`SubStr` and `Chars` are operators that the property `WholeCharacters` calls in every
state. The arguments (`Args`) are what `StrAssumption` says of the strings of the program.
A `Character` is as many bytes as its first byte says, the others being bytes of UTF-8 that
begin nothing; a string is `Whole` if it is put together from such characters. Where there
are strings of UTF-8 all strings are whole, as the literals of `bin/test.cpp` are, also
those that were constructed with one byte to a character: the two widths may be mixed. In
a program with one-byte characters only, as the server is, strings are any bytes.
`std::isspace` in the locale "C", which nothing in the program leaves, knows no blank
beyond 127.

## 3. The runs

Passing runs:

* `event_loop` — two threads queue three tasks (so one queues twice), two further
  channels and an array of two events, so that the array overflows. Invariants
  `NoLostWakeUp`, `NoLostStop`, `FifoExactlyOnce`; the action property
  `DrainOnlyShrinks`; under fairness `QueuedIsExecuted`, `StopEndsRun` and the
  refinement `ImplementsMailbox`.
* `thread_pool` — two threads, two submitters and three tasks, one of which does not
  return, so that it can keep a thread as `EventLoop::Run` does. `EnoughWakeUps`
  says more than "somebody is awake": every queued task has a thread or a
  notification of its own, which is what starts all sub-loops, whose threads do not
  come back. `TakenInOrder`, `OneThreadPerTask`; under fairness `AddedIsStarted`,
  `BusyThreadLeaves` and the refinement `ImplementsPool`.
* `connections` — three connections on two descriptors and one worker, so that a
  descriptor is used again while another is in use: `OneConnPerFd`,
  `InsertNeverOverwrites`, `TcpEntryIsInLoop`, and what the timer may erase:
  `LoopErasesIdle`, `TimerErasesIdleOrNewer`. The last one also says what goes wrong:
  the second erasure can hit the connection that was accepted on the same number since
  the first.
* `connections_live` — two connections on one descriptor: `ClosedIsDestroyed`.
* `connection_io` — a client that sends three bytes, closes or resets at any time and
  receives slowly; none, one or two workers. `IOInv` (no byte is lost or doubled),
  `RepliesInOrder`, `NoEdgeLost`: although a report of IN and OUT loses its OUT, a
  half-sent reply always has something that will arm the channel again.
  `EndsInKnownWays` says when the process ends, besides a failed `epoll_wait`: SIGPIPE
  only after a FIN followed by a reset; a failed update of a channel only for a worker's
  reply to a closed connection; the call of a half-written callback only for a client that
  closes, or a message that is picked, before any message was handled, or for a reply sent
  off completely before the last callback was set. Under fairness `ArrivedIsPicked` and the refinement `ImplementsReplyStream`.
* `shutdown` — two loops and their threads, a signal at any point or none:
  `ShutdownInv` (the server is deleted only when nobody uses it); under fairness
  `SignalEnds` (a signal outside libc and the two scopes ends in order; otherwise the
  handler ends, or a mutex of the interrupted thread, a missed notification or a lost
  thread stops it) and
  `MutexesAreGiven` (without a signal nobody starves on the maps).
* `http_router` — two threads, five patterns of which several fit in part before
  another fits, requests with both line ends, repeated headers, a host with a port, a body with a colon, a
  message that begins inside a request and a path without a slash. `RouterInv` (the
  right handler and its keys, whoever split the pattern), `LfRequestParsed` (what becomes
  of the headers and the body when lines end in LF: values are cut at their first colon,
  the lines of the body run together),
  `RaceEnds` (after the first requests nothing is assigned any more).
* `framing` — six messages at the borders of the width of the header, all pieces of up
  to nine bytes, the three separators: `FramingInv`, `PartOfHeaderWaits`, and under
  fairness `EveryMessagePicked`.
* `str` — strings of up to six bytes of both widths, mixed: `StrInv` (the cached length
  is right, or errs on the safe side, and the bytes are whole characters), `WholeCharacters`, and the refinement
  `ImplementsCharacters`.

Runs that show where the code does not do what its comments say (each checks one
property, and its counterexample is the finding in `PROJECT.json`):

* `thread_pool_stop` — `Stop` waits for ever for a thread that was about to block.
  The thread misses the notification because `m_Stop` is not set under the mutex;
  `BusyThreadLeaves` holds, so only idle threads are affected.
* `connections_used` — the timer destroys a connection whose event is still in the
  batch, or to which a queued reply is bound.
* `shutdown_signal` — a signal that interrupts an insertion into a map leaves the
  handler joining a thread that waits for the mutex of that map.

### Bounds

The number of threads, tasks, connections and descriptors is finite and small; two
competing threads, one more task than threads and one more connection than descriptors
are enough for each race above to happen, and the mutants show that the properties
notice. Each task and each connection is used once, so runs end without a counter; the
eventfd counter is bounded by the number of tasks plus one. Named bounds: `MaxQueue`
bounds the requests and replies under way in `Connections` (beyond it a read delivers no
complete message); `MaxBytes` of `ConnectionIO` bounds what the client sends (three
bytes: two messages and one that arrives while the first is answered), with a send
buffer of one unit and replies of two, so that no reply goes out at once; `MaxSent` and
`ReadMax` bound `Framing` (three messages; a piece may hold two short messages or a part
of a header); `MaxBytes` bounds the data of `Str`. `Shutdown` and `HttpRouter` need no
bound.

Symmetry is used in `connections` only, which checks no liveness. Deadlock is not checked
where the system really stops: in `ConnectionIO` and `Framing` when the client has
nothing more to do or the process has ended, in `Shutdown` when the handler is stuck
(what it can be stuck on is `SignalEnds`).

## 4. Fairness

* `EventLoop`: the loop thread runs (weak fairness of `Loop`); a thread that has
  begun `QueueInLoop` or `Stop` finishes it; nobody has to begin. The eventfd is
  returned again and again while it is ready (strong fairness), as the kernel
  rotates the ready list when the array is full.
* In `EventLoop`, `Connections` and `ConnectionIO` the fairness of `Loop` leaves out
  `EpollFails`: nothing obliges `epoll_wait` to fail, and a wait for ever is not excused
  by the possibility that it might.
* `ThreadPool`: threads run, calls that were begun finish, tasks in `Returning`
  return. Spurious wake-ups are possible and never counted on.
* `Connections`: threads run, the timer goes off again and again, time passes for a
  connection that sends nothing.
* `ConnectionIO`: the I/O thread, the main thread and each worker run; the client
  receives what the kernel holds for it. It neither has to send nor to close.
* `Shutdown`: threads run; a mutex that is free again and again is acquired in the end
  (strong fairness of the lockings, as with a mutex that does not starve; for an I/O
  thread of the two lockings together, of which it is at one at a time); the
  dispatch of one `epoll_wait` is finite. No connection and no signal has to come.
* `Framing`: what was sent arrives, the reader runs.
* `HttpRouter` and `Str` are checked for safety only.

## 5. What is proved

All theorems are about `SafetySpec` (`Spec` without fairness; the `Spec` of `HttpRouter`
and `StrSpec` have none) for every value of the constants under the named assumptions of each module.
Every invariant and every action property of the passing runs is proved.

Two kinds of facts about data are needed. Facts about queues and prefixes come from the
library and `QueueLemmas`. What a fold or a recursive function computes is proved by
induction, for which the library's theorems cannot be cited, since they take an
operator: instead `LeastNatural` and `AllSequences` state induction about a set (a set of
numbers that is not empty has a least one; a set of sequences with the empty one, closed
under `Append`, has all). A recursive function is a `CHOOSE`, so each needs a proof that a
function with its equation exists (`FlattenExists`, `SplitIterExists`, `ParseIterExists`,
`WeightExists`, `ValueExists`, `PositionExists`); `FoldLeft` gets its equation from the sets of places it
recurs on (`SplitIter`, `ParseIter`).

**EventLoop**, under `ThreadsAssumption` (the loop thread, the threads that queue
and "nobody" differ) and `MaxEventsAssumption`. `LoopInv` is inductive
(`LoopInvariant`). It joins the properties of the runs with what they need: a push is
atomic with respect to the drain only because whoever pushes or drains owns `m_Mtx`
(`QueueProtected`), and a thread that is to push still carries its task (`ArgHeld`).
From it:

* `LoopTypeCorrect`, `WakeUpNeverLost` (`NoLostWakeUp`), `StopNeverLost`
  (`NoLostStop`), `TasksFifo` (`FifoExactlyOnce`);
* `DrainTerminates` (`DrainOnlyShrinks`): the loop `while (!m_TaskQueue.empty())` in
  `HandleWakeUp` cannot be kept busy by the threads that queue;
* `LoopImplementsMailbox`: every step maps to a step of `TaskMailbox` or a stutter.

**ThreadPool**, under `PoolAssumption` and `FiniteAssumption` (finitely many threads
and submitters). `PoolInv` is inductive (`PoolInvariant`). `EnoughWakeUps` is not
inductive by itself: a thread that goes to sleep leaves the count of those awake, and
only `BlockProtected` tells that the queue is still empty then, because that thread
holds `m_Mtx`. `OneThreadPerTask` needs that tasks are added once (`AddedOnce`), that
what runs was taken (`RunningWasTaken`) and that the queue is what was not taken yet
(`TakenInOrder`): so the head of the queue is nobody's task. From it:

* `PoolTypeCorrect`, `NotificationsSuffice` (`EnoughWakeUps`), `TasksInOrder`
  (`TakenInOrder`), `TaskNotShared` (`OneThreadPerTask`);
* `PoolImplementsTaskPool`: every step maps to a step of `TaskPool` or a stutter; that
  there is a free thread when a task is started is a count of the busy ones.

**Connections**, under `ConnsAssumption` (names that differ). `ConnsInv` is inductive
(`ConnsInvariant`): the type invariant, `OneConnPerFd` and `TcpEntryIsInLoop`, and three
parts they need. `MainCreated`: what the main thread holds exists, so that an insertion
goes where its descriptor is. `ReadyIsQuiet`: the list of the timer names idle
connections from the scan to the last erasure, because only the thread that works through
the list could end an idleness. `ErasedIsIdleOrNewer`: what the second erasure will hit,
stated from the first erasure on. `OneConnPerFd` is inductive because a step that is not
an accept only shrinks the set of those held, except that a worker or a map takes over
what somebody holds already (`HeldOnlyShrinks`); and an insertion finds its place
empty because an entry there would be another connection alive on the descriptor of the
main thread's (`EntryOfMain`). From it:

* `ConnsTypeCorrect`, `OneConnectionPerDescriptor` (`OneConnPerFd`),
  `TcpEntriesAreInLoop` (`TcpEntryIsInLoop`);
* `InsertionsNeverOverwrite` (`InsertNeverOverwrites`), `LoopTimerErasesIdle`
  (`LoopErasesIdle`), `TcpTimerErasesIdleOrNewer` (`TimerErasesIdleOrNewer`).

**ConnectionIO**, under `IOAssumption` (a reply, a send buffer and a read have at least one
unit). `IOInv` is inductive (`IOInvHolds`), for any set of workers and any number of bytes.
`InputStreamKept` is inductive by itself: what was picked, what is in the buffer and what
is in the socket are what arrived. `NoEdgeLost` speaks of the moment when the loop waits
and is nothing that a step inside a report keeps; `ReadEdgeKept` and `WriteEdgeKept` say for
every program counter where the edge is: in the ready list, in the report being served, in
the read or the send that is under way, or in a reply that will arm the channel. For a
reply that was sent in part this needs `RepliesWereAsked`: once there is something to send
a message was handled, so the callback is set and a picked message has a reply. `ResetSeen`
(a reset leaves one error, which is read before a second send unless a FIN came first),
`ReportsServed` and `WritingWasAsked` (writing is asked for and reported only after a
message was handled, and that only after the close callback was set) bound the ways in
which the process ends. `ReplyOrderKept` strengthens
`RepliesInOrder` to an equation that covers the queues and the hands of the only worker.
From it:

* `NoEdgeLostHolds`, `EndsInKnownWaysHolds`, `RepliesInOrderHolds`;
* `ImplementsReplyStreamSafety`: every step maps to a step of `ReplyStream` or a stutter.

**Shutdown**, under `ShutdownAssumption` (names that differ, finitely many threads and
loops). The pool is not proved again: `ImplementsThreadPool` shows that `Shutdown` uses its
pool as `ThreadPool` allows, and `PoolInvHolds` takes over the invariant that
`ThreadPoolProofs` proves. `ShutdownInv` is inductive relative to the types of the pool
(`ShutdownInvHolds`): that the server is deleted only when nobody is inside it needs that
`Stop` of the pool comes after the stop of every loop (`LoopsStopFirst`) and that who holds
a mutex is inside the scope of it (`HoldersAreInside`), so that threads that have exited
hold none. That two threads are never inside one map is not claimed: the timer iterates
without the mutex.

**HttpRouter**, with **HttpRequest** and **Text**, under `ClientAssumption` (what a request
means is made of words without blanks and delimiters, a header value of several words
with colons between them) and `RouterAssumption`
(a pattern has a method and a slash, as `AddPattern` gets them), for any number of threads,
any list of patterns, also an empty one, and requests of any length. `RouterInv` is inductive
(`RouterInvHolds`). `AnswerRight` at the answer follows from `SearchedInOrder` during the
search: the patterns passed do not fit and the keys are empty until one does. A step of the
search goes by the parsed message and the split pattern, `Fits` by the meaning; the two
agree because of

* `MeaningOfMessage`: the parser finds the method and the path of any message that begins
  with a request line, whatever follows (`RequestOfMessage` keeps the thread's request to
  it), and splitting the path gives back its segments (`SegmentsOfPath`);
* `SplitWhenUsed`: a thread that has passed the test of `m_PatternCached` finds the split
  form, although several threads assign it at once; it needs `CachedIsSplit`, and that a
  second assignment writes the same value.

`SlashInPath` keeps the undefined access of `SplitPath` to paths without a slash. From it
`AnswerRightHolds` and `RaceEndsHolds`. `LfRequestParsedHolds` says what the
parser makes of the rest of a request whose lines end in LF: a header line is split at its
colons, of which the first two parts are kept, and trimmed; the last value of a name stays;
and the lines of the body are appended one by one without their ends. So it is not what
the client meant when a value has a colon or the body more than one line.

**Framing**, under `FramingAssumption` (the radix exceeds the length of the header, as 256
does 4). `ValueOfHeader`: a length written as a header and read back is the length modulo
the numbers of a header, by division with remainder at each byte. `FramingInv` is inductive
(`FramingInvHolds`). `BytesAsSent` is the equation that carries it: with headers
`PickedAsSent` makes the rest of the stream begin with the header of the next message
(`MessageIsNext`), so a buffer with a whole header has its length (`WholeHeader`), and no
wrap-around of `len + 4` is possible when it fits. A part of a header is completed by the
NUL of the string and stale bytes; then the length is so far below the next power that
adding 4 neither wraps nor becomes a small positive end (`ValueBound`, `EndsOfLength`), so
the comparison fails: `PartOfHeaderWaitsHolds`. `FittingNeverThrows` follows from both.

**Str**, under `StrAssumption` (see section 2), for any arguments and any bound on the
bytes. `StrInv` is inductive (`StrInvHolds`). That `length <= Len(data)` and that the bytes
are `Whole` had to be added to it: without the first, an `Erase` or a `SubStr` behind a
stale length could not be placed, and without the second no position of a character in the
data is known. The argument is about the characters that a string is put together from
(`Spells`): where the character of a number begins is a sum of lengths (`OffsetStep`), and
`BytePosition`, which looks at first bytes only, computes that sum (`PositionIs`, by
induction on the characters, also past the last one), so `CalculateLength` is their number
and `CharactersOf` are they (`LengthIs`, `CharactersAre`). From there on the operations on
bytes are operations on sequences of characters: `Insert` cuts between two of them
(`InsertSpells`), `Erase` takes a run out (`EraseSpells`), and `Trim`, which knows only
bytes, cuts between characters because a blank byte is a character of its own
(`TrimSpells`). A stale length never counts less than the characters of a string of UTF-8
because a whole string has no more characters than bytes (`FewerChars`). From it:

* `WholeCharactersHolds`: what `SubStr` and `Chars` return;
* `ImplementsCharactersHolds`: every step maps to a step of `CharString` or a stutter. As
  neither specification has fairness this is the whole refinement.

**Only model-checked.**

* Liveness and the refinement of fairness, everywhere: `QueuedIsExecuted`, `StopEndsRun`,
  `AddedIsStarted`, `BusyThreadLeaves`, `ClosedIsDestroyed`, `ArrivedIsPicked`,
  `SignalEnds`, `MutexesAreGiven`, `EveryMessagePicked`, and the fairness in
  `ImplementsMailbox`, `ImplementsPool` and `ImplementsReplyStream`. They need `ENABLED`,
  which the prover does not treat.

## 6. What the code does that its comments or names do not say

Besides the three findings, the models contain these behaviours of the code. They are
steps of the models, not properties, so that what is shown holds in their presence.

* A timer that iterates over `m_Conns` without the mutex while the main thread inserts
  (`EventLoop.cpp:147`); a timer that erases by number a connection accepted since
  (`EventLoop.cpp:161`).
* A worker's reply that reaches a connection closed meanwhile ends the process:
  `m_InEpoll` survives the removal from the tree, and `UpdateChannel` exits when
  `EPOLL_CTL_MOD` fails (`Epoll.cpp:21`, `Connection.cpp:111`).
* `epoll_wait` that fails ends the process (`Epoll.cpp:61-64`), also with EINTR, which
  Linux returns after SIGSTOP and SIGCONT although no handler ran.
* Data followed by a FIN before the socket is found empty: the message is never picked
  (`Connection.cpp:84`). A message that comes before the callbacks are set is dropped, and
  an event that comes while they are assigned can call a half-written one
  (`TcpServer.cpp:57-60`).
* The signal handler deletes and prints, as do the threads it joins: if the signal
  interrupted `malloc` or stdio of the main thread they can wait for ever
  (`server.cpp:22-23`); it can also crash on a map half filled.
* With two workers the answers of one connection can change places
  (`HttpServer.cpp:56`).
* A stopped pool leaves queued tasks behind, although `ThreadPool.cpp:35` says that the
  queue is emptied first.
* The value of a header ends at the second colon of its line (`HttpRequest.cpp:32-33`), so
  `Host: 127.0.0.1:5005` is `127.0.0.1`; the lines of the body are joined without their ends
  (`HttpRequest.cpp:40`).
* With `m_Sep = 2` `AppendWithSeparator` appends nothing, and `PickMessage` succeeds without taking anything, and the loop in
  `OnMessage` does not end (`Buffer.cpp:70`); nothing in the program uses it.
* A length whose end is no positive `int` stalls the stream or throws
  (`Buffer.cpp:61-65`).
* The split form of a pattern is assigned by several threads at once when the first
  requests come (`HttpRouter.cpp:43`); a path without a slash reads the last part of an
  empty vector (`HttpRouter.cpp:84`).
* With lines that end in CR LF the empty line is not recognised: the body is not parsed
  (`HttpRequest.cpp:35`).
* `Trim` does nothing when the first byte is no blank, and keeps one byte after the last
  that is none (`Str.cpp:169-188`).

## 7. Not modelled

* **Steps 01 to 33**. The tutorial keeps each earlier state of the program as a
  directory of its own, which makes most of the lines of the repository; the last step
  contains what they build up to, and its sources are about one fifteenth of the whole.
  Modelling the older copies again would say nothing new, so the mapped lines are all in
  `34_router` and stay a small share of the repository.
* **EchoServer** (unused by the last step), `bin/client.cpp` and `bin/test.cpp` (drivers).
* **HttpResponse**, **HttpElement**: the formatting of headers and status lines.
* **Acceptor, Socket, InetAddress**: addresses and socket options are plain system calls.
  `accept4` and `socket` that fail are listed as a hazard; the code does not test the
  result.
* **Timestamp**: only whether a connection is idle.
* **Workers during the shutdown**: `bin/server.cpp` has none. `HttpServer::Stop` would
  stop and join them first, as `Shutdown` does with the pool of the I/O threads.
