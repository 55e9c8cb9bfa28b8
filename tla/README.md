# FifoLib in TLA+

Specifications of FifoLib (`src/TestTask/libs/FifoLib`), a C++17 library that
connects processes, or threads, by pairs of named pipes (FIFOs). The
specifications are checked by TLC on small instances and, in part, proved by
TLAPS for every value of their constants. Source paths below are relative to
`src/TestTask/libs/FifoLib/`; the test project around them is
`src/TestTask`, and `src/googletests` is the vendored test framework.

## 1. Inventory of the system

| component | state | operations | talks to |
|---|---|---|---|
| `IpcBase/FifoBase` | none | `createFifo`, `openFifo` | the kernel |
| `IpcBase/FifoRead` | `runRead`, `waitOpen`, `waitConnect`, `fifoFd`, `params.reconnect`, three callbacks, one thread | setters, `startRead`, the thread's `readFifo`/`connect`, `stopRead`, getters | kernel; its owner by callbacks from the reading thread |
| `IpcBase/FifoWrite/FifoWriteQ` (`WriteQImpl`) | the same flags, `queue`, `mtx`, one thread | setters, `startWrite`, `pushData`, the thread's `writeFifo`/`connect`, `stopWrite` | kernel; its owner by callbacks from the writing thread **and** from the thread in `stopWrite` |
| `IpcBase/FifoWrite/FifoWriteDirect` (`WriteDirectImpl`) | the flags, no queue, no thread of its own but a future that opens the pipe | `startWrite` (waits for the open with a timeout), `pushData` (writes in the caller's thread), `stopWrite` | kernel; its owner by callbacks from the caller's thread |
| `IpcBase/Fifo` | `state` (start/stop), one reader, one writer | `start`, `stop`, `write`, `closeRead`, `closeWrite`, `configReconnect` | both halves |
| `Client` | `state` (connect/disconnect), a `Fifo` | `start`, `write`, `stop` (future with a 3 s timeout), `logicConnect`, `logicDisConnect` run from the callbacks of both halves | `Fifo`, the application's `newHandler`, `closeHandler`, `readHandler` |
| `Server` | `stateClient`, `connectionTable`, `mtxConnect`, `mtxDisconnect` | `start` (builds the table), `stop`, `write(id)`, `disconnect(id)`, `connectH`, `disconnectH` run from the callbacks of every channel, destructor (removes the path names) | one `Fifo` per client, the application's handlers |

A client and a server are joined by two one-directional pipes: the client's
writer and the server's reader share one path name, and the other way round.
Opening a FIFO blocks until both ends are open; that rendezvous is the
library's notion of a connection, end of file (reader) and `EPIPE` (writer) its
notion of a lost one.

**Behaviours that are hard.**

* *Threads without locks.* The flags `runRead`, `waitOpen`, `waitConnect`,
  `fifoFd` and `reconnect` are plain members, written by the object's thread
  and by the thread in `stop...()`. Every interleaving of single accesses counts.
* *Blocking calls.* A thread can be inside `open`, `read` or `write` for an
  unbounded time. `stopRead`/`stopWrite` free a thread blocked in `open` by
  opening the other end, chosen by a flag that may be out of date, and hope
  that `close` is enough in the other cases. In Linux it is not: a close does not wake a
  call in progress.
* *Descriptor numbers.* They are kept in `fifoFd` after they were closed or
  given up, and the kernel hands out the lowest free number again. A
  reconnecting reader never closes the descriptor of a connection that ended.
* *Two sources of one event.* `stopWrite` calls the disconnect callback in the
  caller's thread while the writing thread may be about to call it. In `Client`
  and `Server` the connect and disconnect callbacks of both halves meet in
  `logicConnect`/`logicDisConnect` and `connectH`/`disconnectH`.
* *Failures.* The path name may be removed (the server's destructor), `open` may
  fail for want of descriptors, a peer may leave in the middle of a message, a
  message handler may move the buffer out of the thread's vector.
* *Restart.* The same object is started, stopped and started again by the tests
  (`test/Server_Client_test.cpp:32-41`); its fields keep their values in between.
  There is no persistence and no recovery after a crash of a process other than
  the other process seeing its end of the pipe close, which is how `PipePeer`
  leaves, too.

**What makes each component correct.**

* *FifoRead*: units are delivered once and in order; what a peer wrote before it
  left is delivered before the end of the connection is reported; nothing is
  lost between two peers of a reconnecting reader; disconnect callbacks answer
  connect callbacks; `stopRead` returns; it closes no descriptor of anybody else.
* *WriteQImpl*: messages go out in order, none twice, and leave the queue only
  when written; connect callbacks are answered; the mutex is let go;
  `stopWrite` returns.
* *WriteDirectImpl*: a timeout is reported exactly when there is no connection;
  a write is refused without one; connect and disconnect callbacks pair up.
* *Fifo*: both halves are started and stopped together; closing one half's
  descriptor ends that half's connection and nothing else.
* *Client*, *Server*: `newHandler` and `closeHandler` alternate; the state is
  `connect` exactly between them; once the halves are quiet it agrees with them;
  messages of a client reach the server in order, and those for one client
  reach no other.

The risks this gives rise to are listed one by one, each at its line, under
`hazards` in `PROJECT.json`, with the properties that watch them.

## 2. Modules

| module | stands for | state |
|---|---|---|
| `NamedPipe` | the kernel (external): path names, descriptor tables, pipes, system calls in progress | `linked`, `fdt`, `sys`, `buf` |
| `FifoBase` | `createFifo`, `openFifo` | - |
| `FifoRead` | class `FifoRead` | `rd[r]`: the members, `pc` of `readFifo`, `ctl` of the owner's call |
| `IFifoWriter` | interface `IFifoWriter`: the messages given to `pushData` | - |
| `FifoWriteQ` | class `WriteQImpl` | `wr[o]`: likewise, with `queue` and the progress of `write` |
| `PipePeer` | the program at the other end (external) | `peer[w]` |
| `ReadSide` | readers, peers that write, and an application like `IpcBase/test/Fifo_test_big_data_Q.cpp` that counts callbacks and keeps the data | + `data`, `flagConnect`, `flagDisconnect`, `starts`, `sent` |
| `WriteSide` | writers, peers that read, the same application | + `out`, `flagConnect`, `flagDisconnect`, `starts`, `pushed` |
| `FifoWriteDirect` | class `WriteDirectImpl` | `wd[o]`: the members, `task` of the future that opens, `pc` of the caller, `stop` of the thread in `stopWrite` |
| `DirectSide` | writers without a queue, peers that read, an application like `IpcBase/test/Fifo_test_big_data_NQ.cpp` | + `out`, `flagConnect`, `flagDisconnect`, `starts`, `stops`, `pushed` |
| `Fifo` | class `Fifo` with a `WriteQImpl`: the `FifoRead` and the `WriteQImpl` of the same name | + `fifo[f]`, `number[t]` (what thread `t` is about to close) |
| `Client` | class `Client` | + `state`, `at` (where each of three threads is in `logicConnect`/`logicDisConnect`), `newCalls`, `closeCalls`, `stopping` |
| `ClientSide` | clients under an application like `test/Server_Client_test.cpp`, the server as a peer per direction | + `starts`, `pushed`, `sent` |
| `Server` | class `Server`: a `Fifo` per connection | + `stateClient`, `at` (where each of three threads of a connection is in `connectH`/`disconnectH`), `newCalls`, `closeCalls`, `stopped` |
| `ServerSide` | a server under an application like `test/Server_Client_test_connect.cpp`, each client as a peer per direction | + `addressee`, `closing` |
| `Channel` | no code: what one direction of a connection promises | `pushed`, `queue`, `written`, `wire`, `data`, `ends` |
| `PairSide` | a `WriteQImpl` and a `FifoRead` at the two ends of one pipe, under the application of `IpcBase/test/Fifo_test_big_data_Q.cpp`; shown to implement `Channel` | + `data`, `pushed`, `starts` |
| `MC...` | instances for TLC | - |
| `FifoLib_proofs` | lemmas about the kernel, the peers and the two halves with threads, used by the modules below | - |
| `..._proofs` | theorems about the module of that name | - |

`NamedPipe` is at the bottom; `FifoBase` extends it; `FifoRead` extends that, and so do, through
`IFifoWriter`, `FifoWriteQ` and `FifoWriteDirect`; `Fifo` extends `FifoRead` and `FifoWriteQ`, and `Client` and `Server` extend
`Fifo`. A `...Side` module closes a part of the system with an application and, as the other end
of its pipes, either the peers of `PipePeer` or, in `PairSide`, the library itself.

### The kernel

`NamedPipe` is an external part: it follows `open(2)`, `read(2)`, `write(2)`,
`close(2)` and `fifo(7)` of Linux, as far as the library relies on them. A
system call that can block is two steps. `open` reserves the lowest free number
and counts its end at once, and returns once the opposite end is there *or has
been there since*: the release in `stopRead` opens and closes the other end, and
that is enough for a thread blocked in `open`. `read` and `write` keep the end
they resolved until they return, so that a `close` by another thread neither
wakes them nor releases the end. A pipe all of whose ends are gone
forgets its contents.

A unit of data is what a property tells apart: the reader's peer writes units
1, 2, 3, ...; the writer's messages have `sizeN[m]` units, unit `i` of message
`m` being `<<m, i>>`. `MaxLine` units fill the buffer of `MAXLINE` bytes.

### How steps correspond to code

One action is one access to a shared member, or one system call, with the code
between it and the next one. `ReadPc` and `WritePc` name the positions in
`connect()` and `readFifo()`/`writeFifo()`, `ReadCtl`/`WriteCtl` those in the
owner's calls: `stopped` and `started` between calls, the rest inside
`stopRead()`/`stopWrite()`. Loops, early returns and failing calls are alternatives
of these actions: a failing `open` (`openFifoFails`) leads on with `fifoFd` = -1,
as the code does; `read` returning 0 or -1 is `ReadDown`, `write` returning -1
`WriteDown`, a short count pops the message like a whole one (`WritePop`).
Callbacks are intervals: the step that enters one is part of the thread's
step before it, the step `...Returns` leaves it, and everybody else can move meanwhile.
The return of a system call and the
thread's own next assignment of its result are one step, because no other thread
can tell them apart: the result is in a local variable until then.
`MutexHeld` is the interval in which the writing thread owns `mtx`. The thread
never keeps it from one turn of the inner loop to the next.

A call that closes the number another thread keeps in `fifoFd` is two steps: one reads the number, the other
closes it, and in between the thread may open again, store another number, or give it back. In
`stopRead()` and `stopWrite()` these are `StopReadTakes` and `StopReadClose`,
`StopWriteTakes` and `StopWriteClose`, `StopDirectTakes` and `StopDirectClose`, with the number
in the field `fd`; `Fifo::closeWrite()` and `closeRead()` are `closeWriteTakes`
and `closeReadTakes`, then `closeTaken`, with the number in `number[t]`, `t` being the thread that makes the call.
A thread's own `read(fifoFd)` or `write(fifoFd)` is one step where only that thread assigns `fifoFd`.
In the same way `PushDirect` is the test of `waitConnect` in `WriteDirectImpl::pushData`, and
`DirectWrite` enters `write()`: all of `stopWrite()` may run between the two.

The flags are not atomic in the code, so the program has data races there. The
model gives such an access the values a single-word access has on the platforms
the library is built for: it reads the last value written. What a compiler might
do beyond that (keep a flag in a register for ever) is not modelled; every
loop that tests a flag contains a system call or a call of a mutex.

`WriteDirectImpl` has three threads: the caller of `startWrite` and `pushData`, the
task of `std::async` that opens (GCC starts it at once), and the one in `stopWrite`, because
`Client::stop` calls it from a future of its own while the application may be
anywhere. The timeout of `wait_for` is a step that may come at any time
(`DirectWaited`): the code does not ask which it was. The end of the scope of a `std::async`
future waits for the task; that is the guard of `DirectThrow` and `DirectStarted`.

`Client` runs its two functions access by access: `ConnectFlags`, `ConnectState`,
`ConnectSet`, `ConnectCall` are the lines of `logicConnect`, and
`Disconnect...` those of `logicDisConnect`, for each of the threads that can be in
them. Their interval is that of the callback in `FifoRead` or `FifoWriteQ`, which
`Return` ends. `stopping` is the caller of `Client::stop`: in `wait_for`, or past it
with the exception thrown and the future still to be destroyed. `DisconnectTakes` and `DisconnectClose` are the
`closeWrite()` that the reader's callback makes first. `Fifo::start` and
`Fifo::stop` are sequences of the actions of the halves.

`Server` does the same for `connectH` and `disconnectH`: `ConnectFlagWrite`, `ConnectFlagRead`,
`ConnectState`, `ConnectSet`, `ConnectCall`, and `Disconnect...` likewise, `k` being the reading
thread, the writing thread or the one in `stop()`. A callback at `begin` has not got its
mutex; `mtxConnect` and `mtxDisconnect` are predicates on `at`, true while any thread of any
connection is past that point, and each guards the entry of its own function only.
`DisconnectTakes` and `DisconnectClose` are the call of `closeWrite()` that the reader's callback makes first, without a
mutex. `ServerStart` waits until every connection has been built by `ServerNew`;
starts, and later stops, go one `Fifo` after the other. `disconnect(id)` is `ServerDisconnect`, `ServerDisconnectClose`,
`ServerDisconnectRead` and again `ServerDisconnectClose`: the writer's number is read and closed, then the
reader's, under threads that may be anywhere.
The destructor (`ServerUnlink`) only removes path names.
`ServerSide` orders the application's calls as the tests do: writes, then disconnects, then
`stop()`. Its clients only receive, since what a client sends passes through `readHandler` and
changes nothing in the server; the reader's own behaviour under data is the subject of `ReadSide`.

`PairSide` maps to `Channel` by `queue` and `written` as they are, `wire` = the contents of the
pipe, and `ends` = the ends of the pipe that some descriptor or some system call in progress
holds. The state of the threads, their flags and calls disappear.

`getWaitConnect()` and `getFifoFd()` are reads of a member and have no action.
`setReadHandler` and the other setters are actions before `startRead`; the code
forbids nothing later, but no test or class of the library does that. Starting an
object twice without a stop in between, or destroying it while its thread
runs, terminates the program (a joinable `std::thread` is overwritten); both are
outside the model, and `Fifo::state` prevents the first.

## 3. Runs

| run | question | instance |
|---|---|---|
| `read_turns` | `CallbacksAgreeWithFlag`, `NothingLostWhileRunning`, `StopReturns`, `DataArrives`, `PeerNoticed` | one reader, reconnecting or not, one session, two writers with a visit each, two units, buffer and pipe of two units |
| `read_limit` | `TypeOK`, `DisconnectAnswersConnect`, `EndsOnlyAtEnd` | two descriptors in the process, so that the second reconnection finds none; path removed at any time; the handler moves the buffer; two sessions |
| `read_restart` | `StopReturns` is **violated** | two sessions of one reader |
| `write_once` | `CallbacksAgreeWithFlag`, `StopReturns`, `MutexReleased`, `PushedGoesOut` | one writer, two readers, messages of two, one and no units in a pipe of one |
| `write_limit` | `TypeOK`, `WrittenInOrder`, `EveryConnectAnswered`, `PoppedWasWritten` | a reconnecting writer, two sessions, two descriptors, path removed at any time, the same messages |
| `direct_once` | `TypeOK`, `WrittenInOrder`, `EveryConnectAnswered`, `ReturnsWhenWritten`, `ReaderLetsStart`, `StopReturns` | one object, one session, a reader that comes twice, the same messages, path removed at any time |
| `client_once` | `StateSettles`, `StopClosesOwnEnd` | one client, one session, the server's two ends come and go once, one message; three descriptors, so that numbers are reused |
| `client_loss` | `TypeOK`, `LossNoticed` | the same without `stop`, a unit from the server, paths removed at any time |
| `client_twice` | `NewNotTwice` is **violated** | one session |
| `pair_channel` | `TypeOK`, `ReceivedInOrder`, `ImplementsChannel`, `MessageArrives` | a writer and a reader on one pipe, a start and a stop of each, messages of two and one units, pipe and buffer of one |
| `server_calls` | `TypeOK`, `CallsMatchState`, `UpIsReported` | one connection, a visit of each half of its client, one message, `disconnect(id)`, `stop()` after the client has gone, four descriptors |
| `server_closed` | `ClosedAtStop` is **violated** | the same with `stop()` at any time and no message |

Each property has a mutant: a definition of the model changed the way a plausible
bug would change the code, under which TLC finds the property violated. The
mutants stand next to the definition they change, marked `Mutant`.

### What the violations show

`read_restart`: `stopRead()` decides by `waitOpen` whether the
reading thread may be blocked in `open` and needs the other end opened for it.
`startRead()` does not reset the flag, so between `startRead()` and the first line of the new
thread it still says *true* from the session before. A stop in that window
only closes the old descriptor number, the thread then blocks in `open`, and
`join()` waits for ever. In the first session of an object that does not
reconnect, the flag starts as *false* and `read_turns` shows that `stopRead()`
always returns. (A reconnecting object has a window of the same kind after every end of
file, before `connect()` clears the flag.)

`client_twice`: a server that starts lets both halves go at nearly the same time. Both
threads find `state` at `disconnect` before either sets it, and the application
hears twice of one connection. `client_once` shows what holds all the same, from `start()` until
`stop()` begins: whenever neither of the two threads is in a callback, `state` is `connect` if both halves are up and
`disconnect` if both are down. It says nothing of `stop()` itself, a third thread in the same functions; the first
interleaving below is why.

`server_closed`: in `stop()`, the writer's `stopWrite()` calls `disconnectH()`, which finds both flags still
set and does nothing. The two threads then end because `runWrite` and `runRead` are false, without
a callback of their own, and `closeHandler` is never called. A second way there:
`connectH()` sets `stateClient` under the one mutex after `disconnectH()` has looked at it under the other.

### Interleavings no property states

These come from the same races. They are listed as hazards without a property, because no document promises
the contrary or because a violated property above has the same cause.

* *A connection that is never closed* (`Client.cpp:29`, `FifoRead.cpp:40`). `stop()` comes while the connection
  is being made. The writer's disconnect callback finds nothing to report; the reader,
  already past its test of `runRead`, reports the connection and ends by `runRead` without another
  disconnect callback.
* *A reader that nobody misses* (`FifoWriteQ.cpp:62`). `LossNoticed` of `client_loss` is about the server's writing
  side: the client's reader comes to the end of its pipe and reports it. The loss of the server's reading side is noticed
  only when the client writes, and never by a client that does not.
* *`stop()` waits for ever with the server there* (`Client.cpp:24`). `stopWrite()` finds `waitOpen` false and is
  about to open the other end; the writing thread's `open` returns by itself; the reading
  thread's disconnect callback closes the writer's new descriptor. The open in
  `stopWrite()` has nobody left to meet.
* *Both ends of a pipe stopped at once* (`FifoWriteQ.cpp:93`). Each stop sees its own thread in `open` and opens
  the opposite end. If the two opens meet each other and are closed again before the threads
  are there, both threads stay in `open`.
* *An end that is never given up.* A stop that comes before the reading thread has stored the
  result of its `open` closes the old number; the end the thread then owns stays open, and the program
  that writes to it never sees `EPIPE`. A reconnection leaves its old descriptor behind in any case.
* *Numbers of somebody else* (`Server.cpp:132`). After `closeWrite()` the writer goes on to use its number; the
  next `open` of the process, the reader's own reconnection among them, may get it, and a later
  `stopWrite()` closes it. A client has the same in a second session, or with a second client in its process: TLC finds
  `StopClosesOwnEnd` false when `MaxStarts` of `client_once` is two.
* *Data of another channel* (`FifoRead.cpp:53`). The reading thread has tested `runRead` and is about to read.
  `stopRead()` closes its descriptor, a second reader of the process opens its own pipe and
  gets the number, and the first thread reads the second channel's data and hands it to its own
  handler. This is why the theorems `PopsWhatIsWritten` and `PushReturns` are about one pipe,
  and `NothingIsLost` and `DisconnectMeansEnd` about one object in a process.
* *Order of the handlers* (`Server.cpp:12`, `24`). Two mutexes do not exclude each other: `closeHandler` may run
  before the `newHandler` of the same connection does, and `stateClient` may stay at `connect` when one
  half went down during `connectH()`. `CallsMatchState` and `UpIsReported` are what is left: every change of
  the state is reported once, and a connection that is up is known to be.
* *A handler that writes* (`Server.cpp:24`). The writing thread calls `disconnectH()` with its queue's mutex
  held. A `closeHandler` that calls `write()` for the same connection waits for the mutex of its own
  thread. The handlers of the tests do not write, and neither do those of the model.
* *Timeouts that do not end the wait* (`Client.cpp:60`, `FifoWriteDirect.cpp:52`). `wait_for` gives up, but the
  future's destructor waits for the call. `src/readme:14` says itself that `stop()` hangs when
  the server has removed the pipes. For `startWrite()` of `WriteDirectImpl`, `ReaderLetsStart`
  is what holds: a reader that waits lets it return.

### Properties that hold and are easy to doubt

A reconnecting reader goes back
to `open` without closing the old descriptor. That is a leak, and
`read_limit` follows it to the point where `open` fails; but it is also why
`NothingLostWhileRunning` holds, in the first session: the pipe never is without an end, so that what the
next peer writes early is kept. `EndsOnlyAtEnd` holds in every session until `stopRead()` has reset `runRead`: the disconnect
callback means that the pipe is empty and has no writer, although the thread keeps its old number while it opens again, an open
may fail after one that succeeded, and a new session begins with the flags of the last one. The exception it names
is a handler that has moved the buffer away, after which `read()` fails. `CallbacksAgreeWithFlag`
and `DisconnectAnswersConnect` hold in
spite of failing opens, failing reads and stops at any moment. The former reaches through the first stop up to its `join()`, the
read that `stopRead()` makes fail and the callback that `stopWrite()` makes included. And
`EveryConnectAnswered` is as strong as the code allows: when `stopWrite()` and the
thread race, both call the disconnect callback.

`ImplementsChannel` says of the two halves together what neither can say alone. `Channel` has
no threads; a message may be cut only when there is no reader, the contents of the wire are lost only with both ends,
and never in the middle of a message being written. A stop that closes a descriptor under a `write` in progress does
not break this, since the call keeps its end; a stop that makes `read` fail loses nothing, because the data
stays in the pipe while any end does.

### Bounds

`MaxStarts`, `MaxVisits`, `MaxUnits`, `MaxPushes` bound the counters
of the environment; the objects themselves are unbounded. Two sessions, two visits
and two peers suffice for every pair of a state left behind and a later user of
it. Capacity and buffer of one or two units with messages of zero, one and two
make full and partly full pipes, short reads, full reads and partial writes happen.
Two to four descriptors make reuse and exhaustion happen. TLC fires every action of
the next-state relations in these runs.

`MayStop`, `MayUnlink`, `MayDisconnect` and `StopsEarly` say what an application does in an
instance. A server has four blocking calls, two threads and eleven steps of
callbacks per connection, so that one connection is what TLC can exhaust (about 1.4 million states
in `server_calls`). `StopsEarly` is off there for the same reason, and on in `server_closed`, which
needs neither the message nor `disconnect(id)`. `pair_channel` has one start of each object; the
theorems of section 4 cover any number.

Deadlock is not checked: an application that has stopped its objects, with the
peers' visits used up, has nothing left to do.

### Fairness

Weak fairness of the steps of each object's thread and of a call of
`stop...()` in progress says that the scheduler runs every thread and that
callbacks return. A peer whose `open` can return returns from it (`Enter`). The
writer's peers go on reading (`Receive`) while they are in. Nothing makes a peer
come, leave or write. `close` does not wake a `read`, so `stopRead()` may wait for ever for
a peer that stays; `StopReturns` of `ReadSide` states that as its premise rather than hiding it. In
`DirectSide` and `ClientSide` every thread is fair and `wait_for` comes to its end; in
`ClientSide` the server's ends leave at last. In `PairSide` both threads and both stops are
fair, and nothing makes the application start, stop or push. `ServerSide` states no
fairness: its properties are invariants.

## 4. Proofs

Each theorem holds for every value of the constants: any number of objects, peers and
descriptors, any capacity, any message sizes and any bound on the environment.
`FifoLib_proofs` states as lemmas that each system call, each step of a peer, of a reader and of a
writer with a queue keeps the types of the tables it changes. The other modules but `Channel_proofs` extend it.

**The reader** (`ReadSide_proofs`).

* `TypeCorrect`: `Spec => []TypeOK`.
* `CallbacksPaired`: `Spec => []DisconnectAnswersConnect`. The property is not
  inductive by itself: nothing in it says why the thread cannot reach the disconnect
  callback a second time. `AnswersInv` adds that: a connect callback that has run
  is *owed* an answer while `waitConnect` stays set, and until the disconnect callback it
  leads to has returned; the thread is at a read, or in a message callback, only with
  `waitConnect` set; `waitConnect` is reset before the disconnect callback begins; and a stopped object has no
  thread. `stopRead()` resets `waitConnect` only after `join()`, and loses the debt,
  which is why the property is an inequality.
* `CallbacksFollowFlag`: `Spec => []CallbacksAgreeWithFlag`. Until the `join()` of the first stop has returned, no
  debt is lost, not even by a read that fails because `stopRead()` has closed its descriptor; so that `AgreesInv`, an equation, is
  inductive on top of `AnswersInv`.
* `NothingIsLost`: `Separate` implies `Spec => NothingLostWhileRunning`. The pipe outlives every end of file because the
  object never gives up its end: from its first `open` on, until `stopRead()`, its process holds the reading end in a
  descriptor or the `open` in progress is going to (`Kept`), and before that the pipe is empty. Nobody else
  can hold or close that end (`Elsewhere`, `OwnEnds`). `Separate` says that each object has a process and a pipe of
  its own, and that the peers are other programs, as in the run. The code needs the first two: a second reader of the pipe takes
  data, and a second object of the process may read from the first one's descriptor, or close it, by a number it has kept. The
  property is about the first session. For a second one TLC finds it false: what the first has left in
  the pipe goes when the peer leaves before the new thread opens.
* `DisconnectMeansEnd`: `Separate` implies `Spec => EndsOnlyAtEnd`, in every session. `ReadyInv` adds to `AnswersInv` and
  `KeepsInv` that, while `runRead` is set, `waitConnect` is reset all the way from `connect()` to the test of the descriptor,
  and that past this test `fifoFd` is a number of the object's own reading end (`Own`). A connection thus ends
  by a `read()` on that end: by its return of 0, which the kernel gives only without data and without a writer,
  or by the failure for a moved buffer. `Separate` is needed for the reason that *Data of another channel* in section 3 gives.

**The writer** (`WriteSide_proofs`). Four theorems come
from one inductive invariant, `IInv == TypeOK /\ OrderInv /\ AnswersInv`:

* `TypeCorrect`. What `write()` takes is the head of the queue, so
  typing it needs `Queued` of `OrderInv`: at a write the queue is not empty.
* `OrderKeptThroughout` (`Spec => []WrittenInOrder`). `OrderInv` adds the relation between what
  is out and what is queued (`Gone`): the queue is increasing and bounded by the last message
  pushed, all that is out belongs to earlier messages, except for the units of the head
  while it is being written, and the last unit out is then the last one counted. It says
  why a message that failed at its first unit can be written from its start to the next reader.
* `ConnectsAnswered` (`Spec => []EveryConnectAnswered`). `AnswersInv` counts, besides what the
  thread owes (`Owed`, as for the reader), the answer that `stopWrite()` has still to
  give (`StopsToCome`) or has given (`StopHasAnswered`). It also says that a stopped object
  has no thread, without which `startWrite()` could cut a write short and break the order.
* `CallbacksFollowFlag` (`Spec => []CallbacksAgreeWithFlag`). In the first session, up to the `join()` of its stop,
  the two bounds that `AnswersInv` puts on the callbacks meet, once the answer that `stopWrite()` has
  given is counted (`StopHasAnswered`).

The fifth, `PopsWhatIsWritten` (`OnePipe` implies `Spec => PoppedWasWritten`), is an action property. `PopInv` adds to
`IInv` that the units counted for the head are out (`Wrote`), and that a thread in `write()` holds
the writing end of its own pipe (`Holds`), whatever has become of the number since. Every step is shown to be
`LeavesCalls` (`FifoLib_proofs`): it leaves the ends that other threads hold.

**The channel** (`Channel_proofs`). `ChannelInOrder`: `Spec => []ReceivedInOrder`. The invariant is about
`data \o wire`, all that has gone out, since losing the wire or taking from it then changes nothing but
the end: it is in order, the queue is rising and ahead of it, and the last unit out is the last one
written. No assumption but the types of the constants is used.

**The pair** (`PairSide_proofs`).

* `TypeCorrect`, with what either thread holds in a system call: `Inv` is `TypeOK`, a
  descriptor for every call of `open` in progress, the own end of the pipe for every `read` and `write` in
  progress (`ReadHolds`, `WriteHolds`), and a queued message for every write (`WriteQueued`).
* `PairIsChannel`: `Spec => ImplementsChannel`. Each step of the threads, of their owners and of the kernel maps to
  `Push`, `Put`, `Finish`, `Take` or `Turn` of `Channel`, or to no step; that `write()` and `read()` act on the own
  pipe comes from `Inv`. The hard case is a `Turn` that ends the last end: the pipe is
  emptied exactly then, and no message is half written.
* `PairInOrder`: `Spec => []ReceivedInOrder`, from `ChannelInOrder` through `INSTANCE Channel_proofs` under the refinement
  mapping. TLC checks this for one start of each object; the theorem covers any number.

**The writer without a queue** (`DirectSide_proofs`). `IInv == TypeOK /\ OrderInv /\ AnswersInv`, of which
TLC has checked the parts on `direct_once` with two sessions as well:

* `TypeCorrect`.
* `PushedInOrder` (`Spec => []WrittenInOrder`). `Pushing` of `OrderInv` says that a `pushData()` that writes has the
  message pushed last, of which nothing was out before, and that what it has written is out, last
  of all. It is what keeps a second call from beginning inside a message: a call that failed is over.
* `ConnectsAnswered` (`Spec => []EveryConnectAnswered`). `AnswersInv` counts what is to come: the connect callback of a
  start (`ConnectToCome`), the answer of a `stopWrite()` in progress (`StopInProgress`), the one of a `pushData()`
  that has failed (`PushHasFailed`) and of one that still may (`PushMayFail`). A `pushData()` that is writing may fail although
  `stopWrite()` has reset `waitConnect` in the meantime, so that the flag alone would not do.
* `PushReturns` (`OnePipe` implies `Spec => ReturnsWhenWritten`). `PushInv` says that the units a `pushData()` has counted
  are out (`Wrote`) and that its `write()` in progress holds the writing end (`Holds`), so that the call can
  end early only without a reader. No step of another thread touches that end (`LeavesCalls`), the close by `stopWrite()` included.

**The server** (`ServerSide_proofs`). `IInv == TypeOK /\ HalvesInv /\ CallbacksInv /\ ReportInv`, for any number of connections, where
TLC exhausts one:

* `TypeCorrect`.
* `CallsMatch` (`Spec => []CallsMatchState`). `CallbacksInv` adds that at most one thread of the whole server is inside
  `connectH()` and at most one inside `disconnectH()` (`MutexInv`), and that nothing overtakes a callback
  between its test of `stateClient` and its assignment (`StateTested`). The second does not follow from the mutexes, of which there are two: it holds
  because each function, past its test, holds the state at a value on which the other does not act.
* `UpReported` (`Spec => []UpIsReported`). `ReportInv` says who is going to report: until `stop()`, with both halves up, either `stateClient` is
  `connect` or a thread is in `connectH()` before its assignment. `HalvesInv` keeps a disconnect callback from finding both
  flags set while its own half is down.

**The client** (`ClientSide_proofs`). `IInv == TypeOK /\ SettlesInv`:

* `TypeCorrect`.
* `SettlesState` (`Spec => []StateSettles`). There is no lock to reason with. `SettlesInv` says, client by client, that with both
  halves up some connect callback has yet to set `state` unless it is set (`UpOf`), that in the first session with both
  down some disconnect callback has (`DownOf`), that a client never started has nothing going on (`FreshOf`), and what a thread's position
  says of its flag (`HalvesOf`). The argument is that a disconnect callback cannot be in progress with both halves up, nor a connect callback
  with both down, since a thread resets or sets its own flag before it enters one; hence nobody can set `state` back.
* `ClosesOwnEnd` (`Single` implies `Spec => []StopClosesOwnEnd`). `Single` is what the property needs: one session (`MaxStarts = 1`), two
  pipes, and no other client or peer in the process of a client; it is false without the first two (*Numbers of somebody
  else*, section 3). `OwnInv`, with `IInv`, follows the numbers of that process: which of the four opens a thread is in
  (`CallsOf`), that two opens in progress never have one number (`NumbersOf`), whose each open number is
  (`SlotsOf`), and what has become of the numbers the halves keep (`KeptOf`, `ReleasesOf`). The point is what happens
  to a number that a half keeps after a disconnect callback has closed it. Another open may get it, so the
  number alone shows nothing; but the callback comes only after the reader has opened its own end, and the one open that
  is then left, by which `stopRead()` releases a thread, comes after `stopWrite()` has closed for the last time.
  `TakenInv` bridges the two steps of a close: a number that was read from `fifoFd` to be closed is still the one kept there when it is.

The proofs keep an object's record closed: one lemma says what an update of each field
gives, and the steps cite it. Assumptions are those named in the modules (`NamedPipeAssumption`,
`FifoReadAssumption`, `IFifoWriterAssumption`, `FifoWriteQAssumption`, `PairSideAssumption`, ...): the constants have the types their
comments say, and an object's thread and its caller are threads of one process.

**Checked by TLC only**: liveness, since fairness is beyond the prover. Every safety property of the passing runs is a theorem,
`StopClosesOwnEnd` under `Single`.

## 5. Not modelled

* *A client with `WriteDirectImpl`* (`Config::NQW`; the server always has a `WriteQImpl`). The half itself is modelled in
  `FifoWriteDirect`. The combination adds one thing, a `startWrite()` that throws out of `Fifo::start()` with the reader
  started (`Fifo.cpp:47`). A client with a `WriteQImpl` is already near what TLC exhausts, and the
  task that opens would be one thread more.
* *`Server.cpp:113`* captures `[ id]` but uses `this`, and as written does not
  compile. The model reads it as `[this, id]`.
* *Two connections of one server.* `Server` and `ServerSide` are written for any number; TLC
  exhausts one. The two share no state but the mutexes, the table and the process' descriptors.
* *A second `Server::start()`.* `initialization()` would build the table a second time; the tests start a server once.
* *Handlers that write*, see section 3.
* *Crash of a process.* Nothing is persisted. For the other process a crash is a peer that leaves.
* `googletest` is vendored, and by far most of the repository's lines. The demonstration programs and
  tests are applications; what those of the tests do is the environment of the
  `...Side` modules. Logging and the conversion of names to paths change no state the properties speak of.
