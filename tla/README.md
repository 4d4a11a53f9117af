# A TLA+ model of Push-Service

Push-Service delivers push notifications from a server to console and GUI
clients. This directory holds TLA+ modules that model its components, the TLC
configurations that check them on small instances, and TLAPS proofs about them.
Every definition is translated from the sources; line numbers in comments and in
`PROJECT.json` refer to them.

## 1. The system

| Component | Sources | State it keeps | Operations |
|---|---|---|---|
| Push dispatcher | `server/src/dispatcher.cpp`, `server.cpp`, `server.h` | a FIFO per priority, `current_deq_`, `stopped_`, one processing thread | Post, Stop, destruction; the thread peeks, sends to every client, pops |
| TCP server | `network/server/src/{TcpServer,TcpSession,ClientRegistry}.cpp` | acceptor, session map, outstanding asio operations | start, stop, broadcast, accept/read/write handlers |
| TCP client | `network/client/src/TcpClient.cpp` | socket, timer, `shouldReconnect_`, `was_connected_`, `last_op_success_` | setEndpoint, connect, close, asyncSend, reconnect timer |
| Client application | `client_lib/src/client_lib.cpp` | io_context, work guard, protocol buffer, user | start/stop loop, connect, disconnect, login, sendMessage, callbacks |
| Frame protocol | `network/protocol/protocol.cpp`, `common/serialization/*` | receive buffer | Feed, encode/decode of frames, messages, pushes |
| Push storage | `database/src/push_storage.cpp` | SQLite file | OpenDatabase (create, fill), InsertPush |
| Server events store | `database/src/server_event_db.cpp`, `sqlite_db.*` | SQLite tables and a trigger | InitTable, Add* |
| Console client | `client_console/src/*` | push and message queues, history, UI state | UI commands, event handler callbacks |
| GUI client | `client_gui/src/*` | label of the connection, list of pushes, filters, queued signals | Qt slots, callbacks |
| Push generator | `push_generator/src/*` | authorisation flag, generator | Run |
| Password hashing | `client_lib/src/hasher.cpp`, `MurmurHash3.cpp` | none | pure function |

The dispatcher hands pushes to `IClient`s; at this commit those are the
imitation in `server.h`, and the TCP server is not yet wired to it. The client
application owns a TCP client and a protocol decoder on an io thread and calls
the event handler of the console or GUI from that thread, while the UI thread
calls it. The generator owns a TCP client of its own. The stores are called
from their own demos and tests.

What makes each part hard, and what would make it correct:

* **Dispatcher.** Front and pop are in different critical sections, with the
  sending between them unlocked. Correct: the queue never corrupts, no wake-up
  is lost, each push reaches every client once and in priority order.
* **TCP server.** Handlers of operations that were already performed run after
  the operation that should have stopped them; several writes on one socket;
  a map walked without its mutex. Correct: registry = open sessions, one
  disconnect report per session, reads and accepts always armed, nothing left
  after stop, messages not torn.
* **TCP client.** Stale handlers and timers of an earlier attempt act on the
  state of the current one; close and connect race the reconnect timer.
  Correct: at most one chain of attempts, no reconnect after close, bounded
  retries, one disconnect report per connection.
* **Frame protocol.** Frames split and joined arbitrarily by TCP. Correct: the
  messages decoded are those encoded, in order, as soon as their bytes are in.
* **Stores.** Several statements without a transaction; a crash between them is
  seen by the next start; a trigger names a table the store does not own. Correct:
  what was acknowledged is kept as it was; a file opened with success is complete;
  `last_seen` is the last connection stored.
* **Console client.** The io thread, the thread that prints and the thread of the
  commands test and pop the same queues in separate critical sections, and share
  a history without a mutex; the connection's late handlers decide what a command does.
  Correct: no empty queue is read, pushes are printed once and in order, the history
  holds what was received, waiting for a message ends.
* **GUI client.** Signals of the io thread are queued, those of the GUI thread run at
  once; the io thread makes the work guard that the GUI thread releases. Correct: the
  label shows the connection, leaving returns, the table is what the boxes say.

## 2. Plan

In the order in which they were written:

1. `Dispatcher`, `FifoBroadcast`, `DispatcherProofs`: the core and its abstract promise.
2. `TcpServer`, `TcpServerProofs`: the server's handlers and late completions;
   `MCTcpServer` bounds what clients and application do.
3. `TcpClient`, `TcpClientProofs`: the connection and its reconnection, driven by
   `ClientApp`.
4. `FrameStream`, `FrameStreamProofs`: the protocol decoder over a byte stream cut
   anywhere.
5. `PushStorage`, `ServerEvents`: the two SQLite files, with crashes and failures between
   statements. `Quoting`, `QuotingProofs`: the quoting of payloads. `MCDatabase` checks
   both stores, `DatabaseProofs` proves about both.
6. `ConsoleClient`, `ConsoleClientProofs`: the queues and histories between three threads;
   `MCConsoleClient` bounds what is entered, sent and lost.
7. `GuiClient`, which extends `TcpClient` by the io thread and the window,
   and `PushList`: the table and its filters. `MCGuiClient` checks both,
   `GuiClientProofs` proves about both.

Every safety invariant and action property that a passing run checks is also a theorem.
Worth adding, if the code grows that way: the dispatcher wired to `TcpServer` as its
`IClient`s, and the refinement of an abstract connection by `TcpClient`.

## 3. What is modelled

### Dispatcher (`Dispatcher.tla`)

A push is an identity with a priority 0..2. Each critical section of
`queue_mutex_` is one action; every `SendPush` to a client is an action of its
own, without the mutex. `pc` is the place of the processing thread: `get` (about
to evaluate the condition), `waiting`, `send`, `done`. `accepted` and
`received` are the history of enqueued pushes and `received_pushes_` of the
clients. `server` is the life of the `Server` object: its destructor stops the
dispatcher and joins the thread. The condition variable wakes the thread by
`NotifyOne` or spuriously; a notification is not remembered if nobody waits.

`FifoBroadcast.tla` is the abstract promise: accepted pushes go to every client
exactly once, in the order of acceptance, for as long as the pushes posted have one
priority. From the first push of a second priority on it promises nothing
(`NoPromise`), because the dispatcher then loses pushes; what still holds is
`DeliveryBalance`, `PriorityFifo` and `LossOnlyByOvertaking`. The dispatcher implements
`FifoBroadcast!FairSpec`, with no assumption on what is posted.

| Run | Shows | Bounds |
|---|---|---|
| `Dispatcher_mixed` | all safety properties, that Stop drains the queue, and that `FifoBroadcast` is implemented, every interleaving | 5 pushes (priorities 0, 0, 0, 1, 2), 2 clients |
| `Dispatcher_lost` | **violated**: a push of higher priority posted during a send is popped unsent, and the one sent is sent again | 4 pushes (priorities 0, 0, 1, 2), 2 clients |

Five pushes suffice for each situation of the queue: three of one priority give
order within a deque and a broadcast of one priority with two pushes behind the one
in flight, three priorities give a deque above and one below the one in use, and one
push may be overtaken twice. Two clients distinguish those before and those after the
one being served.

Fairness: the processing thread takes a step when it can, and the joining
thread returns when the joined one has ended (both threads are scheduled by the
operating system, and `queue_mutex_` is held only for short, finite sections).
Nobody is obliged to post, to stop or to destroy, and the condition variable
need not wake spuriously.

### TCP server (`TcpServer.tla`)

The io thread runs one handler at a time; a handler with all the calls it makes
is one action (`RunStop`, `RunAccept`, `RunRead`, ...). Boost.Asio and the
operating system are the environment: an operation is pending (`accepting`,
`reading`, `writes`), then performed, then its handler is in `ready`. What is
performed while the handler that started it is the last to have run goes behind
the queued handlers, as asio does with an operation it can perform at once;
what the reactor performs later is handled next. Closing a socket aborts the
pending operations, not the performed ones; that difference is where late
handlers come from. `remote_endpoint()` throws for a connection that was reset
early, which ends the thread: properties that need the thread say so. Sessions
are named by their connection, so the counter `nextSessionId_` has no variable.
Only the io thread calls `broadcast`, from the callbacks, as the demo does. A call
from another thread would walk the session map without its mutex
(`ClientRegistry.h:26`); that is not modelled.

| Run | Shows | Bounds |
|---|---|---|
| `TcpServer_sessions` | registry, callbacks, reads and accepts always armed and never twice (`LoopsArmed`), at most one late session; partial writes neither skip nor repeat; disconnects are noticed; closed sessions are released | 1 stop, and 2 connections that send, or 2 with 1 message to them, or 1 connection and 2 messages (`BoundedLoad`); messages of 3 pieces, room for 2 |
| `TcpServer_stopped` | **violated**: a session survives stop | 2 connections, 1 stop |

`PiecesInOrder` speaks of each message alone (`Written`): two messages on one socket may
interleave, for `TcpSession.cpp:30` starts a write while another is outstanding. Going on
with a write the socket did not take whole (`ContinueWrite`) is asio's part of
`async_write`; the code's part is to start one per message and session.
Two connections are needed for one to be accepted while another is being
handled; sessions do not otherwise interact, and messages only on one socket. What the
bound leaves out, clients and application may always omit, so that it takes nothing from
the fairness. The model may stop (clients are
finite and nobody is obliged to act), so deadlock is not checked in these runs.
Fairness: the io thread runs queued handlers, and the system performs accepts,
reads and failing writes that it can perform. Nothing is assumed of clients.

### TCP client (`TcpClient.tla`)

The user (`ui`) gives `connect`, `disconnect`, `login` and `sendMessage` through
`ClientApp`, on a thread of its own; `connect` is three steps because resolving
blocks. `canSend` says that `login` gave an administrator's role: without it
`sendMessage` does nothing. Only `disconnect` takes it back, so it outlives a lost
connection. The io thread handles completions: `Handle` takes the next one and its
handler's whole body is one action. As in the server, the operations of
Boost.Asio are pending, performed, then handled; `Aborted` are the handlers that
closing a socket leaves behind. `async_connect` goes through `NEndpoints`
endpoints, closing and reopening the socket. `shouldReconnect`,
`last_op_success`, `reconnect_count` and `timer` are the members of the same
names; `wanted` and `tries` are history.

`patient` is chosen at the start and never changes. A patient user calls connect
only when nothing of what came before is left (`Quiet`); that is what the client
needs from its user and nowhere asks for. `RetriesBounded`, `ConnectionFollowsUser`,
`LostRetried` and the second half of `OneRead` (at most one read) are stated for patient
users. Each is false for others: a reconnect timer that was
not stopped closes the new connection (`TcpClient.cpp:137`), handlers of aborted
operations clear `last_op_success_` (lines 54, 61, 84, 114), and two reads share
`readBuffer_`. The first half of `OneRead` (a read is always due on a connection) and
`SettlesWithoutServer` hold for every user. That a stale `last_op_success_` lets a connect
do nothing (line 54) no property here forbids; what it does to a program that waits for an
answer is part of `ConsoleClient`. Writes are counted (`writing`), for `asyncSend` asks for
nothing before it starts one.

| Run | Shows | Bounds |
|---|---|---|
| `TcpClient_user` | all of the above, for patient and other users | 2 endpoints, 3 commands, 3 changes of the server's availability |
| `TcpClient_final` | **violated**: after a disconnect the client connects again | 2 endpoints, 2 commands, 1 change |

Three commands are connect, disconnect and connect again, the shortest sequence in
which the late handlers of one connection meet the next; three changes let the
server vanish, return and vanish. Deadlock is not checked: user and network may
stop. Fairness: the io thread handles what is ready, pending connects and timers
end, reads and writes on a dead socket fail, and a connect the user began goes
on. Data need never come, and nobody has to call anything.

### Frame protocol (`FrameStream.tla`)

`EncodeFrame`, `EncodeMessage`, `Serialize` and their inverses are operators on
sequences of bytes, `htonl` being the digits of a number to the base `Radix`. `wire` is what TCP
carries; `Feed` takes any prefix of it as a chunk and does what
`ProtocolAdapter::Feed` does with the buffer: wait, deliver one message, or clear
everything. `pending` is the history of the frames not yet decoded, and `aligned`
says that buffer and wire still begin at a frame. `Reconnect` loses what is on the
wire but not the buffer, as the code does.

| Run | Shows | Bounds |
|---|---|---|
| `FrameStream_chunks` | no byte lost and messages decoded to what was sent (`StreamPreserved`), no lag without merged frames | 3 frames out of 3 messages and 6 kinds of bad frame, 1 reconnection, every cut |
| `FrameStream_lag` | **violated**: two frames read together, one decoded | 2 frames in one chunk |

Bytes have two bits and integers two bytes, so that a size may be too large, too
small and exact; widths are constants, and nothing in the code depends on 8 and 4
but the limits. Three frames put one before and one behind a bad one.

### Push storage (`PushStorage.tla`)

`tables`, `filled` and `rows` are the file and survive `Crash`; `phase` and `todo`
are the object. Each SQL statement is one action and atomic, as SQLite commits it;
`CreateTab` and `FillTab` pick any entry of the unordered map. `Fault` is an error
SQLite returns. `asked`, `acked` and `cut` are history. The quoting is a module of its
own, `Quoting.tla`: `ScreenQuote` is the loop of the code (`Screened` is what it has
written when it meets each quote), and `IsLiteral`, `Meaning` say what SQLite reads from
a text between quotes.

`InitialisedAtOnceOrNever` is also the limit of what the code promises at
`push_storage.cpp:197`: a file whose initialisation was cut off is opened with
success ever after, without its dictionaries.

### Server events store (`ServerEvents.tla`)

`table`, `trigger`, `events` and the external table `users` with its `last_seen` are
the file and survive `ProcessDies`. `InitTable` is its four statements: it drops the
table, whatever comes of that, creates it, and creates the trigger; a failure of one of
the last two makes it return false. An `Add...` is one action, for the row and the
effect of the trigger are one transaction; it is refused while the trigger names a
`users` that is not there. `GetCurrentTime` may go back, as a clock does.

`EventsKept` follows an acknowledged event over crashes, restarts and initialisations
cut off half way until a DROP works. `LastSeenRight` asks of the caller what the code
nowhere says: that it adds events only when the last `InitTable` returned true.
Otherwise the table may be there without its trigger and a connection pass unseen;
the store itself takes such events.

The two stores have no state in common, so a behaviour of `MCDatabase` is about one of
them (`store`) and the state spaces add up.

| Run | Shows | Bounds |
|---|---|---|
| `Database_crashes` | acknowledged pushes are kept verbatim; a file is initialised at once or never; acknowledged events are kept; `last_seen` is the last connection | pushes: 3 out of 4 texts, 2 crashes, 2 faults; events: 2, of 2 types, 2 users, 2 times, 2 calls of `InitTable`, 2 crashes or faults |

Two crashes or faults are enough: one to cut an initialisation, one in the attempt
after it. Two events are one on each side of a second `InitTable`, or two connections
of one user.

### Console client (`ConsoleClient.tla`)

Three threads with a program counter each: `ui` reads commands (`Enter`, then the
`Handle...` actions), `io` makes the callbacks, `show` prints. Each call of a
`ThreadSafeQueue` is a critical section and a step, and so is each read of a flag on which
a thread acts later: `showMessages` reads `show_msg_` (`TestShowMsg`) before the queue
(`TestMessages`). `ClientEventHandler::disconnect` is the steps `Disconnect`,
`SwapHistory`, `InsertHistory`, `WipeLastHistory`, `Notify`, taken by `io` for a lost
connection and a retry, and by `ui` for the disconnect command, since `TcpClient::close`
calls `onDisconnected_` at once.

What `ui` asks of the connection does or does not happen by the state `TcpClient` is in,
so that state is here in outline: the socket (`link`), the timer, `shouldReconnect_`,
`reconnect_count_`, `last_op_success_`, and in `late` what operations on closed sockets
still bring. A connect is four steps (`CallConnect`, `SetEndpoint`, `Resolve`,
`StartConnect`), between which handlers run on `io`; `CallDisconnect` and `StartConnect` do
nothing, and say nothing, when a handler of an earlier operation has cleared
`last_op_success_`. There is one endpoint, and one read on the new socket even where an
old handler starts a second. `arrived`, `shown`, `since`, `wiped`, `cutIn` and `unheard`
are history. Reading an empty queue is undefined and ends the behaviour (`broken`).

| Run | Shows | Bounds |
|---|---|---|
| `ConsoleClient_session` | printing goes wrong only by the clear of the disconnect command; the history loses only what that command wipes; waiting for a message ends but for the cases named | 4 of: commands (exit among them), pushes (2), failures (3) |
| `ConsoleClient_loading` | **violated**: a disconnect waits for a message that was printed already, and does not return | 2 commands, no push, no failure |

The exceptions all happen in the model: the queue can be cleared between the test and
the pop of `showPushes`, which then reads an empty queue or drops another push; and
a push appended between the swap and the clear of `disconnect()` is missing from
the history, against `src/README.md:313` ("Чтобы вывести все полученные
push-уведомления, нужно ввести команду `history`"). Four of commands, pushes and failures
reach them (connect, show, a push, disconnect), and three failures end the retries.

The waiting of `loading()` need not end. The show thread may have read `show_msg_` before
`ui` lowered it, and then takes the one message `ui` waits for: that is
`ConsoleClient_loading`. Or no message is queued at all, for a stale `last_op_success_`.
`LoadingEndsIfHeard` says that these are the only two ways (`unheard`), and that without
them the waiting ends, whatever handlers come late.

Fairness: the three threads run, timers expire and an attempt to connect ends; nobody has
to enter a command, to send or to lose anything.

### GUI client (`GuiClient.tla`, `PushList.tla`)

`GuiClient` extends `TcpClient`: the same io handlers and user actions, each joined with
what `ClientApp` and the window add. `io`, `work_guard` and `stopped` are the life of the
io thread: `runClientAppLoop` starts it, it makes its guard, and `run()` resets the stop
of an earlier moment when it is entered. `gui` goes through the steps of
`stopClientLoop`: release the guard, disconnect, stop, join. `Exit` is taken from the
button, or with `window` false from `~ClientApp`, after `~MainWindow` has deleted `ui`.
A signal is queued (`Emit`) when the io thread makes the callback and handled at once
(`HandleAtOnce`) when the GUI thread does. `Login` and `Send` never happen: the window
has no button for them. `misled` is history: what the label was told last, or will be
told, is not so. Releasing a guard that does not exist yet, and touching `ui` after it was
deleted, end the behaviour (`broken`).

`PushList` is the table: `rows` of words, the `checked` boxes of the dialog, and
`filters_`, a map from column to words. `setColumnFilter` is the disabling and enabling
in `filters_dialog.cpp:46-52`.

| Run | Shows | Bounds |
|---|---|---|
| `GuiClient_window` | the label follows the connection but for the named cases; leaving returns; the table is what the boxes say | 1 endpoint, 3 commands, 1 change of the server's availability, 2 queued signals; 2 rows, all words |

The window accepts only an IPv4 literal, so there is one endpoint. Three commands are
connect, disconnect, connect again. Two changes of availability also pass (a million
states). `LabelFollowsLink` names when the label may be wrong, until the next signal:
the user's disconnect overtook the queued signal of the connection it closed, or a
connect or timer closed a live connection, of which no callback tells. The table has
no state in common with the connection, so a behaviour is about one of them (`part`).
Fairness (`GuiFairness`): both threads are scheduled, and a slot goes on to its end;
nobody has to press a button, and the peer need not act on a live connection.

## 4. What is proved

Each proof module states its theorems for every value of the constants, from the
assumptions named in the modules (`PushAssumption`, `SizeAssumption` and so on: bounds are natural,
a name that stands for nothing is not a push, and so on) and from nothing else. An
invariant that a run checks is seldom inductive; what follows names what had to be added.

`DispatcherProofs.tla`, for any set of pushes, any priorities and any number of clients:

* `TypeCorrect`, `QueueNeverCorrupt`, `WakeupNeverLost`: from the inductive
  invariant `Inv`. `TypeOK` alone is not inductive: `pop()` is legal because the
  push in flight is still queued (`InFlightStillQueued`) and `current_deq_` is the
  highest non-empty deque (`QueueConsistent`); the second is preserved by
  `UpdateCurrentDeq` (lemma `UpdateCurrentDeqIsMax`).
* `TakesMaxPriority`: the action property `MaxPriorityFirst`, from `Inv` with
  `InOwnDeque`.
* `DeliveriesBalance`: on top of `Inv`.
* `OnlyOvertakingLoses`: a client that never got a push got another one, of lower
  priority, twice. The pop that loses a push does not yet send the other one twice, so
  `LostInv` says of that one that it is queued, was sent once and will be sent again
  (`SentAgain`); `Served` ties the clients that `SendPush` has passed to deliveries.
* `DeliveryOrder` (`PriorityFifo`): from `FifoInv`. No push is accepted twice, each deque
  is in the order of acceptance, and what a client received comes before all that is
  queued of the same priority (`ReceivedFirst`).
* `ImplementsBroadcast`: every step is a step of `FifoBroadcast` or a stutter. While one
  priority has been posted, each deque holds the last pushes accepted, in that order
  (`QueueIsTail`), so by `DeliveryBalance` the push in front is the next one of every
  client not yet served. Its fairness, `FairImplementsFifoBroadcast`, is model-checked.

`TcpServerProofs.tla`, for any number of connections, messages, pieces, room and calls
of `stop()`: `TypeCorrect`, `RegistryRight`, `LoopsNeverStopNorDouble`, `OneLateSession`,
`EachCallbackOnce` and `MessagesArriveInOrder`.

* The types are not inductive without what the queue of completions may hold (`Done`):
  a read or a write is of a connection, and a write has a message.
* `LoopsArmed` needs that a connection which is not a session yet has no read, pending
  or queued, and that it is at one place only, in the backlog or in one accept
  completion (`Fresh`): else `RunAccept` would arm a second read.
* `AtMostOneLateSession` needs `Late`: while the acceptor is closed and an accept
  handler is still queued, the registry is empty, because the task of `stop()` emptied
  it and nothing else can add to it.
* `Close` appends its aborted completions in an order left open: `AbortedLoops` says what
  any order of them has in common, a read for each session that had one pending, and no
  accept.
* `CallbacksOnce` follows from `Reported`: what a session was told is determined by the
  state of its socket.
* `PiecesInOrder` follows from `StreamRight`. A message has at most one write, pending or
  performed and not yet handled (`OneWrite`), and that one goes on where the pieces already
  in the stream end (`GoesOn`); so what is written next is in order behind them.

`TcpClientProofs.tla`, for any number of endpoints, commands and changes of the server:
`TypeCorrect`, `OneReadAlways`, `RetriesAreBounded`, and the action property `FollowsUser`.
The completions that a handler splits off are taken together with
the queue (`Queue`). What holds for any user is `Typed` and `Alive`: a live connection has a
read outstanding, or a handler that will start one. All else is for patient users (`Patient`):
a connect is alone under way (`ConnectAlone`); of connect, read and timer there is one at a
time (`OneJob`); a failed read means that the connection is lost (`FailureIsReal`); no write of
an earlier connection has still to tell of success (`NoLateWrites`); the timer runs only when
`isConnected()` is false (`TimerAfterFailure`); after a disconnect nothing is left that would
connect (`DisconnectHolds`); and the attempts made and due are at most what
`reconnect_count` counts (`RetryCount`).

`ConsoleClientProofs.tla`, for any number of pushes, commands and failures: `TypeCorrect`,
`PrintingDisturbedOnlyByClear` and `HistoryLoss`. The three threads need `PopsAreLegal` (a
thread that has tested a queue still finds it non-empty, unless the clear cut in) and
`LastEmptyUntilWiped` (the list that the io thread clears, it has emptied itself by the
swap: only a clear by the thread of the commands loses pushes).

`GuiClientProofs.tla`, on top of the types of `TcpClientProofs`: `WindowTypeCorrect` and
`LabelShowsLink`. What the label will show once the queued signals are handled (`Finally`)
is right unless one of the named cases occurred (`Truthful`).

The same module proves, for any number of rows, `TableFollowsBoxes` of `PushList`, from
`ListInv`: a filter is what is checked in its column, and not empty; a column without a filter has either all
its boxes checked, if none was ever clicked, or none.

`QuotingProofs.tla`, for every text: `RoundTrip`, SQLite reads from what `ScreenQuote`
writes the very text that was given, and `LiteralUnlessNul`, it reads a literal unless the
text has a byte 0. Induction is by the least counterexample (`Smallest`, `ByInduction`): the
library's induction theorems have an operator as parameter, but that the natural numbers are
well-founded is a fact about sets, and a set can be named instead. `Screened` is a function
over the places of the quotes; the heart is that the loop, which inserts into the text it
walks over, leaves its next place at the next quote of the original (`Counting`, `Places`).

`DatabaseProofs.tla`, for any payloads, users, times, inserts, events, crashes and faults:

* `InitialisationAtomicOrNeverDone`. Its invariant `Inv` adds what the loops need:
  `CreateTabs` either meets a table that exists, and will fail, or it began with an empty
  file; `FillTabs` is reached in the second case only; and a file that no initialisation
  left behind is empty or complete between calls.
* `PushesKeptVerbatim` (`AcknowledgedPushesKept`): the rows are what was asked for, by
  `RoundTrip`, and what was acknowledged is a subsequence of them (`Logged`).
* `AcknowledgedEventsKept`, on top of `Kept` (every description is at most `calls`), and
  `LastSeenIsLastConnection`, on top of `Watched` (`InitTable` is not `ready` while it runs,
  and makes the trigger only where the table is).
* `StoresTyped`: a behaviour of both stores is one of each (`BothAreEach`), so that
  `PushStorageTyped` and `ServerEventsTyped` apply.

`FrameStreamProofs.tla`, for messages of any size, chunks of any size, any number of
reconnections, and any widths of bytes and integers: `TypeCorrect`, `StreamIsPreserved` and
`LagOnlyByMerging`. What a peer may send is assumed (`MessageAssumption`: enumerators that
exist, a text of bytes, and a message that fits `MAX_MESSAGE_SIZE`, for `EncodeFrame` throws
at a larger one; `BadFrameAssumption`: a bad frame is one that `Feed` throws at, not one
with more behind it). From the bottom up:

* `ntohlOfhtonl`, `PushRoundTrip`, `MessageRoundTrip`: each decoder undoes its encoder. `htonl`
  and `ntohl` are recursive functions; that one exists is lemma `Recursion`, and its values
  follow by `ByInduction`.
* `FoundIsFirst`, `WholeIsFound`: in what was read of a stream that begins with a frame,
  `TryDecodeFrame` finds that frame and nothing else, as soon as it is complete.
* `FlattenSplit`, `BytesSplit`, `BytesHead`: the bytes of a sequence of frames are those of
  its parts, joined.
* `FoundIsPending`, `ReadIsWhole`: what a step takes off the bytes is what it takes off the
  sequence of frames. With these `StreamPreserved` is inductive, given the types.
* `NoLag` is not inductive: whether a chunk completes one frame or two depends on where the
  frames end, not on what `HasFrame` says of the buffer. It follows from `FirstIncomplete`,
  the first frame not decoded is longer than the buffer, which a chunk that ends no second
  frame preserves.

Only model-checked: liveness and whatever rests on ENABLED, which is out of the prover's
reach (`StopDrains`, `FairImplementsFifoBroadcast`, `DisconnectNoticed`,
`ClosedSessionReleased`, `LostRetried`, `SettlesWithoutServer`, `LoadingEndsIfHeard`, `ExitReturns`).

## 5. Where code and documentation disagree

The violated runs, with the lines they quote, are the findings in `PROJECT.json`:
the dispatcher loses an overtaken push, a session survives the server's stop, the
client reconnects after a disconnect, frames read together lag behind, and a command of
the console may wait for ever. The conditions in `InitialisedAtOnceOrNever`, `OnlyClearDisturbsPrinting` and
`HistoryLosesOnlyWiped` name three more without a run of their own.

The models also show what no document speaks of, and properties therefore exclude:

* The label of the GUI says "connected" after a disconnect that overtook the queued
  signal of the connection (`mainwindow.cpp:56-57`).
* `~MainWindow` deletes `ui`, and then `~ClientApp` closes a live connection, whose
  callback uses `ui` (`mainwindow.cpp:72`).
* An exit right after the first connect may find `work_guard_` not yet made
  (`client_lib.cpp:65` and `77`).
* `pushSourceToString` names the second source "Warning" (`mainwindow.cpp:177`).
* With several endpoints, a late handler of an aborted connect goes on to the next
  endpoint and closes a newer connection (`TcpClient`, users who are not patient).
* Server events cannot be stored while the trigger exists and `users` does not
  (`server_event_db.cpp:55`).
* The role a login gave outlives a lost connection.

## 6. What is not modelled

* The push generator: its state is a flag and a thread with a timer that calls
  `TcpClient`, and what it sends is random. The flag is set whether or not the
  authorisation was sent (`admin_push_generator.cpp:25`).
* Password hashing: pure functions without state, of OpenSSL and of a vendored hash.
* The demos and examples: read for how the parts are called.
* What data races do beyond the order of accesses: torn vectors, the map walked
  without its mutex, TcpClient's members written by two threads in one instant.
  Handlers of `TcpServer` and `TcpClient` are single steps.
* Contents of pushes in the dispatcher, the server and the client; formatting,
  colours, layout, logging.
