----------------------------- MODULE TcpClient -----------------------------
(***************************************************************************)
(* The client connection: network/client/src/TcpClient.cpp, driven by      *)
(* ClientApp (client_lib/src/client_lib.cpp).                              *)
(*                                                                         *)
(* The io thread runs completion handlers one at a time.  The UI thread    *)
(* calls connect, disconnect and sendMessage with no lock, so its calls    *)
(* come between any two handlers, and also between the moment an operation *)
(* is performed and its handler.  connect is three steps, for resolving    *)
(* the endpoint blocks.                                                    *)
(*                                                                         *)
(* Boost.Asio is external.  What the reactor performs is handled next      *)
(* (taken); expired timers, aborted operations and reads that succeed the  *)
(* moment they are started queue behind the waiting handlers (ready).      *)
(* async_connect closes the socket and opens it again for each endpoint in *)
(* turn, and goes on to the next when one fails while the socket is open.  *)
(***************************************************************************)
EXTENDS Integers, Sequences

CONSTANTS
  NEndpoints,   \* endpoints the host resolves to; the server is at the last
  MaxCommands,  \* bound: commands of the user
  MaxDrops      \* bound: times the server goes away, or comes back

ASSUME EndpointAssumption == NEndpoints \in Nat \ {0}
ASSUME BoundAssumption == MaxCommands \in Nat /\ MaxDrops \in Nat

reconnect_max_count == 3

VARIABLES
  open,              \* socket_.is_open()
  link,              \* the socket: "none", "connecting", "failed", "up", "lost"
  connecting,        \* endpoint of the pending async_connect, or 0
  reads,             \* pending async_read_some operations
  fresh,             \* the read was started by the handler that ran last
  writing,           \* pending async_write operations
  timer,             \* reconnectTimer_ is waiting
  taken,             \* the completion the io thread is about to handle, if any
  ready,             \* completions waiting for their handlers
  shouldReconnect,   \* shouldReconnect_
  last_op_success,   \* last_op_success_
  reconnect_count,   \* reconnect_count_
  patient,           \* the user calls connect only when nothing is left of what
                     \* came before; never changes
  ui,                \* ClientApp::connect: "idle", "resolving", "resolved", "unresolved"
  server_up,         \* the server accepts connections
  canSend,           \* ClientApp: user_data_ has the role of an administrator
  wanted,            \* history: the last word of the user: "connect", "disconnect",
                     \* or "refused" for a disconnect that did nothing
  tries,             \* history: attempts by the timer since the last connection,
                     \* counted no further than one past the limit
  commands, drops    \* bounded counters

socket_vars == <<open, link, connecting, reads, writing>>
flags == <<shouldReconnect, reconnect_count>>
user_vars == <<patient, ui, canSend, wanted, commands>>
net_vars == <<server_up, drops>>
vars == <<socket_vars, fresh, timer, taken, ready, flags, last_op_success,
          user_vars, net_vars, tries>>

Done(op, ep, ok) == [op |-> op, ep |-> ep, ok |-> ok]

\* ~io_context_.stopped(), which TcpClient::isConnected asks for as well, is left out:
\* only stopClientLoop stops the io_context, when the application ends.
isConnected == open /\ last_op_success

\* Nothing is under way and nothing waits to be handled.
Quiet ==
  /\ ~timer /\ connecting = 0 /\ reads = 0 /\ writing = 0
  /\ taken = <<>> /\ ready = <<>>

-----------------------------------------------------------------------------
Init ==
  /\ open = FALSE /\ link = "none" /\ connecting = 0 /\ reads = 0 /\ writing = 0
  /\ fresh = FALSE
  /\ timer = FALSE
  /\ taken = <<>> /\ ready = <<>>
  /\ shouldReconnect = FALSE /\ reconnect_count = 0
  /\ last_op_success = FALSE
  /\ patient \in BOOLEAN
  /\ ui = "idle" /\ canSend = FALSE /\ wanted = "disconnect" /\ commands = 0
  /\ server_up \in BOOLEAN /\ drops = 0
  /\ tries = 0

-----------------------------------------------------------------------------
(* What the calls of TcpClient do to the socket. *)

\* The operations a close() of the socket aborts, in the order asio queues them.
Aborted ==
  [i \in 1 .. reads |-> Done("readAborted", 0, FALSE)]
    \o (IF connecting > 0 THEN <<Done("connect", connecting, FALSE)>> ELSE <<>>)
    \o [i \in 1 .. writing |-> Done("write", 0, FALSE)]

\* One step of async_connect, on whatever socket there is.
ConnectTo(ep, queue) ==
  /\ open' = TRUE
  /\ link' = "connecting"
  /\ connecting' = ep
  /\ reads' = 0
  /\ writing' = 0
  /\ ready' = queue \o Aborted

doConnect(queue) == ConnectTo(1, queue)

\* closeConnection(): cancel, shutdown, close; onDisconnected_ is called always.
closeConnection(queue) ==
  /\ open' = FALSE
  /\ link' = "none"
  /\ connecting' = 0
  /\ reads' = 0
  /\ writing' = 0
  /\ ready' = queue \o Aborted

\* Mutant: the count is not reset when the limit is reached.
scheduleReconnect_NoReset ==
  /\ timer' = TRUE
  /\ reconnect_count' = reconnect_count + 1
  /\ shouldReconnect' = (shouldReconnect /\ reconnect_count + 1 # reconnect_max_count)

\* Mutant: the count is never compared with the limit.
scheduleReconnect_NoLimit ==
  /\ timer' = TRUE
  /\ UNCHANGED flags

\* A wait in progress is replaced: its handler gets an error and does nothing.
scheduleReconnect ==
  /\ timer' = TRUE
  /\ IF reconnect_count + 1 = reconnect_max_count
     THEN shouldReconnect' = FALSE /\ reconnect_count' = 0
     ELSE reconnect_count' = reconnect_count + 1 /\ UNCHANGED shouldReconnect

ReconnectIfWanted ==
  IF shouldReconnect THEN scheduleReconnect ELSE UNCHANGED <<timer, flags>>

-----------------------------------------------------------------------------
(* The UI thread: ClientApp. *)

Command == ui = "idle" /\ commands < MaxCommands /\ commands' = commands + 1

\* connect(), and the assignments of setEndpoint() before resolve().
Connect ==
  /\ Command
  /\ ~isConnected
  /\ patient => Quiet
  /\ shouldReconnect' = FALSE
  /\ ui' = "resolving"
  /\ wanted' = "connect"
  /\ UNCHANGED <<socket_vars, fresh, timer, taken, ready, reconnect_count,
                 last_op_success, patient, canSend, net_vars, tries>>

Resolve ==
  /\ ui = "resolving"
  /\ last_op_success' \in BOOLEAN
  /\ ui' = IF last_op_success' THEN "resolved" ELSE "unresolved"
  /\ UNCHANGED <<socket_vars, fresh, timer, taken, ready, flags, patient, canSend,
                 wanted, commands, net_vars, tries>>

\* TcpClient::connect().
StartConnect ==
  /\ ui \in {"resolved", "unresolved"}
  /\ ui' = "idle"
  /\ IF last_op_success
     THEN doConnect(ready) /\ fresh' = FALSE /\ tries' = 0
     ELSE UNCHANGED <<socket_vars, ready, fresh, tries>>
  /\ UNCHANGED <<timer, taken, flags, last_op_success, patient, canSend, wanted,
                 commands, net_vars>>

\* Mutant: close() leaves shouldReconnect_ set.
CloseIfConnected_KeepsFlag ==
  /\ IF isConnected
     THEN /\ wanted' = "disconnect" /\ canSend' = FALSE
          /\ closeConnection(ready) /\ timer' = FALSE
     ELSE wanted' = "refused" /\ UNCHANGED <<socket_vars, ready, timer, canSend>>
  /\ UNCHANGED <<fresh, taken, flags, last_op_success, patient, net_vars, tries>>

\* disconnect(): does nothing unless isConnected(), else close() and the role is
\* forgotten.
CloseIfConnected ==
  /\ IF isConnected
     THEN /\ wanted' = "disconnect"
          /\ shouldReconnect' = FALSE
          /\ closeConnection(ready)
          /\ timer' = FALSE
          /\ canSend' = FALSE
     ELSE /\ wanted' = "refused"
          /\ UNCHANGED <<socket_vars, ready, shouldReconnect, timer, canSend>>
  /\ UNCHANGED <<fresh, taken, reconnect_count, last_op_success, patient, net_vars,
                 tries>>

Disconnect == Command /\ CloseIfConnected /\ UNCHANGED ui

\* login(): the stub authorizeClient knows an administrator and a user; whatever
\* else is entered takes the role away.
Login ==
  /\ ui = "idle"
  /\ isConnected
  /\ canSend' \in BOOLEAN
  /\ UNCHANGED <<socket_vars, fresh, timer, taken, ready, flags, last_op_success,
                 patient, ui, wanted, commands, net_vars, tries>>

\* sendMessage() -> asyncSend(), whatever else is being written.
Send ==
  /\ Command
  /\ isConnected /\ canSend
  /\ writing' = writing + 1
  /\ UNCHANGED <<open, link, connecting, reads, fresh, timer, taken, ready, flags,
                 last_op_success, patient, ui, canSend, wanted, net_vars, tries>>

-----------------------------------------------------------------------------
(* The network, and the io thread performing operations. *)

ServerChanges ==
  /\ drops < MaxDrops
  /\ drops' = drops + 1
  /\ server_up' = ~server_up
  /\ link' = IF link = "up" /\ server_up THEN "lost" ELSE link
  /\ UNCHANGED <<open, connecting, reads, writing, fresh, timer, taken, ready,
                 flags, last_op_success, user_vars, tries>>

\* The connection breaks with the server still there.
LinkBreaks ==
  /\ drops < MaxDrops
  /\ drops' = drops + 1
  /\ link = "up"
  /\ link' = "lost"
  /\ UNCHANGED <<open, connecting, reads, writing, fresh, timer, taken, ready,
                 flags, last_op_success, user_vars, server_up, tries>>

Perform == taken = <<>>

PerformConnect ==
  /\ Perform
  /\ connecting > 0
  /\ \E ok \in {server_up /\ connecting = NEndpoints, FALSE} :
       /\ link' = IF ok THEN "up" ELSE "failed"
       /\ taken' = <<Done("connect", connecting, ok)>>
  /\ connecting' = 0
  /\ UNCHANGED <<open, reads, writing, fresh, timer, ready, flags,
                 last_op_success, user_vars, net_vars, tries>>

\* Data arrives, or the read fails; it waits while the socket is connecting.
PerformRead ==
  /\ Perform
  /\ reads > 0
  /\ link # "connecting"
  /\ reads' = reads - 1
  /\ LET c == Done("read", 0, link = "up")
     IN  IF fresh THEN ready' = Append(ready, c) /\ UNCHANGED taken
                  ELSE taken' = <<c>> /\ UNCHANGED ready
  /\ UNCHANGED <<open, link, connecting, writing, fresh, timer, flags,
                 last_op_success, user_vars, net_vars, tries>>

\* A write, too, waits while the socket is connecting.
PerformWrite ==
  /\ Perform
  /\ writing > 0
  /\ link # "connecting"
  /\ writing' = writing - 1
  /\ ready' = Append(ready, Done("write", 0, link = "up"))
  /\ UNCHANGED <<open, link, connecting, reads, fresh, timer, taken, flags,
                 last_op_success, user_vars, net_vars, tries>>

TimerExpires ==
  /\ Perform
  /\ timer
  /\ timer' = FALSE
  /\ ready' = Append(ready, Done("timer", 0, TRUE))
  /\ UNCHANGED <<socket_vars, fresh, taken, flags, last_op_success, user_vars,
                 net_vars, tries>>

-----------------------------------------------------------------------------
(* The handlers on the io thread. *)

Handling(op) == /\ taken # <<>> \/ ready # <<>>
                /\ (IF taken # <<>> THEN taken[1] ELSE ready[1]).op = op
Current == IF taken # <<>> THEN taken[1] ELSE ready[1]
Rest == IF taken # <<>> THEN ready ELSE Tail(ready)

Connected == open /\ Current.ok
NextEndpoint == open /\ ~Current.ok /\ Current.ep < NEndpoints

\* Mutant: the application starts a read of its own when it is connected.
RunConnected_TwoReads ==
  /\ Handling("connect") /\ Connected
  /\ taken' = <<>> /\ ready' = Rest
  /\ last_op_success' = TRUE /\ shouldReconnect' = TRUE /\ reconnect_count' = 0
  /\ tries' = 0
  /\ reads' = reads + 2
  /\ fresh' = TRUE
  /\ UNCHANGED <<open, link, connecting, writing, timer, user_vars, net_vars>>

\* async_connect ends, and with it the handler of doConnect.
RunConnected ==
  /\ Handling("connect") /\ Connected
  /\ taken' = <<>> /\ ready' = Rest
  /\ last_op_success' = TRUE
  /\ shouldReconnect' = TRUE
  /\ reconnect_count' = 0
  /\ tries' = 0
  /\ reads' = reads + 1
  /\ fresh' = TRUE
  /\ UNCHANGED <<open, link, connecting, writing, timer, user_vars, net_vars>>

RunConnectNext ==
  /\ Handling("connect") /\ NextEndpoint
  /\ taken' = <<>>
  /\ ConnectTo(Current.ep + 1, Rest)
  /\ fresh' = FALSE
  /\ UNCHANGED <<timer, flags, last_op_success, user_vars, net_vars, tries>>

RunConnectError ==
  /\ Handling("connect") /\ ~Connected /\ ~NextEndpoint
  /\ taken' = <<>> /\ ready' = Rest
  /\ last_op_success' = FALSE
  /\ ReconnectIfWanted
  /\ fresh' = FALSE
  /\ UNCHANGED <<socket_vars, user_vars, net_vars, tries>>

\* Mutant: no read follows one that brought data.
RunRead_Once ==
  /\ Handling("read") /\ Current.ok
  /\ taken' = <<>> /\ ready' = Rest
  /\ last_op_success' = TRUE
  /\ fresh' = FALSE
  /\ UNCHANGED <<socket_vars, timer, flags, user_vars, net_vars, tries>>

\* doRead's handler with data.  A read started on a closed socket fails with an
\* error other than operation_aborted.
RunRead ==
  /\ Handling("read") /\ Current.ok
  /\ taken' = <<>>
  /\ last_op_success' = TRUE
  /\ IF open
     THEN reads' = reads + 1 /\ ready' = Rest /\ fresh' = TRUE
     ELSE /\ ready' = Append(Rest, Done("read", 0, FALSE))
          /\ UNCHANGED reads /\ fresh' = FALSE
  /\ UNCHANGED <<open, link, connecting, writing, timer, flags, user_vars,
                 net_vars, tries>>

\* Mutant: the connection is closed and that is all.
RunReadError_NoRetry ==
  /\ Handling("read") /\ ~Current.ok
  /\ taken' = <<>>
  /\ last_op_success' = FALSE
  /\ closeConnection(Rest)
  /\ fresh' = FALSE
  /\ UNCHANGED <<timer, flags, user_vars, net_vars, tries>>

RunReadError ==
  /\ Handling("read") /\ ~Current.ok
  /\ taken' = <<>>
  /\ last_op_success' = FALSE
  /\ closeConnection(Rest)
  /\ ReconnectIfWanted
  /\ fresh' = FALSE
  /\ UNCHANGED <<user_vars, net_vars, tries>>

\* operation_aborted: the handler returns at once, but not before it has set
\* last_op_success_.
RunReadAborted ==
  /\ Handling("readAborted")
  /\ taken' = <<>> /\ ready' = Rest
  /\ last_op_success' = FALSE
  /\ fresh' = FALSE
  /\ UNCHANGED <<socket_vars, timer, flags, user_vars, net_vars, tries>>

RunWrite ==
  /\ Handling("write")
  /\ taken' = <<>> /\ ready' = Rest
  /\ last_op_success' = Current.ok
  /\ fresh' = FALSE
  /\ UNCHANGED <<socket_vars, timer, flags, user_vars, net_vars, tries>>

\* Mutant: the timer is periodic.
RunTimer_Again ==
  /\ Handling("timer")
  /\ taken' = <<>>
  /\ doConnect(Rest)
  /\ timer' = TRUE
  /\ tries' = IF tries <= reconnect_max_count THEN tries + 1 ELSE tries
  /\ fresh' = FALSE
  /\ UNCHANGED <<flags, last_op_success, user_vars, net_vars>>

RunTimer ==
  /\ Handling("timer")
  /\ taken' = <<>>
  /\ doConnect(Rest)
  /\ tries' = IF tries <= reconnect_max_count THEN tries + 1 ELSE tries
  /\ fresh' = FALSE
  /\ UNCHANGED <<timer, flags, last_op_success, user_vars, net_vars>>

Handle ==
  \/ RunConnected \/ RunConnectNext \/ RunConnectError
  \/ RunRead \/ RunReadError \/ RunReadAborted \/ RunWrite \/ RunTimer

User == Connect \/ Resolve \/ StartConnect \/ Disconnect \/ Login \/ Send
Network == ServerChanges \/ LinkBreaks
Reactor == PerformConnect \/ PerformRead \/ PerformWrite \/ TimerExpires

Next == User \/ Network \/ Reactor \/ Handle

Spec == Init /\ [][Next]_vars

\* The io thread runs and its reactor sees what happens.  On a live connection
\* data need not arrive, nor the peer take any; nothing makes the user act, but a
\* connect() in progress goes on.
FairSpec ==
  /\ Spec
  /\ WF_vars(Handle)
  /\ WF_vars(PerformConnect) /\ WF_vars(TimerExpires)
  /\ WF_vars(PerformRead /\ link # "up") /\ WF_vars(PerformWrite /\ link # "up")
  /\ WF_vars(Resolve) /\ WF_vars(StartConnect)

-----------------------------------------------------------------------------
(* Properties. *)

Waiting == {taken[i] : i \in DOMAIN taken} \cup {ready[i] : i \in DOMAIN ready}

TypeOK ==
  /\ open \in BOOLEAN
  /\ link \in {"none", "connecting", "failed", "up", "lost"}
  /\ open <=> link # "none"
  /\ connecting \in 0 .. NEndpoints /\ (link = "connecting" <=> connecting > 0)
  /\ reads \in Nat /\ writing \in Nat /\ fresh \in BOOLEAN /\ timer \in BOOLEAN
  /\ Len(taken) <= 1
  /\ \A c \in Waiting :
       /\ c.op \in {"connect", "read", "readAborted", "write", "timer"}
       /\ c.ep \in 0 .. NEndpoints /\ c.ok \in BOOLEAN
  /\ shouldReconnect \in BOOLEAN /\ last_op_success \in BOOLEAN
  /\ reconnect_count \in 0 .. reconnect_max_count - 1
  /\ ui \in {"idle", "resolving", "resolved", "unresolved"}
  /\ canSend \in BOOLEAN /\ wanted \in {"connect", "disconnect", "refused"}
  /\ server_up \in BOOLEAN /\ tries \in Nat
  /\ commands \in 0 .. MaxCommands /\ drops \in 0 .. MaxDrops

\* A connection is noticed to be lost by the failure of its read: doRead is always
\* outstanding, or the handler that calls it is still to come, also when the user
\* calls connect and disconnect at the worst moments.  All reads go into the one
\* readBuffer_, where a second one would mix up the data of the first: a patient
\* user has at most one, pending, performed or about to be started.
OneRead ==
  LET Ran(op) == \E c \in Waiting : c.op = op /\ (op = "connect" => c.ok)
      due == reads + (IF Ran("read") THEN 1 ELSE 0) + (IF Ran("connect") THEN 1 ELSE 0)
  IN  (link \in {"up", "lost"} => due > 0) /\ (patient => due <= 1)

\* For a patient user the timer makes no more than reconnect_max_count_ attempts in
\* a row: connect errors and read errors share the count, a connection resets it.
RetriesBounded == patient => tries <= reconnect_max_count

\* A live connection of a patient user ends by the network or by his disconnect, and
\* after a disconnect that close() carried out no handler that was pending connects
\* again: no timer and no late handler acts against him, though doConnect and
\* closeConnection act on whatever socket there is.
ConnectionFollowsUser ==
  [][/\ patient /\ link = "up" => link' \in {"up", "lost"} \/ wanted' = "disconnect"
     /\ patient /\ link # "up" /\ link' = "up" => wanted # "disconnect"]_vars

\* A patient user's lost connection is noticed and an attempt at a new one follows,
\* unless he has asked to disconnect.
LostRetried ==
  patient /\ link = "lost" /\ wanted = "connect" ~>
    link = "connecting" \/ wanted # "connect"

\* If the server is gone for good, the client gives up, whatever the user did: no
\* handlers keep the timer going forever.
SettlesWithoutServer == <>[](~server_up) => <>[]Quiet

\* README.md:298, disconnect ends the connection to the server: after the user's
\* disconnect the client does not connect again until he asks.
DisconnectIsFinal == [][link # "up" /\ link' = "up" => wanted = "connect"]_vars

=============================================================================
