----------------------------- MODULE TcpServer -----------------------------
(***************************************************************************)
(* The asynchronous TCP server: network/server/src/TcpServer.cpp,          *)
(* TcpSession.cpp and ClientRegistry.cpp, on one thread that runs the      *)
(* io_context.                                                             *)
(*                                                                         *)
(* Boost.Asio is external.  The thread runs the queued handlers in order,  *)
(* each as one atomic action.  An operation that can be performed the      *)
(* moment a handler starts it is performed at once, and its handler queued *)
(* behind those that are waiting.  Otherwise it is pending until the       *)
(* reactor, between two handlers, finds that it can be performed; then its *)
(* handler is the next to run.  Closing a socket queues an aborted         *)
(* completion for each of its pending operations, but not for those        *)
(* already performed.  An async_write is a chain of partial writes; each   *)
(* starts behind the other pending writes of the same socket.              *)
(*                                                                         *)
(* A session is named by the connection it serves: ids come from a counter *)
(* and are never used again.  A message is a number and a number of pieces *)
(* the socket may split it into.                                           *)
(***************************************************************************)
EXTENDS Integers, Sequences, FiniteSets, SequencesExt

CONSTANTS
  Conns,         \* the connections clients may open, each once
  NoConn,        \* the handler belongs to no session
  MaxBroadcasts, \* bound: messages the application broadcasts
  MaxStops,      \* bound: calls of stop()
  Pieces,        \* pieces a message may be split into
  SendRoom       \* pieces a socket holds until the client takes them

ASSUME ConnAssumption == NoConn \notin Conns
ASSUME BoundAssumption ==
  /\ MaxBroadcasts \in Nat /\ MaxStops \in Nat
  /\ Pieces \in Nat \ {0} /\ SendRoom \in Nat \ {0}

VARIABLES
  loop,         \* the io_context: "created", "running", or "dead" by an exception
  acceptor,     \* acceptor_: "open" or "closed"
  accepting,    \* an async_accept is pending
  backlog,      \* established connections the kernel holds for the acceptor
  ready,        \* the completions whose handlers have not run yet
  socket,       \* socket_ of each session: "none", "open", "closed"
  reading,      \* an async_read_some of the session is pending
  started,      \* the operations started by the handler that ran last
  writes,       \* the pending partial writes of the session
  registry,     \* ClientRegistry::sessions_
  peer,         \* client side: "new", "up", "closed" (FIN), "reset", "refused"
  unread,       \* the client has sent data the session has not read
  unsent,       \* pieces the socket has taken and the client has not
  stream,       \* history: the pieces written to the socket, in order
  events,       \* history: what the callbacks reported of each session
  broadcasts,   \* messages broadcast so far
  stops         \* calls of stop() so far

io_vars == <<acceptor, accepting, backlog>>
peer_vars == <<peer, unread, unsent>>
vars == <<loop, io_vars, ready, started, socket, reading, writes, registry, peer_vars,
          stream, events, broadcasts, stops>>

Running == loop = "running"

Write(m, n) == [msg |-> m, left |-> n]  \* n pieces of message m to be written
NoWrite == Write(0, 0)

Completion(op, c, ok, w) == [op |-> op, conn |-> c, ok |-> ok, write |-> w]
Current == Head(ready)  \* the handler the thread runs next

-----------------------------------------------------------------------------
Init ==
  /\ loop = "created"
  /\ acceptor = "open"
  /\ accepting = FALSE
  /\ backlog = <<>>
  /\ ready = <<>>
  /\ started = {}
  /\ socket = [c \in Conns |-> "none"]
  /\ reading = [c \in Conns |-> FALSE]
  /\ writes = [c \in Conns |-> <<>>]
  /\ registry = {}
  /\ peer = [c \in Conns |-> "new"]
  /\ unread = [c \in Conns |-> FALSE]
  /\ unsent = [c \in Conns |-> 0]
  /\ stream = [c \in Conns |-> <<>>]
  /\ events = [c \in Conns |-> <<>>]
  /\ broadcasts = 0
  /\ stops = 0

\* start(), before the thread that runs the io_context is launched.
Start ==
  /\ loop = "created"
  /\ loop' = "running"
  /\ accepting' = TRUE
  /\ UNCHANGED <<acceptor, backlog, ready, started, socket, reading, writes, registry,
                 peer_vars, stream, events, broadcasts, stops>>

\* stop(), from any thread: only posts the task RunStop.
Stop ==
  /\ Running
  /\ stops < MaxStops
  /\ stops' = stops + 1
  /\ ready' = Append(ready, Completion("stop", NoConn, TRUE, NoWrite))
  /\ UNCHANGED <<loop, io_vars, started, socket, reading, writes, registry, peer_vars,
                 stream, events, broadcasts>>

-----------------------------------------------------------------------------
(* The clients and the network. *)

Connect(c) ==
  /\ loop # "created"
  /\ peer[c] = "new"
  /\ IF acceptor = "open" /\ Running
     THEN /\ peer' = [peer EXCEPT ![c] = "up"]
          /\ backlog' = Append(backlog, c)
     ELSE /\ peer' = [peer EXCEPT ![c] = "refused"]
          /\ UNCHANGED backlog
  /\ UNCHANGED <<loop, acceptor, accepting, ready, started, socket, reading, writes,
                 registry, unread, unsent, stream, events, broadcasts, stops>>

PeerSends(c) ==
  /\ peer[c] = "up"
  /\ unread' = [unread EXCEPT ![c] = TRUE]
  /\ UNCHANGED <<loop, io_vars, ready, started, socket, reading, writes, registry, peer,
                 unsent, stream, events, broadcasts, stops>>

PeerTakes(c) ==
  /\ peer[c] = "up"
  /\ unsent[c] > 0
  /\ unsent' = [unsent EXCEPT ![c] = @ - 1]
  /\ UNCHANGED <<loop, io_vars, ready, started, socket, reading, writes, registry, peer,
                 unread, stream, events, broadcasts, stops>>

\* The client closes its socket, or the connection breaks.
PeerGoes(c) ==
  /\ peer[c] = "up"
  /\ \E how \in {"closed", "reset"} : peer' = [peer EXCEPT ![c] = how]
  /\ UNCHANGED <<loop, io_vars, ready, started, socket, reading, writes, registry, unread,
                 unsent, stream, events, broadcasts, stops>>

-----------------------------------------------------------------------------
(* The operating system performs a pending operation. *)

\* Where the completion goes: see the head of this module.
Queued(op, c, completion) ==
  IF <<op, c>> \in started THEN Append(ready, completion)
                           ELSE <<completion>> \o ready

Accepted(c) == Completion("accept", c, TRUE, NoWrite)
AcceptFailed == Completion("accept", NoConn, FALSE, NoWrite)

PerformAccept ==
  /\ Running /\ accepting /\ backlog # <<>>
  /\ accepting' = FALSE
  /\ backlog' = Tail(backlog)
  /\ ready' = Queued("accept", NoConn, Accepted(Head(backlog)))
  /\ UNCHANGED <<loop, acceptor, started, socket, reading, writes, registry, peer_vars,
                 stream, events, broadcasts, stops>>

\* accept(2) fails, for want of file descriptors for example.
FailAccept ==
  /\ Running /\ accepting /\ backlog # <<>>
  /\ accepting' = FALSE
  /\ ready' = Queued("accept", NoConn, AcceptFailed)
  /\ UNCHANGED <<loop, acceptor, backlog, started, socket, reading, writes, registry,
                 peer_vars, stream, events, broadcasts, stops>>

\* Data comes first, then end of file; a reset discards the data.
PerformRead(c) ==
  /\ Running /\ reading[c]
  /\ unread[c] \/ peer[c] # "up"
  /\ reading' = [reading EXCEPT ![c] = FALSE]
  /\ unread' = [unread EXCEPT ![c] = FALSE]
  /\ ready' = Queued("read", c, Completion("read", c,
                              unread[c] /\ peer[c] # "reset", NoWrite))
  /\ UNCHANGED <<loop, io_vars, started, socket, writes, registry, peer, unsent, stream,
                 events, broadcasts, stops>>

\* As many pieces as there is room for; n is the number of the last one.
PerformWrite(c) ==
  /\ Running /\ writes[c] # <<>>
  /\ unsent[c] < SendRoom
  /\ peer[c] # "reset"
  /\ LET w == Head(writes[c])
         k == IF w.left <= SendRoom - unsent[c] THEN w.left ELSE SendRoom - unsent[c]
         first == Pieces - w.left
     IN  /\ stream' = [stream EXCEPT ![c] =
                         @ \o [i \in 1 .. k |-> <<w.msg, first + i>>]]
         /\ unsent' = [unsent EXCEPT ![c] = @ + k]
         /\ ready' = Queued("write", c, Completion("write", c, TRUE,
                                                    Write(w.msg, w.left - k)))
  /\ writes' = [writes EXCEPT ![c] = Tail(@)]
  /\ UNCHANGED <<loop, io_vars, started, socket, reading, registry, peer, unread, events,
                 broadcasts, stops>>

\* Nobody is there to receive.
FailWrite(c) ==
  /\ Running /\ writes[c] # <<>>
  /\ peer[c] \in {"closed", "reset"}
  /\ ready' = Queued("write", c, Completion("write", c, FALSE, Head(writes[c])))
  /\ writes' = [writes EXCEPT ![c] = Tail(@)]
  /\ UNCHANGED <<loop, io_vars, started, socket, reading, registry, peer_vars, stream,
                 events, broadcasts, stops>>

Perform ==
  \/ PerformAccept
  \/ FailAccept
  \/ \E c \in Conns : PerformRead(c) \/ PerformWrite(c) \/ FailWrite(c)

-----------------------------------------------------------------------------
(* The handlers.  Each takes its completion from the front of the queue. *)

Aborted(c) ==
  {Completion("read", c, FALSE, NoWrite) : i \in IF reading[c] THEN {1} ELSE {}}
    \cup {Completion("write", c, FALSE, writes[c][i]) : i \in 1 .. Len(writes[c])}

\* Mutant: the registry is not told.
Close_Unregistered(S, queue) ==
  /\ socket' = [c \in Conns |-> IF c \in S THEN "closed" ELSE socket[c]]
  /\ reading' = [c \in Conns |-> reading[c] /\ c \notin S]
  /\ writes' = [c \in Conns |-> IF c \in S THEN <<>> ELSE writes[c]]
  /\ events' = [c \in Conns |-> IF c \in S THEN Append(events[c], "disconnected")
                                           ELSE events[c]]
  /\ ready' = queue \o SetToSeq(UNION {Aborted(c) : c \in S})
  /\ UNCHANGED registry

\* ClientSession::close() of the sessions S, whose sockets are open: each leaves
\* the registry through onDisconnect_ -> removeSession.  The handlers of the
\* aborted operations find the socket closed, so their order does not matter.
Close(S, queue) ==
  /\ socket' = [c \in Conns |-> IF c \in S THEN "closed" ELSE socket[c]]
  /\ reading' = [c \in Conns |-> reading[c] /\ c \notin S]
  /\ writes' = [c \in Conns |-> IF c \in S THEN <<>> ELSE writes[c]]
  /\ registry' = registry \ S
  /\ events' = [c \in Conns |-> IF c \in S THEN Append(events[c], "disconnected")
                                           ELSE events[c]]
  /\ ready' = queue \o SetToSeq(UNION {Aborted(c) : c \in S})

\* Mutant: close() does not ask whether the socket is open.
IfOpen_Always(c) == {c}
IfOpen(c) == {s \in {c} : socket[s] = "open"}

\* What a handler starts and may be performed at once: the next accept, and the
\* writes that have no other in front of them.
StartedAccept == {<<"accept", NoConn>>}
StartedWrites(S) == {<<"write", c>> : c \in {d \in S : writes[d] = <<>>}}

\* Mutant: the buffer is one piece longer than the message.
BroadcastOrNot_Overrun(targets) ==
  \/ UNCHANGED <<writes, broadcasts>>
  \/ /\ broadcasts < MaxBroadcasts
     /\ broadcasts' = broadcasts + 1
     /\ writes' = [c \in Conns |->
                     IF c \in targets
                     THEN Append(writes[c], Write(broadcasts + 1, Pieces + 1))
                     ELSE writes[c]]

\* Mutant: the message is sent twice.
BroadcastOrNot_Twice(targets) ==
  \/ UNCHANGED <<writes, broadcasts>>
  \/ /\ broadcasts < MaxBroadcasts
     /\ broadcasts' = broadcasts + 1
     /\ writes' = [c \in Conns |->
                     IF c \in targets
                     THEN writes[c] \o [i \in 1 .. 2 |-> Write(broadcasts + 1, Pieces)]
                     ELSE writes[c]]

\* The application may broadcast from a callback; targets is what ForEachClient
\* visits, and asyncSend starts an async_write whatever else is outstanding.
BroadcastOrNot(targets) ==
  \/ UNCHANGED <<writes, broadcasts>>
  \/ /\ broadcasts < MaxBroadcasts
     /\ broadcasts' = broadcasts + 1
     /\ writes' = [c \in Conns |->
                     IF c \in targets
                     THEN Append(writes[c], Write(broadcasts + 1, Pieces))
                     ELSE writes[c]]

\* Mutant: stop() closes the acceptor but no session.
RunStop_AcceptorOnly ==
  /\ Running /\ ready # <<>> /\ Current.op = "stop"
  /\ started' = {}
  /\ acceptor' = "closed"
  /\ accepting' = FALSE
  /\ backlog' = <<>>
  /\ ready' = Tail(ready) \o IF accepting THEN <<AcceptFailed>> ELSE <<>>
  /\ UNCHANGED <<loop, socket, reading, writes, registry, peer_vars, stream,
                 events, broadcasts, stops>>

\* The task posted by stop() closes the acceptor, then ClearAll() empties the
\* registry and closes what was in it; the kernel drops what the acceptor had not taken.
RunStop ==
  /\ Running /\ ready # <<>> /\ Current.op = "stop"
  /\ started' = {}
  /\ acceptor' = "closed"
  /\ accepting' = FALSE
  /\ backlog' = <<>>
  /\ peer' = [c \in Conns |-> IF \E i \in 1 .. Len(backlog) : backlog[i] = c
                               THEN "reset" ELSE peer[c]]
  /\ Close(registry, Tail(ready) \o IF accepting THEN <<AcceptFailed>> ELSE <<>>)
  /\ UNCHANGED <<loop, unread, unsent, stream, broadcasts, stops>>

\* Mutant: the next accept is armed only after a failed one.
RunAccept_Once ==
  LET c == Current.conn IN
  /\ Running /\ ready # <<>> /\ Current.op = "accept" /\ Current.ok
  /\ started' = StartedWrites(registry \cup {c}) \cup {<<"read", c>>}
  /\ peer[c] # "reset"
  /\ socket' = [socket EXCEPT ![c] = "open"]
  /\ registry' = registry \cup {c}
  /\ events' = [events EXCEPT ![c] = Append(@, "connected")]
  /\ BroadcastOrNot(registry \cup {c})
  /\ reading' = [reading EXCEPT ![c] = TRUE]
  /\ ready' = Tail(ready)
  /\ UNCHANGED <<loop, io_vars, peer_vars, stream, stops>>

\* doAccept's handler for a connection that is still there.
RunAccept ==
  LET c == Current.conn IN
  /\ Running /\ ready # <<>> /\ Current.op = "accept" /\ Current.ok
  /\ started' = StartedAccept \cup StartedWrites(registry \cup {c}) \cup {<<"read", c>>}
  /\ peer[c] # "reset"
  /\ socket' = [socket EXCEPT ![c] = "open"]
  /\ registry' = registry \cup {c}
  /\ events' = [events EXCEPT ![c] = Append(@, "connected")]
  /\ BroadcastOrNot(registry \cup {c})
  /\ reading' = [reading EXCEPT ![c] = TRUE]
  /\ accepting' = (acceptor = "open")
  /\ ready' = Tail(ready)
  /\ UNCHANGED <<loop, acceptor, backlog, peer_vars, stream, stops>>

\* remote_endpoint() throws for a connection that was reset meanwhile, and the
\* exception leaves io_context::run().
ThrowInAccept ==
  /\ Running /\ ready # <<>> /\ Current.op = "accept" /\ Current.ok
  /\ started' = {}
  /\ peer[Current.conn] = "reset"
  /\ loop' = "dead"
  /\ ready' = Tail(ready)
  /\ UNCHANGED <<io_vars, socket, reading, writes, registry, peer_vars, stream,
                 events, broadcasts, stops>>

RunAcceptError ==
  /\ Running /\ ready # <<>> /\ Current.op = "accept" /\ ~Current.ok
  /\ started' = StartedAccept
  /\ accepting' = (acceptor = "open")
  /\ ready' = Tail(ready)
  /\ UNCHANGED <<loop, acceptor, backlog, socket, reading, writes, registry,
                 peer_vars, stream, events, broadcasts, stops>>

\* Mutant: doRead is not called again after data.
RunRead_Once ==
  LET c == Current.conn IN
  /\ Running /\ ready # <<>> /\ Current.op = "read" /\ Current.ok
  /\ started' = StartedWrites(registry)
  /\ BroadcastOrNot(registry)
  /\ events' = [events EXCEPT ![c] = Append(@, "data")]
  /\ ready' = Tail(ready)
  /\ UNCHANGED <<loop, io_vars, socket, reading, registry, peer_vars, stream, stops>>

\* doRead's handler with data: onDataReceived_, then doRead again.  On a socket
\* closed meanwhile the new read fails at once.
RunRead ==
  LET c == Current.conn IN
  /\ Running /\ ready # <<>> /\ Current.op = "read" /\ Current.ok
  /\ started' = StartedWrites(registry) \cup {<<"read", c>>}
  /\ BroadcastOrNot(registry)
  /\ events' = [events EXCEPT ![c] = IF Len(@) > 0 /\ @[Len(@)] = "data"
                                     THEN @ ELSE Append(@, "data")]
  /\ IF socket[c] = "open"
     THEN /\ reading' = [reading EXCEPT ![c] = TRUE]
          /\ ready' = Tail(ready)
     ELSE /\ ready' = Append(Tail(ready), Completion("read", c, FALSE, NoWrite))
          /\ UNCHANGED reading
  /\ UNCHANGED <<loop, io_vars, socket, registry, peer_vars, stream, stops>>

\* Mutant: doRead is called again after a failed read.
RunError_ReadAgain ==
  /\ Running /\ ready # <<>> /\ Current.op \in {"read", "write"} /\ ~Current.ok
  /\ started' = {}
  /\ Close(IfOpen(Current.conn), IF Current.op = "read" THEN Append(Tail(ready), Current)
                                                       ELSE Tail(ready))
  /\ UNCHANGED <<loop, io_vars, peer_vars, stream, broadcasts, stops>>

\* The handlers of a failed read and of a failed write close the session.
RunError ==
  /\ Running /\ ready # <<>> /\ Current.op \in {"read", "write"} /\ ~Current.ok
  /\ started' = {}
  /\ Close(IfOpen(Current.conn), Tail(ready))
  /\ UNCHANGED <<loop, io_vars, peer_vars, stream, broadcasts, stops>>

\* Boost.Asio: async_write goes on with the rest of the message, behind the other
\* pending writes.
ContinueWrite ==
  LET c == Current.conn
      w == Current.write
  IN
  /\ Running /\ ready # <<>> /\ Current.op = "write" /\ Current.ok
  /\ w.left > 0
  /\ started' = StartedWrites({c})
  /\ IF socket[c] = "open"
     THEN writes' = [writes EXCEPT ![c] = Append(@, w)] /\ ready' = Tail(ready)
     ELSE /\ ready' = Append(Tail(ready), Completion("write", c, FALSE, w))
          /\ UNCHANGED writes
  /\ UNCHANGED <<loop, io_vars, socket, reading, registry, peer_vars, stream,
                 events, broadcasts, stops>>

\* When all is written asyncSend's handler only logs.
WriteDone ==
  /\ Running /\ ready # <<>> /\ Current.op = "write" /\ Current.ok
  /\ Current.write.left = 0
  /\ started' = {}
  /\ ready' = Tail(ready)
  /\ UNCHANGED <<loop, io_vars, socket, reading, writes, registry, peer_vars, stream,
                 events, broadcasts, stops>>

Handle == RunStop \/ RunAccept \/ ThrowInAccept \/ RunAcceptError \/ RunRead
            \/ RunError \/ ContinueWrite \/ WriteDone

Environment ==
  \/ Start
  \/ Stop
  \/ \E c \in Conns : Connect(c) \/ PeerSends(c) \/ PeerTakes(c) \/ PeerGoes(c)

Next == Environment \/ Perform \/ Handle

Spec == Init /\ [][Next]_vars

\* The thread runs the handlers that are queued, and the operating system
\* performs what it can; clients and the callers of stop() owe nothing.
Fairness ==
  /\ WF_vars(Handle)
  /\ WF_vars(PerformAccept)
  /\ \A c \in Conns : WF_vars(PerformRead(c)) /\ WF_vars(FailWrite(c))

FairSpec == Spec /\ Fairness

-----------------------------------------------------------------------------
(* Properties. *)

Open == {c \in Conns : socket[c] = "open"}
Handlers(op, c) == {i \in 1 .. Len(ready) : ready[i].op = op /\ ready[i].conn = c}
AcceptHandlers == {i \in 1 .. Len(ready) : ready[i].op = "accept"}
Written(c, m) == {n \in 1 .. Pieces : \E i \in 1 .. Len(stream[c]) : stream[c][i] = <<m, n>>}

Writes == [msg : 0 .. MaxBroadcasts, left : 0 .. Pieces]
Completions == [op : {"stop", "accept", "read", "write"},
                conn : Conns \cup {NoConn}, ok : BOOLEAN, write : Writes]

TypeOK ==
  /\ loop \in {"created", "running", "dead"}
  /\ acceptor \in {"open", "closed"}
  /\ accepting \in BOOLEAN
  /\ backlog \in Seq(Conns)
  /\ started \subseteq {"accept", "read", "write"} \X (Conns \cup {NoConn})
  /\ ready \in Seq(Completions)
  /\ socket \in [Conns -> {"none", "open", "closed"}]
  /\ reading \in [Conns -> BOOLEAN]
  /\ writes \in [Conns -> Seq(Writes)]
  /\ registry \subseteq Conns
  /\ peer \in [Conns -> {"new", "up", "closed", "reset", "refused"}]
  /\ unread \in [Conns -> BOOLEAN]
  /\ unsent \in [Conns -> 0 .. SendRoom]
  /\ stream \in [Conns -> Seq((1 .. MaxBroadcasts) \X (1 .. Pieces))]
  /\ events \in [Conns -> Seq({"connected", "data", "disconnected"})]
  /\ broadcasts \in 0 .. MaxBroadcasts
  /\ stops \in 0 .. MaxStops

\* Between two handlers the registry holds exactly the sessions whose sockets
\* are open, whichever of a read error, a write error and stop() closed them:
\* ActiveClientsCount() is right and broadcast() never writes to a closed socket.
RegistryIsOpenSessions == registry = Open

\* onConnected_ comes first and once, onDisconnected_ exactly once when the
\* session is closed, however many of its operations fail (TcpSession.cpp:42).
CallbacksOnce ==
  \A c \in Conns :
    LET Count(e) == Cardinality({i \in 1 .. Len(events[c]) : events[c][i] = e})
    IN  /\ Count("connected") = IF socket[c] = "none" THEN 0 ELSE 1
        /\ Count("disconnected") = IF socket[c] = "closed" THEN 1 ELSE 0
        /\ events[c] # <<>> => Head(events[c]) = "connected"

\* An open session always has exactly one read outstanding, pending or completed
\* and waiting for its handler: it cannot miss the end of the connection, and two
\* reads never share readBuffer_.
OneReadOutstanding ==
  \A c \in Conns :
    /\ \A i, j \in Handlers("read", c) : i = j
    /\ reading[c] => Handlers("read", c) = {}
    /\ c \in Open => reading[c] \/ Handlers("read", c) # {}

\* While the acceptor is open and the thread runs, exactly one accept is
\* outstanding, so a failed accept never stops the server from accepting; a
\* closed acceptor has none pending (TcpServer.cpp:84).
OneAcceptOutstanding ==
  /\ \A i, j \in AcceptHandlers : i = j
  /\ accepting => AcceptHandlers = {}
  /\ acceptor = "open" /\ Running => accepting \/ AcceptHandlers # {}
  /\ acceptor = "closed" => ~accepting

\* Whatever fails or is closed, the loops of doRead and doAccept neither stop nor
\* run twice.
LoopsArmed == OneReadOutstanding /\ OneAcceptOutstanding

\* What stop() does not reach is at most the one connection that had been
\* accepted when its task ran but whose handler was still queued.
AtMostOneLateSession ==
  acceptor = "closed" => \A c, d \in registry : c = d

\* The pieces of one message reach the stream in order, none twice and none left
\* out, across all the partial writes; an outstanding write goes on where the
\* stream ends.
PiecesInOrder ==
  \A c \in Conns :
    /\ \A i, j \in 1 .. Len(stream[c]) :
         i < j /\ stream[c][i][1] = stream[c][j][1] => stream[c][i][2] < stream[c][j][2]
    /\ \A m \in 1 .. MaxBroadcasts : \A n \in Written(c, m) : 1 .. n \subseteq Written(c, m)
    /\ \A i \in 1 .. Len(writes[c]) :
         Written(c, writes[c][i].msg) = 1 .. Pieces - writes[c][i].left

\* A session that ends on the client side is noticed and removed, whatever the
\* application was doing, unless the thread has died.
DisconnectNoticed ==
  \A c \in Conns :
    (c \in Open /\ peer[c] # "up") ~> (socket[c] = "closed" \/ ~Running)

\* Each pending operation holds a shared_ptr to its session.  A closed session
\* loses them all, so it is destroyed and its descriptor freed.
ClosedSessionReleased ==
  \A c \in Conns :
    socket[c] = "closed" ~>
      \/ ~Running
      \/ /\ ~reading[c] /\ writes[c] = <<>>
         /\ \A op \in {"read", "write"} : Handlers(op, c) = {}

\* The test at network/tests/src/test_network.cpp:56-58 stops the server, waits,
\* and expects no active session.
StoppedServerHasNoSessions ==
  acceptor = "closed" /\ Running /\ ready = <<>> => registry = {}

=============================================================================
