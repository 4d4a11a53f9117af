---------------------------- MODULE ConsoleClient ----------------------------
(***************************************************************************)
(* The console client of client_console/src: the thread that reads          *)
(* commands (ui), the thread of the io_context that delivers the callbacks  *)
(* of the connection (io), and the thread that prints (show).  They share   *)
(* two queues, each call of which takes a mutex of its own, two histories,  *)
(* of which one is guarded, and a few flags.                                *)
(*                                                                          *)
(* TcpClient::close calls onDisconnected on the thread it is called from,   *)
(* so ClientEventHandler::disconnect runs on either thread.                 *)
(*                                                                          *)
(* The connection is TcpClient's, in outline: one endpoint, and one read on *)
(* the new socket even if an old handler starts another.  Kept is what      *)
(* decides whether connect and disconnect do anything and whether a message *)
(* follows: the socket, the timer, the flags and the operations left behind *)
(* when a socket is closed.  Messages are counted, their texts left out;    *)
(* the errors one handler reports are one message.  Unsynchronised accesses *)
(* happen one after the other.                                              *)
(***************************************************************************)
EXTENDS Naturals, Sequences, SequencesExt

CONSTANTS
  MaxPushes,     \* bound on the pushes received; they are numbered
  MaxCommands,   \* bound on the commands, exit not counted
  MaxFailures    \* bound on lost and failed connections

ASSUME BoundsAssumption == {MaxPushes, MaxCommands, MaxFailures} \subseteq Nat

reconnect_max_count == 3

Pushes == 1 .. MaxPushes
Commands == {"connect", "disconnect", "show", "history", "clear", "exit"}

VARIABLES
  link,          \* the socket: "down" is closed, "failed" open and not connected,
                 \* "connecting", "up"
  late,          \* what operations on closed sockets still bring, in order: "data"
                 \* and "error" of reads, "aborted" reads, "failed" attempts
  timer,         \* the wait before the next attempt
  shouldReconnect, reconnect_count, last_op_success,
  push_queue, msg_queue,
  is_connected,
  session_last_history, session_full_history,
  temp,          \* the history each thread holds between swap and insert
  show_pushes, show_msg, running,
  pc,            \* where each thread is
  cmd,           \* the command being executed, or "none"
  callback,      \* the callback io is making, or "none"
  arrived,       \* history: pushes queued since the queue was cleared
  shown,         \* history: pushes printed since then
  since,         \* history: pushes received since the last clear command ended
  wiped,         \* history: pushes the ui thread wiped from the history
  cutIn,         \* history: the queue was cleared under showPushes
  unheard,       \* history: during this command a message was printed with show_msg_
                 \* down, or connect or disconnect silently did nothing
  received, commands, failures

retry == <<shouldReconnect, reconnect_count>>
net == <<link, late, timer, retry, last_op_success>>
queues == <<push_queue, msg_queue, arrived, shown, cutIn>>
handler == <<is_connected, session_last_history, session_full_history, temp,
             since, wiped>>
ui_flags == <<show_pushes, show_msg, running>>
control == <<pc, cmd, callback>>
bounds == <<unheard, received, commands, failures>>
vars == <<net, queues, handler, ui_flags, control, bounds>>

Goto(t, label) == pc' = [pc EXCEPT ![t] = label]
At(t, label) == pc[t] = label /\ pc.show # "broken"

Message == msg_queue' = msg_queue + 1

Open == link # "down"
isConnected == Open /\ last_op_success
Left(kind) == late # <<>> /\ Head(late) = kind

Init ==
  /\ link = "down" /\ late = <<>> /\ timer = FALSE
  /\ shouldReconnect = FALSE /\ reconnect_count = 0 /\ last_op_success = FALSE
  /\ push_queue = <<>> /\ msg_queue = 0
  /\ is_connected = FALSE
  /\ session_last_history = <<>> /\ session_full_history = <<>>
  /\ temp = [io |-> <<>>, ui |-> <<>>]
  /\ show_pushes = FALSE /\ show_msg = FALSE /\ running = TRUE
  /\ pc = [io |-> "idle", ui |-> "prompt", show |-> "loop"]
  /\ cmd = "none" /\ callback = "none"
  /\ arrived = <<>> /\ shown = <<>> /\ since = <<>> /\ wiped = {}
  /\ cutIn = FALSE /\ unheard = FALSE
  /\ received = 0 /\ commands = 0 /\ failures = 0

\* Mutant: show_msg_ stays down after the command.
Prompt_Variant ==
  /\ Goto("ui", "prompt")
  /\ cmd' = "none" /\ unheard' = FALSE
  /\ UNCHANGED show_msg

\* The ui thread is back at the prompt.
Prompt ==
  /\ Goto("ui", "prompt")
  /\ show_msg' = TRUE
  /\ cmd' = "none" /\ unheard' = FALSE

-----------------------------------------------------------------------------
(* TcpClient: what its calls do to the socket. *)

\* The operations a close() of the socket aborts.  The handlers of data and of a
\* connection have yet to start the next read.
ReadPending == link = "up" /\ pc.io # "append" /\ callback # "connected"
Aborted ==
  IF ReadPending THEN <<"aborted">>
  ELSE IF link = "connecting" THEN <<"failed">> ELSE <<>>

\* async_connect closes the socket and opens it again.
doConnect(left) == link' = "connecting" /\ late' = left \o Aborted

closeConnection(left) == link' = "down" /\ late' = left \o Aborted

\* doRead: on a closed socket the read fails.
NextRead == IF Open THEN <<>> ELSE <<"error">>

\* scheduleReconnect up to onReconnect, if it is to be tried again.
ReconnectIfWanted ==
  IF shouldReconnect
  THEN /\ reconnect_count' = reconnect_count + 1
       /\ callback' = "reconnect"
       /\ Goto("io", "disconnect")
  ELSE /\ callback' = "none"
       /\ Goto("io", "idle")
       /\ UNCHANGED reconnect_count

\* The rest of it: the wait is started, and the attempts are counted.
AwaitReconnect ==
  /\ timer' = TRUE
  /\ IF reconnect_count = reconnect_max_count
     THEN shouldReconnect' = FALSE /\ reconnect_count' = 0
     ELSE UNCHANGED retry
  /\ callback' = "none"
  /\ Goto("io", "idle")

-----------------------------------------------------------------------------
(* ClientEventHandler: the callbacks, on the thread t that makes them. *)

\* A read brings a push.  onPushReceived: queued first, appended to the history
\* under the lock later.
QueuePush ==
  /\ At("io", "idle")
  /\ \/ link = "up" /\ UNCHANGED late
     \/ Left("data") /\ late' = Tail(late)
  /\ received < MaxPushes
  /\ received' = received + 1
  /\ last_op_success' = TRUE
  /\ push_queue' = Append(push_queue, received')
  /\ arrived' = Append(arrived, received')
  /\ Goto("io", "append")
  /\ UNCHANGED <<link, timer, retry, msg_queue, shown, cutIn, handler,
                 ui_flags, cmd, callback, unheard, commands, failures>>

\* Then the next read is started.
AppendHistory ==
  /\ At("io", "append")
  /\ session_last_history' = Append(session_last_history, received)
  /\ since' = Append(since, received)
  /\ late' = late \o NextRead
  /\ Goto("io", "idle")
  /\ UNCHANGED <<link, timer, retry, last_op_success, queues, is_connected,
                 session_full_history, temp, wiped, ui_flags, cmd, callback, bounds>>

\* onConnected sets the flag, then queues its message.
Connected ==
  /\ At("io", "idle")
  /\ link = "connecting"
  /\ link' = "up" /\ last_op_success' = TRUE
  /\ is_connected' = TRUE
  /\ callback' = "connected"
  /\ Goto("io", "notify")
  /\ UNCHANGED <<late, timer, retry, queues, session_last_history,
                 session_full_history, temp, since, wiped, ui_flags, cmd, bounds>>

\* onDisconnected and onReconnect: disconnect() clears the flag, moves the last
\* history into the full one, clears the last history without the lock; then the
\* message.
Disconnect(t) ==
  /\ At(t, "disconnect")
  /\ is_connected' = FALSE
  /\ Goto(t, "swap")
  /\ UNCHANGED <<net, queues, session_last_history, session_full_history, temp,
                 since, wiped, ui_flags, cmd, callback, bounds>>

\* updateFullHistory, up to the end of its critical section.
SwapHistory(t) ==
  /\ At(t, "swap")
  /\ temp' = [temp EXCEPT ![t] = session_last_history]
  /\ session_last_history' = <<>>
  /\ Goto(t, "insert")
  /\ UNCHANGED <<net, queues, is_connected, session_full_history, since, wiped,
                 ui_flags, cmd, callback, bounds>>

\* Where updateFullHistory returns to: disconnect(), or historySize() and
\* getHistory() of the commands on histories.
AfterInsert(t) ==
  IF t = "io" \/ cmd \in {"disconnect", "exit"} THEN "wipe"
  ELSE IF session_full_history' = <<>> \/ cmd = "list" THEN "prompt"
  ELSE IF cmd = "history" THEN "swap" ELSE "drop"

\* The rest of updateFullHistory, without the lock.
\* Mutant: the full history is replaced, not extended.
InsertHistory_Variant(t) ==
  /\ At(t, "insert")
  /\ session_full_history' = temp[t]
  /\ temp' = [temp EXCEPT ![t] = <<>>]
  /\ IF AfterInsert(t) = "prompt" THEN Prompt
     ELSE /\ Goto(t, AfterInsert(t))
          /\ cmd' = IF t = "ui" /\ cmd = "history" THEN "list" ELSE cmd
          /\ UNCHANGED <<show_msg, unheard>>
  /\ UNCHANGED <<net, queues, is_connected, session_last_history, since, wiped,
                 show_pushes, running, callback, received, commands, failures>>

InsertHistory(t) ==
  /\ At(t, "insert")
  /\ session_full_history' = session_full_history \o temp[t]
  /\ temp' = [temp EXCEPT ![t] = <<>>]
  /\ IF AfterInsert(t) = "prompt" THEN Prompt
     ELSE /\ Goto(t, AfterInsert(t))
          /\ cmd' = IF t = "ui" /\ cmd = "history" THEN "list" ELSE cmd
          /\ UNCHANGED <<show_msg, unheard>>
  /\ UNCHANGED <<net, queues, is_connected, session_last_history, since, wiped,
                 show_pushes, running, callback, received, commands, failures>>

\* session_last_history_.clear() of disconnect().
WipeLastHistory(t) ==
  /\ At(t, "wipe")
  /\ wiped' = IF t = "ui" THEN wiped \cup ToSet(session_last_history) ELSE wiped
  /\ session_last_history' = <<>>
  /\ Goto(t, "notify")
  /\ UNCHANGED <<net, queues, is_connected, session_full_history, temp, since,
                 ui_flags, cmd, callback, bounds>>

\* The message of the callback.  Then close() cancels the timer; after onConnected,
\* doConnect's handler allows reconnection and starts the first read.
Notify(t) ==
  /\ At(t, "notify")
  /\ Message
  /\ \/ /\ t = "ui"
        /\ timer' = FALSE
        /\ Goto("ui", IF cmd = "exit" THEN "join" ELSE "loading")
        /\ UNCHANGED <<late, retry, callback>>
     \/ /\ t = "io" /\ callback = "connected"
        /\ shouldReconnect' = TRUE /\ reconnect_count' = 0
        /\ late' = late \o NextRead
        /\ callback' = "none"
        /\ Goto("io", "idle")
        /\ UNCHANGED timer
     \/ /\ t = "io" /\ callback = "disconnected"
        /\ ReconnectIfWanted
        /\ UNCHANGED <<late, timer, shouldReconnect>>
     \/ t = "io" /\ callback = "reconnect" /\ AwaitReconnect /\ UNCHANGED late
  /\ UNCHANGED <<link, last_op_success, push_queue, arrived, shown, cutIn,
                 handler, ui_flags, cmd, bounds>>

-----------------------------------------------------------------------------
(* TcpClient: the other handlers on io. *)

\* A read brings no more than part of a push.
PartOfPush ==
  /\ At("io", "idle")
  /\ link = "up"
  /\ last_op_success' = TRUE
  /\ UNCHANGED <<link, late, timer, retry, queues, handler, ui_flags, control,
                 bounds>>

LatePart ==
  /\ At("io", "idle")
  /\ Left("data")
  /\ last_op_success' = TRUE
  /\ late' = Tail(late) \o NextRead
  /\ UNCHANGED <<link, timer, retry, queues, handler, ui_flags, control,
                 bounds>>

\* A read fails: onError, onDisconnected, and onReconnect if it is to be tried
\* again.
Lose ==
  /\ At("io", "idle")
  /\ link = "up" /\ failures < MaxFailures
  /\ failures' = failures + 1
  /\ link' = "down" /\ last_op_success' = FALSE
  /\ Message
  /\ callback' = "disconnected"
  /\ Goto("io", "disconnect")
  /\ UNCHANGED <<late, timer, retry, push_queue, arrived, shown, cutIn, handler,
                 ui_flags, cmd, unheard, received, commands>>

\* The next read of a socket that had been closed fails, and closeConnection acts
\* on whatever there is by then.
LateError ==
  /\ At("io", "idle")
  /\ Left("error")
  /\ last_op_success' = FALSE
  /\ closeConnection(Tail(late))
  /\ Message
  /\ callback' = "disconnected"
  /\ Goto("io", "disconnect")
  /\ UNCHANGED <<timer, retry, push_queue, arrived, shown, cutIn, handler, ui_flags,
                 cmd, bounds>>

\* operation_aborted: nothing is said of it.
LateAborted ==
  /\ At("io", "idle")
  /\ Left("aborted")
  /\ last_op_success' = FALSE
  /\ late' = Tail(late)
  /\ UNCHANGED <<link, timer, retry, queues, handler, ui_flags, control,
                 bounds>>

\* An attempt to connect fails, on the socket as it is or for being aborted.
ConnectFails ==
  /\ At("io", "idle")
  /\ \/ /\ link = "connecting" /\ failures < MaxFailures
        /\ failures' = failures + 1 /\ link' = "failed"
        /\ UNCHANGED late
     \/ /\ Left("failed") /\ late' = Tail(late)
        /\ UNCHANGED <<link, failures>>
  /\ last_op_success' = FALSE
  /\ Message
  /\ ReconnectIfWanted
  /\ UNCHANGED <<timer, shouldReconnect, push_queue, arrived, shown, cutIn, handler,
                 ui_flags, cmd, unheard, received, commands>>

\* The next attempt, on whatever socket there is.
TimerExpires ==
  /\ At("io", "idle")
  /\ timer
  /\ timer' = FALSE
  /\ doConnect(late)
  /\ UNCHANGED <<retry, last_op_success, queues, handler, ui_flags, control,
                 bounds>>

IoStep ==
  \/ AppendHistory
  \/ Disconnect("io") \/ SwapHistory("io") \/ InsertHistory("io")
  \/ WipeLastHistory("io") \/ Notify("io")
  \/ LatePart \/ LateError \/ LateAborted

Attempt == Connected \/ ConnectFails

-----------------------------------------------------------------------------
(* ConsoleUI: the thread that reads commands. *)

\* A line is entered: both flags fall, then the command is executed.  status and
\* help only print, and are an empty line here.
\* Mutant: messages are printed while a command runs.
Enter_Variant ==
  /\ At("ui", "prompt") /\ running
  /\ commands < MaxCommands
  /\ commands' = commands + 1
  /\ show_pushes' = FALSE
  /\ cmd' \in Commands \ {"exit"}
  /\ Goto("ui", "command")
  /\ UNCHANGED <<net, queues, handler, show_msg, running, callback, unheard,
                 received, failures>>

Enter ==
  /\ At("ui", "prompt") /\ running
  /\ commands < MaxCommands
  /\ commands' = commands + 1
  /\ show_pushes' = FALSE /\ show_msg' = FALSE
  /\ cmd' \in Commands \ {"exit"}
  /\ Goto("ui", "command")
  /\ UNCHANGED <<net, queues, handler, running, callback, unheard, received,
                 failures>>

EnterExit ==
  /\ At("ui", "prompt") /\ running
  /\ show_pushes' = FALSE /\ show_msg' = FALSE
  /\ cmd' = "exit"
  /\ Goto("ui", "command")
  /\ UNCHANGED <<net, queues, handler, running, callback, bounds>>

\* handleConnect: refused, for the connection or for a host or port that will not
\* do; or the user has entered both.
HandleConnect ==
  /\ At("ui", "command") /\ cmd = "connect"
  /\ \/ Prompt
     \/ ~is_connected /\ Goto("ui", "connect") /\ UNCHANGED <<show_msg, cmd, unheard>>
  /\ UNCHANGED <<net, queues, handler, show_pushes, running, callback, received,
                 commands, failures>>

\* ClientApp::connect reports that the client is connected, or goes on.
CallConnect ==
  /\ At("ui", "connect")
  /\ IF isConnected THEN Message /\ Goto("ui", "loading")
                    ELSE Goto("ui", "endpoint") /\ UNCHANGED msg_queue
  /\ UNCHANGED <<net, push_queue, arrived, shown, cutIn, handler, ui_flags, cmd,
                 callback, bounds>>

\* TcpClient::setEndpoint ends the retries, then resolves.
SetEndpoint ==
  /\ At("ui", "endpoint")
  /\ shouldReconnect' = FALSE
  /\ Goto("ui", "resolving")
  /\ UNCHANGED <<link, late, timer, reconnect_count, last_op_success, queues, handler,
                 ui_flags, cmd, callback, bounds>>

Resolve ==
  /\ At("ui", "resolving")
  /\ \/ last_op_success' = TRUE /\ Goto("ui", "resolved") /\ UNCHANGED msg_queue
     \/ last_op_success' = FALSE /\ Goto("ui", "unresolved") /\ Message
  /\ UNCHANGED <<link, late, timer, retry, push_queue, arrived, shown, cutIn,
                 handler, ui_flags, cmd, callback, bounds>>

\* TcpClient::connect begins to connect, or does nothing for what another
\* operation has left in last_op_success_.  Without endpoints an attempt fails and
\* leaves the socket alone.
StartConnect ==
  /\ At("ui", "resolved") \/ At("ui", "unresolved")
  /\ IF ~last_op_success THEN UNCHANGED <<link, late>>
     ELSE IF pc.ui = "resolved" THEN doConnect(late)
     ELSE late' = Append(late, "failed") /\ UNCHANGED link
  /\ unheard' = (unheard \/ (pc.ui = "resolved" /\ ~last_op_success))
  /\ Goto("ui", "loading")
  /\ UNCHANGED <<timer, retry, last_op_success, queues, handler, ui_flags,
                 cmd, callback, received, commands, failures>>

HandleDisconnect ==
  /\ At("ui", "command") /\ cmd = "disconnect"
  /\ \/ ~is_connected /\ Prompt
     \/ is_connected /\ Goto("ui", "close") /\ UNCHANGED <<show_msg, cmd, unheard>>
  /\ UNCHANGED <<net, queues, handler, show_pushes, running, callback, received,
                 commands, failures>>

\* ClientApp::disconnect does nothing unless the client thinks it is connected.
CallDisconnect ==
  /\ At("ui", "close")
  /\ Goto("ui", IF isConnected THEN "closing"
                ELSE IF cmd = "exit" THEN "join" ELSE "loading")
  /\ unheard' = (unheard \/ ~isConnected)
  /\ UNCHANGED <<net, queues, handler, ui_flags, cmd, callback, received, commands,
                 failures>>

\* TcpClient::close, up to the callbacks, which follow on this thread.  A read
\* performed already, with data or an error, is not undone.
CloseLink ==
  /\ At("ui", "closing")
  /\ shouldReconnect' = FALSE
  /\ \/ closeConnection(late)
     \/ /\ ReadPending /\ link' = "down"
        /\ \E kind \in {"data", "error"} : late' = Append(late, kind)
  /\ Goto("ui", "disconnect")
  /\ UNCHANGED <<timer, reconnect_count, last_op_success, queues, handler, ui_flags,
                 cmd, callback, bounds>>

\* loading() ends with the first message in the queue; after a disconnection the
\* queue of pushes is emptied.
Loaded ==
  /\ At("ui", "loading") /\ msg_queue > 0
  /\ Prompt
  /\ IF cmd = "disconnect"
     THEN /\ push_queue' = <<>> /\ arrived' = <<>> /\ shown' = <<>>
          /\ cutIn' = (cutIn \/ pc.show \in {"front", "pop"})
     ELSE UNCHANGED <<push_queue, arrived, shown, cutIn>>
  /\ UNCHANGED <<net, msg_queue, handler, show_pushes, running, callback, received,
                 commands, failures>>

HandleShow ==
  /\ At("ui", "command") /\ cmd = "show"
  /\ show_pushes' = (show_pushes \/ is_connected)
  /\ Prompt
  /\ UNCHANGED <<net, queues, handler, running, callback, received, commands,
                 failures>>

\* handleHistory and handleClearHistory begin with historySize().
HandleHistory ==
  /\ At("ui", "command") /\ cmd \in {"history", "clear"}
  /\ Goto("ui", "swap")
  /\ UNCHANGED <<net, queues, handler, ui_flags, cmd, callback, bounds>>

\* clearHistory: the last history under the lock, the full one without.
DropLastHistory ==
  /\ At("ui", "drop")
  /\ session_last_history' = <<>>
  /\ Goto("ui", "empty")
  /\ UNCHANGED <<net, queues, is_connected, session_full_history, temp, since,
                 wiped, ui_flags, cmd, callback, bounds>>

EmptyFullHistory ==
  /\ At("ui", "empty")
  /\ session_full_history' = <<>> /\ since' = <<>>
  /\ Prompt
  /\ UNCHANGED <<net, queues, is_connected, session_last_history, temp, wiped,
                 show_pushes, running, callback, received, commands, failures>>

\* handleExit: stopClientLoop closes the connection, and joins the io thread when
\* it has ended its handler.
HandleExit ==
  /\ At("ui", "command") /\ cmd = "exit"
  /\ Goto("ui", "close")
  /\ UNCHANGED <<net, queues, handler, ui_flags, cmd, callback, bounds>>

Join ==
  /\ At("ui", "join") /\ pc.io = "idle"
  /\ pc' = [pc EXCEPT !.io = "ended", !.ui = "ended"]
  /\ running' = FALSE /\ show_msg' = TRUE
  /\ UNCHANGED <<net, queues, handler, show_pushes, cmd, callback, bounds>>

ClientCall ==
  \/ CallConnect \/ SetEndpoint \/ Resolve \/ StartConnect
  \/ CallDisconnect \/ CloseLink

UiStep ==
  \/ HandleConnect \/ HandleDisconnect \/ HandleShow \/ HandleHistory \/ HandleExit
  \/ ClientCall
  \/ Disconnect("ui") \/ SwapHistory("ui") \/ InsertHistory("ui")
  \/ WipeLastHistory("ui") \/ Notify("ui")
  \/ Loaded \/ DropLastHistory \/ EmptyFullHistory \/ Join

-----------------------------------------------------------------------------
(* ConsoleUI: the thread that prints. *)

ShowLoop ==
  /\ At("show", "loop")
  /\ Goto("show", IF running THEN "msgs" ELSE "ended")
  /\ UNCHANGED <<net, queues, handler, ui_flags, cmd, callback, bounds>>

\* The head of the loop of showMessages reads show_msg_, and then the queue; what
\* it read of show_msg_ may be old by then.
TestShowMsg ==
  /\ At("show", "msgs")
  /\ Goto("show", IF show_msg THEN "anymsg" ELSE "pushes")
  /\ UNCHANGED <<net, queues, handler, ui_flags, cmd, callback, bounds>>

TestMessages ==
  /\ At("show", "anymsg")
  /\ Goto("show", IF msg_queue > 0 /\ running THEN "popmsg" ELSE "pushes")
  /\ UNCHANGED <<net, queues, handler, ui_flags, cmd, callback, bounds>>

\* front() and pop() of an empty queue are undefined: nothing is said of what
\* follows.
ShowMessage ==
  /\ At("show", "popmsg")
  /\ \/ msg_queue = 0 /\ Goto("show", "broken") /\ UNCHANGED msg_queue
     \/ msg_queue > 0 /\ Goto("show", "msgs") /\ msg_queue' = msg_queue - 1
  /\ unheard' = (unheard \/ ~show_msg)
  /\ UNCHANGED <<net, push_queue, arrived, shown, cutIn, handler, ui_flags, cmd,
                 callback, received, commands, failures>>

\* The head of the loop of showPushes and its two breaks, read at once: clear()
\* follows a message, which makes the loop break however the reads are spread.
\* Mutant: the queue is not tested.
TestPushes_Variant ==
  /\ At("show", "pushes")
  /\ Goto("show", IF show_pushes /\ msg_queue = 0 /\ running THEN "front" ELSE "loop")
  /\ UNCHANGED <<net, queues, handler, ui_flags, cmd, callback, bounds>>

TestPushes ==
  /\ At("show", "pushes")
  /\ Goto("show", IF show_pushes /\ push_queue # <<>> /\ msg_queue = 0 /\ running
                  THEN "front" ELSE "loop")
  /\ UNCHANGED <<net, queues, handler, ui_flags, cmd, callback, bounds>>

ShowPush ==
  /\ At("show", "front")
  /\ \/ push_queue = <<>> /\ Goto("show", "broken") /\ UNCHANGED shown
     \/ /\ push_queue # <<>>
        /\ shown' = Append(shown, Head(push_queue))
        /\ Goto("show", "pop")
  /\ UNCHANGED <<net, push_queue, msg_queue, arrived, cutIn, handler, ui_flags,
                 cmd, callback, bounds>>

PopPush ==
  /\ At("show", "pop")
  /\ \/ push_queue = <<>> /\ Goto("show", "broken") /\ UNCHANGED push_queue
     \/ /\ push_queue # <<>>
        /\ push_queue' = Tail(push_queue)
        /\ Goto("show", "pushes")
  /\ UNCHANGED <<net, msg_queue, arrived, shown, cutIn, handler, ui_flags, cmd,
                 callback, bounds>>

ShowStep ==
  \/ ShowLoop
  \/ TestShowMsg \/ TestMessages \/ ShowMessage
  \/ TestPushes \/ ShowPush \/ PopPush

\* The process is over, or undefined.
Over ==
  /\ \A t \in DOMAIN pc : pc[t] = "ended"
     \/ pc.show = "broken"
  /\ UNCHANGED vars

Next ==
  \/ QueuePush \/ PartOfPush \/ Lose \/ Attempt \/ TimerExpires \/ IoStep
  \/ Enter \/ EnterExit \/ UiStep
  \/ ShowStep
  \/ Over

Spec == Init /\ [][Next]_vars

\* The threads run, timers expire, an attempt to connect succeeds or fails in the
\* end.  Nobody has to enter a command, to send a push or to lose a connection.
Fairness ==
  /\ WF_vars(IoStep) /\ WF_vars(Attempt) /\ WF_vars(TimerExpires)
  /\ WF_vars(UiStep) /\ WF_vars(ShowStep)

FairSpec == Spec /\ Fairness

-----------------------------------------------------------------------------
(* Properties. *)

HandlerLabels == {"disconnect", "swap", "insert", "wipe", "notify"}

TypeOK ==
  /\ link \in {"down", "failed", "connecting", "up"}
  /\ late \in Seq({"data", "error", "aborted", "failed"})
  /\ {shouldReconnect, timer, last_op_success, unheard} \subseteq BOOLEAN
  /\ reconnect_count \in Nat
  /\ push_queue \in Seq(Pushes) /\ msg_queue \in Nat
  /\ {is_connected, show_pushes, show_msg, running, cutIn} \subseteq BOOLEAN
  /\ session_last_history \in Seq(Pushes)
  /\ session_full_history \in Seq(Pushes)
  /\ \A t \in {"io", "ui"} : temp[t] \in Seq(Pushes)
                             /\ temp[t] # <<>> => pc[t] = "insert"
  /\ pc.io \in HandlerLabels \cup {"idle", "append", "ended"}
  /\ pc.ui \in HandlerLabels \cup {"prompt", "command", "connect", "endpoint",
                                   "resolving", "resolved", "unresolved", "close",
                                   "closing", "loading", "drop", "empty", "join",
                                   "ended"}
  /\ pc.show \in {"loop", "msgs", "anymsg", "popmsg", "pushes", "front", "pop", "ended",
                  "broken"}
  /\ cmd \in Commands \cup {"none", "list"}
  /\ callback = "none" <=> pc.io \in {"idle", "append", "ended"}
  /\ pc.ui = "prompt" /\ commands > 0 => show_msg

\* showMessages and showPushes test a queue in one critical section and take from
\* it in later ones (client_console_ui.cpp:192-204).  Only handleDisconnect's
\* clear() can make that go wrong: unless it falls between a test and a pop, no
\* empty queue is read, and the pushes printed and those queued are exactly those
\* that arrived, each printed once and in order.
OnlyClearDisturbsPrinting ==
  ~cutIn =>
    /\ pc.show # "broken"
    /\ arrived = shown \o IF pc.show = "pop" THEN Tail(push_queue) ELSE push_queue

\* A push received since the last clear command ended is in one of the histories
\* or on its way from one to the other (client_event_handler.cpp:67-74), whatever
\* commands and callbacks run at once; but for those the disconnect command wipes
\* without the lock (line 64) after they were appended by the other thread.
HistoryLosesOnlyWiped ==
  pc.ui # "empty" =>
    ToSet(since) \subseteq
      ToSet(session_full_history) \cup ToSet(temp.io) \cup ToSet(temp.ui)
        \cup ToSet(session_last_history) \cup wiped

\* The waiting for a message that follows connect and disconnect ends
\* (client_console_ui.cpp:230), unless the show thread, which may print messages
\* after show_msg_ fell (lines 44, 210), has taken one, or the client did nothing and
\* said nothing, for a stale last_op_success_ (TcpClient.cpp:54, client_lib.cpp:97).
LoadingEndsIfHeard ==
  pc.ui = "loading" ~> pc.ui # "loading" \/ unheard \/ pc.show = "broken"

\* README.md:317: to leave the program one enters exit, and it ends.  For that every
\* command before has to come back to the prompt; in particular the waiting for a
\* message has to end.
LoadingEnds == pc.ui = "loading" ~> pc.ui # "loading" \/ pc.show = "broken"

=============================================================================
