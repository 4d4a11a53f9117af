----------------------------- MODULE GuiClient -----------------------------
(***************************************************************************)
(* The Qt client around TcpClient: the window of client_gui/src, which     *)
(* shows whether there is a connection, and the io thread that ClientApp   *)
(* (client_lib/src/client_lib.cpp) starts at the first connect and joins   *)
(* at the end.                                                             *)
(*                                                                         *)
(* A callback emits a signal of ClientGUIEventHandler.  Its slot runs at   *)
(* once when the GUI thread makes the callback, which is when it closes    *)
(* the connection, and is queued for it when the io thread does.  Of the   *)
(* signals only connected and disconnected change anything here; PushList  *)
(* has what pushReceived does, the others log.                             *)
(*                                                                         *)
(* External: Qt's event loop.  Address and port are valid, otherwise the   *)
(* button does nothing.  Nobody logs in or sends.                          *)
(***************************************************************************)
EXTENDS TcpClient, SequencesExt

CONSTANT MaxSignals  \* bound on the signals in the queue

ASSUME SignalAssumption == MaxSignals \in Nat
ASSUME AddressAssumption == NEndpoints = 1  \* isValidIPv4: nothing to resolve

VARIABLES
  io,          \* io_thread_: "none", "starting", "guarded", "running", "ended"
  work_guard,  \* work_guard_: "null", "owned", "released"
  stopped,     \* io_context_.stopped()
  gui,         \* the GUI thread: "loop", a step of stopClientLoop, "quit", or
               \* "broken" after undefined behaviour
  window,      \* ui of MainWindow is not deleted
  label,       \* label_connection_status
  signals,     \* the queued signals
  misled       \* history: what the label shows, or will show, is not so

thread_vars == <<io, work_guard, stopped>>
window_vars == <<gui, window, label, signals, misled>>
gui_vars == <<vars, thread_vars, window_vars>>

GuiInit ==
  /\ Init /\ patient = FALSE
  /\ io = "none" /\ work_guard = "null" /\ stopped = FALSE
  /\ gui = "loop" /\ window = TRUE
  /\ label = "disconnected" /\ signals = <<>> /\ misled = FALSE

-----------------------------------------------------------------------------
(* Signals and the label. *)

\* The last connection handled as made has not been closed.
Live ==
  /\ link \in {"up", "lost"}
  /\ \A i \in DOMAIN taken : ~(taken[i].op = "connect" /\ taken[i].ok)
  /\ \A i \in DOMAIN ready : ~(ready[i].op = "connect" /\ ready[i].ok)

\* onConnected or onDisconnected on the io thread.  The connection may be one that
\* has been closed meanwhile, and another attempt be under way.
Emit(signal) ==
  /\ Len(signals) < MaxSignals
  /\ signals' = Append(signals, signal)
  /\ misled' = (signal = "connected" /\ link \notin {"up", "lost"})
  /\ UNCHANGED label

NoSignal == UNCHANGED <<label, signals, misled>>

\* doConnect closes whatever there is, and no callback tells of it.
NoSignalOfClosing ==
  /\ misled' = (misled \/ (Live /\ link' = "connecting"))
  /\ UNCHANGED <<label, signals>>

\* onDisconnected on the GUI thread, if CloseIfConnected calls it: its slot
\* overtakes the queued signals.
HandleAtOnce ==
  /\ IF isConnected
     THEN /\ label' = "disconnected"
          /\ misled' = (signals # <<>> /\ Last(signals) = "connected")
     ELSE UNCHANGED <<label, misled>>
  /\ UNCHANGED signals

\* Mutant: handleDisconnected only logs, like the slots of the other signals.
HandleSignal_Variant ==
  /\ gui = "loop" /\ ui = "idle" /\ signals # <<>>
  /\ label' = IF Head(signals) = "connected" THEN "connected" ELSE label
  /\ signals' = Tail(signals)
  /\ UNCHANGED <<vars, thread_vars, gui, window, misled>>

\* The slots handleConnected and handleDisconnected, from the event loop.
HandleSignal ==
  /\ gui = "loop" /\ ui = "idle" /\ signals # <<>>
  /\ label' = Head(signals)
  /\ signals' = Tail(signals)
  /\ UNCHANGED <<vars, thread_vars, gui, window, misled>>

-----------------------------------------------------------------------------
(* The io thread: the function that runClientAppLoop gives it. *)

CreateGuard ==
  /\ io = "starting"
  /\ work_guard' = "owned"
  /\ io' = "guarded"
  /\ UNCHANGED <<vars, window_vars, stopped>>

EnterRun ==
  /\ io = "guarded"
  /\ stopped' = FALSE
  /\ io' = "running"
  /\ UNCHANGED <<vars, window_vars, work_guard>>

InRun == io = "running" /\ ~stopped

\* run() returns when it is stopped, or has neither work nor guard.
LeaveRun ==
  /\ io = "running"
  /\ stopped \/ (work_guard = "released" /\ Quiet)
  /\ stopped' = TRUE
  /\ io' = "ended"
  /\ UNCHANGED <<vars, window_vars, work_guard>>

\* The handlers of TcpClient, with the callbacks setTcpEventHandlers gives it.
RunHandler ==
  /\ InRun
  /\ \/ RunConnected /\ Emit("connected")
     \/ RunReadError /\ Emit("disconnected")
     \/ RunTimer /\ NoSignalOfClosing
     \/ (RunConnectError \/ RunRead \/ RunReadAborted) /\ NoSignal
  /\ UNCHANGED <<thread_vars, gui, window>>

Await ==
  /\ InRun
  /\ PerformConnect \/ PerformRead \/ TimerExpires
  /\ UNCHANGED <<thread_vars, window_vars>>

-----------------------------------------------------------------------------
(* The GUI thread. *)

\* connectToServer: the loop is started, if it never was, then connect().
ClickConnect ==
  /\ gui = "loop"
  /\ Connect
  /\ io' = IF io = "none" THEN "starting" ELSE io
  /\ UNCHANGED <<work_guard, stopped, window_vars>>

FinishConnect ==
  /\ (Resolve /\ NoSignal) \/ (StartConnect /\ NoSignalOfClosing)
  /\ UNCHANGED <<thread_vars, gui, window>>

ClickDisconnect ==
  /\ gui = "loop"
  /\ Disconnect
  /\ HandleAtOnce
  /\ UNCHANGED <<thread_vars, gui, window>>

\* stopClientLoop begins, from the button, or from ~ClientApp once ~MainWindow has
\* deleted ui.
Exit ==
  /\ gui = "loop" /\ ui = "idle"
  /\ gui' = IF io = "none" THEN "quit" ELSE "reset"
  /\ window' \in BOOLEAN
  /\ UNCHANGED <<vars, thread_vars, label, signals, misled>>

ResetGuard ==
  /\ gui = "reset"
  /\ IF work_guard = "null" THEN gui' = "broken" /\ UNCHANGED work_guard
     ELSE work_guard' = "released" /\ gui' = "disconnect"
  /\ UNCHANGED <<vars, io, stopped, window, label, signals, misled>>

ExitDisconnect ==
  /\ gui = "disconnect"
  /\ CloseIfConnected
  /\ HandleAtOnce
  /\ gui' = IF isConnected /\ ~window THEN "broken" ELSE "stop"
  /\ UNCHANGED <<ui, commands, thread_vars, window>>

\* Mutant: it is left to the guard to end run().
StopLoop_Variant ==
  /\ gui = "stop"
  /\ gui' = "join"
  /\ UNCHANGED <<vars, thread_vars, window, label, signals, misled>>

StopLoop ==
  /\ gui = "stop"
  /\ stopped' = TRUE
  /\ gui' = "join"
  /\ UNCHANGED <<vars, io, work_guard, window, label, signals, misled>>

Joined ==
  /\ gui = "join" /\ io = "ended"
  /\ io' = "none"
  /\ gui' = "quit"
  /\ UNCHANGED <<vars, work_guard, stopped, window, label, signals, misled>>

StopClientLoop == ResetGuard \/ ExitDisconnect \/ StopLoop \/ Joined

OutsideStep == Network /\ UNCHANGED <<thread_vars, window_vars>>

GuiNext ==
  \/ ClickConnect \/ FinishConnect \/ ClickDisconnect \/ HandleSignal \/ Exit
  \/ StopClientLoop
  \/ CreateGuard \/ EnterRun \/ LeaveRun \/ RunHandler \/ Await
  \/ OutsideStep

GuiSpec == GuiInit /\ [][GuiNext]_gui_vars

\* Both threads are scheduled; a slot, once begun, goes on to its end.
GuiFairness ==
  /\ WF_gui_vars(CreateGuard) /\ WF_gui_vars(EnterRun) /\ WF_gui_vars(LeaveRun)
  /\ WF_gui_vars(RunHandler) /\ WF_gui_vars(Await /\ link # "up")
  /\ WF_gui_vars(FinishConnect) /\ WF_gui_vars(StopClientLoop)

-----------------------------------------------------------------------------
(* Properties. *)

GuiTypeOK ==
  /\ TypeOK
  /\ io \in {"none", "starting", "guarded", "running", "ended"}
  /\ work_guard \in {"null", "owned", "released"}
  /\ (io \in {"guarded", "running"} => work_guard # "null")
  /\ stopped \in BOOLEAN /\ misled \in BOOLEAN
  /\ gui \in {"loop", "reset", "disconnect", "stop", "join", "quit", "broken"}
  /\ window \in BOOLEAN
  /\ label \in {"connected", "disconnected"}
  /\ signals \in Seq({"connected", "disconnected"})

\* With no signal waiting, the label shows whether there is a connection.  It can
\* only be wrong, and until the next signal, after the user's disconnect overtook
\* the signal of the connection it closed (mainwindow.cpp:56), or after a connect
\* or a timer closed a live connection without a word or completed an attempt
\* that had been given up (TcpClient.cpp:60).
LabelFollowsLink ==
  signals = <<>> /\ ~misled => (label = "connected" <=> Live)

\* stopClientLoop ends, whatever is connected, being tried or waiting, if only the io
\* thread has made work_guard_, and although that thread may undo the stop()
\* (client_lib.cpp:66-67, 75-83).  Only the callback of a connection closed after
\* ui was deleted comes in the way.
ExitReturns ==
  gui = "reset" /\ work_guard # "null" ~> gui = "quit" \/ (gui = "broken" /\ ~window)

=============================================================================
