-------------------------- MODULE GuiClientProofs --------------------------
(***************************************************************************)
(* Proofs about the window of the Qt client, for any number of commands,   *)
(* drops of the network and signals.                                       *)
(*                                                                         *)
(* The types of the connection are those that TcpClientProofs keeps: each  *)
(* step of the window is a step of TcpClient, or none of its business,     *)
(* but for the disconnect at the exit, which is no command of the user.    *)
(* LabelFollowsLink is about the moments when no signal waits.  What every *)
(* step keeps is the same of the last signal that waits (Truthful), and    *)
(* that a connection made is handled before anything else (MadeFirst).     *)
(* The table of pushes has no step in common with that; its proof is last. *)
(***************************************************************************)
EXTENDS GuiClient, PushList, TcpClientProofs

GoodConnects == {c \in Completion : c.op = "connect" /\ c.ok}

Signal == {"connected", "disconnected"}

\* What the label shows once the signals have been handled.
Finally(text, queue) == IF queue = <<>> THEN text ELSE Last(queue)

ThreadsTyped ==
  /\ io \in {"none", "starting", "guarded", "running", "ended"}
  /\ work_guard \in {"null", "owned", "released"}
  /\ io \in {"guarded", "running"} => work_guard # "null"
  /\ stopped \in BOOLEAN

WindowTyped ==
  /\ misled \in BOOLEAN /\ window \in BOOLEAN
  /\ gui \in {"loop", "reset", "disconnect", "stop", "join", "quit", "broken"}
  /\ label \in Signal /\ signals \in Seq(Signal)

MadeFirst == NoneOf(ready, GoodConnects)

Truthful == ~misled => (Finally(label, signals) = "connected" <=> Live)

GuiInv == Typed /\ ThreadsTyped /\ WindowTyped /\ MadeFirst /\ Truthful

-----------------------------------------------------------------------------
(* Types. *)

LEMMA GuiInitTyped == GuiInit => Typed /\ ThreadsTyped /\ WindowTyped
BY TypedInit, EmptySeq DEF GuiInit, ThreadsTyped, WindowTyped, Signal

\* ~ClientApp and the exit button close the connection without a command.
LEMMA ExitTyped == Typed /\ ExitDisconnect => Typed'
<1> SUFFICES ASSUME Typed, ExitDisconnect PROVE Typed'
  OBVIOUS
<1> USE DEF Typed
<1>0. CloseIfConnected /\ UNCHANGED <<ui, commands>>
  BY DEF ExitDisconnect
<1>1. SocketTyped'
  BY <1>0, ClosedTyped DEF CloseIfConnected, SocketTyped, socket_vars
<1>2. QueueTyped'
  <2>1. UNCHANGED taken /\ (UNCHANGED ready \/ ready' = ready \o Aborted)
    BY <1>0 DEF CloseIfConnected, closeConnection
  <2> HIDE DEF Completion
  <2> QED BY <2>1, QueueIsTyped, AbortedHolds, ConcatProperties DEF QueueTyped
<1>3. CountsTyped'
  BY <1>0 DEF CloseIfConnected, CountsTyped, net_vars
<1>4. BooleansTyped'
  BY <1>0 DEF CloseIfConnected, closeConnection, BooleansTyped, net_vars, socket_vars
<1> QED BY <1>1, <1>2, <1>3, <1>4

\* What the window and its threads do to the connection, TcpClient does.
LEMMA GuiStep == GuiNext => [Next]_vars \/ ExitDisconnect
BY DEF GuiNext, ClickConnect, FinishConnect, ClickDisconnect, HandleSignal, Exit,
       StopClientLoop, ResetGuard, StopLoop, Joined, CreateGuard, EnterRun, LeaveRun,
       RunHandler, Await, OutsideStep, Next, User, Reactor, Handle

LEMMA ConnectionTyped == Typed /\ [GuiNext]_gui_vars => Typed'
<1>1. UNCHANGED gui_vars => UNCHANGED vars
  BY DEF gui_vars
<1> QED BY <1>1, GuiStep, TypedNext, ExitTyped

LEMMA ThreadsTypedNext == ThreadsTyped /\ [GuiNext]_gui_vars => ThreadsTyped'
<1> SUFFICES ASSUME ThreadsTyped, [GuiNext]_gui_vars PROVE ThreadsTyped'
  OBVIOUS
<1> USE DEF ThreadsTyped, thread_vars
<1>1. CASE ClickConnect \/ FinishConnect \/ ClickDisconnect \/ HandleSignal \/ Exit
  BY <1>1 DEF ClickConnect, FinishConnect, ClickDisconnect, HandleSignal, Exit
<1>2. CASE StopClientLoop
  BY <1>2 DEF StopClientLoop, ResetGuard, ExitDisconnect, StopLoop, Joined
<1>3. CASE CreateGuard \/ EnterRun \/ LeaveRun
  BY <1>3 DEF CreateGuard, EnterRun, LeaveRun
<1>4. CASE RunHandler \/ Await \/ OutsideStep \/ UNCHANGED gui_vars
  BY <1>4 DEF RunHandler, Await, OutsideStep, gui_vars
<1> QED BY <1>1, <1>2, <1>3, <1>4 DEF GuiNext

LEMMA WindowTypedNext == WindowTyped /\ [GuiNext]_gui_vars => WindowTyped'
<1> SUFFICES ASSUME WindowTyped, [GuiNext]_gui_vars PROVE WindowTyped'
  OBVIOUS
<1> USE DEF WindowTyped, window_vars
<1>0. \A signal \in Signal : Append(signals, signal) \in Seq(Signal)
  OBVIOUS
<1>1. CASE UNCHANGED window_vars
  BY <1>1
<1>2. CASE FinishConnect
  <2>1. UNCHANGED <<gui, window, label, signals>> /\ misled' \in BOOLEAN
    BY <1>2 DEF FinishConnect, NoSignal, NoSignalOfClosing
  <2> QED BY <2>1
<1>3. ASSUME HandleAtOnce PROVE /\ label' \in Signal /\ UNCHANGED signals
                                /\ misled' \in BOOLEAN
  BY <1>3 DEF HandleAtOnce, Signal
<1>4. CASE ClickDisconnect \/ ExitDisconnect
  BY <1>3, <1>4 DEF ClickDisconnect, ExitDisconnect
<1>5. CASE HandleSignal
  <2>1. Head(signals) \in Signal /\ Tail(signals) \in Seq(Signal)
    BY <1>5, HeadTailProperties DEF HandleSignal
  <2> QED BY <1>5, <2>1 DEF HandleSignal
<1>6. CASE Exit \/ ResetGuard \/ StopLoop \/ Joined
  BY <1>6 DEF Exit, ResetGuard, StopLoop, Joined
<1>7. CASE RunHandler
  <2>1. UNCHANGED <<gui, window>>
    BY <1>7 DEF RunHandler
  <2>2. CASE Emit("connected") \/ Emit("disconnected")
    BY <1>0, <2>1, <2>2 DEF Emit, Signal
  <2>3. CASE NoSignal \/ NoSignalOfClosing
    BY <2>1, <2>3 DEF NoSignal, NoSignalOfClosing
  <2> QED BY <1>7, <2>2, <2>3 DEF RunHandler
<1> QED BY <1>1, <1>2, <1>4, <1>5, <1>6, <1>7
        DEF GuiNext, StopClientLoop, ClickConnect, CreateGuard, EnterRun, LeaveRun, Await,
            OutsideStep, gui_vars

-----------------------------------------------------------------------------
(* A connection made is handled first. *)

LEMMA GoodConnectsRead ==
  /\ \A q : NoneOf(q, Readers) => NoneOf(q, GoodConnects)
  /\ \A c \in Completion : c \in GoodConnects <=> c.op = "connect" /\ c.ok
BY DEF NoneOf, Readers, GoodConnects

\* A completion that waits behind the handlers is never a connection made: those of
\* operations aborted have failed, and reads and timers are no connections.
LEMMA MadeFirstNext ==
  ASSUME Typed, MadeFirst, [Next]_vars \/ CloseIfConnected
  PROVE  MadeFirst'
<1> USE DEF Typed, MadeFirst
<1> DEFINE G == GoodConnects
<1>0. /\ ready \in Seq(Completion) /\ NoneOf(ready, G)
      /\ Aborted \in Seq(Completion) /\ NoneOf(Aborted, G)
  BY QueueIsTyped, AbortedHolds, GoodConnectsRead
<1>1. ASSUME taken # <<>> \/ ready # <<>>
      PROVE  Rest \in Seq(Completion) /\ NoneOf(Rest, G)
  <2> HIDE DEF Completion, G
  <2>1. CASE taken # <<>>
    BY <1>0, <2>1 DEF Rest
  <2>2. CASE taken = <<>>
    BY <1>0, <1>1, <2>2, TailElements, NoneOfTail DEF Rest
  <2> QED BY <2>1, <2>2
<1>2. ASSUME NEW q \in Seq(Completion), NoneOf(q, G) PROVE NoneOf(q \o Aborted, G)
  <2> HIDE DEF Completion, G
  <2> QED BY <1>0, <1>2, NoneOfConcat
<1>3. ASSUME NEW q \in Seq(Completion), NoneOf(q, G), NEW c \in Completion, c \notin G
      PROVE  NoneOf(Append(q, c), G)
  <2> HIDE DEF Completion, G
  <2>1. <<c>> \in Seq(Completion)
    OBVIOUS
  <2>2. NoneOf(<<c>>, G)
    BY <1>3, NoneOfSingle
  <2>3. Append(q, c) = q \o <<c>>
    BY AppendIsConcat
  <2>4. NoneOf(q \o <<c>>, G)
    BY <1>3, <2>1, <2>2, NoneOfConcat
  <2> QED BY <2>3, <2>4
<1>4. ASSUME NEW ok \in BOOLEAN, NEW op \in {"read", "write", "timer"}
      PROVE  Done(op, 0, ok) \in Completion /\ Done(op, 0, ok) \notin G
  <2>1. 0 \in 0 .. NEndpoints
    BY EndpointAssumption
  <2> QED BY <2>1 DEF Done, Completion, GoodConnects
<1> HIDE DEF G
<1>5. CASE UNCHANGED ready
  BY <1>5 DEF G
<1>6. CASE StartConnect \/ CloseIfConnected
  BY <1>0, <1>2, <1>6 DEF StartConnect, doConnect, ConnectTo, CloseIfConnected,
     closeConnection, socket_vars, G
<1>7. CASE PerformRead \/ PerformWrite \/ TimerExpires
  <2>1. \/ UNCHANGED ready
        \/ \E op \in {"read", "write", "timer"}, ok \in BOOLEAN :
             ready' = Append(ready, Done(op, 0, ok))
    BY <1>7 DEF PerformRead, PerformWrite, TimerExpires
  <2> QED BY <1>0, <1>3, <1>4, <2>1 DEF G
<1>8. CASE Handle
  <2>1. taken # <<>> \/ ready # <<>>
    BY <1>8 DEF Handle, RunConnected, RunConnectNext, RunConnectError, RunRead,
       RunReadError, RunReadAborted, RunWrite, RunTimer, Handling
  <2>2. \/ ready' = Rest \/ ready' = Rest \o Aborted
        \/ ready' = Append(Rest, Done("read", 0, FALSE))
    BY <1>8 DEF Handle, RunConnected, RunConnectNext, RunConnectError, RunRead,
       RunReadError, RunReadAborted, RunWrite, RunTimer, doConnect, ConnectTo,
       closeConnection
  <2> QED BY <1>1, <1>2, <1>3, <1>4, <2>1, <2>2 DEF G
<1> QED BY <1>5, <1>6, <1>7, <1>8
        DEF Next, User, Network, Reactor, vars, Connect, Resolve, Login, Send, Disconnect,
            ServerChanges, LinkBreaks, PerformConnect

-----------------------------------------------------------------------------
(* The label. *)

LEMMA LiveMeans ==
  Typed => (Live <=> /\ link \in {"up", "lost"}
                     /\ NoneOf(taken, GoodConnects) /\ NoneOf(ready, GoodConnects))
<1> SUFFICES ASSUME Typed
             PROVE  Live <=> /\ link \in {"up", "lost"}
                             /\ NoneOf(taken, GoodConnects) /\ NoneOf(ready, GoodConnects)
  OBVIOUS
<1>1. taken \in Seq(Completion) /\ ready \in Seq(Completion)
  BY QueueIsTyped DEF Typed
<1>2. /\ \A i \in DOMAIN taken : taken[i] \in Completion
      /\ \A i \in DOMAIN ready : ready[i] \in Completion
  <2> HIDE DEF Completion
  <2> QED BY <1>1, LenProperties, ElementOfSeq
<1> QED BY <1>2 DEF Live, NoneOf, GoodConnects

LEMMA SingleMade ==
  \A c : NoneOf(<<c>>, GoodConnects) <=> c \notin GoodConnects
BY NoneOfSingle

\* The slot of the first signal sets the label to what it says,
LEMMA SlotTaken ==
  ASSUME NEW s \in Seq(Signal), s # <<>>, NEW text
  PROVE  Finally(Head(s), Tail(s)) = Finally(text, s)
<1>1. /\ Len(Tail(s)) = Len(s) - 1 /\ Len(s) \in Nat \ {0} /\ Head(s) = s[1]
      /\ Tail(s) \in Seq(Signal)
      /\ \A i \in 1 .. Len(Tail(s)) : Tail(s)[i] = s[i + 1]
  BY HeadTailProperties, EmptySeq, LenProperties
<1>2. CASE Len(s) = 1
  <2>0. Len(Tail(s)) = 0
    BY <1>1, <1>2
  <2>1. Tail(s) = <<>>
    BY <1>1, <2>0, EmptySeq
  <2> QED BY <1>1, <1>2, <2>1 DEF Finally, Last
<1>3. CASE Len(s) > 1
  <2>0. Len(Tail(s)) # 0
    BY <1>1, <1>3
  <2>1. Tail(s) # <<>>
    BY <1>1, <2>0, EmptySeq
  <2>2. Len(s) - 1 \in 1 .. Len(Tail(s)) /\ (Len(s) - 1) + 1 = Len(s)
    BY <1>1, <1>3
  <2>3. Tail(s)[Len(s) - 1] = s[Len(s)]
    BY <1>1, <2>2
  <2> QED BY <1>1, <2>1, <2>3 DEF Finally, Last
<1> QED BY <1>1, <1>2, <1>3

\* and a signal that is emitted has the last word.
LEMMA SignalQueued ==
  ASSUME NEW s \in Seq(Signal), NEW x \in Signal, NEW text
  PROVE  Finally(text, Append(s, x)) = x
<1>1. /\ Append(s, x) \in Seq(Signal) /\ Len(Append(s, x)) = Len(s) + 1
      /\ Append(s, x)[Len(s) + 1] = x /\ Len(s) \in Nat
  BY AppendProperties, LenProperties
<1>2. Append(s, x) # <<>>
  BY <1>1, EmptySeq
<1> QED BY <1>1, <1>2 DEF Finally, Last

\* Most steps leave things as they are: the network may break the connection, the
\* reactor take what is not a connection made, a handler what tells nothing.
LEMMA LiveKept ==
  ASSUME Typed, Typed', MadeFirst, MadeFirst',
         \/ UNCHANGED <<link, taken>> \/ (Network /\ UNCHANGED taken)
         \/ PerformConnect \/ PerformRead \/ TimerExpires
         \/ RunConnectError \/ RunRead \/ RunReadAborted
  PROVE  Live' <=> Live
<1>1. Live <=> link \in {"up", "lost"} /\ NoneOf(taken, GoodConnects)
  BY LiveMeans DEF MadeFirst
<1>2. Live' <=> link' \in {"up", "lost"} /\ NoneOf(taken', GoodConnects)
  <2>1. (Typed => (Live <=> /\ link \in {"up", "lost"}
                            /\ NoneOf(taken, GoodConnects)
                            /\ NoneOf(ready, GoodConnects)))'
    BY LiveMeans, PTL
  <2> QED BY <2>1 DEF MadeFirst
<1>3. taken = <<>> => NoneOf(taken, GoodConnects)
  BY NoneOfEmpty
<1>4. CASE UNCHANGED <<link, taken>>
  BY <1>1, <1>2, <1>4
<1>5. CASE Network /\ UNCHANGED taken
  BY <1>1, <1>2, <1>5 DEF Network, ServerChanges, LinkBreaks
<1>6. CASE PerformConnect
  <2>1. PICK ok \in {server_up /\ connecting = NEndpoints, FALSE} :
          /\ link' = IF ok THEN "up" ELSE "failed"
          /\ taken' = <<Done("connect", connecting, ok)>>
    BY <1>6 DEF PerformConnect
  <2>2. link = "connecting" /\ ok \in BOOLEAN /\ connecting \in 0 .. NEndpoints
    BY <1>6, <2>1 DEF PerformConnect, Typed, SocketTyped, BooleansTyped
  <2>3. CASE ok
    <3>1. Done("connect", connecting, ok) \in GoodConnects
      BY <2>2, <2>3 DEF Done, Completion, GoodConnects
    <3>2. ~NoneOf(taken', GoodConnects)
      BY <2>1, <3>1, SingleMade
    <3> QED BY <1>1, <1>2, <2>2, <3>2
  <2>4. CASE ~ok
    BY <1>1, <1>2, <2>1, <2>2, <2>4
  <2> QED BY <2>3, <2>4
<1>7. CASE PerformRead
  <2>1. /\ UNCHANGED link /\ taken = <<>>
        /\ UNCHANGED taken \/ \E ok : taken' = <<Done("read", 0, ok)>>
    BY <1>7 DEF PerformRead, Perform
  <2>2. \A ok : Done("read", 0, ok) \notin GoodConnects
    BY DEF Done, GoodConnects
  <2>3. NoneOf(taken, GoodConnects) /\ NoneOf(taken', GoodConnects)
    BY <1>3, <2>1, <2>2, SingleMade
  <2> QED BY <1>1, <1>2, <2>1, <2>3
<1>8. CASE TimerExpires
  BY <1>1, <1>2, <1>8 DEF TimerExpires, socket_vars
\* A handler takes a completion that is no connection made, or the socket is closed.
<1>9. ASSUME UNCHANGED link, taken' = <<>>,
             link \notin {"up", "lost"} \/ Current \notin GoodConnects
      PROVE  Live' <=> Live
  <2>1. NoneOf(taken', GoodConnects)
    BY <1>9, NoneOfEmpty
  <2>2. CASE link \notin {"up", "lost"}
    BY <1>1, <1>2, <1>9, <2>2
  <2>3. CASE Current \notin GoodConnects
    <3>1. NoneOf(taken, GoodConnects)
      <4>1. CASE taken = <<>>
        BY <1>3, <4>1
      <4>2. ASSUME NEW c, taken = <<c>> PROVE NoneOf(taken, GoodConnects)
        <5>1. taken # <<>> /\ taken[1] = c
          BY <4>2
        <5>2. Current = c
          BY <5>1 DEF Current
        <5> QED BY <2>3, <4>2, <5>2, SingleMade
      <4> QED BY <4>1, <4>2 DEF Typed, QueueTyped
    <3> QED BY <1>1, <1>2, <1>9, <2>1, <3>1
  <2> QED BY <1>9, <2>2, <2>3
<1>10. CASE RunConnectError
  <2>1. UNCHANGED <<open, link>> /\ taken' = <<>> /\ (~open \/ ~Current.ok)
    BY <1>10 DEF RunConnectError, Connected, socket_vars
  <2>2. link \notin {"up", "lost"} \/ Current \notin GoodConnects
    BY <2>1 DEF Typed, SocketTyped, GoodConnects
  <2> QED BY <1>9, <2>1, <2>2
<1>11. CASE RunRead \/ RunReadAborted
  <2>1. UNCHANGED link /\ taken' = <<>>
    BY <1>11 DEF RunRead, RunReadAborted, socket_vars
  <2>2. Current.op \in {"read", "readAborted"}
    BY <1>11 DEF RunRead, RunReadAborted, Handling, Current
  <2>3. Current \notin GoodConnects
    BY <2>2 DEF GoodConnects
  <2> QED BY <1>9, <2>1, <2>3
<1> QED BY <1>4, <1>5, <1>6, <1>7, <1>8, <1>10, <1>11

\* Each step keeps what the label will finally show true, or says that it misleads.
LEMMA TruthfulNext ==
  ASSUME GuiInv, Typed', MadeFirst', [GuiNext]_gui_vars
  PROVE  Truthful'
<1> USE DEF GuiInv, Truthful
<1> DEFINE Shows == Finally(label, signals) = "connected"
<1>0. Typed /\ MadeFirst /\ signals \in Seq(Signal) /\ (~misled => (Shows <=> Live))
  BY DEF WindowTyped
<1>1. ASSUME link' \notin {"up", "lost"} PROVE ~Live'
  BY <1>1 DEF Live
<1>2. ASSUME Live' <=> Live, UNCHANGED <<label, signals, misled>> PROVE Truthful'
  BY <1>0, <1>2
<1>3. ASSUME NoSignalOfClosing, link' = "connecting" PROVE Truthful'
  <2>1. ~Live' /\ UNCHANGED <<label, signals>> /\ misled' = (misled \/ Live)
    BY <1>1, <1>3 DEF NoSignalOfClosing
  <2> QED BY <1>0, <2>1
<1>4. ASSUME NoSignalOfClosing, UNCHANGED <<link, taken>>, link # "connecting" \/ ~Live
      PROVE  Truthful'
  <2>1. Live' <=> Live
    BY <1>0, <1>4, LiveKept
  <2>2. UNCHANGED <<label, signals>> /\ misled' = (misled \/ FALSE)
    BY <1>4 DEF NoSignalOfClosing
  <2> QED BY <1>0, <2>1, <2>2
<1>5. ASSUME CloseIfConnected, HandleAtOnce PROVE Truthful'
  <2>1. CASE isConnected
    <3>1. link' = "none" /\ ~Live'
      BY <1>1, <1>5, <2>1 DEF CloseIfConnected, closeConnection
    <3>2. /\ label' = "disconnected" /\ UNCHANGED signals
          /\ misled' = (signals # <<>> /\ Last(signals) = "connected")
      BY <1>5, <2>1 DEF HandleAtOnce
    <3> QED BY <3>1, <3>2 DEF Finally
  <2>2. CASE ~isConnected
    <3>1. UNCHANGED <<link, taken>> /\ UNCHANGED <<label, signals, misled>>
      BY <1>5, <2>2 DEF CloseIfConnected, HandleAtOnce, socket_vars
    <3>2. Live' <=> Live
      BY <1>0, <3>1, LiveKept
    <3> QED BY <1>2, <3>1, <3>2
  <2> QED BY <2>1, <2>2
<1>6. CASE UNCHANGED <<link, taken>> /\ UNCHANGED <<label, signals, misled>>
  <2>1. Live' <=> Live
    BY <1>0, <1>6, LiveKept
  <2> QED BY <1>2, <1>6, <2>1
<1>7. CASE FinishConnect
  <2>1. CASE Resolve /\ NoSignal
    BY <1>6, <2>1 DEF Resolve, NoSignal, socket_vars
  <2>2. CASE StartConnect /\ NoSignalOfClosing
    <3>1. CASE last_op_success
      BY <1>3, <2>2, <3>1 DEF StartConnect, doConnect, ConnectTo
    <3>2. CASE ~last_op_success
      <4>1. UNCHANGED <<link, taken>>
        BY <2>2, <3>2 DEF StartConnect, socket_vars
      <4>2. link # "connecting" \/ ~Live
        BY DEF Live
      <4> QED BY <1>4, <2>2, <4>1, <4>2
    <3> QED BY <3>1, <3>2
  <2> QED BY <1>7, <2>1, <2>2 DEF FinishConnect
<1>8. CASE ClickDisconnect \/ ExitDisconnect
  BY <1>5, <1>8 DEF ClickDisconnect, ExitDisconnect, Disconnect
<1>9. CASE HandleSignal
  <2>1. /\ signals # <<>> /\ label' = Head(signals) /\ signals' = Tail(signals)
        /\ UNCHANGED <<link, taken, misled>>
    BY <1>9 DEF HandleSignal, vars, socket_vars
  <2>2. Finally(label', signals') = Finally(label, signals)
    BY <1>0, <2>1, SlotTaken
  <2>3. Live' <=> Live
    BY <1>0, <2>1, LiveKept
  <2> QED BY <1>0, <2>1, <2>2, <2>3
<1>10. CASE RunConnected /\ Emit("connected")
  <2>1. Handling("connect") /\ Current.ok /\ taken' = <<>> /\ UNCHANGED link
    BY <1>10 DEF RunConnected, Connected
  <2>2. ~misled' => link' \in {"up", "lost"}
    BY <1>10, <2>1 DEF Emit
  <2>3. Live' <=> link' \in {"up", "lost"}
    <3>1. (Typed => (Live <=> /\ link \in {"up", "lost"}
                              /\ NoneOf(taken, GoodConnects)
                              /\ NoneOf(ready, GoodConnects)))'
      BY LiveMeans, PTL
    <3>2. NoneOf(taken', GoodConnects)
      BY <2>1, NoneOfEmpty
    <3> QED BY <3>1, <3>2 DEF MadeFirst
  <2>4. Finally(label', signals') = "connected"
    BY <1>0, <1>10, SignalQueued DEF Emit, Signal
  <2> QED BY <2>2, <2>3, <2>4
<1>11. CASE RunReadError /\ Emit("disconnected")
  <2>1. ~Live'
    BY <1>1, <1>11 DEF RunReadError, closeConnection
  <2>2. Finally(label', signals') = "disconnected"
    BY <1>0, <1>11, SignalQueued DEF Emit, Signal
  <2> QED BY <2>1, <2>2
<1>12. CASE RunTimer /\ NoSignalOfClosing
  BY <1>3, <1>12 DEF RunTimer, doConnect, ConnectTo
<1>13. CASE (RunConnectError \/ RunRead \/ RunReadAborted) /\ NoSignal
  <2>1. Live' <=> Live
    BY <1>0, <1>13, LiveKept
  <2> QED BY <1>2, <1>13, <2>1 DEF NoSignal
<1>14. CASE RunHandler
  BY <1>10, <1>11, <1>12, <1>13, <1>14 DEF RunHandler
<1>15. CASE Await
  <2>1. Live' <=> Live
    BY <1>0, <1>15, LiveKept DEF Await
  <2> QED BY <1>2, <1>15, <2>1 DEF Await, window_vars
<1>16. CASE OutsideStep
  <2>1. UNCHANGED taken
    BY <1>16 DEF OutsideStep, Network, ServerChanges, LinkBreaks
  <2>2. Live' <=> Live
    BY <1>0, <1>16, <2>1, LiveKept DEF OutsideStep
  <2> QED BY <1>2, <1>16, <2>2 DEF OutsideStep, window_vars
<1>17. CASE \/ ClickConnect \/ Exit \/ ResetGuard \/ StopLoop \/ Joined
            \/ CreateGuard \/ EnterRun \/ LeaveRun \/ UNCHANGED gui_vars
  BY <1>6, <1>17 DEF ClickConnect, Connect, Exit, ResetGuard, StopLoop, Joined, CreateGuard,
     EnterRun, LeaveRun, gui_vars, window_vars, vars, socket_vars
<1> QED BY <1>7, <1>8, <1>9, <1>14, <1>15, <1>16, <1>17 DEF GuiNext, StopClientLoop

-----------------------------------------------------------------------------
LEMMA GuiInvInit == GuiInit => GuiInv
<1> SUFFICES ASSUME GuiInit PROVE GuiInv
  OBVIOUS
<1>1. Typed /\ ThreadsTyped /\ WindowTyped
  BY GuiInitTyped
<1>2. link = "none" /\ label = "disconnected" /\ signals = <<>> /\ ready = <<>>
  BY DEF GuiInit, Init
<1>3. MadeFirst
  BY <1>2, NoneOfEmpty DEF MadeFirst
<1>4. Truthful
  BY <1>2 DEF Truthful, Finally, Live
<1> QED BY <1>1, <1>3, <1>4 DEF GuiInv

LEMMA GuiInvNext == GuiInv /\ [GuiNext]_gui_vars => GuiInv'
<1> SUFFICES ASSUME GuiInv, [GuiNext]_gui_vars PROVE GuiInv'
  OBVIOUS
<1>1. Typed' /\ ThreadsTyped' /\ WindowTyped'
  BY ConnectionTyped, ThreadsTypedNext, WindowTypedNext DEF GuiInv
<1>2. MadeFirst'
  <2>1. [Next]_vars \/ CloseIfConnected
    <3>1. UNCHANGED gui_vars => UNCHANGED vars
      BY DEF gui_vars
    <3>2. ExitDisconnect => CloseIfConnected
      BY DEF ExitDisconnect
    <3> QED BY <3>1, <3>2, GuiStep
  <2> QED BY <2>1, MadeFirstNext DEF GuiInv
<1>3. Truthful'
  BY <1>1, <1>2, TruthfulNext
<1> QED BY <1>1, <1>2, <1>3 DEF GuiInv

LEMMA GuiInvariant == GuiSpec => []GuiInv
BY GuiInvInit, GuiInvNext, PTL DEF GuiSpec

\* No state is illegal, and run() is only entered with the work_guard_ that the io
\* thread itself makes (client_lib.cpp:75-83).
THEOREM WindowTypeCorrect == GuiSpec => []GuiTypeOK
<1>1. GuiInv => GuiTypeOK
  BY TypedIsTypeOK DEF GuiInv, ThreadsTyped, WindowTyped, GuiTypeOK, Signal
<1> QED BY <1>1, GuiInvariant, PTL

\* Whatever the order of clicks, handlers, queued signals and breaks, the label shows
\* whether there is a connection, but after the three steps that mislead it
\* (mainwindow.cpp:56, TcpClient.cpp:60).
THEOREM LabelShowsLink == GuiSpec => []LabelFollowsLink
<1>1. GuiInv => LabelFollowsLink
  BY DEF GuiInv, Truthful, Finally, LabelFollowsLink
<1> QED BY <1>1, GuiInvariant, PTL

-----------------------------------------------------------------------------
(* The table of pushes. *)

Word == Boxes(PriorityColumn) \cup Boxes(CategoryColumn) \cup {"Source1", "Source3"}
Row == {row \in [1 .. 3 -> Word] : \A column \in Columns : row[column] \in Boxes(column)}

Shown(column) == checked \cap Boxes(column)

\* A filter is what is checked in its column, and not empty.  A column without a
\* filter has all its boxes checked, if none was ever clicked, or else none.
FilterOK(column) ==
  IF column \in DOMAIN filters
  THEN filters[column] = Shown(column) /\ Shown(column) # {}
  ELSE Shown(column) \in {{}, Boxes(column)}

ListInv ==
  /\ rows \in Seq(Row)
  /\ DOMAIN filters \subseteq Columns
  /\ \A column \in Columns : FilterOK(column)

\* The words the table shows in the columns with boxes are words on the boxes.
LEMMA RowOfPush ==
  ASSUME NEW p \in Enumerator, NEW c \in Enumerator, NEW s \in Enumerator
  PROVE  <<pushPriorityToString(p), pushCategoryToString(c), pushSourceToString(s)>>
           \in Row
<1>1. /\ pushPriorityToString(p) \in Boxes(PriorityColumn)
      /\ pushCategoryToString(c) \in Boxes(CategoryColumn)
      /\ pushSourceToString(s) \in Word
  BY DEF Enumerator, pushPriorityToString, pushCategoryToString, pushSourceToString,
         Boxes, Word, PriorityColumn, CategoryColumn
<1> QED BY <1>1 DEF Row, Word, Columns, PriorityColumn, CategoryColumn

LEMMA ListInvInit == ListInit => ListInv
<1> SUFFICES ASSUME ListInit PROVE ListInv
  OBVIOUS
<1>1. rows \in Seq(Row) /\ DOMAIN filters = {}
  BY DEF ListInit
<1>2. \A column \in Columns : Shown(column) = Boxes(column)
  BY DEF ListInit, Shown, Columns
<1> QED BY <1>1, <1>2 DEF ListInv, FilterOK

\* A click changes the filter of its own column only, to what is checked there now.
LEMMA ClickListInv ==
  ASSUME ListInv, NEW column \in Columns, NEW box \in Boxes(column), updateFilter(column, box)
  PROVE  ListInv'
<1>1. /\ rows' = rows
      /\ checked' = IF box \in checked THEN checked \ {box} ELSE checked \cup {box}
      /\ setColumnFilter(column, Shown(column)')
  BY DEF updateFilter, Shown
<1>2. ASSUME NEW other \in Columns, other # column
      PROVE  Shown(other)' = Shown(other)
  <2>1. box \notin Boxes(other)
    BY <1>2 DEF Columns, Boxes, PriorityColumn, CategoryColumn
  <2> QED BY <1>1, <2>1 DEF Shown
<1>3. CASE Shown(column)' = {}
  <2>1. filters' = [c \in DOMAIN filters \ {column} |-> filters[c]]
    BY <1>1, <1>3 DEF setColumnFilter
  <2>2. DOMAIN filters' = DOMAIN filters \ {column}
    BY <2>1
  <2>3. \A c \in DOMAIN filters' : filters'[c] = filters[c]
    BY <2>1
  <2> QED BY <1>1, <1>2, <1>3, <2>2, <2>3 DEF ListInv, FilterOK
<1>4. CASE Shown(column)' # {}
  <2>1. filters' = [c \in DOMAIN filters \cup {column} |->
                      IF c = column THEN Shown(column)' ELSE filters[c]]
    BY <1>1, <1>4 DEF setColumnFilter
  <2>2. DOMAIN filters' = DOMAIN filters \cup {column}
    BY <2>1
  <2>3. \A c \in DOMAIN filters' :
          filters'[c] = IF c = column THEN Shown(column)' ELSE filters[c]
    BY <2>1
  <2> QED BY <1>1, <1>2, <1>4, <2>2, <2>3 DEF ListInv, FilterOK
<1> QED BY <1>3, <1>4

LEMMA ListInvNext == ListInv /\ [ListNext]_list_vars => ListInv'
<1> SUFFICES ASSUME ListInv, [ListNext]_list_vars PROVE ListInv'
  OBVIOUS
<1>1. ASSUME NEW p \in Enumerator, NEW c \in Enumerator, NEW s \in Enumerator,
             handlePushReceived(p, c, s)
      PROVE  ListInv'
  <2>1. rows' \in Seq(Row) /\ UNCHANGED <<checked, filters>>
    BY <1>1, RowOfPush DEF handlePushReceived, ListInv
  <2> QED BY <2>1 DEF ListInv, FilterOK, Shown
<1>2. CASE UNCHANGED list_vars
  BY <1>2 DEF list_vars, ListInv, FilterOK, Shown
<1> QED BY <1>1, <1>2, ClickListInv DEF ListNext

LEMMA ListInvShows == ListInv => FilterIsBoxes
<1> SUFFICES ASSUME ListInv, NEW i \in DOMAIN rows
             PROVE  filterAcceptsRow(rows[i]) <=>
                      \A column \in Columns : Shown(column) # {} => rows[i][column] \in checked
  BY DEF FilterIsBoxes, Shown
<1>1. \A column \in Columns : rows[i][column] \in Boxes(column)
  BY DEF ListInv, Row
<1>2. ASSUME NEW column \in DOMAIN filters
      PROVE  rows[i][column] \in filters[column] <=> rows[i][column] \in checked
  BY <1>1 DEF ListInv, FilterOK, Shown
<1>3. ASSUME NEW column \in Columns, column \notin DOMAIN filters, Shown(column) # {}
      PROVE  rows[i][column] \in checked
  BY <1>1, <1>3 DEF ListInv, FilterOK, Shown
<1>4. \A column \in DOMAIN filters : column \in Columns /\ Shown(column) # {}
  BY DEF ListInv, FilterOK
<1> QED BY <1>2, <1>3, <1>4 DEF filterAcceptsRow

\* However often boxes are clicked and pushes arrive, the table shows exactly what
\* the boxes say.
THEOREM TableFollowsBoxes == ListSpec => []FilterIsBoxes
BY ListInvInit, ListInvNext, ListInvShows, PTL DEF ListSpec

=============================================================================
