------------------------- MODULE ConsoleClientProofs -------------------------
(***************************************************************************)
(* Proofs about the console client, for any number of pushes, commands and *)
(* failures of the connection.                                             *)
(*                                                                         *)
(* The inductive invariant is Inv.  Printing rests on PopsAreLegal: the    *)
(* show thread takes from a queue later than it tests it, and what keeps   *)
(* that legal is that nobody else takes from the queues, clear() apart.    *)
(* The history rests on LastEmptyUntilWiped: the io thread wipes the last  *)
(* history without the lock, and loses nothing because only that thread    *)
(* adds to it.                                                             *)
(***************************************************************************)
EXTENDS ConsoleClient, SequenceTheorems, TLAPS

Labels == HandlerLabels \cup
  {"idle", "append", "ended", "prompt", "command", "connect", "endpoint",
   "resolving", "resolved", "unresolved", "close", "closing", "loading", "drop",
   "empty", "join",
   "loop", "msgs", "anymsg", "popmsg", "pushes", "front", "pop", "broken"}

Threads == {"io", "ui", "show"}

PcTyped ==
  /\ pc \in [Threads -> Labels]
  /\ pc.io \in HandlerLabels \cup {"idle", "append", "ended"}
  /\ pc.ui \in HandlerLabels \cup {"prompt", "command", "connect", "endpoint",
                                   "resolving", "resolved", "unresolved", "close",
                                   "closing", "loading", "drop", "empty", "join",
                                   "ended"}
  /\ pc.show \in {"loop", "msgs", "anymsg", "popmsg", "pushes", "front", "pop", "ended",
                  "broken"}

CallbackTyped ==
  /\ callback \in {"none", "connected", "disconnected", "reconnect"}
  /\ callback = "none" <=> pc.io \in {"idle", "append", "ended"}

QueuesTyped ==
  /\ push_queue \in Seq(Pushes) /\ msg_queue \in Nat
  /\ arrived \in Seq(Pushes) /\ shown \in Seq(Pushes)
  /\ received \in 0 .. MaxPushes

HistoriesTyped ==
  /\ session_last_history \in Seq(Pushes)
  /\ session_full_history \in Seq(Pushes)
  /\ temp \in [{"io", "ui"} -> Seq(Pushes)]
  /\ since \in Seq(Pushes)

FlagsTyped ==
  /\ is_connected \in BOOLEAN /\ show_pushes \in BOOLEAN /\ show_msg \in BOOLEAN
  /\ running \in BOOLEAN /\ cutIn \in BOOLEAN /\ unheard \in BOOLEAN

NetFlagsTyped ==
  /\ timer \in BOOLEAN /\ shouldReconnect \in BOOLEAN /\ last_op_success \in BOOLEAN
  /\ reconnect_count \in Nat

LateKinds == {"data", "error", "aborted", "failed"}

LinkTyped ==
  /\ link \in {"down", "failed", "connecting", "up"} /\ late \in Seq(LateKinds)
  /\ cmd \in Commands \cup {"none", "list"}

\* Between swap and insert only does a thread hold a history.
TempHeld == \A t \in {"io", "ui"} : temp[t] # <<>> => pc[t] = "insert"

\* The push that is yet to be appended to the history is one.
AppendsPush == pc.io = "append" => received \in Pushes

\* At the prompt the thread that prints is free to, once a command was executed.
PromptShows == pc.ui = "prompt" /\ commands > 0 => show_msg

Typed ==
  /\ PcTyped /\ CallbackTyped /\ QueuesTyped /\ HistoriesTyped
  /\ FlagsTyped /\ NetFlagsTyped /\ LinkTyped /\ TempHeld /\ AppendsPush /\ PromptShows

PopsAreLegal ==
  /\ pc.show = "popmsg" => msg_queue > 0
  /\ ~cutIn /\ pc.show \in {"front", "pop"} => push_queue # <<>>

LastEmptyUntilWiped == pc.io \in {"insert", "wipe"} => session_last_history = <<>>

Inv ==
  /\ Typed
  /\ PopsAreLegal
  /\ LastEmptyUntilWiped
  /\ OnlyClearDisturbsPrinting
  /\ HistoryLosesOnlyWiped
-----------------------------------------------------------------------------
(* Types. *)

LEMMA TypedIsTypeOK == Typed => TypeOK
BY DEF Typed, PcTyped, CallbackTyped, QueuesTyped, HistoriesTyped, FlagsTyped,
   NetFlagsTyped, LateKinds, LinkTyped, TempHeld, AppendsPush, PromptShows, TypeOK

LEMMA TypeInit == Init => Typed
<1> SUFFICES ASSUME Init PROVE Typed
  OBVIOUS
<1> USE BoundsAssumption, EmptySeq DEF Init
<1>1. PcTyped
  BY DEF PcTyped, Labels, HandlerLabels, Threads
<1>2. CallbackTyped /\ QueuesTyped
  BY DEF CallbackTyped, QueuesTyped
<1>3. HistoriesTyped /\ TempHeld /\ AppendsPush
  <2>1. <<>> \in Seq(Pushes)
    OBVIOUS
  <2>2. temp = [t \in {"io", "ui"} |-> <<>>]
    OBVIOUS
  <2>3. temp \in [{"io", "ui"} -> Seq(Pushes)]
    BY <2>1, <2>2
  <2>4. \A t \in {"io", "ui"} : temp[t] = <<>>
    BY <2>2
  <2> QED BY <2>1, <2>3, <2>4 DEF HistoriesTyped, TempHeld, AppendsPush
<1>4. FlagsTyped /\ PromptShows
  <2>1. ~(commands > 0)
    OBVIOUS
  <2> QED BY <2>1 DEF FlagsTyped, PromptShows
<1>6. NetFlagsTyped
  BY DEF NetFlagsTyped
<1>5. LinkTyped
  <2>1. <<>> \in Seq(LateKinds)
    OBVIOUS
  <2> QED BY <2>1 DEF LinkTyped
<1> QED BY <1>1, <1>2, <1>3, <1>4, <1>5, <1>6 DEF Typed

\* A thread that goes on to a label leaves the others where they are.
LEMMA GotoMovesOne ==
  ASSUME PcTyped, NEW t \in Threads, NEW label, Goto(t, label)
  PROVE  pc'[t] = label /\ \A u \in Threads \ {t} : pc'[u] = pc[u]
BY DEF PcTyped, Goto

\* The thread that prints changes the queues and its own place, no more.
LEMMA ShowFrame ==
  ASSUME PcTyped, ShowStep
  PROVE  /\ pc'["io"] = pc["io"] /\ pc'["ui"] = pc["ui"]
         /\ UNCHANGED <<handler, ui_flags, callback, cmd, net, received, commands>>
<1>1. /\ \E label : Goto("show", label)
      /\ UNCHANGED <<handler, ui_flags, callback, cmd, net, received, commands>>
  BY DEF ShowStep, ShowLoop, TestShowMsg, TestMessages, ShowMessage, TestPushes,
     ShowPush, PopPush, ui_flags, handler, net, bounds
<1> QED BY <1>1, GotoMovesOne DEF Threads

\* Steps of the connection that nobody is told of.
Silent == PartOfPush \/ LatePart \/ LateAborted \/ TimerExpires

LEMMA SilentFrame ==
  ASSUME Silent
  PROVE  UNCHANGED <<queues, handler, ui_flags, control, bounds>>
BY DEF Silent, PartOfPush, LatePart, LateAborted, TimerExpires

\* Errors of the connection: what is reported, and the callback that follows.
ConnectionError == Lose \/ ConnectFails \/ LateError

LEMMA ErrorFrame ==
  ASSUME ConnectionError
  PROVE  /\ pc["io"] = "idle"
         /\ \/ Goto("io", "idle") /\ callback' = "none"
            \/ Goto("io", "disconnect") /\ callback' \in {"disconnected", "reconnect"}
         /\ msg_queue' = msg_queue + 1
         /\ UNCHANGED <<push_queue, arrived, shown, cutIn, handler, ui_flags, cmd,
                         unheard, received, commands>>
<1>1. CASE Lose
  BY <1>1 DEF Lose, At, Message
<1>2. CASE ConnectFails
  BY <1>2 DEF ConnectFails, ReconnectIfWanted, At, Message
<1>3. CASE LateError
  BY <1>3 DEF LateError, At, Message, bounds
<1> QED BY <1>1, <1>2, <1>3 DEF ConnectionError

LEMMA PcTypedNext == Typed /\ [Next]_vars => PcTyped'
<1> SUFFICES ASSUME Typed, [Next]_vars PROVE PcTyped'
  OBVIOUS
<1> USE DEF Typed, PcTyped, Labels, HandlerLabels, Threads, Goto, At, Message, net,
            queues, handler, ui_flags, control, bounds
<1>1. CASE QueuePush \/ AppendHistory \/ Connected
  BY <1>1 DEF QueuePush, AppendHistory, Connected
<1>2. ASSUME NEW t \in {"io", "ui"},
             Disconnect(t) \/ SwapHistory(t) \/ InsertHistory(t) \/ WipeLastHistory(t)
              \/ Notify(t)
      PROVE  PcTyped'
  BY <1>2 DEF Disconnect, SwapHistory, InsertHistory, Prompt, AfterInsert,
     WipeLastHistory, Notify, ReconnectIfWanted, AwaitReconnect
<1>3. CASE Enter \/ EnterExit \/ HandleConnect \/ ClientCall \/ HandleDisconnect
           \/ HandleShow \/ HandleHistory
  BY <1>3 DEF Enter, EnterExit, HandleConnect, Prompt, HandleDisconnect, ClientCall,
     CallConnect, SetEndpoint, Resolve, StartConnect, CallDisconnect, CloseLink,
     HandleShow, HandleHistory
<1>4. CASE HandleExit \/ Loaded
  BY <1>4 DEF HandleExit, Loaded, Prompt
<1>5. CASE DropLastHistory \/ EmptyFullHistory
  BY <1>5 DEF DropLastHistory, EmptyFullHistory, Prompt
<1>6. CASE Join
  BY <1>6 DEF Join
<1>7. CASE ShowLoop \/ TestShowMsg \/ TestMessages \/ ShowMessage \/ TestPushes
           \/ ShowPush \/ PopPush
  BY <1>7 DEF ShowLoop, TestShowMsg, TestMessages, ShowMessage, TestPushes, ShowPush,
     PopPush
<1>20. CASE ConnectionError
  BY <1>20, ErrorFrame, GotoMovesOne
<1>8. CASE Silent \/ UNCHANGED vars
  BY <1>8, SilentFrame DEF vars
<1> QED BY <1>20, <1>1, <1>2, <1>3, <1>4, <1>5, <1>6, <1>7, <1>8
     DEF Next, Silent, ConnectionError, IoStep, Attempt, UiStep, ShowStep, Over

LEMMA CallbackTypedNext == Typed /\ [Next]_vars => CallbackTyped'
<1> SUFFICES ASSUME Typed, [Next]_vars PROVE CallbackTyped'
  OBVIOUS
<1> USE DEF Typed, PcTyped, Threads, CallbackTyped, HandlerLabels, At, Message, net,
            queues, handler, ui_flags, control, bounds
<1>1. CASE QueuePush
  BY <1>1, GotoMovesOne DEF QueuePush
<1>2. CASE AppendHistory
  BY <1>2, GotoMovesOne DEF AppendHistory
<1>3. CASE Connected \/ ConnectionError
  BY <1>3, ErrorFrame, GotoMovesOne DEF Connected
<1>4. ASSUME NEW t \in {"io", "ui"},
             Disconnect(t)
      PROVE  CallbackTyped'
  BY <1>4, GotoMovesOne DEF Disconnect
<1>5. ASSUME NEW t \in {"io", "ui"},
             SwapHistory(t)
      PROVE  CallbackTyped'
  BY <1>5, GotoMovesOne DEF SwapHistory
<1>6. ASSUME NEW t \in {"io", "ui"},
             InsertHistory(t)
      PROVE  CallbackTyped'
  BY <1>6, GotoMovesOne DEF InsertHistory, Prompt, AfterInsert
<1>7. ASSUME NEW t \in {"io", "ui"},
             WipeLastHistory(t)
      PROVE  CallbackTyped'
  BY <1>7, GotoMovesOne DEF WipeLastHistory
<1>8. CASE Notify("ui")
  BY <1>8, GotoMovesOne DEF Notify, ReconnectIfWanted, AwaitReconnect
<1>9. CASE Notify("io")
  BY <1>9, GotoMovesOne DEF Notify, ReconnectIfWanted, AwaitReconnect
<1>10. CASE Enter \/ EnterExit \/ HandleConnect \/ ClientCall \/ HandleDisconnect
            \/ HandleShow \/ HandleHistory \/ HandleExit \/ Loaded \/ DropLastHistory
            \/ EmptyFullHistory
  BY <1>10, GotoMovesOne DEF Enter, EnterExit, HandleConnect, Prompt,
     HandleDisconnect, ClientCall, CallConnect, SetEndpoint, Resolve, StartConnect,
     CallDisconnect, CloseLink, HandleShow, HandleHistory, HandleExit, Loaded,
     DropLastHistory, EmptyFullHistory
<1>11. CASE Join
  BY <1>11 DEF Join
<1>12. CASE ShowStep
  BY <1>12, ShowFrame
<1>13. CASE Silent \/ UNCHANGED vars
  BY <1>13, SilentFrame DEF vars
<1> QED BY <1>1, <1>2, <1>3, <1>4, <1>5, <1>6, <1>7, <1>8, <1>9, <1>10, <1>11, <1>12,
         <1>13
     DEF Next, Silent, ConnectionError, IoStep, Attempt, UiStep, ShowStep, Over

LEMMA QueuesTypedNext == Typed /\ [Next]_vars => QueuesTyped'
<1> SUFFICES ASSUME Typed, [Next]_vars PROVE QueuesTyped'
  OBVIOUS
<1> USE DEF Typed, PcTyped, QueuesTyped, Pushes, Goto, At, Message, net, queues,
            handler, ui_flags, control, bounds
<1>1. CASE QueuePush
  BY <1>1, BoundsAssumption DEF QueuePush
<1>2. CASE AppendHistory \/ Connected
  BY <1>2 DEF AppendHistory, Connected
<1>3. ASSUME NEW t \in {"io", "ui"},
             Disconnect(t) \/ SwapHistory(t) \/ InsertHistory(t) \/ WipeLastHistory(t)
              \/ Notify(t)
      PROVE  QueuesTyped'
  BY <1>3 DEF Disconnect, SwapHistory, InsertHistory, Prompt, AfterInsert,
     WipeLastHistory, Notify, ReconnectIfWanted, AwaitReconnect
<1>4. CASE Loaded
  BY <1>4, EmptySeq, BoundsAssumption DEF Loaded, Prompt
<1>5. CASE Enter \/ EnterExit \/ HandleConnect \/ ClientCall \/ HandleDisconnect
           \/ HandleShow \/ HandleHistory \/ HandleExit \/ DropLastHistory
           \/ EmptyFullHistory \/ Join
  BY <1>5 DEF Enter, EnterExit, HandleConnect, Prompt, HandleDisconnect, ClientCall,
     CallConnect, SetEndpoint, Resolve, StartConnect, CallDisconnect, CloseLink,
     HandleShow, HandleHistory, HandleExit, DropLastHistory, EmptyFullHistory, Join
<1>6. CASE ShowLoop \/ TestShowMsg \/ TestMessages \/ ShowMessage \/ TestPushes
  BY <1>6 DEF ShowLoop, TestShowMsg, TestMessages, ShowMessage, TestPushes
<1>7. CASE ShowPush
  <2>1. push_queue # <<>> => Append(shown, Head(push_queue)) \in Seq(Pushes)
    BY HeadTailProperties, AppendProperties
  <2> QED BY <1>7, <2>1 DEF ShowPush
<1>8. CASE PopPush
  <2>1. push_queue # <<>> => Tail(push_queue) \in Seq(Pushes)
    BY HeadTailProperties
  <2> QED BY <1>8, <2>1 DEF PopPush
<1>20. CASE ConnectionError
  BY <1>20, ErrorFrame, GotoMovesOne
<1>9. CASE Silent \/ UNCHANGED vars
  BY <1>9, SilentFrame DEF vars
<1> QED BY <1>20, <1>1, <1>2, <1>3, <1>4, <1>5, <1>6, <1>7, <1>8, <1>9
     DEF Next, Silent, ConnectionError, IoStep, Attempt, UiStep, ShowStep, Over

LEMMA HistoriesTypedNext == Typed /\ [Next]_vars => HistoriesTyped'
<1> SUFFICES ASSUME Typed, [Next]_vars PROVE HistoriesTyped'
  OBVIOUS
<1> USE DEF Typed, PcTyped, HistoriesTyped, AppendsPush, Pushes, Goto, At, Message,
   net, queues,
            handler, ui_flags, control, bounds
<1>1. CASE QueuePush \/ Connected
  BY <1>1 DEF QueuePush, Connected
<1>2. CASE AppendHistory
  BY <1>2, AppendProperties DEF AppendHistory
<1>3. ASSUME NEW t \in {"io", "ui"},
             Disconnect(t) \/ WipeLastHistory(t) \/ Notify(t)
      PROVE  HistoriesTyped'
  BY <1>3, EmptySeq DEF Disconnect, WipeLastHistory, Notify, ReconnectIfWanted,
     AwaitReconnect
<1>4. ASSUME NEW t \in {"io", "ui"},
             SwapHistory(t)
      PROVE  HistoriesTyped'
  BY <1>4, EmptySeq DEF SwapHistory
<1>5. ASSUME NEW t \in {"io", "ui"},
             InsertHistory(t)
      PROVE  HistoriesTyped'
  BY <1>5, EmptySeq, ConcatProperties DEF InsertHistory, Prompt, AfterInsert
<1>6. CASE Enter \/ EnterExit \/ HandleConnect \/ ClientCall \/ HandleDisconnect
           \/ HandleShow \/ HandleHistory \/ HandleExit \/ Loaded \/ DropLastHistory
           \/ EmptyFullHistory \/ Join
  BY <1>6, EmptySeq DEF Enter, EnterExit, HandleConnect, Prompt, HandleDisconnect,
     ClientCall, CallConnect, SetEndpoint, Resolve, StartConnect, CallDisconnect,
     CloseLink, HandleShow, HandleHistory, HandleExit, Loaded, DropLastHistory,
     EmptyFullHistory, Join
<1>7. CASE ShowStep
  BY <1>7, ShowFrame
<1>20. CASE ConnectionError
  BY <1>20, ErrorFrame, GotoMovesOne
<1>8. CASE Silent \/ UNCHANGED vars
  BY <1>8, SilentFrame DEF vars
<1> QED BY <1>20, <1>1, <1>2, <1>3, <1>4, <1>5, <1>6, <1>7, <1>8
     DEF Next, Silent, ConnectionError, IoStep, Attempt, UiStep, ShowStep, Over

LEMMA TempHeldNext == Typed /\ [Next]_vars => TempHeld'
<1> SUFFICES ASSUME Typed, [Next]_vars PROVE TempHeld'
  OBVIOUS
<1> USE DEF Typed, PcTyped, Threads, TempHeld, HistoriesTyped, At, Message, net, queues,
            handler, ui_flags, control, bounds
<1>1. CASE QueuePush \/ AppendHistory \/ Connected
  BY <1>1, GotoMovesOne DEF QueuePush, AppendHistory, Connected
<1>2. ASSUME NEW t \in {"io", "ui"},
             Disconnect(t) \/ SwapHistory(t) \/ InsertHistory(t)
      PROVE  TempHeld'
  BY <1>2, GotoMovesOne DEF Disconnect, SwapHistory, InsertHistory, Prompt,
     AfterInsert
<1>3. ASSUME NEW t \in {"io", "ui"},
             WipeLastHistory(t) \/ Notify(t)
      PROVE  TempHeld'
  BY <1>3, GotoMovesOne DEF WipeLastHistory, Notify, ReconnectIfWanted, AwaitReconnect
<1>4. CASE Enter \/ EnterExit \/ HandleConnect \/ ClientCall \/ HandleDisconnect
           \/ HandleShow \/ HandleHistory \/ HandleExit \/ Loaded \/ DropLastHistory
           \/ EmptyFullHistory
  BY <1>4, GotoMovesOne DEF Enter, EnterExit, HandleConnect, Prompt, HandleDisconnect,
     ClientCall, CallConnect, SetEndpoint, Resolve, StartConnect, CallDisconnect,
     CloseLink, HandleShow, HandleHistory, HandleExit, Loaded, DropLastHistory,
     EmptyFullHistory
<1>5. CASE Join
  BY <1>5 DEF Join
<1>6. CASE ShowStep
  BY <1>6, ShowFrame
<1>20. CASE ConnectionError
  BY <1>20, ErrorFrame, GotoMovesOne
<1>7. CASE Silent \/ UNCHANGED vars
  BY <1>7, SilentFrame DEF vars
<1> QED BY <1>20, <1>1, <1>2, <1>3, <1>4, <1>5, <1>6, <1>7
     DEF Next, Silent, ConnectionError, IoStep, Attempt, UiStep, ShowStep, Over

LEMMA AppendsPushNext == Typed /\ [Next]_vars => AppendsPush'
<1> SUFFICES ASSUME Typed, [Next]_vars PROVE AppendsPush'
  OBVIOUS
<1> USE DEF Typed, PcTyped, Threads, AppendsPush, QueuesTyped, Pushes, At, Message, net,
            queues, handler, ui_flags, control, bounds
<1>1. CASE QueuePush \/ AppendHistory \/ Connected
  BY <1>1, GotoMovesOne, BoundsAssumption DEF QueuePush, AppendHistory, Connected
<1>2. ASSUME NEW t \in {"io", "ui"},
             Disconnect(t) \/ SwapHistory(t) \/ InsertHistory(t)
      PROVE  AppendsPush'
  BY <1>2, GotoMovesOne DEF Disconnect, SwapHistory, InsertHistory, Prompt,
     AfterInsert
<1>3. ASSUME NEW t \in {"io", "ui"},
             WipeLastHistory(t) \/ Notify(t)
      PROVE  AppendsPush'
  BY <1>3, GotoMovesOne DEF WipeLastHistory, Notify, ReconnectIfWanted, AwaitReconnect
<1>4. CASE Enter \/ EnterExit \/ HandleConnect \/ ClientCall \/ HandleDisconnect
           \/ HandleShow \/ HandleHistory \/ HandleExit \/ Loaded \/ DropLastHistory
           \/ EmptyFullHistory
  BY <1>4, GotoMovesOne DEF Enter, EnterExit, HandleConnect, Prompt, HandleDisconnect,
     ClientCall, CallConnect, SetEndpoint, Resolve, StartConnect, CallDisconnect,
     CloseLink, HandleShow, HandleHistory, HandleExit, Loaded, DropLastHistory,
     EmptyFullHistory
<1>5. CASE Join
  BY <1>5 DEF Join
<1>6. CASE ShowStep
  BY <1>6, ShowFrame
<1>20. CASE ConnectionError
  BY <1>20, ErrorFrame, GotoMovesOne
<1>7. CASE Silent \/ UNCHANGED vars
  BY <1>7, SilentFrame DEF vars
<1> QED BY <1>20, <1>1, <1>2, <1>3, <1>4, <1>5, <1>6, <1>7
     DEF Next, Silent, ConnectionError, IoStep, Attempt, UiStep, ShowStep, Over

LEMMA FlagsTypedNext == Typed /\ [Next]_vars => FlagsTyped'
<1> SUFFICES ASSUME Typed, [Next]_vars PROVE FlagsTyped'
  OBVIOUS
<1> USE DEF Typed, PcTyped, FlagsTyped, Goto, At, Message, net, queues, handler,
            ui_flags, control, bounds
<1>1. CASE QueuePush \/ AppendHistory \/ Connected
  BY <1>1 DEF QueuePush, AppendHistory, Connected
<1>2. ASSUME NEW t \in {"io", "ui"},
             Disconnect(t) \/ SwapHistory(t) \/ InsertHistory(t) \/ WipeLastHistory(t)
              \/ Notify(t)
      PROVE  FlagsTyped'
  BY <1>2 DEF Disconnect, SwapHistory, InsertHistory, Prompt, AfterInsert,
     WipeLastHistory, Notify, ReconnectIfWanted, AwaitReconnect
<1>3. CASE Enter \/ EnterExit \/ HandleConnect \/ ClientCall \/ HandleDisconnect
           \/ HandleShow \/ HandleHistory \/ HandleExit \/ Loaded \/ DropLastHistory
           \/ EmptyFullHistory \/ Join
  BY <1>3 DEF Enter, EnterExit, HandleConnect, Prompt, HandleDisconnect, ClientCall,
     CallConnect, SetEndpoint, Resolve, StartConnect, CallDisconnect, CloseLink,
     HandleShow, HandleHistory, HandleExit, Loaded, DropLastHistory, EmptyFullHistory,
     Join
<1>4. CASE ShowLoop \/ TestShowMsg \/ TestMessages \/ ShowMessage \/ TestPushes
           \/ ShowPush \/ PopPush
  BY <1>4 DEF ShowLoop, TestShowMsg, TestMessages, ShowMessage, TestPushes, ShowPush,
     PopPush
<1>20. CASE ConnectionError
  BY <1>20, ErrorFrame, GotoMovesOne
<1>5. CASE Silent \/ UNCHANGED vars
  BY <1>5, SilentFrame DEF vars
<1> QED BY <1>20, <1>1, <1>2, <1>3, <1>4, <1>5
     DEF Next, Silent, ConnectionError, IoStep, Attempt, UiStep, ShowStep, Over

\* What is left of the operations on closed sockets.
LEMMA LateSeqs ==
  ASSUME LinkTyped
  PROVE  /\ late # <<>> => Tail(late) \in Seq(LateKinds)
         /\ \A kind \in LateKinds : Append(late, kind) \in Seq(LateKinds)
         /\ \A s \in Seq(LateKinds) : s \o NextRead \in Seq(LateKinds)
         /\ \A s \in Seq(LateKinds) : s \o Aborted \in Seq(LateKinds)
<1>1. <<>> \in Seq(LateKinds) /\ \A kind \in LateKinds : <<kind>> \in Seq(LateKinds)
  OBVIOUS
<1>2. {"error", "aborted", "failed"} \subseteq LateKinds
  BY DEF LateKinds
<1>3. NextRead \in Seq(LateKinds) /\ Aborted \in Seq(LateKinds)
  BY <1>1, <1>2 DEF NextRead, Aborted
<1>4. late \in Seq(LateKinds)
  BY DEF LinkTyped
<1> QED BY <1>3, <1>4, HeadTailProperties, AppendProperties, ConcatProperties

LEMMA LinkTypedNext == Typed /\ [Next]_vars => LinkTyped'
<1> SUFFICES ASSUME Typed, [Next]_vars PROVE LinkTyped'
  OBVIOUS
<1>0. LinkTyped
  BY DEF Typed
<1> USE DEF LinkTyped
<1> DEFINE Links == {"down", "failed", "connecting", "up"}
<1>1. CASE QueuePush \/ AppendHistory \/ Connected
  BY <1>0, <1>1, LateSeqs DEF QueuePush, AppendHistory, Connected, Left, bounds
<1>2. CASE Lose
  BY <1>0, <1>2 DEF Lose
<1>3. CASE ConnectFails
  BY <1>0, <1>3, LateSeqs DEF ConnectFails, Left
<1>4. CASE LateError
  BY <1>0, <1>4, LateSeqs DEF LateError, Left, closeConnection
<1>5. CASE PartOfPush \/ LatePart \/ LateAborted
  BY <1>0, <1>5, LateSeqs DEF PartOfPush, LatePart, LateAborted, Left, control
<1>6. CASE TimerExpires
  BY <1>0, <1>6, LateSeqs DEF TimerExpires, doConnect, control
<1>7. ASSUME NEW t \in {"io", "ui"},
             Disconnect(t) \/ SwapHistory(t) \/ WipeLastHistory(t)
      PROVE  LinkTyped'
  BY <1>0, <1>7 DEF Disconnect, SwapHistory, WipeLastHistory, net
<1>8. ASSUME NEW t \in {"io", "ui"}, InsertHistory(t)
      PROVE  LinkTyped'
  BY <1>0, <1>8 DEF InsertHistory, AfterInsert, Prompt, net
<1>9. ASSUME NEW t \in {"io", "ui"}, Notify(t)
      PROVE  LinkTyped'
  BY <1>0, <1>9, LateSeqs DEF Notify, ReconnectIfWanted, AwaitReconnect
<1>10. CASE Enter \/ EnterExit
  BY <1>0, <1>10 DEF Enter, EnterExit, net, Commands
<1>11. CASE \/ HandleConnect \/ HandleDisconnect \/ HandleShow \/ HandleHistory
            \/ HandleExit \/ Loaded \/ DropLastHistory \/ EmptyFullHistory \/ Join
  BY <1>0, <1>11 DEF HandleConnect, HandleDisconnect, HandleShow, HandleHistory,
     HandleExit, Loaded, DropLastHistory, EmptyFullHistory, Join, Prompt, net
<1>12. CASE CallConnect \/ SetEndpoint \/ Resolve \/ CallDisconnect
  BY <1>0, <1>12 DEF CallConnect, SetEndpoint, Resolve, CallDisconnect, net
<1>13. CASE StartConnect
  <2>1. "failed" \in LateKinds
    BY DEF LateKinds
  <2> QED BY <1>0, <1>13, <2>1, LateSeqs DEF StartConnect, doConnect
<1>14. CASE CloseLink
  <2>1. {"data", "error"} \subseteq LateKinds
    BY DEF LateKinds
  <2> QED BY <1>0, <1>14, <2>1, LateSeqs DEF CloseLink, closeConnection
<1>15. CASE ShowStep
  <2>1. PcTyped
    BY DEF Typed
  <2> QED BY <1>0, <1>15, <2>1, ShowFrame DEF net
<1>16. CASE UNCHANGED vars
  BY <1>0, <1>16 DEF vars, net, control
<1> QED BY <1>1, <1>2, <1>3, <1>4, <1>5, <1>6, <1>7, <1>8, <1>9, <1>10, <1>11, <1>12,
         <1>13, <1>14, <1>15, <1>16
     DEF Next, IoStep, Attempt, UiStep, ClientCall, Over

LEMMA NetFlagsTypedNext == Typed /\ [Next]_vars => NetFlagsTyped'
<1> SUFFICES ASSUME Typed, [Next]_vars PROVE NetFlagsTyped'
  OBVIOUS
<1>0. NetFlagsTyped
  BY DEF Typed
<1> USE DEF NetFlagsTyped
<1>1. CASE QueuePush \/ AppendHistory \/ Connected
  BY <1>0, <1>1 DEF QueuePush, AppendHistory, Connected, retry
<1>2. ASSUME ReconnectIfWanted
      PROVE  reconnect_count' \in Nat
  BY <1>0, <1>2 DEF ReconnectIfWanted
<1>3. CASE ConnectionError
  BY <1>0, <1>2, <1>3 DEF ConnectionError, Lose, ConnectFails, LateError, retry
<1>4. CASE Silent
  BY <1>0, <1>4 DEF Silent, PartOfPush, LatePart, LateAborted, TimerExpires, retry
<1>5. ASSUME NEW t \in {"io", "ui"},
             Disconnect(t) \/ SwapHistory(t) \/ InsertHistory(t) \/ WipeLastHistory(t)
      PROVE  NetFlagsTyped'
  BY <1>0, <1>5 DEF Disconnect, SwapHistory, InsertHistory, AfterInsert, Prompt,
     WipeLastHistory, net, retry
<1>6. ASSUME NEW t \in {"io", "ui"}, Notify(t)
      PROVE  NetFlagsTyped'
  <2>1. CASE UNCHANGED <<timer, retry, last_op_success>>
    BY <1>0, <2>1 DEF retry
  <2>2. CASE UNCHANGED <<retry, last_op_success>> /\ timer' = FALSE
    BY <1>0, <2>2 DEF retry
  <2>3. CASE /\ UNCHANGED <<timer, last_op_success>>
             /\ shouldReconnect' = TRUE /\ reconnect_count' = 0
    BY <1>0, <2>3
  <2>4. CASE ReconnectIfWanted /\ UNCHANGED <<timer, shouldReconnect, last_op_success>>
    BY <1>0, <1>2, <2>4
  <2>5. CASE AwaitReconnect /\ UNCHANGED last_op_success
    <3>1. timer' \in BOOLEAN /\ last_op_success' \in BOOLEAN
      BY <1>0, <2>5 DEF AwaitReconnect
    <3>2. CASE shouldReconnect' = FALSE /\ reconnect_count' = 0
      BY <3>1, <3>2
    <3>3. CASE UNCHANGED retry
      BY <1>0, <3>1, <3>3 DEF retry
    <3> QED BY <2>5, <3>2, <3>3 DEF AwaitReconnect
  <2> QED BY <1>6, <2>1, <2>2, <2>3, <2>4, <2>5 DEF Notify
<1>7. CASE \/ Enter \/ EnterExit \/ HandleConnect \/ HandleDisconnect \/ HandleShow
           \/ HandleHistory \/ HandleExit \/ Loaded \/ DropLastHistory
           \/ EmptyFullHistory \/ Join
  BY <1>0, <1>7 DEF Enter, EnterExit, HandleConnect, HandleDisconnect, HandleShow,
     HandleHistory, HandleExit, Loaded, DropLastHistory, EmptyFullHistory, Join, net,
     retry
<1>8. CASE ClientCall
  BY <1>0, <1>8 DEF ClientCall, CallConnect, SetEndpoint, Resolve, StartConnect,
     CallDisconnect, CloseLink, net, retry
<1>9. CASE ShowStep
  <2>1. PcTyped
    BY DEF Typed
  <2> QED BY <1>0, <1>9, <2>1, ShowFrame DEF net, retry
<1>10. CASE UNCHANGED vars
  BY <1>0, <1>10 DEF vars, net, retry
<1> QED BY <1>1, <1>3, <1>4, <1>5, <1>6, <1>7, <1>8, <1>9, <1>10
     DEF Next, Silent, ConnectionError, IoStep, Attempt, UiStep, Over

LEMMA PromptShowsNext == Typed /\ [Next]_vars => PromptShows'
<1> SUFFICES ASSUME Typed, [Next]_vars PROVE PromptShows'
  OBVIOUS
<1> USE DEF Typed, PcTyped, Threads, PromptShows, At, Message, net, queues, handler,
            ui_flags, control, bounds
<1>1. CASE QueuePush \/ AppendHistory \/ Connected
  BY <1>1, GotoMovesOne DEF QueuePush, AppendHistory, Connected
<1>2. ASSUME NEW t \in {"io", "ui"}, Disconnect(t) \/ SwapHistory(t)
      PROVE  PromptShows'
  BY <1>2, GotoMovesOne DEF Disconnect, SwapHistory
<1>3. ASSUME InsertHistory("io") PROVE PromptShows'
  <2>1. pc'["ui"] = pc["ui"]
    BY <1>3, GotoMovesOne DEF InsertHistory, AfterInsert, Prompt
  <2>2. UNCHANGED <<show_msg, commands>>
    BY <1>3 DEF InsertHistory, Prompt, AfterInsert
  <2> QED BY <2>1, <2>2
<1>4. ASSUME InsertHistory("ui") PROVE PromptShows'
  <2>1. pc'["ui"] = AfterInsert("ui")
    BY <1>4, GotoMovesOne DEF InsertHistory, AfterInsert, Prompt
  <2>2. AfterInsert("ui") = "prompt" => show_msg' = TRUE
    BY <1>4 DEF InsertHistory, AfterInsert, Prompt
  <2> QED BY <2>1, <2>2
<1>5. ASSUME NEW t \in {"io", "ui"},
             WipeLastHistory(t) \/ Notify(t)
      PROVE  PromptShows'
  BY <1>5, GotoMovesOne DEF WipeLastHistory, Notify, ReconnectIfWanted, AwaitReconnect
<1>6. CASE Enter \/ EnterExit \/ HandleConnect \/ ClientCall \/ HandleDisconnect
           \/ HandleShow \/ HandleHistory \/ HandleExit \/ Loaded \/ DropLastHistory
           \/ EmptyFullHistory
  BY <1>6, GotoMovesOne DEF Enter, EnterExit, HandleConnect, Prompt, HandleDisconnect,
     ClientCall, CallConnect, SetEndpoint, Resolve, StartConnect, CallDisconnect,
     CloseLink, HandleShow, HandleHistory, HandleExit, Loaded, DropLastHistory,
     EmptyFullHistory
<1>7. CASE Join
  BY <1>7 DEF Join
<1>8. CASE ShowStep
  BY <1>8, ShowFrame
<1>20. CASE ConnectionError
  BY <1>20, ErrorFrame, GotoMovesOne
<1>9. CASE Silent \/ UNCHANGED vars
  BY <1>9, SilentFrame DEF vars
<1> QED BY <1>20, <1>1, <1>2, <1>3, <1>4, <1>5, <1>6, <1>7, <1>8, <1>9
     DEF Next, Silent, ConnectionError, IoStep, Attempt, UiStep, ShowStep, Over

LEMMA TypeNext == Typed /\ [Next]_vars => Typed'
BY PcTypedNext, CallbackTypedNext, QueuesTypedNext, HistoriesTypedNext, TempHeldNext,
   AppendsPushNext, FlagsTypedNext, NetFlagsTypedNext, LinkTypedNext, PromptShowsNext
   DEF Typed

-----------------------------------------------------------------------------
(* Printing. *)

\* Only the printing of pushes and the arrival of one change the queue of pushes, the
\* clear() after a disconnection apart; no step but those of the thread that prints
\* moves it.
LEMMA QueuesFrame ==
  ASSUME Typed, Next
  PROVE  \/ ShowStep
         \/ pc'["show"] = pc["show"] /\ msg_queue' \in {msg_queue, msg_queue + 1}
            /\ (QueuePush \/ Loaded \/ UNCHANGED <<push_queue, arrived, shown, cutIn>>)
<1> USE GotoMovesOne DEF Typed, PcTyped, Threads, Message, queues
<1>1. CASE QueuePush \/ Connected \/ AppendHistory
  BY <1>1 DEF QueuePush, Connected, AppendHistory
<1>7. CASE ConnectionError
  BY <1>7, ErrorFrame
<1>8. CASE Silent
  BY <1>8, SilentFrame DEF control
<1>9. CASE ClientCall
  BY <1>9 DEF ClientCall, CallConnect, SetEndpoint, Resolve, StartConnect,
     CallDisconnect, CloseLink
<1>2. ASSUME NEW t \in {"io", "ui"},
             Disconnect(t) \/ SwapHistory(t) \/ InsertHistory(t) \/ WipeLastHistory(t)
               \/ Notify(t)
      PROVE  pc'["show"] = pc["show"] /\ msg_queue' \in {msg_queue, msg_queue + 1}
             /\ UNCHANGED <<push_queue, arrived, shown, cutIn>>
  BY <1>2 DEF Disconnect, SwapHistory, InsertHistory, AfterInsert, Prompt,
     WipeLastHistory, Notify, ReconnectIfWanted, AwaitReconnect
<1>3. CASE Enter \/ EnterExit \/ HandleConnect \/ HandleDisconnect \/ HandleShow
  BY <1>3 DEF Enter, EnterExit, HandleConnect, Prompt, HandleDisconnect, HandleShow
<1>4. CASE HandleHistory \/ HandleExit \/ Loaded \/ DropLastHistory \/ EmptyFullHistory
  BY <1>4 DEF HandleHistory, HandleExit, Loaded, Prompt, DropLastHistory,
     EmptyFullHistory
<1>5. CASE Join
  BY <1>5 DEF Join
<1>6. CASE Over
  BY <1>6 DEF Over, vars, control
<1> QED BY <1>1, <1>2, <1>3, <1>4, <1>5, <1>6, <1>7, <1>8, <1>9
     DEF Next, Silent, ConnectionError, Attempt, IoStep, UiStep

LEMMA PopsAreLegalNext == Inv /\ [Next]_vars => PopsAreLegal'
<1> SUFFICES ASSUME Inv, [Next]_vars PROVE PopsAreLegal'
  OBVIOUS
<1> USE DEF PopsAreLegal
<1>0. /\ Typed /\ PopsAreLegal
      /\ PcTyped /\ msg_queue \in Nat /\ push_queue \in Seq(Pushes)
  BY DEF Inv, Typed, QueuesTyped
<1>1. CASE ShowStep
  <2>1. CASE ShowLoop \/ TestShowMsg \/ TestMessages \/ TestPushes
    BY <1>0, <2>1, GotoMovesOne DEF Threads, ShowLoop, TestShowMsg, TestMessages,
       TestPushes, queues
  <2>2. CASE ShowMessage \/ ShowPush \/ PopPush
    BY <1>0, <2>2, GotoMovesOne DEF Threads, At, ShowMessage, ShowPush, PopPush
  <2> QED BY <1>1, <2>1, <2>2 DEF ShowStep
<1>2. CASE QueuePush /\ ~ShowStep
  <2>1. push_queue' # <<>> /\ msg_queue' = msg_queue /\ cutIn' = cutIn
    <3>1. received' \in Pushes
      BY <1>0, <1>2, BoundsAssumption DEF QueuePush, Typed, QueuesTyped, Pushes
    <3> QED BY <1>0, <1>2, <3>1, AppendProperties DEF QueuePush
  <2> QED BY <1>0, <1>2, <2>1, QueuesFrame DEF Next
<1>3. CASE Loaded /\ ~ShowStep
  <2>1. pc'["show"] = pc["show"] /\ msg_queue' = msg_queue
    BY <1>0, <1>3, QueuesFrame DEF Next, UiStep, Loaded
  <2>2. cutIn' \/ pc["show"] \notin {"front", "pop"} \/ UNCHANGED <<push_queue, cutIn>>
    BY <1>3 DEF Loaded
  <2> QED BY <1>0, <2>1, <2>2
<1>4. CASE Silent \/ UNCHANGED vars
  BY <1>0, <1>4, SilentFrame DEF vars, queues, control
<1> QED BY <1>0, <1>1, <1>2, <1>3, <1>4, QueuesFrame

\* What a printed or an arriving push does to the two halves of what arrived.
LEMMA PrintOne ==
  ASSUME NEW S, NEW done \in Seq(S), NEW queue \in Seq(S), queue # <<>>
  PROVE  done \o queue = Append(done, Head(queue)) \o Tail(queue)
<1>1. Head(queue) \in S /\ Tail(queue) \in Seq(S) /\ <<Head(queue)>> \in Seq(S)
  BY HeadTailProperties
<1>2. queue = <<Head(queue)>> \o Tail(queue)
  <2> DEFINE joined == <<Head(queue)>> \o Tail(queue)
  <2>1. Len(queue) \in Nat \ {0} /\ Len(Tail(queue)) = Len(queue) - 1
    BY EmptySeq, HeadTailProperties
  <2>2. Len(<<Head(queue)>>) = 1 /\ <<Head(queue)>>[1] = Head(queue)
    OBVIOUS
  <2>3. joined \in Seq(S) /\ Len(joined) = Len(queue)
    BY <1>1, <2>1, <2>2, ConcatProperties
  <2>4. ASSUME NEW i \in 1 .. Len(queue) PROVE queue[i] = joined[i]
    <3>1. joined[i] = IF i <= 1 THEN Head(queue) ELSE Tail(queue)[i - 1]
      BY <1>1, <2>1, <2>2, ConcatProperties
    <3>2. CASE i = 1
      BY <3>1, <3>2
    <3>3. CASE i # 1
      <4>1. i - 1 \in 1 .. Len(Tail(queue))
        BY <2>1, <3>3
      <4> QED BY <3>1, <3>3, <4>1, HeadTailProperties
    <3> QED BY <3>2, <3>3
  <2> HIDE DEF joined
  <2>5. queue = joined
    BY <2>3, <2>4, SeqEqual
  <2> QED BY <2>5 DEF joined
<1>3. Append(done, Head(queue)) = done \o <<Head(queue)>>
  BY <1>1, AppendIsConcat
<1> QED BY <1>1, <1>2, <1>3, ConcatAssociative

LEMMA AppendToConcat ==
  \A s, t \in Seq(Pushes) : \A e \in Pushes : Append(s \o t, e) = s \o Append(t, e)
<1> SUFFICES ASSUME NEW s \in Seq(Pushes), NEW t \in Seq(Pushes), NEW e \in Pushes
             PROVE  Append(s \o t, e) = s \o Append(t, e)
  OBVIOUS
<1>1. <<e>> \in Seq(Pushes) /\ s \o t \in Seq(Pushes)
  BY ConcatProperties
<1>2. Append(s \o t, e) = (s \o t) \o <<e>> /\ Append(t, e) = t \o <<e>>
  BY <1>1, AppendIsConcat
<1> QED BY <1>1, <1>2, ConcatAssociative

LEMMA PrintingNext == Inv /\ [Next]_vars => OnlyClearDisturbsPrinting'
<1> SUFFICES ASSUME Inv, [Next]_vars PROVE OnlyClearDisturbsPrinting'
  OBVIOUS
<1> USE DEF OnlyClearDisturbsPrinting
<1>0. /\ Typed /\ PcTyped /\ OnlyClearDisturbsPrinting /\ PopsAreLegal
      /\ push_queue \in Seq(Pushes) /\ arrived \in Seq(Pushes) /\ shown \in Seq(Pushes)
  BY DEF Inv, Typed, QueuesTyped
<1>1. CASE ShowStep
  <2>1. CASE ShowLoop \/ TestShowMsg \/ TestMessages \/ TestPushes
    <3>1. /\ pc["show"] \notin {"pop", "broken"} /\ pc'["show"] \notin {"pop", "broken"}
          /\ UNCHANGED <<push_queue, arrived, shown, cutIn>>
      BY <1>0, <2>1, GotoMovesOne DEF Threads, At, ShowLoop, TestShowMsg,
         TestMessages, TestPushes, queues
    <3> QED BY <1>0, <3>1
  <2>2. CASE ShowMessage
    BY <1>0, <2>2, GotoMovesOne DEF Threads, At, ShowMessage, PopsAreLegal
  <2>3. CASE ShowPush
    <3>1. pc["show"] = "front" /\ UNCHANGED <<push_queue, arrived, cutIn>>
      BY <2>3 DEF ShowPush, At
    <3>2. CASE cutIn
      BY <3>1, <3>2
    <3>3. CASE ~cutIn
      <4>1. /\ push_queue # <<>>
            /\ arrived = shown \o push_queue
        BY <1>0, <3>1, <3>3 DEF PopsAreLegal
      <4>2. shown' = Append(shown, Head(push_queue)) /\ pc'["show"] = "pop"
        BY <1>0, <2>3, <4>1, GotoMovesOne DEF ShowPush, Threads
      <4>3. arrived = Append(shown, Head(push_queue)) \o Tail(push_queue)
        BY <1>0, <4>1, PrintOne
      <4> QED BY <3>1, <4>2, <4>3
    <3> QED BY <3>2, <3>3
  <2>4. CASE PopPush
    <3>1. pc["show"] = "pop" /\ UNCHANGED <<arrived, shown, cutIn>>
      BY <2>4 DEF PopPush, At
    <3>2. CASE cutIn
      BY <3>1, <3>2
    <3>3. CASE ~cutIn
      <4>1. push_queue # <<>> /\ arrived = shown \o Tail(push_queue)
        BY <1>0, <3>1, <3>3 DEF PopsAreLegal
      <4>2. push_queue' = Tail(push_queue) /\ pc'["show"] = "pushes"
        BY <1>0, <2>4, <4>1, GotoMovesOne DEF PopPush, Threads
      <4> QED BY <3>1, <4>1, <4>2
    <3> QED BY <3>2, <3>3
  <2> QED BY <1>1, <2>1, <2>2, <2>3, <2>4 DEF ShowStep
<1>2. CASE QueuePush /\ ~ShowStep
  <2>1. /\ pc'["show"] = pc["show"] /\ UNCHANGED <<shown, cutIn>>
        /\ push_queue' = Append(push_queue, received')
        /\ arrived' = Append(arrived, received')
    BY <1>0, <1>2, QueuesFrame DEF Next, QueuePush
  <2>2. received' \in Pushes
    BY <1>0, <1>2, BoundsAssumption DEF QueuePush, Typed, QueuesTyped, Pushes
  <2>3. CASE cutIn
    BY <2>1, <2>3
  <2>4. CASE ~cutIn /\ pc["show"] # "pop"
    <3>1. arrived = shown \o push_queue
      BY <1>0, <2>4
    <3>2. Append(shown \o push_queue, received') = shown \o Append(push_queue, received')
      BY <1>0, <2>2, AppendToConcat
    <3> QED BY <1>0, <2>1, <2>4, <3>1, <3>2
  <2>5. CASE ~cutIn /\ pc["show"] = "pop"
    <3>1. push_queue # <<>>
      BY <1>0, <2>5 DEF PopsAreLegal
    <3>2. Tail(push_queue) \in Seq(Pushes)
      BY <1>0, <3>1, HeadTailProperties
    <3>3. Tail(push_queue') = Append(Tail(push_queue), received')
      BY <1>0, <2>1, <3>1, HeadTailAppend
    <3>4. arrived = shown \o Tail(push_queue)
      BY <1>0, <2>5
    <3>5. Append(shown \o Tail(push_queue), received')
            = shown \o Append(Tail(push_queue), received')
      BY <1>0, <2>2, <3>2, AppendToConcat
    <3> QED BY <1>0, <2>1, <2>5, <3>3, <3>4, <3>5
  <2> QED BY <2>3, <2>4, <2>5
<1>3. CASE Loaded /\ ~ShowStep
  <2>1. pc'["show"] = pc["show"]
    BY <1>0, <1>3, QueuesFrame DEF Next, UiStep
  <2>2. \/ UNCHANGED <<push_queue, arrived, shown, cutIn>>
        \/ /\ push_queue' = <<>> /\ arrived' = <<>> /\ shown' = <<>>
           /\ cutIn' <=> cutIn \/ pc["show"] \in {"front", "pop"}
    BY <1>3 DEF Loaded
  <2>3. <<>> \o <<>> = <<>>
    BY ConcatEmptySeq, EmptySeq
  <2> QED BY <1>0, <2>1, <2>2, <2>3
<1>4. CASE Silent \/ UNCHANGED vars
  BY <1>0, <1>4, SilentFrame DEF vars, queues, control
<1> QED BY <1>0, <1>1, <1>2, <1>3, <1>4, QueuesFrame

-----------------------------------------------------------------------------
(* The history. *)

\* Only a push that is appended makes the last history longer.
LEMMA LastHistoryFrame ==
  ASSUME Typed, Next
  PROVE  AppendHistory \/ session_last_history' \in {<<>>, session_last_history}
<1> USE DEF handler
<1>1. CASE QueuePush \/ Connected \/ ShowStep \/ Over
  BY <1>1, ShowFrame DEF QueuePush, Connected, Typed, Over, vars
<1>4. CASE ConnectionError \/ Silent
  BY <1>4, ErrorFrame, SilentFrame
<1>5. CASE ClientCall
  BY <1>5 DEF ClientCall, CallConnect, SetEndpoint, Resolve, StartConnect,
     CallDisconnect, CloseLink
<1>2. ASSUME NEW t \in {"io", "ui"},
             Disconnect(t) \/ SwapHistory(t) \/ InsertHistory(t) \/ WipeLastHistory(t)
               \/ Notify(t)
      PROVE  session_last_history' \in {<<>>, session_last_history}
  BY <1>2 DEF Disconnect, SwapHistory, InsertHistory, AfterInsert, Prompt,
     WipeLastHistory, Notify, ReconnectIfWanted, AwaitReconnect
<1>3. CASE \/ Enter \/ EnterExit \/ HandleConnect \/ HandleDisconnect \/ HandleShow
           \/ HandleHistory \/ HandleExit \/ Loaded \/ DropLastHistory
           \/ EmptyFullHistory \/ Join
  BY <1>3 DEF Enter, EnterExit, HandleConnect, HandleDisconnect, HandleShow,
     HandleHistory, HandleExit, Loaded, DropLastHistory, EmptyFullHistory, Join
<1> QED BY <1>1, <1>2, <1>3, <1>4, <1>5
     DEF Next, Silent, ConnectionError, Attempt, IoStep, UiStep

\* What the io thread wipes it has emptied itself, and nobody else fills it.
LEMMA LastEmptyNext == Inv /\ [Next]_vars => LastEmptyUntilWiped'
<1> SUFFICES ASSUME Inv, [Next]_vars PROVE LastEmptyUntilWiped'
  OBVIOUS
<1> USE DEF LastEmptyUntilWiped
<1>0. Typed /\ PcTyped /\ LastEmptyUntilWiped
  BY DEF Inv, Typed
<1>1. CASE Silent \/ UNCHANGED vars
  BY <1>0, <1>1, SilentFrame DEF vars, handler, control
<1>2. CASE AppendHistory
  BY <1>0, <1>2, GotoMovesOne DEF AppendHistory, Threads
<1>3. CASE SwapHistory("io")
  BY <1>3 DEF SwapHistory
<1>4. CASE Next /\ ~AppendHistory /\ ~SwapHistory("io")
  <2>1. session_last_history' \in {<<>>, session_last_history}
    BY <1>0, <1>4, LastHistoryFrame
  <2>2. pc'["io"] \in {"insert", "wipe"} => pc["io"] \in {"insert", "wipe"}
    <3> USE GotoMovesOne DEF Threads
    <3>1. CASE QueuePush \/ Connected \/ ShowStep \/ Over
      BY <1>0, <3>1, ShowFrame DEF QueuePush, Connected, Over, vars, control
    <3>7. CASE ConnectionError \/ Silent
      BY <1>0, <3>7, ErrorFrame, SilentFrame DEF control
    <3>8. CASE ClientCall
      BY <1>0, <3>8 DEF ClientCall, CallConnect, SetEndpoint, Resolve, StartConnect,
         CallDisconnect, CloseLink
    <3>2. CASE Disconnect("io") \/ InsertHistory("io") \/ WipeLastHistory("io")
               \/ Notify("io")
      BY <1>0, <3>2 DEF At, Disconnect, InsertHistory, Prompt, AfterInsert,
         WipeLastHistory, Notify, ReconnectIfWanted, AwaitReconnect
    <3>3. CASE \/ Disconnect("ui") \/ SwapHistory("ui") \/ InsertHistory("ui")
               \/ WipeLastHistory("ui") \/ Notify("ui")
      BY <1>0, <3>3 DEF Disconnect, SwapHistory, InsertHistory, AfterInsert, Prompt,
         WipeLastHistory, Notify, ReconnectIfWanted, AwaitReconnect
    <3>4. CASE Enter \/ EnterExit \/ HandleConnect \/ HandleDisconnect \/ HandleShow
      BY <1>0, <3>4 DEF Enter, EnterExit, HandleConnect, Prompt, HandleDisconnect,
         HandleShow
    <3>5. CASE HandleHistory \/ HandleExit \/ Loaded \/ DropLastHistory
               \/ EmptyFullHistory
      BY <1>0, <3>5 DEF HandleHistory, HandleExit, Loaded, Prompt, DropLastHistory,
         EmptyFullHistory
    <3>6. CASE Join
      BY <1>0, <3>6 DEF Join, PcTyped
    <3> QED BY <1>4, <3>1, <3>2, <3>3, <3>4, <3>5, <3>6, <3>7, <3>8
         DEF Next, Silent, ConnectionError, Attempt, IoStep, UiStep
  <2> QED BY <1>0, <2>1, <2>2
<1> QED BY <1>1, <1>2, <1>3, <1>4

\* The elements of a sequence that is empty, extended, or joined to another.
LEMMA ToSetOfEmpty == ToSet(<<>>) = {}
BY DEF ToSet

LEMMA ToSetOfAppend ==
  \A s \in Seq(Pushes) : \A e \in Pushes : ToSet(Append(s, e)) = ToSet(s) \cup {e}
<1> SUFFICES ASSUME NEW s \in Seq(Pushes), NEW e \in Pushes
             PROVE  ToSet(Append(s, e)) = ToSet(s) \cup {e}
  OBVIOUS
<1>1. /\ DOMAIN s = 1 .. Len(s) /\ Len(s) \in Nat
      /\ DOMAIN Append(s, e) = 1 .. Len(s) + 1
      /\ \A i \in 1 .. Len(s) : Append(s, e)[i] = s[i]
      /\ Append(s, e)[Len(s) + 1] = e
  BY LenProperties, AppendProperties
<1> QED BY <1>1 DEF ToSet

LEMMA ToSetOfConcat ==
  \A s, t \in Seq(Pushes) : ToSet(s \o t) = ToSet(s) \cup ToSet(t)
<1> SUFFICES ASSUME NEW s \in Seq(Pushes), NEW t \in Seq(Pushes)
             PROVE  ToSet(s \o t) = ToSet(s) \cup ToSet(t)
  OBVIOUS
<1>1. /\ DOMAIN s = 1 .. Len(s) /\ Len(s) \in Nat
      /\ DOMAIN t = 1 .. Len(t) /\ Len(t) \in Nat
      /\ DOMAIN (s \o t) = 1 .. Len(s) + Len(t)
      /\ \A i \in 1 .. Len(s) + Len(t) :
           (s \o t)[i] = IF i <= Len(s) THEN s[i] ELSE t[i - Len(s)]
  BY LenProperties, ConcatProperties
<1>2. ToSet(s \o t) \subseteq ToSet(s) \cup ToSet(t)
  BY <1>1 DEF ToSet
<1>3. ToSet(s) \subseteq ToSet(s \o t)
  BY <1>1 DEF ToSet
<1>4. ASSUME NEW j \in 1 .. Len(t) PROVE t[j] \in ToSet(s \o t)
  <2>1. /\ j + Len(s) \in 1 .. Len(s) + Len(t)
        /\ (s \o t)[j + Len(s)] = t[j]
    BY <1>1
  <2> QED BY <1>1, <2>1 DEF ToSet
<1>5. ToSet(t) \subseteq ToSet(s \o t)
  BY <1>1, <1>4 DEF ToSet
<1> QED BY <1>2, <1>3, <1>5

\* What is in one of the histories, or held by a thread, or wiped.
Somewhere ==
  ToSet(session_full_history) \cup ToSet(temp["io"]) \cup ToSet(temp["ui"])
    \cup ToSet(session_last_history) \cup wiped

\* The steps that leave the histories alone; they do not begin to clear them either.
LEMMA HistoryFrame ==
  ASSUME Typed, Next
  PROVE  \/ AppendHistory \/ DropLastHistory \/ EmptyFullHistory
         \/ \E t \in {"io", "ui"} :
               SwapHistory(t) \/ InsertHistory(t) \/ WipeLastHistory(t)
         \/ /\ UNCHANGED <<session_last_history, session_full_history, temp, since, wiped>>
            /\ pc'["ui"] = "empty" <=> pc["ui"] = "empty"
<1> USE GotoMovesOne DEF Typed, Threads, At
<1>1. CASE QueuePush \/ Connected \/ ShowStep \/ Over
  BY <1>1, ShowFrame DEF QueuePush, Connected, Over, vars, control, handler
<1>6. CASE ConnectionError \/ Silent
  BY <1>6, ErrorFrame, SilentFrame DEF control, handler
<1>7. CASE ClientCall
  BY <1>7 DEF ClientCall, CallConnect, SetEndpoint, Resolve, StartConnect,
     CallDisconnect, CloseLink, handler
<1>2. ASSUME NEW t \in {"io", "ui"}, Disconnect(t) \/ Notify(t)
      PROVE  /\ UNCHANGED <<session_last_history, session_full_history, temp, since, wiped>>
             /\ pc'["ui"] = "empty" <=> pc["ui"] = "empty"
  BY <1>2 DEF Disconnect, Notify, ReconnectIfWanted, AwaitReconnect, handler
<1>3. CASE Enter \/ EnterExit \/ HandleConnect \/ HandleDisconnect \/ HandleShow
  BY <1>3 DEF Enter, EnterExit, HandleConnect, Prompt, HandleDisconnect, HandleShow,
     handler
<1>4. CASE HandleHistory \/ HandleExit \/ Loaded
  BY <1>4 DEF HandleHistory, HandleExit, Loaded, Prompt, handler
<1>5. CASE Join
  BY <1>5 DEF Join, PcTyped, handler
<1> QED BY <1>1, <1>2, <1>3, <1>4, <1>5, <1>6, <1>7
     DEF Next, Silent, ConnectionError, Attempt, IoStep, UiStep

LEMMA HistoryNext == Inv /\ [Next]_vars => HistoryLosesOnlyWiped'
<1> SUFFICES ASSUME Inv, [Next]_vars PROVE HistoryLosesOnlyWiped'
  OBVIOUS
<1>0. /\ Typed /\ PcTyped /\ LastEmptyUntilWiped
      /\ session_last_history \in Seq(Pushes) /\ session_full_history \in Seq(Pushes)
      /\ since \in Seq(Pushes) /\ temp \in [{"io", "ui"} -> Seq(Pushes)]
      /\ pc["io"] = "append" => received \in Pushes
  BY DEF Inv, Typed, HistoriesTyped, AppendsPush
<1>1. HistoryLosesOnlyWiped <=> (pc["ui"] # "empty" => ToSet(since) \subseteq Somewhere)
  BY DEF HistoryLosesOnlyWiped, Somewhere
<1>2. HistoryLosesOnlyWiped' <=> (pc'["ui"] # "empty" => ToSet(since') \subseteq Somewhere')
  BY DEF HistoryLosesOnlyWiped, Somewhere
<1>3. HistoryLosesOnlyWiped
  BY DEF Inv
<1>4. SUFFICES ASSUME pc'["ui"] # "empty" PROVE ToSet(since') \subseteq Somewhere'
  BY <1>2
<1>5. CASE \/ UNCHANGED vars
           \/ /\ UNCHANGED <<session_last_history, session_full_history, temp, since, wiped>>
              /\ pc'["ui"] = "empty" <=> pc["ui"] = "empty"
  BY <1>1, <1>3, <1>4, <1>5 DEF vars, handler, control, Somewhere
<1>6. CASE AppendHistory
  <2>1. pc'["ui"] = pc["ui"] /\ received \in Pushes
    BY <1>0, <1>6, GotoMovesOne DEF AppendHistory, At, Threads
  <2>2. /\ ToSet(since') = ToSet(since) \cup {received}
        /\ ToSet(session_last_history') = ToSet(session_last_history) \cup {received}
    BY <1>0, <1>6, <2>1, ToSetOfAppend DEF AppendHistory
  <2>3. UNCHANGED <<session_full_history, temp, wiped>>
    BY <1>6 DEF AppendHistory
  <2> QED BY <1>1, <1>3, <1>4, <2>1, <2>2, <2>3 DEF Somewhere
<1>7. ASSUME NEW t \in {"io", "ui"}, SwapHistory(t)
      PROVE  ToSet(since') \subseteq Somewhere'
  <2>1. pc[t] = "swap" /\ pc["ui"] # "empty"
    BY <1>0, <1>4, <1>7, GotoMovesOne DEF SwapHistory, At, Threads
  <2>2. temp[t] = <<>>
    BY <1>0, <2>1 DEF Typed, TempHeld
  <2>3. /\ temp' = [temp EXCEPT ![t] = session_last_history]
        /\ session_last_history' = <<>>
        /\ UNCHANGED <<session_full_history, since, wiped>>
    BY <1>7 DEF SwapHistory
  <2>4. temp'[t] = session_last_history
        /\ \A u \in {"io", "ui"} \ {t} : temp'[u] = temp[u]
    BY <1>0, <2>3
  <2>5. ToSet(since) \subseteq Somewhere
    BY <1>1, <1>3, <2>1
  <2> QED BY <2>2, <2>3, <2>4, <2>5, ToSetOfEmpty DEF Somewhere
<1>8. ASSUME NEW t \in {"io", "ui"}, InsertHistory(t)
      PROVE  ToSet(since') \subseteq Somewhere'
  <2>1. pc["ui"] # "empty"
    BY <1>0, <1>4, <1>8, GotoMovesOne DEF InsertHistory, AfterInsert, Prompt, At,
       Threads
  <2>2. /\ session_full_history' = session_full_history \o temp[t]
        /\ temp' = [temp EXCEPT ![t] = <<>>]
        /\ UNCHANGED <<session_last_history, since, wiped>>
    BY <1>8 DEF InsertHistory, AfterInsert, Prompt
  <2>3. ToSet(session_full_history') = ToSet(session_full_history) \cup ToSet(temp[t])
    BY <1>0, <2>2, ToSetOfConcat
  <2>4. \A u \in {"io", "ui"} \ {t} : temp'[u] = temp[u]
    BY <1>0, <2>2
  <2>5. ToSet(since) \subseteq Somewhere
    BY <1>1, <1>3, <2>1
  <2> QED BY <2>2, <2>3, <2>4, <2>5 DEF Somewhere
<1>9. ASSUME NEW t \in {"io", "ui"}, WipeLastHistory(t)
      PROVE  ToSet(since') \subseteq Somewhere'
  <2>1. pc[t] = "wipe" /\ pc["ui"] # "empty"
    BY <1>0, <1>4, <1>9, GotoMovesOne DEF WipeLastHistory, At, Threads
  <2>2. /\ UNCHANGED <<session_full_history, temp, since>>
        /\ wiped' = IF t = "ui" THEN wiped \cup ToSet(session_last_history) ELSE wiped
    BY <1>9 DEF WipeLastHistory, handler
  <2>3. t = "io" => ToSet(session_last_history) = {}
    BY <1>0, <2>1, ToSetOfEmpty DEF LastEmptyUntilWiped
  <2>4. ToSet(since) \subseteq Somewhere
    BY <1>1, <1>3, <2>1
  <2> QED BY <2>2, <2>3, <2>4 DEF Somewhere
<1>10. CASE DropLastHistory
  BY <1>0, <1>4, <1>10, GotoMovesOne DEF DropLastHistory, Threads
<1>11. CASE EmptyFullHistory
  BY <1>11, ToSetOfEmpty DEF EmptyFullHistory
<1> QED BY <1>0, <1>5, <1>6, <1>7, <1>8, <1>9, <1>10, <1>11, HistoryFrame

-----------------------------------------------------------------------------
LEMMA InvInit == Init => Inv
<1> SUFFICES ASSUME Init PROVE Inv
  OBVIOUS
<1>1. Typed
  BY TypeInit
<1>2. PopsAreLegal /\ LastEmptyUntilWiped
  BY DEF Init, PopsAreLegal, LastEmptyUntilWiped
<1>3. OnlyClearDisturbsPrinting
  <2>1. <<>> = <<>> \o <<>>
    BY ConcatEmptySeq, EmptySeq
  <2> QED BY <2>1 DEF Init, OnlyClearDisturbsPrinting
<1>4. HistoryLosesOnlyWiped
  BY ToSetOfEmpty DEF Init, HistoryLosesOnlyWiped
<1> QED BY <1>1, <1>2, <1>3, <1>4 DEF Inv

LEMMA InvNext == Inv /\ [Next]_vars => Inv'
<1> SUFFICES ASSUME Inv, [Next]_vars PROVE Inv'
  OBVIOUS
<1>1. Typed'
  BY TypeNext DEF Inv
<1> QED BY <1>1, PopsAreLegalNext, LastEmptyNext, PrintingNext, HistoryNext DEF Inv

LEMMA Invariant == Spec => []Inv
BY InvInit, InvNext, PTL DEF Spec

\* Threads and handlers are where they should be, a history is held only between swap
\* and insert, and messages are printed at the prompt (client_event_handler.cpp:67,
\* client_console_ui.cpp:50).
THEOREM TypeCorrect == Spec => []TypeOK
<1>1. Inv => TypeOK
  BY TypedIsTypeOK DEF Inv
<1> QED BY <1>1, Invariant, PTL

\* Printing and popping in critical sections of their own is harmed by nothing but the
\* clear() of a disconnection: whatever else runs, each push that arrives is printed
\* once and in order (client_console_ui.cpp:192-204).
THEOREM PrintingDisturbedOnlyByClear == Spec => []OnlyClearDisturbsPrinting
<1>1. Inv => OnlyClearDisturbsPrinting
  BY DEF Inv
<1> QED BY <1>1, Invariant, PTL

\* The histories lose nothing but what a disconnect command wipes without the lock
\* (client_event_handler.cpp:64): not between swap and insert, and not by the same
\* clear() on the io thread.
THEOREM HistoryLoss == Spec => []HistoryLosesOnlyWiped
<1>1. Inv => HistoryLosesOnlyWiped
  BY DEF Inv
<1> QED BY <1>1, Invariant, PTL

=============================================================================
