--------------------------- MODULE TcpClientProofs ---------------------------
(***************************************************************************)
(* Proofs about the client connection, for any number of endpoints, of     *)
(* commands and of drops of the network.                                   *)
(*                                                                         *)
(* The inductive invariant is Inv.  Of any user it says that a connection  *)
(* has a reader (Alive).  Of a patient user it says that one job at most   *)
(* is under way, be it an attempt to connect, a read or the timer (OneJob);*)
(* the rest says what a late handler may find.                             *)
(***************************************************************************)
EXTENDS TcpClient, SequenceTheorems, TLAPS

Completion == [op : {"connect", "read", "readAborted", "write", "timer"},
               ep : 0 .. NEndpoints, ok : BOOLEAN]

Jobs == {c \in Completion : c.op \in {"connect", "read", "timer"}}
Timers == {c \in Completion : c.op = "timer"}
Readers == {c \in Completion : c.op = "read" \/ (c.op = "connect" /\ c.ok)}
FailedReads == {c \in Completion : c.op = "read" /\ ~c.ok}
GoodWrites == {c \in Completion : c.op = "write" /\ c.ok}

\* The completions in the order in which their handlers will run.
Queue == taken \o ready

NoneOf(q, S) == \A i \in DOMAIN q : q[i] \notin S
AtMostOne(q, S) == \A i, j \in DOMAIN q : q[i] \in S /\ q[j] \in S => i = j
\* The elements in A come after those in B.
After(q, A, B) == \A i, j \in DOMAIN q : q[i] \in A /\ q[j] \in B => j < i

-----------------------------------------------------------------------------
(* The invariant. *)

BooleansTyped ==
  /\ open \in BOOLEAN /\ fresh \in BOOLEAN /\ timer \in BOOLEAN
  /\ patient \in BOOLEAN /\ shouldReconnect \in BOOLEAN /\ last_op_success \in BOOLEAN
  /\ canSend \in BOOLEAN /\ server_up \in BOOLEAN

SocketTyped ==
  /\ link \in {"none", "connecting", "failed", "up", "lost"}
  /\ open <=> link # "none"
  /\ connecting \in 0 .. NEndpoints /\ (link = "connecting" <=> connecting > 0)
  /\ reads \in Nat /\ writing \in Nat

QueueTyped ==
  /\ ready \in Seq(Completion)
  /\ taken = <<>> \/ \E c \in Jobs : taken = <<c>>

CountsTyped ==
  /\ reconnect_count \in 0 .. reconnect_max_count - 1
  /\ ui \in {"idle", "resolving", "resolved", "unresolved"}
  /\ wanted \in {"connect", "disconnect", "refused"} /\ tries \in Nat
  /\ commands \in 0 .. MaxCommands /\ drops \in 0 .. MaxDrops

Typed == SocketTyped /\ QueueTyped /\ CountsTyped /\ BooleansTyped

\* A connection has a read outstanding, or the handler that starts one still to come.
Alive == link \in {"up", "lost"} => reads > 0 \/ ~NoneOf(Queue, Readers)

\* A connect() under way is the only thing under way.
ConnectAlone ==
  /\ ui # "idle" => Quiet /\ ~shouldReconnect /\ wanted = "connect"
  /\ ui = "resolved" => last_op_success

OneJob ==
  /\ AtMostOne(Queue, Jobs)
  /\ reads <= 1
  /\ connecting > 0 => reads = 0 /\ ~timer
  /\ timer => reads = 0
  /\ ~NoneOf(Queue, Jobs) => connecting = 0 /\ reads = 0 /\ ~timer

\* The failure of a read is of a connection that is gone.
FailureIsReal == link = "up" => NoneOf(Queue, FailedReads)

\* No write of an earlier connection still has to tell of its success when the next
\* attempt is made: last_op_success_ is of this attempt.
NoLateWrites ==
  /\ link \in {"connecting", "failed"} => NoneOf(Queue, GoodWrites)
  /\ After(Queue, Timers, GoodWrites)

\* The timer runs after a failure, and isConnected() knows.
TimerAfterFailure ==
  timer \/ ~NoneOf(Queue, Timers) => ~isConnected

DisconnectHolds ==
  wanted = "disconnect" => ~open /\ ~timer /\ NoneOf(Queue, Timers) /\ ~shouldReconnect

\* tries, and one more if the timer runs, is counted by reconnect_count_, until that
\* reaches its limit.
RetryCount ==
  LET due == tries + IF timer \/ ~NoneOf(Queue, Timers) THEN 1 ELSE 0
  IN  due <= IF shouldReconnect THEN reconnect_count ELSE reconnect_max_count

Patient ==
  /\ ConnectAlone /\ OneJob /\ FailureIsReal /\ NoLateWrites /\ TimerAfterFailure
  /\ DisconnectHolds /\ RetryCount

Inv == Typed /\ Alive /\ (patient => Patient)
-----------------------------------------------------------------------------
(* Sequences of completions. *)

LEMMA NoneOfEmpty == \A S : NoneOf(<<>>, S) /\ AtMostOne(<<>>, S)
BY DEF NoneOf, AtMostOne

LEMMA NoneOfSingle ==
  \A c, S : (NoneOf(<<c>>, S) <=> c \notin S) /\ AtMostOne(<<c>>, S)
BY DEF NoneOf, AtMostOne

LEMMA NoneOfConcat ==
  ASSUME NEW p \in Seq(Completion), NEW q \in Seq(Completion), NEW S
  PROVE  /\ NoneOf(p \o q, S) <=> NoneOf(p, S) /\ NoneOf(q, S)
         /\ AtMostOne(p, S) /\ NoneOf(q, S) => AtMostOne(p \o q, S)
         /\ NoneOf(p, S) /\ AtMostOne(q, S) => AtMostOne(p \o q, S)
<1>1. /\ DOMAIN p = 1 .. Len(p) /\ DOMAIN q = 1 .. Len(q)
      /\ Len(p) \in Nat /\ Len(q) \in Nat
      /\ DOMAIN (p \o q) = 1 .. Len(p) + Len(q)
      /\ \A i \in 1 .. Len(p) + Len(q) :
           (p \o q)[i] = IF i <= Len(p) THEN p[i] ELSE q[i - Len(p)]
  BY LenProperties, ConcatProperties
<1>2. ASSUME NEW i \in DOMAIN (p \o q)
      PROVE  \/ i \in DOMAIN p /\ (p \o q)[i] = p[i]
             \/ i - Len(p) \in DOMAIN q /\ (p \o q)[i] = q[i - Len(p)]
  BY <1>1
<1>3. \A i \in DOMAIN p : i \in DOMAIN (p \o q) /\ (p \o q)[i] = p[i]
  BY <1>1
<1>4. \A i \in DOMAIN q : i + Len(p) \in DOMAIN (p \o q) /\ (p \o q)[i + Len(p)] = q[i]
  BY <1>1
<1>5. NoneOf(p \o q, S) <=> NoneOf(p, S) /\ NoneOf(q, S)
  BY <1>2, <1>3, <1>4 DEF NoneOf
<1>6. ASSUME AtMostOne(p, S), NoneOf(q, S) PROVE AtMostOne(p \o q, S)
  BY <1>2, <1>6 DEF AtMostOne, NoneOf
<1>7. ASSUME NoneOf(p, S), AtMostOne(q, S) PROVE AtMostOne(p \o q, S)
  BY <1>1, <1>2, <1>7 DEF AtMostOne, NoneOf
<1> QED BY <1>5, <1>6, <1>7

LEMMA AfterConcat ==
  ASSUME NEW p \in Seq(Completion), NEW q \in Seq(Completion), NEW A, NEW B,
         After(p, A, B), NoneOf(q, B), NoneOf(q, A) \/ A \cap B = {}
  PROVE  After(p \o q, A, B)
<1>1. /\ DOMAIN p = 1 .. Len(p) /\ DOMAIN q = 1 .. Len(q)
      /\ Len(p) \in Nat /\ Len(q) \in Nat
      /\ DOMAIN (p \o q) = 1 .. Len(p) + Len(q)
      /\ \A i \in 1 .. Len(p) + Len(q) :
           (p \o q)[i] = IF i <= Len(p) THEN p[i] ELSE q[i - Len(p)]
  BY LenProperties, ConcatProperties
<1> SUFFICES ASSUME NEW i \in DOMAIN (p \o q), NEW j \in DOMAIN (p \o q),
                    (p \o q)[i] \in A, (p \o q)[j] \in B
             PROVE  j < i
  BY DEF After
<1>2. j \in DOMAIN p /\ p[j] \in B
  BY <1>1 DEF NoneOf
<1>3. CASE i <= Len(p)
  BY <1>1, <1>2, <1>3 DEF After
<1>4. CASE i > Len(p)
  BY <1>1, <1>2, <1>4
<1> QED BY <1>1, <1>3, <1>4

LEMMA TailElements ==
  ASSUME NEW q \in Seq(Completion), q # <<>>
  PROVE  /\ Tail(q) \in Seq(Completion) /\ q[1] \in Completion /\ 1 \in DOMAIN q
         /\ \A i \in DOMAIN Tail(q) : i + 1 \in DOMAIN q /\ Tail(q)[i] = q[i + 1]
         /\ \A i \in DOMAIN q \ {1} : i - 1 \in DOMAIN Tail(q) /\ Tail(q)[i - 1] = q[i]
         /\ DOMAIN q \subseteq Nat /\ DOMAIN Tail(q) \subseteq Nat
<1>1. /\ Tail(q) \in Seq(Completion) /\ Len(Tail(q)) = Len(q) - 1
      /\ \A i \in 1 .. Len(Tail(q)) : Tail(q)[i] = q[i + 1]
  BY HeadTailProperties
<1>2. Len(q) \in Nat \ {0} /\ DOMAIN q = 1 .. Len(q) /\ DOMAIN Tail(q) = 1 .. Len(q) - 1
  BY <1>1, EmptySeq, LenProperties
<1>3. 1 \in 1 .. Len(q)
  BY <1>2
<1>4. q[1] \in Completion
  BY <1>3, ElementOfSeq
<1> HIDE DEF Completion
<1> QED BY <1>1, <1>2, <1>3, <1>4

LEMMA NoneOfTail ==
  ASSUME NEW q \in Seq(Completion), q # <<>>, NEW S
  PROVE  /\ NoneOf(q, S) <=> q[1] \notin S /\ NoneOf(Tail(q), S)
         /\ AtMostOne(q, S) => AtMostOne(Tail(q), S)
         /\ AtMostOne(q, S) /\ q[1] \in S => NoneOf(Tail(q), S)
<1>1. NoneOf(q, S) <=> q[1] \notin S /\ NoneOf(Tail(q), S)
  BY TailElements DEF NoneOf
<1>2. ASSUME AtMostOne(q, S), NEW i \in DOMAIN Tail(q), NEW j \in DOMAIN Tail(q),
             Tail(q)[i] \in S, Tail(q)[j] \in S
      PROVE  i = j
  <2>1. i + 1 \in DOMAIN q /\ j + 1 \in DOMAIN q /\ q[i + 1] \in S /\ q[j + 1] \in S
    BY <1>2, TailElements
  <2>2. i + 1 = j + 1
    BY <1>2, <2>1 DEF AtMostOne
  <2> QED BY <2>2, TailElements
<1>3. ASSUME AtMostOne(q, S), q[1] \in S, NEW i \in DOMAIN Tail(q), Tail(q)[i] \in S
      PROVE  FALSE
  <2>1. i + 1 \in DOMAIN q /\ q[i + 1] \in S /\ 1 \in DOMAIN q
    BY <1>3, TailElements
  <2>2. i + 1 = 1 /\ i \in Nat
    BY <1>3, <2>1, TailElements DEF AtMostOne
  <2>3. i \in DOMAIN Tail(q) /\ 0 \notin DOMAIN Tail(q)
    BY TailElements, LenProperties
  <2> QED BY <2>2, <2>3
<1> QED BY <1>1, <1>2, <1>3 DEF NoneOf, AtMostOne

LEMMA AfterTail ==
  ASSUME NEW q \in Seq(Completion), q # <<>>, NEW A, NEW B, After(q, A, B)
  PROVE  After(Tail(q), A, B) /\ (q[1] \in A => NoneOf(Tail(q), B))
<1>1. ASSUME NEW i \in DOMAIN Tail(q), NEW j \in DOMAIN Tail(q),
             Tail(q)[i] \in A, Tail(q)[j] \in B
      PROVE  j < i
  <2>1. i + 1 \in DOMAIN q /\ j + 1 \in DOMAIN q /\ q[i + 1] \in A /\ q[j + 1] \in B
    BY <1>1, TailElements
  <2>2. j + 1 < i + 1 /\ i \in Nat /\ j \in Nat
    BY <2>1, TailElements DEF After
  <2> QED BY <2>2
<1>2. ASSUME q[1] \in A, NEW j \in DOMAIN Tail(q), Tail(q)[j] \in B
      PROVE  FALSE
  <2>1. j + 1 \in DOMAIN q /\ q[j + 1] \in B /\ 1 \in DOMAIN q /\ j \in Nat
    BY <1>2, TailElements
  <2>2. j + 1 < 1
    BY <1>2, <2>1 DEF After
  <2> QED BY <2>1, <2>2
<1> QED BY <1>1, <1>2 DEF After, NoneOf

-----------------------------------------------------------------------------
(* What the steps do to the queue of completions. *)

LEMMA QueueIsTyped ==
  ASSUME QueueTyped
  PROVE  /\ taken \in Seq(Completion) /\ ready \in Seq(Completion)
         /\ Queue \in Seq(Completion)
         /\ taken = <<>> => Queue = ready
<1>1. taken \in Seq(Completion) /\ ready \in Seq(Completion)
  <2>1. \A c \in Jobs : <<c>> \in Seq(Completion)
    BY DEF Jobs
  <2> QED BY <2>1, EmptySeq DEF QueueTyped
<1> HIDE DEF Completion
<1> QED BY <1>1, ConcatProperties, ConcatEmptySeq DEF Queue

\* Completions of operations that are performed queue at the end,
LEMMA QueueAppends ==
  ASSUME QueueTyped, UNCHANGED taken, NEW c \in Completion, ready' = Append(ready, c)
  PROVE  Queue' = Queue \o <<c>> /\ QueueTyped' /\ <<c>> \in Seq(Completion)
<1> USE QueueIsTyped
<1>1. <<c>> \in Seq(Completion)
  OBVIOUS
<1>2. ready' = ready \o <<c>> /\ ready' \in Seq(Completion)
  BY AppendIsConcat, AppendProperties
<1> HIDE DEF Completion
<1> QED BY <1>1, <1>2, ConcatAssociative DEF Queue, QueueTyped

\* but one that the io thread is about to handle comes first,
LEMMA QueueTakes ==
  ASSUME QueueTyped, taken = <<>>, NEW c \in Jobs, taken' = <<c>>, UNCHANGED ready
  PROVE  Queue' = <<c>> \o Queue /\ QueueTyped' /\ <<c>> \in Seq(Completion)
<1>1. <<c>> \in Seq(Completion)
  BY DEF Jobs
<1> QED BY <1>1, QueueIsTyped DEF Queue, QueueTyped

\* and a handler takes the first away.
LEMMA QueueHandles ==
  ASSUME QueueTyped, taken # <<>> \/ ready # <<>>
  PROVE  /\ Queue # <<>> /\ Current = Queue[1] /\ Current \in Completion
         /\ Rest = Tail(Queue) /\ Rest \in Seq(Completion)
         /\ Current \notin Jobs => taken = <<>>
<1> USE QueueIsTyped
<1>1. CASE taken = <<>>
  <2>1. Queue = ready /\ ready # <<>>
    BY <1>1
  <2> QED BY <1>1, <2>1, TailElements DEF Current, Rest
<1>2. CASE taken # <<>>
  <2>1. PICK c \in Jobs : taken = <<c>>
    BY <1>2 DEF QueueTyped
  <2>2. Len(<<c>>) = 1 /\ <<c>>[1] = c /\ c \in Completion
    BY DEF Jobs
  <2> HIDE DEF Completion
  <2>3. /\ Queue \in Seq(Completion) /\ Len(Queue) = 1 + Len(ready)
        /\ \A i \in 1 .. 1 + Len(ready) :
             Queue[i] = IF i <= 1 THEN c ELSE ready[i - 1]
    BY <2>1, <2>2, ConcatProperties DEF Queue
  <2>4. Len(ready) \in Nat
    BY LenProperties
  <2>5. Queue # <<>> /\ Queue[1] = c
    BY <2>3, <2>4, EmptySeq
  <2>6. Len(Tail(Queue)) = Len(ready) /\ Tail(Queue) \in Seq(Completion)
    BY <2>3, <2>4, <2>5, HeadTailProperties
  <2>7. ASSUME NEW i \in 1 .. Len(ready) PROVE Tail(Queue)[i] = ready[i]
    <3>1. Tail(Queue)[i] = Queue[i + 1]
      BY <2>3, <2>5, <2>6, HeadTailProperties
    <3>2. i + 1 \in 1 .. 1 + Len(ready) /\ ~(i + 1 <= 1) /\ (i + 1) - 1 = i
      BY <2>4
    <3> QED BY <2>3, <3>1, <3>2
  <2>8. Tail(Queue) = ready
    BY <2>6, <2>7, SeqEqual
  <2> QED BY <2>1, <2>2, <2>5, <2>8 DEF Current, Rest
<1> QED BY <1>1, <1>2

LEMMA QueueOfRest ==
  ASSUME QueueTyped, taken' = <<>>, NEW q \in Seq(Completion), ready' = q
  PROVE  Queue' = q /\ QueueTyped'
<1> HIDE DEF Completion
<1> QED BY ConcatEmptySeq DEF Queue, QueueTyped

\* The operations that close() and async_connect abort: an attempt to connect is a job
\* still, a read no longer, and none of them has succeeded.
LEMMA AbortedHolds ==
  ASSUME SocketTyped
  PROVE  /\ Aborted \in Seq(Completion)
         /\ connecting = 0 => NoneOf(Aborted, Jobs)
         /\ AtMostOne(Aborted, Jobs)
         /\ NoneOf(Aborted, Timers) /\ NoneOf(Aborted, Readers)
         /\ NoneOf(Aborted, FailedReads) /\ NoneOf(Aborted, GoodWrites)
<1> DEFINE r == [i \in 1 .. reads |-> Done("readAborted", 0, FALSE)]
           c == IF connecting > 0 THEN <<Done("connect", connecting, FALSE)>> ELSE <<>>
           w == [i \in 1 .. writing |-> Done("write", 0, FALSE)]
<1>1. /\ 0 \in 0 .. NEndpoints
      /\ connecting \in 0 .. NEndpoints
      /\ reads \in Nat /\ writing \in Nat
  BY EndpointAssumption DEF SocketTyped
<1>2. /\ Done("readAborted", 0, FALSE) \in Completion
      /\ Done("connect", connecting, FALSE) \in Completion
      /\ Done("write", 0, FALSE) \in Completion
  BY <1>1 DEF Done, Completion
<1>3. r \in Seq(Completion)
  <2>1. r \in [1 .. reads -> Completion]
    BY <1>2
  <2> QED BY <1>1, <2>1, SeqDef
<1>12. w \in Seq(Completion)
  <2>1. w \in [1 .. writing -> Completion]
    BY <1>2
  <2> QED BY <1>1, <2>1, SeqDef
<1>4. c \in Seq(Completion) /\ w \in Seq(Completion)
  <2>1. \A x \in Completion : <<x>> \in Seq(Completion)
    OBVIOUS
  <2>2. <<>> \in Seq(Completion)
    OBVIOUS
  <2>3. CASE connecting > 0
    BY <1>2, <1>12, <2>1, <2>2, <2>3
  <2>4. CASE ~(connecting > 0)
    BY <1>2, <1>12, <2>1, <2>2, <2>4
  <2> QED BY <2>3, <2>4
<1>5. \A i \in DOMAIN r : r[i] = Done("readAborted", 0, FALSE)
  BY <1>1
<1>6. /\ NoneOf(r, Jobs) /\ NoneOf(r, Timers) /\ NoneOf(r, Readers)
      /\ NoneOf(r, FailedReads) /\ NoneOf(r, GoodWrites)
  BY <1>5 DEF NoneOf, Jobs, Timers, Readers, FailedReads, GoodWrites, Done
<1>7. /\ NoneOf(c, Timers) /\ NoneOf(c, Readers) /\ NoneOf(c, FailedReads)
      /\ NoneOf(c, GoodWrites) /\ AtMostOne(c, Jobs)
      /\ connecting = 0 => NoneOf(c, Jobs)
  BY <1>1, NoneOfSingle, NoneOfEmpty DEF Timers, Readers, FailedReads, GoodWrites, Done
<1>13. \A i \in DOMAIN w : w[i] = Done("write", 0, FALSE)
  BY <1>1
<1>8. /\ NoneOf(w, Jobs) /\ NoneOf(w, Timers) /\ NoneOf(w, Readers)
      /\ NoneOf(w, FailedReads) /\ NoneOf(w, GoodWrites)
  BY <1>13 DEF NoneOf, Jobs, Timers, Readers, FailedReads, GoodWrites, Done
<1> HIDE DEF Completion, Jobs, Timers, Readers, FailedReads, GoodWrites, r, c, w
<1>9. /\ c \o w \in Seq(Completion)
      /\ connecting = 0 => NoneOf(c \o w, Jobs)
      /\ AtMostOne(c \o w, Jobs)
      /\ NoneOf(c \o w, Timers) /\ NoneOf(c \o w, Readers)
      /\ NoneOf(c \o w, FailedReads) /\ NoneOf(c \o w, GoodWrites)
  BY <1>4, <1>7, <1>8, NoneOfConcat, ConcatProperties
<1>10. Aborted = (r \o c) \o w
  BY DEF Aborted, r, c, w
<1>11. Aborted = r \o (c \o w)
  BY <1>3, <1>4, <1>10, ConcatAssociative
<1> QED BY <1>3, <1>6, <1>9, <1>11, NoneOfConcat, ConcatProperties

\* What kind a completion is of.
LEMMA Kinds ==
  ASSUME NEW ep \in 0 .. NEndpoints, NEW ok \in BOOLEAN
  PROVE  /\ Done("connect", ep, ok) \in Jobs \ (Timers \cup FailedReads \cup GoodWrites)
         /\ Done("connect", ep, ok) \in Readers <=> ok
         /\ Done("read", ep, ok) \in (Jobs \cap Readers) \ (Timers \cup GoodWrites)
         /\ Done("read", ep, ok) \in FailedReads <=> ~ok
         /\ Done("write", ep, ok) \in Completion
         /\ Done("write", ep, ok) \notin Jobs \cup Timers \cup Readers \cup FailedReads
         /\ Done("write", ep, ok) \in GoodWrites <=> ok
         /\ Done("timer", ep, ok) \in (Jobs \cap Timers)
                                        \ (Readers \cup FailedReads \cup GoodWrites)
BY DEF Done, Completion, Jobs, Timers, Readers, FailedReads, GoodWrites

LEMMA KindOfCurrent ==
  ASSUME QueueTyped, NEW op, Handling(op)
  PROVE  /\ Queue \in Seq(Completion) /\ Queue # <<>>
         /\ Current = Queue[1] /\ Current \in Completion /\ Current.op = op
         /\ Rest = Tail(Queue) /\ Rest \in Seq(Completion)
         /\ Current \in Jobs <=> op \in {"connect", "read", "timer"}
         /\ Current \in Timers <=> op = "timer"
         /\ Current \in Readers <=> op = "read" \/ (op = "connect" /\ Current.ok)
         /\ Current \in FailedReads <=> op = "read" /\ ~Current.ok
         /\ Current \in GoodWrites <=> op = "write" /\ Current.ok
<1>1. /\ Queue # <<>> /\ Current = Queue[1] /\ Current \in Completion
      /\ Rest = Tail(Queue) /\ Rest \in Seq(Completion)
  BY QueueHandles DEF Handling
<1>2. Current.op = op
  BY DEF Handling, Current
<1> QED BY <1>1, <1>2, QueueIsTyped DEF Jobs, Timers, Readers, FailedReads, GoodWrites

\* The calls of the user append to the queue what they abort.
LEMMA QueueUser ==
  ASSUME Typed, User \/ Network
  PROVE  /\ QueueTyped'
         /\ \/ Queue' = Queue
            \/ Queue' = Queue \o Aborted /\ (StartConnect \/ CloseIfConnected)
<1> USE DEF Typed
<1>1. CASE Connect \/ Resolve \/ Login \/ Send \/ Network
  BY <1>1 DEF Connect, Resolve, Login, Send, Network, ServerChanges, LinkBreaks, Queue,
     QueueTyped
<1>2. ASSUME StartConnect \/ CloseIfConnected, UNCHANGED taken, ready' = ready \o Aborted
      PROVE  QueueTyped' /\ Queue' = Queue \o Aborted
  <2> HIDE DEF Completion
  <2> QED BY <1>2, QueueIsTyped, AbortedHolds, ConcatProperties, ConcatAssociative
          DEF Queue, QueueTyped
<1>3. CASE StartConnect
  BY <1>2, <1>3 DEF StartConnect, doConnect, ConnectTo, Queue, QueueTyped
<1>4. CASE Disconnect
  BY <1>2, <1>4 DEF Disconnect, CloseIfConnected, closeConnection, Queue, QueueTyped
<1> QED BY <1>1, <1>3, <1>4 DEF User

LEMMA QueueReactor ==
  ASSUME Typed, Reactor
  PROVE  /\ QueueTyped'
         /\ \E c \in Completion :
              /\ Queue' = <<c>> \o Queue \/ Queue' = Queue \o <<c>>
              /\ <<c>> \in Seq(Completion)
              /\ \/ PerformConnect /\ c = Done("connect", connecting, link' = "up")
                 \/ PerformRead /\ c = Done("read", 0, link = "up")
                 \/ PerformWrite /\ c = Done("write", 0, link = "up")
                                 /\ Queue' = Queue \o <<c>>
                 \/ TimerExpires /\ c = Done("timer", 0, TRUE)
                                 /\ Queue' = Queue \o <<c>>
<1> USE DEF Typed
<1>0. 0 \in 0 .. NEndpoints /\ connecting \in 0 .. NEndpoints
  BY EndpointAssumption DEF SocketTyped
<1>1. CASE PerformConnect
  <2>1. PICK ok \in {server_up /\ connecting = NEndpoints, FALSE} :
          /\ link' = IF ok THEN "up" ELSE "failed"
          /\ taken' = <<Done("connect", connecting, ok)>>
    BY <1>1 DEF PerformConnect
  <2>2. ok \in BOOLEAN /\ (ok <=> link' = "up")
    BY <2>1 DEF BooleansTyped
  <2>3. taken' = <<Done("connect", connecting, link' = "up")>>
    BY <2>1, <2>2
  <2>4. Done("connect", connecting, link' = "up") \in Jobs
    BY <1>0, Kinds
  <2>5. taken = <<>> /\ UNCHANGED ready
    BY <1>1 DEF PerformConnect, Perform
  <2> QED BY <1>1, <2>3, <2>4, <2>5, QueueTakes DEF Jobs
<1>2. CASE PerformRead
  <2> DEFINE c == Done("read", 0, link = "up")
  <2>1. c \in Jobs /\ c \in Completion
    BY <1>0, Kinds DEF Jobs
  <2>2. \/ taken = <<>> /\ taken' = <<c>> /\ UNCHANGED ready
        \/ ready' = Append(ready, c) /\ UNCHANGED taken
    BY <1>2 DEF PerformRead, Perform
  <2> HIDE DEF c
  <2>3. QueueTyped' /\ <<c>> \in Seq(Completion)
        /\ (Queue' = <<c>> \o Queue \/ Queue' = Queue \o <<c>>)
    BY <2>1, <2>2, QueueTakes, QueueAppends
  <2> QED BY <1>2, <2>1, <2>3 DEF c
<1>3. CASE PerformWrite
  <2> DEFINE c == Done("write", 0, link = "up")
  <2>1. c \in Completion
    BY <1>0, Kinds
  <2>2. ready' = Append(ready, c) /\ UNCHANGED taken
    BY <1>3 DEF PerformWrite
  <2> HIDE DEF c
  <2>3. QueueTyped' /\ <<c>> \in Seq(Completion) /\ Queue' = Queue \o <<c>>
    BY <2>1, <2>2, QueueAppends
  <2> QED BY <1>3, <2>1, <2>3 DEF c
<1>4. CASE TimerExpires
  <2> DEFINE c == Done("timer", 0, TRUE)
  <2>1. c \in Completion
    BY <1>0, Kinds DEF Jobs
  <2>2. ready' = Append(ready, c) /\ UNCHANGED taken
    BY <1>4 DEF TimerExpires
  <2> HIDE DEF c
  <2>3. QueueTyped' /\ <<c>> \in Seq(Completion) /\ Queue' = Queue \o <<c>>
    BY <2>1, <2>2, QueueAppends
  <2> QED BY <1>4, <2>1, <2>3 DEF c
<1> QED BY <1>1, <1>2, <1>3, <1>4 DEF Reactor

LEMMA QueueHandle ==
  ASSUME Typed, Handle
  PROVE  /\ QueueTyped'
         /\ \/ /\ RunConnected \/ RunConnectError \/ RunReadAborted \/ RunWrite \/ (RunRead /\ open)
               /\ Queue' = Tail(Queue)
            \/ /\ RunConnectNext \/ RunReadError \/ RunTimer
               /\ Queue' = Tail(Queue) \o Aborted
            \/ /\ RunRead /\ ~open
               /\ Queue' = Tail(Queue) \o <<Done("read", 0, FALSE)>>
<1> USE DEF Typed
<1>1. /\ Queue \in Seq(Completion) /\ Rest = Tail(Queue) /\ Rest \in Seq(Completion)
      /\ taken' = <<>>
  <2>1. PICK op \in {"connect", "read", "readAborted", "write", "timer"} : Handling(op)
    BY DEF Handle, RunConnected, RunConnectNext, RunConnectError, RunRead, RunReadError,
           RunReadAborted, RunWrite, RunTimer
  <2>2. taken' = <<>>
    BY DEF Handle, RunConnected, RunConnectNext, RunConnectError, RunRead, RunReadError,
           RunReadAborted, RunWrite, RunTimer
  <2> QED BY <2>1, <2>2, KindOfCurrent
<1>2. Aborted \in Seq(Completion)
  BY AbortedHolds
<1>3. CASE RunConnected \/ RunConnectError \/ RunReadAborted \/ RunWrite \/ (RunRead /\ open)
  <2>1. ready' = Rest
    BY <1>3 DEF RunConnected, RunConnectError, RunReadAborted, RunWrite, RunRead
  <2> QED BY <1>1, <1>3, <2>1, QueueOfRest
<1>4. CASE RunConnectNext \/ RunReadError \/ RunTimer
  <2>1. ready' = Rest \o Aborted
    BY <1>4 DEF RunConnectNext, RunReadError, RunTimer, ConnectTo, closeConnection, doConnect
  <2>2. Rest \o Aborted \in Seq(Completion)
    BY <1>1, <1>2, ConcatProperties
  <2> QED BY <1>1, <1>4, <2>1, <2>2, QueueOfRest
<1>5. CASE RunRead /\ ~open
  <2> DEFINE c == Done("read", 0, FALSE)
  <2>1. c \in Completion
    <3>1. 0 \in 0 .. NEndpoints
      BY EndpointAssumption
    <3> QED BY <3>1, Kinds DEF Jobs
  <2>2. ready' = Append(Rest, c)
    BY <1>5 DEF RunRead
  <2> HIDE DEF c
  <2>3. Append(Rest, c) \in Seq(Completion) /\ Append(Rest, c) = Rest \o <<c>>
    BY <1>1, <2>1, AppendProperties, AppendIsConcat
  <2>4. Queue' = Rest \o <<c>> /\ QueueTyped'
    BY <1>1, <2>2, <2>3, QueueOfRest
  <2> QED BY <1>1, <1>5, <2>4 DEF c
<1> QED BY <1>3, <1>4, <1>5 DEF Handle

-----------------------------------------------------------------------------
(* Types. *)

LEMMA TypedIsTypeOK == Typed => TypeOK
<1> SUFFICES ASSUME Typed PROVE TypeOK
  OBVIOUS
<1>1. Len(taken) <= 1
  <2>1. CASE taken = <<>>
    BY <2>1, EmptySeq
  <2>2. ASSUME NEW c \in Jobs, taken = <<c>> PROVE Len(taken) <= 1
    BY <2>2
  <2> QED BY <2>1, <2>2 DEF Typed, QueueTyped
<1>2. \A c \in Waiting : c \in Completion
  <2>1. taken \in Seq(Completion) /\ ready \in Seq(Completion)
    BY QueueIsTyped DEF Typed
  <2> HIDE DEF Completion
  <2>2. \A i \in DOMAIN taken : taken[i] \in Completion
    BY <2>1, LenProperties, ElementOfSeq
  <2>3. \A i \in DOMAIN ready : ready[i] \in Completion
    BY <2>1, LenProperties, ElementOfSeq
  <2> QED BY <2>2, <2>3 DEF Waiting
<1> QED BY <1>1, <1>2 DEF Typed, SocketTyped, CountsTyped, BooleansTyped, TypeOK, Completion

LEMMA TypedInit == Init => Typed
<1> SUFFICES ASSUME Init PROVE Typed
  OBVIOUS
<1>1. SocketTyped
  BY EndpointAssumption DEF Init, SocketTyped
<1>2. QueueTyped
  BY EmptySeq DEF Init, QueueTyped
<1>3. CountsTyped
  BY BoundAssumption DEF Init, CountsTyped, reconnect_max_count
<1>4. BooleansTyped
  BY DEF Init, BooleansTyped
<1> QED BY <1>1, <1>2, <1>3, <1>4 DEF Typed

LEMMA ConnectToTyped ==
  ASSUME NEW ep \in 1 .. NEndpoints, NEW q, ConnectTo(ep, q)
  PROVE  SocketTyped'
BY EndpointAssumption DEF ConnectTo, SocketTyped

LEMMA ClosedTyped ==
  ASSUME NEW q, closeConnection(q)
  PROVE  SocketTyped'
BY EndpointAssumption DEF closeConnection, SocketTyped

LEMMA SocketTypedNext == Typed /\ [Next]_vars => SocketTyped'
<1> SUFFICES ASSUME Typed, [Next]_vars PROVE SocketTyped'
  OBVIOUS
<1> USE DEF Typed, socket_vars
<1>0. 1 \in 1 .. NEndpoints
  BY EndpointAssumption
<1>1. CASE Connect \/ Resolve \/ Login \/ TimerExpires \/ RunConnectError \/ RunReadAborted
           \/ RunWrite \/ UNCHANGED vars
  <2>1. UNCHANGED socket_vars
    BY <1>1 DEF Connect, Resolve, Login, TimerExpires, RunConnectError, RunReadAborted,
       RunWrite, vars
  <2> QED BY <2>1 DEF SocketTyped
<1>2. CASE StartConnect
  BY <1>0, <1>2, ConnectToTyped DEF StartConnect, doConnect, SocketTyped
<1>3. CASE Disconnect
  BY <1>3, ClosedTyped DEF Disconnect, CloseIfConnected, SocketTyped
<1>4. CASE Send \/ PerformWrite
  BY <1>4 DEF Send, PerformWrite, SocketTyped
<1>5. CASE Network
  BY <1>5 DEF Network, ServerChanges, LinkBreaks, SocketTyped
<1>6. CASE PerformConnect
  <2>1. /\ connecting > 0 /\ connecting' = 0 /\ link' \in {"up", "failed"}
        /\ UNCHANGED <<open, reads, writing>>
    BY <1>6 DEF PerformConnect
  <2> QED BY <2>1, EndpointAssumption DEF SocketTyped
<1>7. CASE PerformRead
  BY <1>7 DEF PerformRead, SocketTyped
<1>8. CASE RunConnected \/ RunRead
  <2>1. reads' \in {reads, reads + 1} /\ UNCHANGED <<open, link, connecting, writing>>
    BY <1>8 DEF RunConnected, RunRead
  <2> QED BY <2>1 DEF SocketTyped
<1>9. CASE RunConnectNext
  <2>1. Current.ep + 1 \in 1 .. NEndpoints
    <3>1. Current \in Completion /\ Current.ep < NEndpoints
      BY <1>9, KindOfCurrent DEF RunConnectNext, NextEndpoint
    <3>2. Current.ep \in 0 .. NEndpoints
      BY <3>1 DEF Completion
    <3> QED BY <3>1, <3>2, EndpointAssumption
  <2> QED BY <1>9, <2>1, ConnectToTyped DEF RunConnectNext
<1>10. CASE RunReadError
  BY <1>10, ClosedTyped DEF RunReadError
<1>11. CASE RunTimer
  BY <1>0, <1>11, ConnectToTyped DEF RunTimer, doConnect
<1> QED BY <1>1, <1>2, <1>3, <1>4, <1>5, <1>6, <1>7, <1>8, <1>9, <1>10, <1>11
        DEF Next, User, Reactor, Handle

LEMMA CountsTypedNext == Typed /\ [Next]_vars => CountsTyped'
<1> SUFFICES ASSUME Typed, [Next]_vars PROVE CountsTyped'
  OBVIOUS
<1> USE DEF Typed, CountsTyped, flags, user_vars, net_vars
<1>1. CASE Connect \/ Resolve \/ Login \/ Send
  BY <1>1, BoundAssumption DEF Connect, Resolve, Login, Send, Command
<1>2. CASE StartConnect \/ Disconnect
  BY <1>2, BoundAssumption DEF StartConnect, Disconnect, CloseIfConnected, Command
<1>3. CASE Network
  BY <1>3, BoundAssumption DEF Network, ServerChanges, LinkBreaks
<1>4. CASE Reactor
  BY <1>4 DEF Reactor, PerformConnect, PerformRead, PerformWrite, TimerExpires
<1>5. ASSUME ReconnectIfWanted PROVE reconnect_count' \in 0 .. reconnect_max_count - 1
  BY <1>5 DEF ReconnectIfWanted, scheduleReconnect, reconnect_max_count
<1>6. CASE RunConnectError \/ RunReadError
  BY <1>5, <1>6 DEF RunConnectError, RunReadError
<1>7. CASE RunConnected \/ RunConnectNext \/ RunRead \/ RunReadAborted \/ RunTimer
  <2>1. /\ tries' \in {0, tries, tries + 1} /\ reconnect_count' \in {0, reconnect_count}
        /\ UNCHANGED <<ui, wanted, commands, drops>>
    BY <1>7 DEF RunConnected, RunConnectNext, RunRead, RunReadAborted, RunTimer
  <2> QED BY <2>1 DEF reconnect_max_count
<1>8. CASE RunWrite
  BY <1>8 DEF RunWrite
<1>9. CASE UNCHANGED vars
  BY <1>9 DEF vars
<1> QED BY <1>1, <1>2, <1>3, <1>4, <1>6, <1>7, <1>8, <1>9 DEF Next, User, Handle

LEMMA BooleansTypedNext == Typed /\ [Next]_vars => BooleansTyped'
<1> SUFFICES ASSUME Typed, [Next]_vars PROVE BooleansTyped'
  OBVIOUS
<1> USE DEF Typed, BooleansTyped, socket_vars, flags, user_vars, net_vars
<1>1. CASE Connect \/ Resolve \/ Login \/ Send
  BY <1>1 DEF Connect, Resolve, Login, Send, Command
<1>2. CASE StartConnect \/ Disconnect
  BY <1>2 DEF StartConnect, doConnect, ConnectTo, Disconnect, CloseIfConnected,
     closeConnection
<1>3. CASE Network
  BY <1>3 DEF Network, ServerChanges, LinkBreaks
<1>4. CASE Reactor
  BY <1>4 DEF Reactor, PerformConnect, PerformRead, PerformWrite, TimerExpires
<1>5. ASSUME ReconnectIfWanted
      PROVE  timer' \in BOOLEAN /\ shouldReconnect' \in BOOLEAN
  BY <1>5 DEF ReconnectIfWanted, scheduleReconnect
<1>6. CASE RunConnectError \/ RunReadError
  BY <1>5, <1>6 DEF RunConnectError, RunReadError, closeConnection
<1>7. CASE RunConnected \/ RunConnectNext \/ RunRead \/ RunReadAborted \/ RunTimer
  BY <1>7 DEF RunConnected, RunConnectNext, RunRead, RunReadAborted, RunTimer, ConnectTo,
     doConnect
<1>8. CASE RunWrite
  <2>1. Current.ok \in BOOLEAN
    BY <1>8, KindOfCurrent DEF RunWrite, Completion
  <2> QED BY <1>8, <2>1 DEF RunWrite
<1>9. CASE UNCHANGED vars
  BY <1>9 DEF vars
<1> QED BY <1>1, <1>2, <1>3, <1>4, <1>6, <1>7, <1>8, <1>9 DEF Next, User, Handle

LEMMA TypedNext == Typed /\ [Next]_vars => Typed'
<1> SUFFICES ASSUME Typed, [Next]_vars PROVE Typed'
  OBVIOUS
<1>1. QueueTyped'
  <2>1. CASE UNCHANGED vars
    BY <2>1 DEF Typed, QueueTyped, vars
  <2> QED BY <2>1, QueueUser, QueueReactor, QueueHandle DEF Next
<1> QED BY <1>1, SocketTypedNext, CountsTypedNext, BooleansTypedNext DEF Typed

-----------------------------------------------------------------------------
(* A connection has a reader, whoever calls what. *)

LEMMA AliveNext == Typed /\ Alive /\ [Next]_vars => Alive'
<1> SUFFICES ASSUME Typed, Alive, [Next]_vars, link' \in {"up", "lost"},
                    NoneOf(Queue', Readers)
             PROVE  reads' > 0
  BY DEF Alive
<1> USE DEF Typed, socket_vars
<1>0. Queue \in Seq(Completion) /\ Aborted \in Seq(Completion)
  BY QueueIsTyped, AbortedHolds
<1>1. CASE UNCHANGED vars
  BY <1>1 DEF vars, Queue, Alive
<1>2. CASE User \/ Network
  <2>1. NoneOf(Queue, Readers)
    <3>1. Queue' = Queue \/ Queue' = Queue \o Aborted
      BY <1>2, QueueUser
    <3>2. CASE Queue' = Queue \o Aborted
      <4>1. NoneOf(Queue \o Aborted, Readers)
        BY <3>2
      <4> QED BY <1>0, <4>1, NoneOfConcat
    <3> QED BY <3>1, <3>2
  <2>2. link \in {"up", "lost"} /\ reads' = reads
    BY <1>2 DEF User, Connect, Resolve, StartConnect, doConnect, ConnectTo, Disconnect,
       CloseIfConnected, closeConnection, Login, Send, Network, ServerChanges, LinkBreaks
  <2> QED BY <2>1, <2>2 DEF Alive
<1>3. CASE Reactor
  <2>1. PICK c \in Completion :
          /\ Queue' = <<c>> \o Queue \/ Queue' = Queue \o <<c>>
          /\ <<c>> \in Seq(Completion)
          /\ \/ PerformConnect /\ c = Done("connect", connecting, link' = "up")
             \/ PerformRead /\ c = Done("read", 0, link = "up")
             \/ PerformWrite \/ TimerExpires
    BY <1>3, QueueReactor
  <2>2. NoneOf(Queue, Readers) /\ c \notin Readers
    <3>1. NoneOf(<<c>> \o Queue, Readers) \/ NoneOf(Queue \o <<c>>, Readers)
      BY <2>1
    <3>2. NoneOf(Queue, Readers) /\ NoneOf(<<c>>, Readers)
      BY <1>0, <2>1, <3>1, NoneOfConcat
    <3> QED BY <3>2, NoneOfSingle
  <2>3. connecting \in 0 .. NEndpoints /\ 0 \in 0 .. NEndpoints
    BY EndpointAssumption DEF SocketTyped
  <2>4. CASE PerformConnect /\ c = Done("connect", connecting, link' = "up")
    <3>1. link' = "up"
      BY <2>4 DEF PerformConnect
    <3>2. c \in Readers
      BY <2>3, <2>4, <3>1, Kinds
    <3> QED BY <2>2, <3>2
  <2>5. CASE PerformRead /\ c = Done("read", 0, link = "up")
    BY <2>2, <2>3, <2>5, Kinds
  <2>6. CASE PerformWrite \/ TimerExpires
    <3>1. UNCHANGED <<link, reads>>
      BY <2>6 DEF PerformWrite, TimerExpires
    <3> QED BY <2>2, <3>1 DEF Alive
  <2> QED BY <2>1, <2>4, <2>5, <2>6
<1>4. CASE Handle
  <2>1. CASE RunConnected \/ (RunRead /\ open)
    <3>1. reads' = reads + 1 /\ reads \in Nat
      BY <2>1 DEF RunConnected, RunRead, SocketTyped
    <3> QED BY <3>1
  <2>2. CASE RunConnectNext \/ RunReadError \/ RunTimer
    BY <2>2 DEF RunConnectNext, RunReadError, RunTimer, doConnect, ConnectTo, closeConnection
  <2>3. CASE RunRead /\ ~open
    BY <2>3 DEF RunRead, SocketTyped
  <2>4. CASE RunConnectError \/ RunReadAborted \/ RunWrite
    <3>1. UNCHANGED socket_vars /\ open
      BY <2>4 DEF RunConnectError, RunReadAborted, RunWrite, SocketTyped
    <3>2. PICK op \in {"connect", "readAborted", "write"} :
            Handling(op) /\ (op = "connect" => ~Connected)
      BY <2>4 DEF RunConnectError, RunReadAborted, RunWrite
    <3>3. /\ Queue # <<>> /\ Queue[1] \notin Readers
      BY <3>1, <3>2, KindOfCurrent DEF Connected
    <3>4. Queue' = Tail(Queue)
      BY <1>4, <2>4, QueueHandle DEF RunConnectError, RunReadAborted, RunWrite, RunConnected,
         RunConnectNext, RunRead, RunReadError, RunTimer, Handling
    <3>5. NoneOf(Queue, Readers)
      BY <1>0, <3>3, <3>4, NoneOfTail
    <3> QED BY <3>1, <3>5 DEF Alive
  <2> QED BY <1>4, <2>1, <2>2, <2>3, <2>4 DEF Handle
<1> QED BY <1>1, <1>2, <1>3, <1>4 DEF Next

-----------------------------------------------------------------------------
(* The patient user: one job at a time. *)

LEMMA NoneOfSubset ==
  \A q, S, T : NoneOf(q, S) /\ T \subseteq S => NoneOf(q, T)
BY DEF NoneOf

LEMMA OnlyOneKind ==
  ASSUME NEW q, NEW S, NEW A, NEW B,
         AtMostOne(q, S), A \subseteq S, B \subseteq S, A \cap B = {}, ~NoneOf(q, A)
  PROVE  NoneOf(q, B)
BY DEF NoneOf, AtMostOne

LEMMA AfterNone == \A q, A, B : NoneOf(q, A) \/ NoneOf(q, B) => After(q, A, B)
BY DEF NoneOf, After

LEMMA JobKinds ==
  /\ Timers \subseteq Jobs /\ Readers \subseteq Jobs /\ FailedReads \subseteq Jobs
  /\ Timers \cap Readers = {} /\ Timers \cap GoodWrites = {} /\ Jobs \cap GoodWrites = {}
BY DEF Jobs, Timers, Readers, FailedReads, GoodWrites

NoJobs(q) ==
  NoneOf(q, Jobs) /\ NoneOf(q, Timers) /\ NoneOf(q, Readers) /\ NoneOf(q, FailedReads)

LEMMA NoJobsOf == \A q : NoneOf(q, Jobs) => NoJobs(q)
BY NoneOfSubset, JobKinds DEF NoJobs

\* While the timer runs, or its handler waits, there is no connection: a socket that is
\* open is one whose attempt to connect failed.
LEMMA TimerOnFailed ==
  ASSUME Typed, Alive, OneJob, timer \/ ~NoneOf(Queue, Timers), open
  PROVE  link = "failed"
<1>1. connecting = 0 /\ reads = 0 /\ NoneOf(Queue, Readers)
  <2>1. CASE timer
    <3>1. NoneOf(Queue, Jobs)
      BY <2>1 DEF OneJob
    <3> QED BY <2>1, <3>1, NoJobsOf DEF OneJob, NoJobs, Typed, SocketTyped
  <2>2. CASE ~NoneOf(Queue, Timers)
    <3>1. ~NoneOf(Queue, Jobs)
      BY <2>2, NoneOfSubset, JobKinds
    <3> QED BY <2>2, <3>1, OnlyOneKind, JobKinds DEF OneJob
  <2> QED BY <2>1, <2>2
<1> QED BY <1>1 DEF Alive, Typed, SocketTyped

\* A job that is handled was the only one.
LEMMA JobAlone ==
  ASSUME Typed, Alive, OneJob, NEW op \in {"connect", "read", "timer"}, Handling(op)
  PROVE  /\ connecting = 0 /\ reads = 0 /\ ~timer
         /\ link # "connecting"
         /\ NoJobs(Tail(Queue)) /\ NoJobs(Aborted)
         /\ op = "connect" /\ ~Current.ok /\ open => link = "failed"
         /\ NoneOf(Queue, Timers) <=> op # "timer"
<1> USE DEF Typed
<1>1. /\ Queue \in Seq(Completion) /\ Queue # <<>> /\ Queue[1] = Current
      /\ Current \in Jobs /\ (Current \in Timers <=> op = "timer")
      /\ Current \in Readers <=> op = "read" \/ (op = "connect" /\ Current.ok)
  BY KindOfCurrent
<1>2. ~NoneOf(Queue, Jobs) /\ NoneOf(Tail(Queue), Jobs)
  BY <1>1, NoneOfTail DEF OneJob
<1>3. connecting = 0 /\ reads = 0 /\ ~timer
  BY <1>2 DEF OneJob
<1>4. link # "connecting"
  BY <1>3 DEF SocketTyped
<1>5. NoJobs(Tail(Queue)) /\ NoJobs(Aborted)
  BY <1>2, <1>3, AbortedHolds, NoJobsOf
<1>6. NoneOf(Queue, Timers) <=> op # "timer"
  BY <1>1, <1>5, NoneOfTail DEF NoJobs
<1>7. ASSUME op = "connect", ~Current.ok, open PROVE link = "failed"
  <2>1. NoneOf(Queue, Readers)
    BY <1>1, <1>5, <1>7, NoneOfTail DEF NoJobs
  <2> QED BY <1>3, <1>4, <1>7, <2>1 DEF Alive, SocketTyped
<1> QED BY <1>3, <1>4, <1>5, <1>6, <1>7

\* What is left when a handler has taken its completion away, and closed the socket or
\* not.
LEMMA WhatIsLeft ==
  ASSUME Typed, Queue # <<>>, NEW S,
         Queue' = Tail(Queue) \/ (Queue' = Tail(Queue) \o Aborted /\ NoneOf(Aborted, S))
  PROVE  /\ NoneOf(Tail(Queue), S) <=> NoneOf(Queue', S)
         /\ NoneOf(Queue, S) => NoneOf(Queue', S)
<1>1. Queue \in Seq(Completion) /\ Aborted \in Seq(Completion)
  BY QueueIsTyped, AbortedHolds DEF Typed
<1>2. Tail(Queue) \in Seq(Completion) /\ (NoneOf(Queue, S) => NoneOf(Tail(Queue), S))
  BY <1>1, TailElements, NoneOfTail
<1>3. CASE Queue' = Tail(Queue)
  BY <1>2, <1>3
<1>4. CASE Queue' = Tail(Queue) \o Aborted /\ NoneOf(Aborted, S)
  <2>1. NoneOf(Tail(Queue) \o Aborted, S) <=> NoneOf(Tail(Queue), S)
    BY <1>1, <1>2, <1>4, NoneOfConcat
  <2> QED BY <1>2, <1>4, <2>1
<1> QED BY <1>3, <1>4

LEMMA JobsLeft ==
  ASSUME Typed, Alive, OneJob,
         \/ RunConnected \/ RunConnectNext \/ RunConnectError \/ (RunRead /\ open)
         \/ RunReadError \/ RunTimer
  PROVE  /\ NoJobs(Queue')
         /\ NoneOf(Tail(Queue), GoodWrites) => NoneOf(Queue', GoodWrites)
         /\ NoneOf(Queue, GoodWrites) => NoneOf(Queue', GoodWrites)
<1>1. PICK op \in {"connect", "read", "timer"} : Handling(op)
  BY DEF RunConnected, RunConnectNext, RunConnectError, RunRead, RunReadError, RunTimer
<1>2. NoJobs(Tail(Queue)) /\ NoJobs(Aborted) /\ Queue # <<>> /\ NoneOf(Aborted, GoodWrites)
  BY <1>1, JobAlone, KindOfCurrent, AbortedHolds DEF Typed
<1>3. Queue' = Tail(Queue) \/ Queue' = Tail(Queue) \o Aborted
  BY QueueHandle DEF Handle, RunRead, Handling, RunConnected, RunConnectNext,
     RunConnectError, RunReadError, RunReadAborted, RunWrite, RunTimer
<1> QED BY <1>2, <1>3, WhatIsLeft DEF NoJobs

-----------------------------------------------------------------------------
(* The patient user's calls. *)

\* When nothing is under way there is no connection.
LEMMA QuietMeans ==
  ASSUME Typed, Alive, Quiet
  PROVE  /\ Queue = <<>> /\ Aborted = <<>> /\ NoJobs(Queue) /\ NoneOf(Queue, GoodWrites)
         /\ link \in {"none", "failed"}
<1>1. Queue = <<>>
  BY QueueIsTyped DEF Quiet, Typed
<1>2. NoJobs(Queue) /\ NoneOf(Queue, GoodWrites)
  BY <1>1, NoneOfEmpty DEF NoJobs
<1>3. Aborted = <<>>
  <2>1. reads = 0 /\ ~(connecting > 0) /\ writing = 0
    BY DEF Quiet
  <2>2. Aborted = ([i \in 1 .. 0 |-> Done("readAborted", 0, FALSE)] \o <<>>)
                   \o [i \in 1 .. 0 |-> Done("write", 0, FALSE)]
    BY <2>1 DEF Aborted
  <2>3. /\ [i \in 1 .. 0 |-> Done("readAborted", 0, FALSE)] = <<>>
        /\ [i \in 1 .. 0 |-> Done("write", 0, FALSE)] = <<>>
    OBVIOUS
  <2>4. <<>> \o <<>> = <<>>
    BY ConcatEmptySeq, EmptySeq
  <2> QED BY <2>2, <2>3, <2>4
<1>4. link \in {"none", "failed"}
  BY <1>2 DEF Alive, Quiet, NoJobs, Typed, SocketTyped
<1> QED BY <1>1, <1>2, <1>3, <1>4

LEMMA PatientConnect ==
  ASSUME Inv, patient, Connect \/ Resolve
  PROVE  Patient'
<1> USE DEF socket_vars, user_vars, flags
<1>1. /\ Typed /\ Alive /\ Patient /\ Quiet /\ ui' # "idle" /\ wanted' = "connect"
      /\ shouldReconnect' = FALSE
      /\ ui' = "resolved" => last_op_success'
      /\ UNCHANGED <<open, link, connecting, reads, writing, timer, taken, ready, tries,
                     reconnect_count>>
  <2>1. Typed /\ Alive /\ Patient /\ ConnectAlone
    BY DEF Inv, Patient
  <2>2. CASE Connect
    BY <2>1, <2>2 DEF Connect, Command
  <2>3. CASE Resolve
    <3>1. Quiet /\ ~shouldReconnect /\ wanted = "connect"
      BY <2>1, <2>3 DEF ConnectAlone, Resolve
    <3>2. shouldReconnect = FALSE
      BY <2>1, <3>1 DEF Typed, BooleansTyped
    <3>3. ui' # "idle" /\ (ui' = "resolved" => last_op_success')
      BY <2>3 DEF Resolve
    <3> QED BY <2>1, <2>3, <3>1, <3>2, <3>3 DEF Resolve
  <2> QED BY <2>2, <2>3
<1>2. Queue' = Queue /\ NoJobs(Queue) /\ NoneOf(Queue, GoodWrites) /\ ~timer
  BY <1>1, QuietMeans DEF Queue, Quiet
<1>3. ConnectAlone'
  BY <1>1 DEF ConnectAlone, Quiet
<1>4. OneJob' /\ FailureIsReal' /\ NoLateWrites'
  BY <1>1, <1>2 DEF Patient, OneJob, FailureIsReal, NoLateWrites
<1>5. TimerAfterFailure' /\ DisconnectHolds'
  BY <1>1, <1>2 DEF TimerAfterFailure, DisconnectHolds, NoJobs
<1>6. RetryCount'
  BY <1>1, <1>2 DEF Patient, RetryCount, NoJobs, Typed, CountsTyped, reconnect_max_count
<1> QED BY <1>3, <1>4, <1>5, <1>6 DEF Patient

LEMMA PatientStart ==
  ASSUME Inv, patient, StartConnect
  PROVE  Patient'
<1> USE DEF socket_vars, user_vars, flags
<1>1. /\ Typed /\ Alive /\ Patient /\ Quiet /\ ui' = "idle" /\ wanted' = "connect"
      /\ ~shouldReconnect' /\ timer' = timer /\ taken' = taken
      /\ UNCHANGED <<last_op_success, reconnect_count>>
  BY DEF Inv, Patient, ConnectAlone, StartConnect
<1>2. /\ Queue = <<>> /\ Aborted = <<>> /\ NoJobs(Queue) /\ NoneOf(Queue, GoodWrites)
      /\ ~timer /\ reads = 0 /\ connecting = 0
  BY <1>1, QuietMeans DEF Quiet
<1>3. Queue' = Queue
  BY <1>1, <1>2, QueueUser, ConcatEmptySeq, EmptySeq DEF User
<1>4. /\ reads' = 0 /\ timer' = FALSE
      /\ tries' \in {0, tries}
      /\ link' = "connecting" \/ UNCHANGED <<link, connecting>>
  BY <1>1, <1>2 DEF StartConnect, doConnect, ConnectTo, Typed, BooleansTyped
<1>5. ConnectAlone'
  BY <1>1 DEF ConnectAlone
<1>6. OneJob' /\ NoLateWrites'
  BY <1>1, <1>2, <1>3, <1>4, AfterNone DEF Patient, OneJob, NoLateWrites, NoJobs
<1>7. FailureIsReal' /\ TimerAfterFailure' /\ DisconnectHolds'
  BY <1>1, <1>2, <1>3, <1>4 DEF FailureIsReal, TimerAfterFailure, DisconnectHolds, NoJobs
<1>8. RetryCount'
  <2>1. tries <= reconnect_max_count /\ tries \in Nat /\ ~shouldReconnect
    BY <1>1, <1>2 DEF Patient, ConnectAlone, StartConnect, RetryCount, NoJobs, Typed,
       CountsTyped
  <2>2. tries' <= reconnect_max_count /\ tries' \in Nat
    BY <1>4, <2>1 DEF reconnect_max_count
  <2>3. ~(timer' \/ ~NoneOf(Queue', Timers))
    BY <1>2, <1>3, <1>4 DEF NoJobs
  <2> QED BY <1>1, <2>2, <2>3 DEF RetryCount
<1> QED BY <1>5, <1>6, <1>7, <1>8 DEF Patient

LEMMA PatientDisconnect ==
  ASSUME Inv, patient, Disconnect
  PROVE  Patient'
<1> USE DEF socket_vars, user_vars, flags
<1>1. /\ Typed /\ Alive /\ Patient /\ ui = "idle" /\ ui' = "idle"
      /\ UNCHANGED <<taken, last_op_success, reconnect_count, tries>>
  BY DEF Inv, Disconnect, Command, CloseIfConnected
<1>2. ConnectAlone'
  BY <1>1 DEF ConnectAlone
<1>3. CASE ~isConnected
  <2>1. /\ wanted' = "refused"
        /\ UNCHANGED <<open, link, connecting, reads, ready, shouldReconnect, timer>>
    BY <1>3 DEF Disconnect, CloseIfConnected
  <2>2. Queue' = Queue
    BY <1>1, <2>1 DEF Queue
  <2> QED BY <1>1, <1>2, <2>1, <2>2 DEF Patient, OneJob, FailureIsReal, NoLateWrites,
          TimerAfterFailure, isConnected, DisconnectHolds, RetryCount
<1>4. CASE isConnected
  <2>1. /\ open' = FALSE /\ link' = "none" /\ connecting' = 0 /\ reads' = 0
        /\ timer' = FALSE /\ shouldReconnect' = FALSE /\ ready' = ready \o Aborted
    BY <1>4 DEF Disconnect, CloseIfConnected, closeConnection
  <2>2. ~timer /\ NoneOf(Queue, Timers)
    BY <1>1, <1>4 DEF Patient, TimerAfterFailure
  <2>3. /\ Queue \in Seq(Completion) /\ Aborted \in Seq(Completion)
        /\ AtMostOne(Aborted, Jobs) /\ (connecting = 0 => NoneOf(Aborted, Jobs))
        /\ NoneOf(Aborted, Timers)
    BY <1>1, QueueIsTyped, AbortedHolds DEF Typed
  <2>4. Queue' = Queue \o Aborted
    <3>1. taken \in Seq(Completion) /\ ready \in Seq(Completion)
      BY <1>1, QueueIsTyped DEF Typed
    <3> QED BY <1>1, <2>1, <2>3, <3>1, ConcatAssociative DEF Queue
  <2>5. AtMostOne(Queue', Jobs)
    <3>1. AtMostOne(Queue, Jobs) /\ (~NoneOf(Queue, Jobs) => connecting = 0)
      BY <1>1 DEF Patient, OneJob
    <3>2. AtMostOne(Queue \o Aborted, Jobs)
      BY <2>3, <3>1, NoneOfConcat
    <3> QED BY <2>4, <3>2
  <2>6. NoneOf(Queue', Timers)
    <3>1. NoneOf(Queue \o Aborted, Timers)
      BY <2>2, <2>3, NoneOfConcat
    <3> QED BY <2>4, <3>1
  <2>7. OneJob' /\ FailureIsReal' /\ NoLateWrites'
    BY <2>1, <2>5, <2>6, AfterNone DEF OneJob, FailureIsReal, NoLateWrites
  <2>8. TimerAfterFailure' /\ DisconnectHolds'
    BY <2>1, <2>6 DEF TimerAfterFailure, DisconnectHolds
  <2>9. RetryCount'
    BY <1>1, <2>1, <2>2, <2>6 DEF Patient, RetryCount, Typed, CountsTyped,
       reconnect_max_count
  <2> QED BY <1>2, <2>7, <2>8, <2>9 DEF Patient
<1> QED BY <1>3, <1>4

LEMMA PatientOther ==
  ASSUME Inv, patient, Login \/ Send \/ Network \/ UNCHANGED vars
  PROVE  Patient'
<1> USE DEF socket_vars, user_vars, flags
<1>1. /\ Typed /\ Patient
      /\ UNCHANGED <<open, connecting, reads, timer, taken, ready, tries, ui, wanted,
                     reconnect_count, last_op_success, shouldReconnect>>
      /\ link' = link \/ (link = "up" /\ link' = "lost")
      /\ Quiet /\ ui # "idle" => Quiet'
  <2>1. Typed /\ Patient
    BY DEF Inv
  <2>2. CASE Login \/ Send
    BY <2>1, <2>2 DEF Login, Send, Command
  <2>3. CASE Network
    <3>1. /\ UNCHANGED <<open, connecting, reads, writing, timer, taken, ready, tries, ui,
                         wanted, reconnect_count, last_op_success, shouldReconnect>>
          /\ link' = link \/ (link = "up" /\ link' = "lost")
      BY <2>3 DEF Network, ServerChanges, LinkBreaks
    <3> QED BY <2>1, <3>1 DEF Quiet
  <2>4. CASE UNCHANGED vars
    BY <2>1, <2>4 DEF vars, Quiet
  <2> QED BY <2>2, <2>3, <2>4
<1>2. Queue' = Queue
  BY <1>1 DEF Queue
<1>3. ConnectAlone' /\ OneJob' /\ FailureIsReal' /\ NoLateWrites'
  BY <1>1, <1>2 DEF Patient, ConnectAlone, OneJob, FailureIsReal, NoLateWrites
<1>4. TimerAfterFailure' /\ DisconnectHolds' /\ RetryCount'
  BY <1>1, <1>2 DEF Patient, TimerAfterFailure, isConnected, DisconnectHolds, RetryCount
<1> QED BY <1>3, <1>4 DEF Patient

-----------------------------------------------------------------------------
(* The patient user: what the reactor performs. *)

\* A write is performed apart from the other operations.
LEMMA WritesApart ==
  ASSUME Typed, PerformConnect \/ PerformRead \/ TimerExpires
  PROVE  ~PerformWrite
<1>1. writing' = writing
  BY DEF PerformConnect, PerformRead, TimerExpires, socket_vars
<1>2. writing \in Nat
  BY DEF Typed, SocketTyped
<1>3. writing - 1 # writing
  BY <1>2
<1> QED BY <1>1, <1>3 DEF PerformWrite

\* An operation that is performed is the only job, until its handler has run.
LEMMA PatientPerformJob ==
  ASSUME Inv, patient, PerformConnect \/ PerformRead \/ TimerExpires
  PROVE  Patient'
<1> USE DEF socket_vars, user_vars, flags
<1>0. Typed /\ Alive /\ Patient /\ ConnectAlone /\ OneJob
  BY DEF Inv, Patient
<1>1. PICK c \in Completion :
        /\ Queue' = <<c>> \o Queue \/ Queue' = Queue \o <<c>>
        /\ <<c>> \in Seq(Completion)
        /\ \/ PerformConnect /\ c = Done("connect", connecting, link' = "up")
           \/ PerformRead /\ c = Done("read", 0, link = "up")
           \/ TimerExpires /\ c = Done("timer", 0, TRUE) /\ Queue' = Queue \o <<c>>
  <2>1. ~PerformWrite
    BY <1>0, WritesApart
  <2> QED BY <1>0, <2>1, QueueReactor DEF Reactor
<1>2. 0 \in 0 .. NEndpoints /\ connecting \in 0 .. NEndpoints
  BY <1>0, EndpointAssumption DEF Typed, SocketTyped
<1>3. /\ c \in Jobs /\ c \notin GoodWrites
      /\ c \in Timers => TimerExpires /\ Queue' = Queue \o <<c>>
      /\ c \in FailedReads => link' # "up"
  <2>1. ASSUME PerformConnect, c = Done("connect", connecting, link' = "up")
        PROVE  c \in Jobs /\ c \notin GoodWrites /\ c \notin Timers /\ c \notin FailedReads
    <3>1. Done("connect", connecting, link' = "up")
            \in Jobs \ (Timers \cup FailedReads \cup GoodWrites)
      BY <1>2, Kinds
    <3> QED BY <2>1, <3>1
  <2>2. ASSUME PerformRead, c = Done("read", 0, link = "up")
        PROVE  /\ c \in Jobs /\ c \notin GoodWrites /\ c \notin Timers
               /\ c \in FailedReads => link' # "up"
    <3>1. /\ Done("read", 0, link = "up") \in (Jobs \cap Readers) \ (Timers \cup GoodWrites)
          /\ Done("read", 0, link = "up") \in FailedReads <=> ~(link = "up")
      BY <1>2, Kinds
    <3>2. link' = link
      BY <2>2 DEF PerformRead
    <3> QED BY <2>2, <3>1, <3>2
  <2>3. ASSUME TimerExpires, c = Done("timer", 0, TRUE)
        PROVE  c \in Jobs /\ c \notin GoodWrites /\ c \notin FailedReads
    BY <1>2, <2>3, Kinds
  <2> QED BY <1>1, <2>1, <2>2, <2>3
<1>4. Queue \in Seq(Completion)
  BY <1>0, QueueIsTyped DEF Typed
<1>5. NoJobs(Queue) /\ AtMostOne(Queue, Jobs)
  <2>1. connecting > 0 \/ reads > 0 \/ timer
    BY <1>1 DEF PerformConnect, PerformRead, TimerExpires
  <2>2. NoneOf(Queue, Jobs)
    BY <1>0, <2>1 DEF OneJob, Typed, SocketTyped
  <2> QED BY <1>0, <2>2, NoJobsOf DEF OneJob
<1>6. AtMostOne(Queue', Jobs)
  <2>1. AtMostOne(<<c>> \o Queue, Jobs) /\ AtMostOne(Queue \o <<c>>, Jobs)
    BY <1>1, <1>4, <1>5, NoneOfConcat, NoneOfSingle DEF NoJobs
  <2> QED BY <1>1, <2>1
<1>7. \A S : c \notin S /\ NoneOf(Queue, S) => NoneOf(Queue', S)
  <2> SUFFICES ASSUME NEW S, c \notin S, NoneOf(Queue, S) PROVE NoneOf(Queue', S)
    OBVIOUS
  <2>1. NoneOf(<<c>> \o Queue, S) /\ NoneOf(Queue \o <<c>>, S)
    BY <1>1, <1>4, NoneOfConcat, NoneOfSingle
  <2> QED BY <1>1, <2>1
<1>8. /\ connecting' = 0 /\ reads' = 0 /\ timer' = FALSE
      /\ UNCHANGED <<open, tries, ui, wanted, reconnect_count, last_op_success,
                     shouldReconnect>>
      /\ link' = link \/ (link = "connecting" /\ connecting > 0)
  <2> USE <1>0 DEF OneJob, Typed, SocketTyped, BooleansTyped
  <2>1. CASE PerformConnect
    BY <2>1 DEF PerformConnect
  <2>2. CASE PerformRead
    BY <2>2 DEF PerformRead
  <2>3. CASE TimerExpires
    BY <2>3 DEF TimerExpires
  <2> QED BY <2>1, <2>2, <2>3
<1>9. ConnectAlone'
  <2>1. ui = "idle"
    <3>1. connecting > 0 \/ reads > 0 \/ timer
      BY DEF PerformConnect, PerformRead, TimerExpires
    <3>2. ~Quiet
      BY <1>0, <3>1 DEF Quiet
    <3> QED BY <1>0, <3>2 DEF ConnectAlone
  <2> QED BY <1>8, <2>1 DEF ConnectAlone
<1>10. OneJob'
  BY <1>6, <1>8 DEF OneJob
<1>11. FailureIsReal'
  BY <1>3, <1>5, <1>7 DEF FailureIsReal, NoJobs
<1>12. NoLateWrites'
  <2>1. link' \in {"connecting", "failed"} => link \in {"connecting", "failed"}
    BY <1>8
  <2>2. link' \in {"connecting", "failed"} => NoneOf(Queue', GoodWrites)
    BY <1>0, <1>3, <1>7, <2>1 DEF Patient, NoLateWrites
  <2>3. After(Queue', Timers, GoodWrites)
    <3>1. CASE Queue' = Queue \o <<c>>
      <4>1. After(Queue, Timers, GoodWrites) /\ NoneOf(<<c>>, GoodWrites)
        BY <1>0, <1>3, NoneOfSingle DEF Patient, NoLateWrites
      <4>2. After(Queue \o <<c>>, Timers, GoodWrites)
        BY <1>1, <1>4, <4>1, AfterConcat, JobKinds
      <4> QED BY <3>1, <4>2
    <3>2. CASE c \notin Timers
      BY <1>5, <1>7, <3>2, AfterNone DEF NoJobs
    <3>3. c \notin Timers \/ Queue' = Queue \o <<c>>
      BY <1>3
    <3> QED BY <3>1, <3>2, <3>3
  <2> QED BY <2>2, <2>3 DEF NoLateWrites
<1>13. timer' \/ ~NoneOf(Queue', Timers) => timer \/ ~NoneOf(Queue, Timers)
  <2>1. CASE c \in Timers
    BY <1>3, <2>1 DEF TimerExpires
  <2>2. CASE c \notin Timers
    BY <1>7, <1>8, <2>2
  <2> QED BY <2>1, <2>2
<1>14. TimerAfterFailure' /\ DisconnectHolds' /\ RetryCount'
  <2>1. TimerAfterFailure'
    BY <1>0, <1>8, <1>13 DEF Patient, TimerAfterFailure, isConnected
  <2>2. DisconnectHolds'
    BY <1>0, <1>8, <1>13 DEF Patient, DisconnectHolds
  <2>3. RetryCount'
    BY <1>0, <1>8, <1>13 DEF Patient, RetryCount, Typed, CountsTyped, reconnect_max_count
  <2> QED BY <2>1, <2>2, <2>3
<1> QED BY <1>9, <1>10, <1>11, <1>12, <1>14 DEF Patient

LEMMA PatientWrite ==
  ASSUME Inv, patient, PerformWrite
  PROVE  Patient'
<1> USE DEF socket_vars, user_vars, flags
<1>0. Typed /\ Alive /\ Patient /\ ConnectAlone /\ OneJob
  BY DEF Inv, Patient
<1>1. PICK c \in Completion :
        /\ Queue' = Queue \o <<c>> /\ <<c>> \in Seq(Completion)
        /\ c = Done("write", 0, link = "up")
  <2>1. ~PerformConnect /\ ~PerformRead /\ ~TimerExpires
    BY <1>0, WritesApart
  <2> QED BY <1>0, <2>1, QueueReactor DEF Reactor
<1>2. c \notin Jobs \cup Timers \cup Readers \cup FailedReads
      /\ (c \in GoodWrites <=> link = "up")
  <2>1. 0 \in 0 .. NEndpoints
    BY EndpointAssumption
  <2> QED BY <1>1, <2>1, Kinds
<1>3. Queue \in Seq(Completion)
  BY <1>0, QueueIsTyped DEF Typed
<1>4. \A S : c \notin S => (NoneOf(Queue', S) <=> NoneOf(Queue, S))
  <2> SUFFICES ASSUME NEW S, c \notin S PROVE NoneOf(Queue', S) <=> NoneOf(Queue, S)
    OBVIOUS
  <2>1. NoneOf(Queue \o <<c>>, S) <=> NoneOf(Queue, S)
    BY <1>1, <1>3, NoneOfConcat, NoneOfSingle
  <2> QED BY <1>1, <2>1
<1>5. AtMostOne(Queue', Jobs)
  <2>1. AtMostOne(Queue \o <<c>>, Jobs)
    <3>1. AtMostOne(Queue, Jobs) /\ NoneOf(<<c>>, Jobs)
      BY <1>0, <1>2, NoneOfSingle DEF OneJob
    <3> QED BY <1>1, <1>3, <3>1, NoneOfConcat
  <2> QED BY <1>1, <2>1
<1>6. /\ UNCHANGED <<open, link, connecting, reads, timer, tries, ui, wanted,
                     reconnect_count, last_op_success, shouldReconnect>>
      /\ writing > 0
  BY DEF PerformWrite
<1>7. ConnectAlone'
  BY <1>0, <1>6 DEF ConnectAlone, Quiet
<1>8. OneJob' /\ FailureIsReal'
  BY <1>0, <1>2, <1>4, <1>5, <1>6 DEF Patient, OneJob, FailureIsReal
<1>9. NoLateWrites'
  <2>1. link' \in {"connecting", "failed"} => NoneOf(Queue', GoodWrites)
    BY <1>0, <1>2, <1>4, <1>6 DEF Patient, NoLateWrites
  <2>2. After(Queue', Timers, GoodWrites)
    <3>1. CASE link = "up"
      <4>1. open
        BY <1>0, <3>1 DEF Typed, SocketTyped
      <4>2. NoneOf(Queue, Timers)
        BY <1>0, <3>1, <4>1, TimerOnFailed
      <4> QED BY <1>2, <1>4, <4>2, AfterNone
    <3>2. CASE link # "up"
      <4>1. After(Queue, Timers, GoodWrites) /\ NoneOf(<<c>>, GoodWrites)
        BY <1>0, <1>2, <3>2, NoneOfSingle DEF Patient, NoLateWrites
      <4>2. After(Queue \o <<c>>, Timers, GoodWrites)
        BY <1>1, <1>3, <4>1, AfterConcat, JobKinds
      <4> QED BY <1>1, <4>2
    <3> QED BY <3>1, <3>2
  <2> QED BY <2>1, <2>2 DEF NoLateWrites
<1>10. TimerAfterFailure' /\ DisconnectHolds' /\ RetryCount'
  BY <1>0, <1>2, <1>4, <1>6 DEF Patient, TimerAfterFailure, isConnected, DisconnectHolds,
     RetryCount
<1> QED BY <1>7, <1>8, <1>9, <1>10 DEF Patient

-----------------------------------------------------------------------------
(* The patient user: the handlers. *)

\* A handler runs while no connect() is under way, and leaves the user where he is.
LEMMA HandlerIdle ==
  ASSUME Typed, ConnectAlone, Handle
  PROVE  /\ ui = "idle" /\ ConnectAlone'
         /\ UNCHANGED <<ui, wanted>>
<1>1. \E op : Handling(op)
  BY DEF Handle, RunConnected, RunConnectNext, RunConnectError, RunRead, RunReadError,
     RunReadAborted, RunWrite, RunTimer
<1>2. UNCHANGED <<ui, wanted>>
  BY DEF user_vars, Handle, RunConnected, RunConnectNext, RunConnectError, RunRead,
     RunReadError, RunReadAborted, RunWrite, RunTimer
<1>3. ui = "idle"
  BY <1>1 DEF ConnectAlone, Quiet, Handling
<1> QED BY <1>2, <1>3 DEF ConnectAlone

\* What a job that is handled leaves is as good as an empty queue: only the flags and the
\* socket are left to look at.
LEMMA PatientAfterJob ==
  ASSUME Inv, patient, Handle, NoJobs(Queue'),
         reads' \in {0, 1}, connecting' > 0 => reads' = 0 /\ ~timer', timer' => reads' = 0,
         link' \in {"connecting", "failed"} => NoneOf(Queue', GoodWrites),
         timer' => ~isConnected',
         wanted = "disconnect" => ~open' /\ ~timer' /\ ~shouldReconnect',
         tries' + (IF timer' THEN 1 ELSE 0)
           <= IF shouldReconnect' THEN reconnect_count' ELSE reconnect_max_count
  PROVE  Patient'
<1>1. ConnectAlone' /\ wanted' = wanted
  BY HandlerIdle DEF Inv, Patient
<1>2. OneJob'
  BY DEF NoJobs, OneJob, NoneOf, AtMostOne
<1>3. FailureIsReal' /\ NoLateWrites'
  BY AfterNone DEF FailureIsReal, NoLateWrites, NoJobs
<1>4. TimerAfterFailure' /\ DisconnectHolds' /\ RetryCount'
  BY <1>1 DEF TimerAfterFailure, DisconnectHolds, RetryCount, NoJobs
<1> QED BY <1>1, <1>2, <1>3, <1>4 DEF Patient

LEMMA PatientFacts ==
  ASSUME Inv, patient
  PROVE  /\ Typed /\ Alive /\ OneJob /\ Patient
         /\ tries \in Nat /\ tries <= reconnect_max_count
         /\ reconnect_count \in 0 .. reconnect_max_count - 1
         /\ shouldReconnect => tries <= reconnect_count
         /\ timer \/ ~NoneOf(Queue, Timers) =>
              tries + 1 <= IF shouldReconnect THEN reconnect_count ELSE reconnect_max_count
BY DEF Inv, Patient, RetryCount, Typed, CountsTyped, reconnect_max_count

LEMMA PatientConnected ==
  ASSUME Inv, patient, RunConnected
  PROVE  Patient'
<1>1. Handling("connect") /\ open /\ Handle
  BY DEF RunConnected, Connected, Handle
<1>2. /\ connecting = 0 /\ reads = 0 /\ timer = FALSE /\ link # "connecting"
      /\ NoJobs(Queue')
      /\ NoneOf(Queue, GoodWrites) => NoneOf(Queue', GoodWrites)
  BY <1>1, PatientFacts, JobAlone, JobsLeft DEF Typed, BooleansTyped
<1>3. /\ reads' = 1 /\ tries' = 0 /\ shouldReconnect' = TRUE /\ reconnect_count' = 0
      /\ UNCHANGED <<open, link, connecting, timer>>
  BY <1>2 DEF RunConnected
<1>4. wanted # "disconnect"
  BY <1>1, PatientFacts DEF Patient, DisconnectHolds
<1>5. link' \in {"connecting", "failed"} => NoneOf(Queue', GoodWrites)
  BY <1>2, <1>3, PatientFacts DEF Patient, NoLateWrites
<1> QED BY <1>1, <1>2, <1>3, <1>4, <1>5, PatientAfterJob

LEMMA PatientConnectNext ==
  ASSUME Inv, patient, RunConnectNext
  PROVE  Patient'
<1>1. Handling("connect") /\ open /\ ~Current.ok /\ Handle
  BY DEF RunConnectNext, NextEndpoint, Handle
<1>2. /\ connecting = 0 /\ reads = 0 /\ timer = FALSE /\ link = "failed"
      /\ NoJobs(Queue')
      /\ NoneOf(Queue, GoodWrites) => NoneOf(Queue', GoodWrites)
  BY <1>1, PatientFacts, JobAlone, JobsLeft DEF Typed, BooleansTyped
<1>3. /\ reads' = 0 /\ timer' = FALSE
      /\ UNCHANGED <<tries, shouldReconnect, reconnect_count>>
  BY <1>2 DEF RunConnectNext, ConnectTo, flags
<1>4. wanted # "disconnect"
  BY <1>1, PatientFacts DEF Patient, DisconnectHolds
<1>5. NoneOf(Queue', GoodWrites)
  BY <1>2, PatientFacts DEF Patient, NoLateWrites
<1> QED BY <1>1, <1>2, <1>3, <1>4, <1>5, PatientFacts, PatientAfterJob

\* What ReconnectIfWanted does to the flags, when the timer does not run.
LEMMA Reconnecting ==
  ASSUME Inv, patient, ReconnectIfWanted, timer = FALSE, UNCHANGED tries
  PROVE  /\ timer' \in BOOLEAN
         /\ tries' + (IF timer' THEN 1 ELSE 0)
              <= IF shouldReconnect' THEN reconnect_count' ELSE reconnect_max_count
         /\ ~shouldReconnect => ~timer' /\ ~shouldReconnect'
<1>1. CASE ~shouldReconnect
  <2>1. UNCHANGED <<timer, shouldReconnect, reconnect_count>>
    BY <1>1 DEF ReconnectIfWanted, flags
  <2>2. timer' = FALSE /\ ~shouldReconnect'
    BY <1>1, <2>1
  <2>3. tries' <= reconnect_max_count /\ tries' \in Nat
    BY PatientFacts
  <2>4. tries' + 0 <= reconnect_max_count
    BY <2>3
  <2>5. /\ (IF timer' THEN 1 ELSE 0) = 0
        /\ (IF shouldReconnect' THEN reconnect_count' ELSE reconnect_max_count)
             = reconnect_max_count
    BY <2>2
  <2>6. timer' \in BOOLEAN
    BY <2>2
  <2> QED BY <2>2, <2>4, <2>5, <2>6
<1>2. CASE shouldReconnect
  <2>1. timer' = TRUE
        /\ \/ reconnect_count + 1 = reconnect_max_count /\ shouldReconnect' = FALSE
           \/ reconnect_count' = reconnect_count + 1 /\ shouldReconnect' = shouldReconnect
    BY <1>2 DEF ReconnectIfWanted, scheduleReconnect
  <2>2. tries' + 1 <= reconnect_count + 1
    BY <1>2, PatientFacts
  <2> QED BY <1>2, <2>1, <2>2
<1> QED BY <1>1, <1>2

LEMMA PatientConnectError ==
  ASSUME Inv, patient, RunConnectError
  PROVE  Patient'
<1>1. Handling("connect") /\ Handle
  BY DEF RunConnectError, Handle
<1>2. /\ connecting = 0 /\ reads = 0 /\ timer = FALSE /\ NoJobs(Queue')
      /\ NoneOf(Queue, GoodWrites) => NoneOf(Queue', GoodWrites)
  BY <1>1, PatientFacts, JobAlone, JobsLeft DEF Typed, BooleansTyped
<1>3. /\ last_op_success' = FALSE /\ ReconnectIfWanted
      /\ UNCHANGED <<open, link, connecting, reads, tries>>
  BY DEF RunConnectError, socket_vars
<1>4. wanted = "disconnect" => ~open' /\ ~timer' /\ ~shouldReconnect'
  BY <1>2, <1>3, PatientFacts, Reconnecting DEF Patient, DisconnectHolds
<1>5. link' \in {"connecting", "failed"} => NoneOf(Queue', GoodWrites)
  BY <1>2, <1>3, PatientFacts DEF Patient, NoLateWrites
<1>6. timer' => ~isConnected'
  BY <1>3 DEF isConnected
<1>7. tries' + (IF timer' THEN 1 ELSE 0)
           <= IF shouldReconnect' THEN reconnect_count' ELSE reconnect_max_count
  BY <1>2, <1>3, Reconnecting
<1> QED BY <1>1, <1>2, <1>3, <1>4, <1>5, <1>6, <1>7, PatientAfterJob

LEMMA PatientReadError ==
  ASSUME Inv, patient, RunReadError
  PROVE  Patient'
<1>1. Handling("read") /\ Handle
  BY DEF RunReadError, Handle
<1>2. timer = FALSE /\ NoJobs(Queue')
  BY <1>1, PatientFacts, JobAlone, JobsLeft DEF Typed, BooleansTyped
<1>3. /\ ReconnectIfWanted
      /\ open' = FALSE /\ link' = "none" /\ connecting' = 0 /\ reads' = 0
      /\ UNCHANGED tries
  BY DEF RunReadError, closeConnection
<1>4. wanted = "disconnect" => ~open' /\ ~timer' /\ ~shouldReconnect'
  BY <1>2, <1>3, PatientFacts, Reconnecting DEF Patient, DisconnectHolds
<1>5. timer' => ~isConnected'
  BY <1>3 DEF isConnected
<1>6. tries' + (IF timer' THEN 1 ELSE 0)
           <= IF shouldReconnect' THEN reconnect_count' ELSE reconnect_max_count
  BY <1>2, <1>3, Reconnecting
<1> QED BY <1>1, <1>2, <1>3, <1>4, <1>5, <1>6, PatientAfterJob

LEMMA PatientTimer ==
  ASSUME Inv, patient, RunTimer
  PROVE  Patient'
<1>1. Handling("timer") /\ Handle
  BY DEF RunTimer, Handle
<1>2. /\ timer = FALSE /\ NoJobs(Queue') /\ ~NoneOf(Queue, Timers)
      /\ NoneOf(Tail(Queue), GoodWrites) => NoneOf(Queue', GoodWrites)
  BY <1>1, PatientFacts, JobAlone, JobsLeft DEF Typed, BooleansTyped
<1>3. /\ reads' = 0 /\ timer' = FALSE /\ link' = "connecting"
      /\ tries' \in {tries, tries + 1}
      /\ UNCHANGED <<shouldReconnect, reconnect_count>>
  BY <1>2 DEF RunTimer, doConnect, ConnectTo, flags
<1>4. wanted # "disconnect"
  BY <1>2, PatientFacts DEF Patient, DisconnectHolds
<1>5. NoneOf(Queue', GoodWrites)
  <2>1. Queue \in Seq(Completion) /\ Queue # <<>> /\ Queue[1] \in Timers
    BY <1>1, PatientFacts, KindOfCurrent DEF Typed
  <2> QED BY <1>2, <2>1, PatientFacts, AfterTail DEF Patient, NoLateWrites
<1>6. tries' <= IF shouldReconnect' THEN reconnect_count' ELSE reconnect_max_count
  BY <1>2, <1>3, PatientFacts
<1>7. tries' + (IF timer' THEN 1 ELSE 0)
           <= IF shouldReconnect' THEN reconnect_count' ELSE reconnect_max_count
  BY <1>3, <1>6, PatientFacts
<1> QED BY <1>1, <1>2, <1>3, <1>4, <1>5, <1>7, PatientAfterJob

LEMMA PatientRead ==
  ASSUME Inv, patient, RunRead
  PROVE  Patient'
<1>1. Handling("read") /\ Handle
  BY DEF RunRead, Handle
<1>2. /\ connecting = 0 /\ reads = 0 /\ timer = FALSE
      /\ NoJobs(Tail(Queue))
  BY <1>1, PatientFacts, JobAlone DEF Typed, BooleansTyped
<1>3. UNCHANGED <<open, link, connecting, timer, shouldReconnect, reconnect_count, tries>>
  BY DEF RunRead, flags
<1>4. wanted = "disconnect" => ~open' /\ ~timer' /\ ~shouldReconnect'
  BY <1>2, <1>3, PatientFacts DEF Patient, DisconnectHolds
<1>5. tries' + 0 <= IF shouldReconnect' THEN reconnect_count' ELSE reconnect_max_count
  BY <1>3, PatientFacts
<1>6. CASE open
  <2>1. NoJobs(Queue') /\ (NoneOf(Queue, GoodWrites) => NoneOf(Queue', GoodWrites))
    BY <1>6, PatientFacts, JobsLeft
  <2>2. reads' = 1
    BY <1>2, <1>6 DEF RunRead
  <2>3. link' \in {"connecting", "failed"} => NoneOf(Queue', GoodWrites)
    BY <1>3, <2>1, PatientFacts DEF Patient, NoLateWrites
  <2>4. (IF timer' THEN 1 ELSE 0) = 0 /\ timer' = FALSE
    BY <1>2, <1>3
  <2> QED BY <1>1, <1>2, <1>3, <1>4, <1>5, <2>1, <2>2, <2>3, <2>4, PatientAfterJob
\* The read of a socket that is closed has failed already; it is the only job.
<1>7. CASE ~open
  <2> DEFINE c == Done("read", 0, FALSE)
  <2>1. Queue' = Tail(Queue) \o <<c>>
    BY <1>7, PatientFacts, QueueHandle, <1>1 DEF Handling, RunRead, RunConnected,
       RunConnectNext, RunConnectError, RunReadError, RunReadAborted, RunWrite, RunTimer
  <2>2. /\ c \in Completion /\ c \notin Timers
    <3>1. 0 \in 0 .. NEndpoints
      BY EndpointAssumption
    <3> QED BY <3>1, Kinds DEF Jobs
  <2> HIDE DEF c
  <2>3. Tail(Queue) \in Seq(Completion) /\ <<c>> \in Seq(Completion)
    BY <1>1, <2>2, PatientFacts, KindOfCurrent DEF Typed
  <2>4. AtMostOne(Queue', Jobs) /\ NoneOf(Queue', Timers)
    <3>1. /\ AtMostOne(Tail(Queue) \o <<c>>, Jobs)
          /\ NoneOf(Tail(Queue) \o <<c>>, Timers)
      BY <1>2, <2>2, <2>3, NoneOfConcat, NoneOfSingle DEF NoJobs
    <3> QED BY <2>1, <3>1
  <2>5. /\ link' = "none" /\ reads' = 0 /\ connecting' = 0 /\ timer' = FALSE
        /\ open' = open
    BY <1>2, <1>3, <1>7, PatientFacts DEF RunRead, Typed, SocketTyped
  <2>6. ConnectAlone' /\ wanted' = wanted
    BY <1>1, PatientFacts, HandlerIdle DEF Patient
  <2>7. OneJob' /\ FailureIsReal' /\ NoLateWrites'
    BY <2>4, <2>5, AfterNone DEF OneJob, FailureIsReal, NoLateWrites
  <2>8. TimerAfterFailure' /\ DisconnectHolds' /\ RetryCount'
    BY <1>4, <1>5, <2>4, <2>5, <2>6 DEF TimerAfterFailure, DisconnectHolds, RetryCount
  <2> QED BY <2>6, <2>7, <2>8 DEF Patient
<1> QED BY <1>6, <1>7

\* Handlers that touch last_op_success_ only.
LEMMA PatientLate ==
  ASSUME Inv, patient, RunReadAborted \/ RunWrite
  PROVE  Patient'
<1>1. PICK op \in {"readAborted", "write"} :
        Handling(op) /\ (op = "readAborted" => last_op_success' = FALSE)
                     /\ (op = "write" => last_op_success' = Current.ok)
  BY DEF RunReadAborted, RunWrite
<1>2. /\ UNCHANGED <<open, link, connecting, reads, timer, shouldReconnect,
                     reconnect_count, tries>>
      /\ Handle
  BY DEF RunReadAborted, RunWrite, socket_vars, flags, Handle
<1>3. Typed /\ Alive /\ OneJob /\ Patient
  BY PatientFacts
<1>4. /\ Queue \in Seq(Completion) /\ Queue # <<>> /\ Queue[1] = Current
      /\ Current \notin Jobs
      /\ Current \in GoodWrites <=> op = "write" /\ Current.ok
  BY <1>1, <1>3, KindOfCurrent DEF Typed
<1>5. Queue' = Tail(Queue)
  BY <1>1, <1>2, <1>3, QueueHandle DEF RunRead, RunConnected, RunConnectNext,
     RunConnectError, RunReadError, RunReadAborted, RunWrite, RunTimer, Handling
<1>6. /\ \A S : NoneOf(Queue, S) => NoneOf(Queue', S)
      /\ AtMostOne(Queue, Jobs) => AtMostOne(Queue', Jobs)
      /\ NoneOf(Queue', Timers) <=> NoneOf(Queue, Timers)
      /\ NoneOf(Queue', Jobs) <=> NoneOf(Queue, Jobs)
      /\ After(Queue, Timers, GoodWrites) => After(Queue', Timers, GoodWrites)
  <2>1. Queue[1] \notin Jobs /\ Queue[1] \notin Timers
    BY <1>4, JobKinds
  <2> QED BY <1>4, <1>5, <2>1, NoneOfTail, AfterTail
<1>7. ConnectAlone' /\ wanted' = wanted
  BY <1>2, <1>3, HandlerIdle DEF Patient
<1>8. OneJob' /\ FailureIsReal' /\ NoLateWrites'
  BY <1>2, <1>3, <1>6 DEF Patient, OneJob, FailureIsReal, NoLateWrites
<1>9. TimerAfterFailure'
  <2> SUFFICES ASSUME timer \/ ~NoneOf(Queue, Timers), open PROVE ~last_op_success'
    BY <1>2, <1>6 DEF TimerAfterFailure, isConnected
  <2>1. NoneOf(Queue, GoodWrites)
    BY <1>3, TimerOnFailed DEF Patient, NoLateWrites
  <2>2. Current \notin GoodWrites
    BY <1>4, <2>1, NoneOfTail
  <2> QED BY <1>1, <1>4, <2>2
<1>10. DisconnectHolds' /\ RetryCount'
  BY <1>2, <1>3, <1>6, <1>7 DEF Patient, DisconnectHolds, RetryCount
<1> QED BY <1>7, <1>8, <1>9, <1>10 DEF Patient

-----------------------------------------------------------------------------
LEMMA InvInit == Init => Inv
<1> SUFFICES ASSUME Init PROVE Inv
  OBVIOUS
<1>1. Typed
  BY TypedInit
<1>2. Alive
  BY DEF Init, Alive
<1>3. Quiet /\ ui = "idle" /\ open = FALSE /\ link = "none" /\ ~shouldReconnect /\ tries = 0
      /\ reconnect_count = 0
  BY DEF Init, Quiet
<1>4. NoJobs(Queue) /\ NoneOf(Queue, GoodWrites) /\ ~timer /\ Queue = <<>>
  BY <1>1, <1>2, <1>3, QuietMeans DEF Quiet
<1>5. ConnectAlone
  BY <1>3 DEF ConnectAlone
<1>6. OneJob /\ FailureIsReal /\ NoLateWrites
  BY <1>3, <1>4, NoneOfEmpty, AfterNone DEF Quiet, OneJob, FailureIsReal, NoLateWrites, NoJobs
<1>7. TimerAfterFailure /\ DisconnectHolds
  BY <1>3, <1>4 DEF TimerAfterFailure, isConnected, DisconnectHolds, NoJobs
<1>8. RetryCount
  BY <1>3, <1>4 DEF RetryCount, NoJobs, reconnect_max_count
<1> QED BY <1>1, <1>2, <1>5, <1>6, <1>7, <1>8 DEF Inv, Patient

LEMMA InvNext == Inv /\ [Next]_vars => Inv'
<1> SUFFICES ASSUME Inv, [Next]_vars PROVE Inv'
  OBVIOUS
<1>1. Typed' /\ Alive'
  BY TypedNext, AliveNext DEF Inv
<1>2. patient' = patient
  BY DEF vars, user_vars, Next, User, Connect, Resolve, StartConnect, Disconnect,
     CloseIfConnected, Login, Send, Network, ServerChanges, LinkBreaks, Reactor,
     PerformConnect, PerformRead, PerformWrite, TimerExpires, Handle, RunConnected,
     RunConnectNext, RunConnectError, RunRead, RunReadError, RunReadAborted, RunWrite,
     RunTimer
<1>3. ASSUME patient PROVE Patient'
  <2>1. CASE User \/ Network \/ UNCHANGED vars
    BY <1>3, <2>1, PatientConnect, PatientStart, PatientDisconnect, PatientOther DEF User
  <2>2. CASE Reactor
    BY <1>3, <2>2, PatientPerformJob, PatientWrite DEF Reactor
  <2>3. CASE Handle
    BY <1>3, <2>3, PatientConnected, PatientConnectNext, PatientConnectError, PatientRead,
       PatientReadError, PatientLate, PatientTimer DEF Handle
  <2> QED BY <2>1, <2>2, <2>3 DEF Next
<1> QED BY <1>1, <1>2, <1>3 DEF Inv

LEMMA Invariant == Spec => []Inv
BY InvInit, InvNext, PTL DEF Spec

-----------------------------------------------------------------------------
(* What the invariant is for. *)

LEMMA WaitingIsQueue ==
  ASSUME QueueTyped
  PROVE  \A c : c \in Waiting <=> \E i \in DOMAIN Queue : Queue[i] = c
<1>1. taken \in Seq(Completion) /\ ready \in Seq(Completion)
  BY QueueIsTyped
<1>2. /\ DOMAIN taken = 1 .. Len(taken) /\ DOMAIN ready = 1 .. Len(ready)
      /\ Len(taken) \in Nat /\ Len(ready) \in Nat
      /\ DOMAIN Queue = 1 .. Len(taken) + Len(ready)
      /\ \A i \in 1 .. Len(taken) + Len(ready) :
           Queue[i] = IF i <= Len(taken) THEN taken[i] ELSE ready[i - Len(taken)]
  BY <1>1, LenProperties, ConcatProperties DEF Queue
<1>3. \A i \in DOMAIN taken : i \in DOMAIN Queue /\ Queue[i] = taken[i]
  BY <1>2
<1>4. \A i \in DOMAIN ready : i + Len(taken) \in DOMAIN Queue
                              /\ Queue[i + Len(taken)] = ready[i]
  BY <1>2
<1>5. \A i \in DOMAIN Queue : \/ i \in DOMAIN taken /\ Queue[i] = taken[i]
                              \/ i - Len(taken) \in DOMAIN ready
                                 /\ Queue[i] = ready[i - Len(taken)]
  BY <1>2
<1> QED BY <1>3, <1>4, <1>5 DEF Waiting

LEMMA InvOneRead == Inv => OneRead
<1> SUFFICES ASSUME Inv PROVE OneRead
  OBVIOUS
<1> DEFINE ranRead == \E c \in Waiting : c.op = "read"
           ranConnect == \E c \in Waiting : c.op = "connect" /\ c.ok
           due == reads + (IF ranRead THEN 1 ELSE 0) + (IF ranConnect THEN 1 ELSE 0)
<1>1. OneRead <=> (link \in {"up", "lost"} => due > 0) /\ (patient => due <= 1)
  <2>1. (\E c \in Waiting : c.op = "read" /\ ("read" = "connect" => c.ok)) <=> ranRead
    OBVIOUS
  <2>2. (\E c \in Waiting : c.op = "connect" /\ ("connect" = "connect" => c.ok))
          <=> ranConnect
    OBVIOUS
  <2> HIDE DEF ranRead, ranConnect
  <2> QED BY <2>1, <2>2 DEF OneRead
<1>2. /\ Typed /\ Alive /\ reads \in Nat
      /\ Queue \in Seq(Completion)
      /\ \A i \in DOMAIN Queue : Queue[i] \in Completion
  <2>1. Typed /\ Alive /\ reads \in Nat /\ Queue \in Seq(Completion)
    BY QueueIsTyped DEF Inv, Typed, SocketTyped
  <2> HIDE DEF Completion
  <2> QED BY <2>1, LenProperties, ElementOfSeq
<1>3. ranRead \/ ranConnect <=> ~NoneOf(Queue, Readers)
  BY <1>2, WaitingIsQueue DEF Typed, NoneOf, Readers
<1>4. link \in {"up", "lost"} => due > 0
  <2>1. link \in {"up", "lost"} => reads > 0 \/ ranRead \/ ranConnect
    BY <1>2, <1>3 DEF Alive
  <2> HIDE DEF ranRead, ranConnect
  <2> QED BY <1>2, <2>1
<1>5. ASSUME patient PROVE due <= 1
  <2>1. OneJob
    BY <1>5 DEF Inv, Patient
  <2>2. ~(ranRead /\ ranConnect)
    <3> SUFFICES ASSUME NEW c \in Waiting, NEW d \in Waiting, c.op = "read",
                        d.op = "connect"
                 PROVE  FALSE
      OBVIOUS
    <3>1. PICK i \in DOMAIN Queue, j \in DOMAIN Queue : Queue[i] = c /\ Queue[j] = d
      BY <1>2, WaitingIsQueue DEF Typed
    <3>2. Queue[i] \in Jobs /\ Queue[j] \in Jobs
      BY <1>2, <3>1 DEF Jobs
    <3>3. i = j
      BY <2>1, <3>2 DEF OneJob, AtMostOne
    <3> QED BY <3>1, <3>3
  <2>3. reads <= 1 /\ (reads > 0 => ~ranRead /\ ~ranConnect)
    <3>1. reads > 0 => NoneOf(Queue, Jobs)
      BY <2>1 DEF OneJob
    <3> QED BY <1>3, <2>1, <3>1, NoJobsOf DEF OneJob, NoJobs
  <2> HIDE DEF ranRead, ranConnect
  <2> QED BY <1>2, <2>2, <2>3
<1> QED BY <1>1, <1>4, <1>5

LEMMA InvRetries == Inv => RetriesBounded
BY DEF Inv, Patient, RetryCount, RetriesBounded, Typed, CountsTyped, reconnect_max_count

\* The connection of a patient user is ended by no handler of an earlier one, and none is
\* made after his disconnect.
LEMMA StepFollowsUser ==
  ASSUME Inv, Next, patient
  PROVE  /\ link = "up" => link' \in {"up", "lost"} \/ wanted' = "disconnect"
         /\ link # "up" /\ link' = "up" => wanted # "disconnect"
<1>1. Typed /\ Alive /\ OneJob /\ Patient
  BY PatientFacts
<1> USE DEF socket_vars
<1>2. CASE Connect \/ Resolve \/ Login \/ Send \/ Network
  BY <1>2 DEF Connect, Resolve, Login, Send, Network, ServerChanges, LinkBreaks
<1>3. CASE StartConnect
  <2>1. link \in {"none", "failed"}
    BY <1>1, <1>3, QuietMeans DEF Patient, ConnectAlone, StartConnect
  <2> QED BY <1>3, <2>1 DEF StartConnect, doConnect, ConnectTo
<1>4. CASE Disconnect
  BY <1>4 DEF Disconnect, CloseIfConnected, closeConnection
<1>5. CASE PerformConnect
  <2>1. link = "connecting" /\ open
    BY <1>1, <1>5 DEF PerformConnect, Typed, SocketTyped
  <2> QED BY <1>1, <2>1 DEF Patient, DisconnectHolds
<1>6. CASE PerformRead \/ PerformWrite \/ TimerExpires
  BY <1>6 DEF PerformRead, PerformWrite, TimerExpires
<1>7. CASE RunConnected \/ RunConnectError \/ RunRead \/ RunReadAborted \/ RunWrite
  BY <1>7 DEF RunConnected, RunConnectError, RunRead, RunReadAborted, RunWrite
<1>8. CASE RunConnectNext
  <2>1. Handling("connect") /\ open /\ ~Current.ok /\ link' = "connecting"
    BY <1>8 DEF RunConnectNext, NextEndpoint, ConnectTo
  <2>2. link = "failed"
    BY <1>1, <2>1, JobAlone
  <2> QED BY <2>1, <2>2
<1>9. CASE RunReadError
  <2>1. Handling("read") /\ ~Current.ok /\ link' = "none"
    BY <1>9 DEF RunReadError, closeConnection
  <2>2. Queue \in Seq(Completion) /\ Queue # <<>> /\ Queue[1] \in FailedReads
    BY <1>1, <2>1, KindOfCurrent DEF Typed
  <2>3. ~NoneOf(Queue, FailedReads)
    BY <2>2, NoneOfTail
  <2> QED BY <1>1, <2>1, <2>3 DEF Patient, FailureIsReal
<1>10. CASE RunTimer
  <2>1. Handling("timer") /\ link' = "connecting"
    BY <1>10 DEF RunTimer, doConnect, ConnectTo
  <2>2. ~NoneOf(Queue, Timers)
    BY <1>1, <2>1, JobAlone
  <2>3. link # "up"
    BY <1>1, <2>2, TimerOnFailed DEF Typed, SocketTyped
  <2> QED BY <2>1, <2>3
<1> QED BY <1>2, <1>3, <1>4, <1>5, <1>6, <1>7, <1>8, <1>9, <1>10
        DEF Next, User, Reactor, Handle

\* The socket, the completions, the flags and the counters are of their types; the
\* retries are counted below reconnect_max_count_ (TcpClient.cpp:42).
THEOREM TypeCorrect == Spec => []TypeOK
<1>1. Inv => TypeOK
  BY TypedIsTypeOK DEF Inv
<1> QED BY <1>1, Invariant, PTL

\* A connection always has a read outstanding or the handler that starts it still to
\* come, whatever the user does; and a patient user never has two (TcpClient.cpp:85).
THEOREM OneReadAlways == Spec => []OneRead
BY Invariant, InvOneRead, PTL

\* The timer of a patient user makes no more than reconnect_max_count_ attempts in a row
\* (TcpClient.cpp:42).
THEOREM RetriesAreBounded == Spec => []RetriesBounded
BY Invariant, InvRetries, PTL

\* Only the network and the user's own disconnect end a patient user's connection, and
\* none is made after a disconnect that close() carried out (TcpClient.cpp:59, 158).
THEOREM FollowsUser == Spec => ConnectionFollowsUser
<1>1. Inv /\ [Next]_vars =>
        [/\ patient /\ link = "up" => link' \in {"up", "lost"} \/ wanted' = "disconnect"
         /\ patient /\ link # "up" /\ link' = "up" => wanted # "disconnect"]_vars
  BY StepFollowsUser
<1> QED BY <1>1, Invariant, PTL DEF Spec, ConnectionFollowsUser

=============================================================================
