-------------------------- MODULE DispatcherProofs --------------------------
(***************************************************************************)
(* Proofs about the push dispatcher, for any set of pushes, any assignment *)
(* of the three priorities and any number of clients.                      *)
(*                                                                         *)
(* The inductive invariant is Inv.  Its heart is InFlightStillQueued: pop  *)
(* happens in a later critical section than front, and what makes it safe  *)
(* is that the push in flight is still in the queue.  What comes later     *)
(* stands on top of it:                                                    *)
(*   LostInv, for LossOnlyByOvertaking: a push accepted is queued or was   *)
(*     served, and one that was popped unsent had overtaken the one in     *)
(*     flight, which is of lower priority and sent again;                  *)
(*   FifoInv, for PriorityFifo: nothing is accepted twice, each deque is   *)
(*     in the order of acceptance, and so is what a client received;       *)
(*   TailInv, for the refinement: while one priority has been posted, the  *)
(*     queue is the last part of what was accepted.                        *)
(***************************************************************************)
EXTENDS Dispatcher, SequenceTheorems, FiniteSetTheorems, TLAPS

Inv ==
  /\ TypeOK
  /\ QueueConsistent
  /\ InOwnDeque
  /\ InFlightStillQueued
  /\ NoLostWakeup

-----------------------------------------------------------------------------
(* The priority queue. *)

\* UpdateCurrentDeq returns the highest non-empty deque up to deq, or NoDeq.
LEMMA UpdateCurrentDeqIsMax ==
  ASSUME NEW queues, NEW deq \in Deqs
  PROVE  LET d == UpdateCurrentDeq(queues, deq) IN
           /\ d \in Deqs \cup {NoDeq}
           /\ d <= deq
           /\ d # NoDeq => queues[d] # <<>>
           /\ \A i \in 0 .. deq : queues[i] # <<>> => i <= d
<1> DEFINE nonEmpty == {i \in 0 .. deq : queues[i] # <<>>}
           IsMax(i) == i \in nonEmpty /\ \A j \in nonEmpty : j <= i
<1>1. CASE nonEmpty = {}
  BY <1>1 DEF UpdateCurrentDeq, Deqs, NoDeq, PriorityCount
<1>2. CASE nonEmpty # {}
  <2>1. nonEmpty \subseteq {0, 1, 2}
    BY DEF Deqs, PriorityCount
  <2>2. \E i \in nonEmpty : \A j \in nonEmpty : j <= i
    <3>1. CASE 2 \in nonEmpty
      BY <2>1, <3>1
    <3>2. CASE 2 \notin nonEmpty /\ 1 \in nonEmpty
      BY <2>1, <3>2
    <3>3. CASE 2 \notin nonEmpty /\ 1 \notin nonEmpty
      BY <1>2, <2>1, <3>3
    <3> QED BY <3>1, <3>2, <3>3
  <2> DEFINE d == CHOOSE i \in nonEmpty : \A j \in nonEmpty : j <= i
  <2>3. d \in nonEmpty /\ \A j \in nonEmpty : j <= d
    BY <2>2
  <2>4. UpdateCurrentDeq(queues, deq) = d
    BY <1>2 DEF UpdateCurrentDeq
  <2> HIDE DEF d
  <2> QED BY <2>1, <2>3, <2>4 DEF Deqs, NoDeq, PriorityCount
<1> QED BY <1>1, <1>2

\* An empty deque list gives no current deque: front() of a non-empty PushQueue
\* is an element of the deque it stands for.
LEMMA FrontIsQueued ==
  ASSUME TypeOK, QueueConsistent, InOwnDeque, ~QueueEmpty
  PROVE  /\ current_deq \in Deqs
         /\ priority_queues[current_deq] # <<>>
         /\ Front \in Pushes
         /\ Priority[Front] = current_deq
<1>1. /\ current_deq \in Deqs
      /\ priority_queues[current_deq] \in Seq(Pushes)
      /\ priority_queues[current_deq] # <<>>
  BY DEF TypeOK, QueueConsistent, QueueEmpty
<1>2. /\ 1 \in 1 .. Len(priority_queues[current_deq])
      /\ Front = priority_queues[current_deq][1]
      /\ Front \in Pushes
  BY <1>1, EmptySeq, HeadTailProperties DEF Front
<1> QED BY <1>1, <1>2 DEF InOwnDeque

\* While a push is being sent the queue is not empty, so pop() is legal.
LEMMA PopIsLegal ==
  ASSUME TypeOK, QueueConsistent, InFlightStillQueued, pc = "send"
  PROVE  /\ current_deq \in Deqs
         /\ priority_queues[current_deq] # <<>>
         /\ Priority[push] <= current_deq
<1>1. Priority[push] \in Deqs /\ priority_queues[Priority[push]] # <<>>
  BY PriorityAssumption DEF InFlightStillQueued
<1> QED BY <1>1 DEF QueueConsistent, TypeOK, NoDeq, Deqs, PriorityCount

\* pop() keeps the queue well formed.
LEMMA PoppedQueue ==
  ASSUME TypeOK, current_deq \in Deqs, priority_queues[current_deq] # <<>>
  PROVE  /\ Popped \in [Deqs -> Seq(Pushes)]
         /\ \A d \in Deqs : d # current_deq => Popped[d] = priority_queues[d]
         /\ Popped[current_deq] = Tail(priority_queues[current_deq])
         /\ Len(Popped[current_deq]) = Len(priority_queues[current_deq]) - 1
         /\ \A i \in 1 .. Len(Popped[current_deq]) :
              /\ i + 1 \in 1 .. Len(priority_queues[current_deq])
              /\ Popped[current_deq][i] = priority_queues[current_deq][i + 1]
<1> DEFINE s == priority_queues[current_deq]
<1>1. s \in Seq(Pushes) /\ s # <<>> /\ priority_queues \in [Deqs -> Seq(Pushes)]
  BY DEF TypeOK
<1>2. /\ Tail(s) \in Seq(Pushes) /\ Len(Tail(s)) = Len(s) - 1
      /\ \A i \in 1 .. Len(Tail(s)) : Tail(s)[i] = s[i+1]
  BY <1>1, HeadTailProperties
<1>3. Len(s) \in Nat /\ Len(Tail(s)) \in Nat
  BY <1>1, <1>2, LenProperties
<1> QED BY <1>1, <1>2, <1>3 DEF Popped

\* push() keeps the queue well formed.
LEMMA EnqueuedQueue ==
  ASSUME TypeOK, NEW p \in Pushes
  PROVE  /\ Priority[p] \in Deqs
         /\ Enqueued(p) \in [Deqs -> Seq(Pushes)]
         /\ \A d \in Deqs : d # Priority[p] => Enqueued(p)[d] = priority_queues[d]
         /\ Enqueued(p)[Priority[p]] = Append(priority_queues[Priority[p]], p)
         /\ Enqueued(p)[Priority[p]] # <<>>
         /\ Len(Enqueued(p)[Priority[p]]) = Len(priority_queues[Priority[p]]) + 1
         /\ \A i \in 1 .. Len(Enqueued(p)[Priority[p]]) :
              Enqueued(p)[Priority[p]][i] =
                IF i <= Len(priority_queues[Priority[p]])
                THEN priority_queues[Priority[p]][i] ELSE p
<1> DEFINE s == priority_queues[Priority[p]]
<1>1. Priority[p] \in Deqs
  BY PriorityAssumption
<1>2. s \in Seq(Pushes) /\ priority_queues \in [Deqs -> Seq(Pushes)]
  BY <1>1 DEF TypeOK
<1>3. /\ Append(s, p) \in Seq(Pushes)
      /\ Append(s, p) # <<>>
      /\ Len(Append(s, p)) = Len(s) + 1
      /\ \A i \in 1 .. Len(s) : Append(s, p)[i] = s[i]
      /\ Append(s, p)[Len(s) + 1] = p
  BY <1>2, AppendProperties
<1>4. Len(s) \in Nat
  BY <1>2, LenProperties
<1> QED BY <1>1, <1>2, <1>3, <1>4 DEF Enqueued

-----------------------------------------------------------------------------
(* The invariant. *)

LEMMA InvInit == Init => Inv
<1> SUFFICES ASSUME Init PROVE Inv
  OBVIOUS
<1>1. <<>> \in Seq(Pushes) /\ Len(<<>>) = 0
  BY EmptySeq
<1>2. TypeOK
  <2>1. /\ priority_queues \in [Deqs -> Seq(Pushes)]
        /\ received \in [Clients -> Seq(Pushes)]
        /\ accepted \in Seq(Pushes)
    BY <1>1 DEF Init
  <2>2. next_client \in 1 .. NClients + 1
    BY ClientAssumption DEF Init
  <2> QED BY <2>1, <2>2 DEF Init, TypeOK
<1> QED BY <1>1, <1>2 DEF Init, Inv, QueueConsistent, InOwnDeque,
           InFlightStillQueued, NoLostWakeup, QueueEmpty, Deqs, NoDeq

LEMMA InvPost ==
  ASSUME Inv, NEW p \in Pushes, Post(p)
  PROVE  Inv'
<1> USE DEF Inv
<1> DEFINE d == Priority[p]
           s == priority_queues[d]
<1>0. /\ d \in Deqs /\ s \in Seq(Pushes) /\ Len(s) \in Nat
      /\ \A e \in Deqs : e # d => priority_queues'[e] = priority_queues[e]
      /\ priority_queues'[d] = Append(s, p)
      /\ priority_queues'[d] # <<>>
      /\ Len(priority_queues'[d]) = Len(s) + 1
      /\ \A i \in 1 .. Len(priority_queues'[d]) :
           priority_queues'[d][i] = IF i <= Len(s) THEN s[i] ELSE p
  BY EnqueuedQueue, LenProperties DEF TypeOK, Post
<1>1. TypeOK'
  <2>1. accepted' \in Seq(Pushes)
    BY AppendProperties DEF TypeOK, Post
  <2>2. current_deq' \in Deqs \cup {NoDeq}
    BY EnqueuedQueue DEF TypeOK, Post, DeqAfterPush
  <2>3. pc' \in {"get", "waiting", "send", "done"}
    BY DEF TypeOK, Post, NotifyOne
  <2> QED BY <2>1, <2>2, <2>3, EnqueuedQueue DEF TypeOK, Post
<1>2. QueueConsistent'
  <2>1. current_deq' = IF current_deq > d THEN current_deq ELSE d
    BY DEF Post, DeqAfterPush
  <2> HIDE DEF d
  <2> QED BY <1>0, <2>1 DEF TypeOK, QueueConsistent, Deqs, NoDeq, PriorityCount
<1>3. InOwnDeque'
  <2> SUFFICES ASSUME NEW e \in Deqs, NEW i \in 1 .. Len(priority_queues'[e])
               PROVE  Priority[priority_queues'[e][i]] = e
    BY DEF InOwnDeque
  <2>1. CASE e = d
    <3>1. i <= Len(s) => Priority[s[i]] = d
      BY <1>0, <2>1 DEF InOwnDeque
    <3> QED BY <1>0, <2>1, <3>1
  <2>2. CASE e # d
    BY <1>0, <2>2 DEF InOwnDeque
  <2> QED BY <2>1, <2>2
<1>4. InFlightStillQueued'
  <2> SUFFICES ASSUME pc' = "send"
               PROVE  /\ push \in Pushes
                      /\ priority_queues'[Priority[push]] # <<>>
                      /\ Head(priority_queues'[Priority[push]]) = push
    BY DEF Post, InFlightStillQueued
  <2>1. /\ push \in Pushes /\ Priority[push] \in Deqs
        /\ priority_queues[Priority[push]] # <<>>
        /\ Head(priority_queues[Priority[push]]) = push
    BY PriorityAssumption DEF Post, NotifyOne, InFlightStillQueued
  <2>2. CASE Priority[push] = Priority[p]
    <3>1. s # <<>> /\ Len(s) \in Nat \ {0} /\ Head(s) = push
      BY <1>0, <2>1, <2>2, EmptySeq
    <3>2. Append(s, p)[1] = s[1]
      BY <1>0, <3>1, AppendProperties
    <3> HIDE DEF s
    <3> QED BY <1>0, <2>2, <3>1, <3>2
  <2>3. CASE Priority[push] # Priority[p]
    BY <2>1, <2>3, EnqueuedQueue DEF Post
  <2> QED BY <2>2, <2>3
<1>5. NoLostWakeup'
  BY DEF Post, NotifyOne, NoLostWakeup
<1> QED BY <1>1, <1>2, <1>3, <1>4, <1>5

LEMMA InvGetPush ==
  ASSUME Inv, GetPush
  PROVE  Inv'
<1> USE DEF Inv
<1>1. /\ push' = Front /\ pc' = "send" /\ next_client' = 1
      /\ UNCHANGED <<queue_vars, stopped, received, server, accepted>>
  BY DEF GetPush
<1>2. /\ current_deq \in Deqs
      /\ priority_queues[current_deq] # <<>>
      /\ Front \in Pushes
      /\ Priority[Front] = current_deq
  BY FrontIsQueued DEF GetPush
<1>3. TypeOK'
  BY <1>1, <1>2, ClientAssumption DEF TypeOK, queue_vars
<1>4. InFlightStillQueued'
  BY <1>1, <1>2 DEF InFlightStillQueued, Front, queue_vars
<1> QED BY <1>1, <1>3, <1>4
        DEF QueueConsistent, InOwnDeque, NoLostWakeup, queue_vars

LEMMA InvSendPush ==
  ASSUME Inv, SendPush
  PROVE  Inv'
<1> USE DEF Inv
<1>1. push \in Pushes /\ pc = "send"
  BY DEF SendPush, InFlightStillQueued
<1>2. TypeOK'
  <2>1. received' \in [Clients -> Seq(Pushes)]
    BY <1>1, AppendProperties DEF TypeOK, SendPush
  <2>2. next_client' \in 1 .. NClients + 1
    BY ClientAssumption DEF SendPush, Clients
  <2> QED BY <2>1, <2>2 DEF TypeOK, SendPush, queue_vars
<1> QED BY <1>1, <1>2 DEF SendPush, QueueConsistent, InOwnDeque,
           InFlightStillQueued, NoLostWakeup, QueueEmpty, queue_vars

LEMMA InvPopPush ==
  ASSUME Inv, PopPush
  PROVE  Inv'
<1> USE DEF Inv
<1>1. /\ pc = "send" /\ pc' = "get"
      /\ priority_queues' = Popped
      /\ current_deq' = UpdateCurrentDeq(Popped, current_deq)
      /\ UNCHANGED <<stopped, push, next_client, received, server, accepted>>
  BY DEF PopPush
<1>2. current_deq \in Deqs /\ priority_queues[current_deq] # <<>>
  BY <1>1, PopIsLegal
<1>3. /\ current_deq' \in Deqs \cup {NoDeq}
      /\ current_deq' <= current_deq
      /\ current_deq' # NoDeq => Popped[current_deq'] # <<>>
      /\ \A i \in 0 .. current_deq : Popped[i] # <<>> => i <= current_deq'
  BY <1>1, <1>2, UpdateCurrentDeqIsMax
<1>4. TypeOK'
  BY <1>1, <1>2, <1>3, PoppedQueue DEF TypeOK
<1>5. QueueConsistent'
  <2>1. \A d \in Deqs : Popped[d] # <<>> => d <= current_deq
    BY <1>2, PoppedQueue DEF QueueConsistent, Deqs, PriorityCount
  <2> QED BY <1>1, <1>3, <2>1 DEF QueueConsistent, Deqs, PriorityCount
<1>6. InOwnDeque'
  <2> SUFFICES ASSUME NEW d \in Deqs, NEW i \in 1 .. Len(Popped[d])
               PROVE  Priority[Popped[d][i]] = d
    BY <1>1 DEF InOwnDeque
  <2>1. CASE d = current_deq
    <3>1. /\ i + 1 \in 1 .. Len(priority_queues[d])
          /\ Popped[d][i] = priority_queues[d][i + 1]
      BY <1>2, <2>1, PoppedQueue
    <3> QED BY <3>1 DEF InOwnDeque
  <2>2. CASE d # current_deq
    <3>1. Popped[d] = priority_queues[d]
      BY <1>2, <2>2, PoppedQueue
    <3> QED BY <3>1 DEF InOwnDeque
  <2> QED BY <2>1, <2>2
<1>7. InFlightStillQueued' /\ NoLostWakeup'
  BY <1>1 DEF InFlightStillQueued, NoLostWakeup
<1> QED BY <1>4, <1>5, <1>6, <1>7

\* The actions that leave the queue and the push in flight alone.
LEMMA InvOther ==
  ASSUME Inv,
         \/ Stop \/ Destroy \/ Joined \/ WaitForPush \/ SpuriousWakeup
         \/ Finish \/ UNCHANGED vars
  PROVE  Inv'
<1> USE DEF Inv, TypeOK, QueueConsistent, InOwnDeque, InFlightStillQueued,
            NoLostWakeup, queue_vars, QueueEmpty
<1>1. CASE Stop
  BY <1>1 DEF Stop, NotifyOne
<1>2. CASE Destroy
  BY <1>2 DEF Destroy, NotifyOne
<1>3. CASE Joined
  BY <1>3 DEF Joined
<1>4. CASE WaitForPush
  BY <1>4 DEF WaitForPush
<1>5. CASE SpuriousWakeup
  BY <1>5 DEF SpuriousWakeup
<1>6. CASE Finish
  BY <1>6 DEF Finish
<1>7. CASE UNCHANGED vars
  BY <1>7 DEF vars
<1> QED BY <1>1, <1>2, <1>3, <1>4, <1>5, <1>6, <1>7

LEMMA InvNext == Inv /\ [Next]_vars => Inv'
<1> SUFFICES ASSUME Inv, [Next]_vars PROVE Inv'
  OBVIOUS
<1>1. CASE \E p \in Pushes : Post(p)
  BY <1>1, InvPost
<1>2. CASE GetPush
  BY <1>2, InvGetPush
<1>3. CASE SendPush
  BY <1>3, InvSendPush
<1>4. CASE PopPush
  BY <1>4, InvPopPush
<1>5. CASE \/ Stop \/ Destroy \/ Joined \/ WaitForPush \/ SpuriousWakeup
           \/ Finish \/ UNCHANGED vars
  BY <1>5, InvOther
<1> QED BY <1>1, <1>2, <1>3, <1>4, <1>5 DEF Next, Terminated

LEMMA Invariance == Spec => []Inv
BY InvInit, InvNext, PTL DEF Spec

-----------------------------------------------------------------------------
(* Theorems. *)

\* All fields of the dispatcher keep their types (dispatcher.cpp:132-147).
THEOREM TypeCorrect == Spec => []TypeOK
BY Invariance, PTL DEF Inv

\* front() and pop() are never called on an empty PushQueue or with a stale
\* current_deq_ (dispatcher.cpp:63-72), for any interleaving with Post.
THEOREM QueueNeverCorrupt == Spec => []PopIsSafe
<1>1. Inv => PopIsSafe
  BY DEF Inv, PopIsSafe
<1> QED BY <1>1, Invariance, PTL

\* The processing thread never sleeps on a non-empty queue or after Stop.
THEOREM WakeupNeverLost == Spec => []NoLostWakeup
BY Invariance, PTL DEF Inv

\* "firstly return elements with max priority" (dispatcher.cpp:48).
THEOREM TakesMaxPriority == Spec => MaxPriorityFirst
<1> DEFINE Taken == pc = "get" /\ pc' = "send" =>
                      \A p \in Pushes : Queued(p) => Priority[p] <= Priority[push']
<1>1. Inv /\ [Next]_vars => Taken
  <2> SUFFICES ASSUME Inv, [Next]_vars, pc = "get", pc' = "send",
                      NEW p \in Pushes, Queued(p)
               PROVE  Priority[p] <= Priority[push']
    OBVIOUS
  <2>1. GetPush
    BY DEF Next, Terminated, vars, Post, Stop, Destroy, Joined, WaitForPush,
           SpuriousWakeup, Finish, SendPush, PopPush, NotifyOne
  <2>2. /\ current_deq \in Deqs
        /\ Priority[push'] = current_deq
    BY <2>1, FrontIsQueued DEF GetPush, Inv
  <2>3. PICK d \in Deqs : \E i \in 1 .. Len(priority_queues[d]) :
                            priority_queues[d][i] = p
    BY DEF Queued
  <2>4. Priority[p] = d
    BY <2>3 DEF Inv, InOwnDeque
  <2>5. priority_queues[d] # <<>>
    BY <2>3, EmptySeq
  <2>6. d <= current_deq
    BY <2>5 DEF Inv, QueueConsistent
  <2> QED BY <2>2, <2>4, <2>6
<1>2. Spec => [][Taken]_vars
  BY <1>1, Invariance, PTL DEF Spec
<1> QED BY <1>2 DEF MaxPriorityFirst

-----------------------------------------------------------------------------
(* Every accepted push costs each client exactly one SendPush. *)

LEMMA BalanceInit == Init => DeliveryBalance
BY EmptySeq, ClientAssumption
   DEF Init, DeliveryBalance, TotalQueued, Deqs, PriorityCount, Clients

\* The lengths the balance adds up are natural numbers.
LEMMA Lengths ==
  ASSUME TypeOK
  PROVE  /\ \A d \in Deqs : Len(priority_queues[d]) \in Nat
         /\ \A c \in Clients : Len(received[c]) \in Nat
         /\ Len(accepted) \in Nat
         /\ Deqs = {0, 1, 2}
BY LenProperties DEF TypeOK, Deqs, PriorityCount

\* Adding n to the length of one deque adds n to the total.
LEMMA TotalQueuedChange ==
  ASSUME TypeOK, TypeOK', NEW d \in Deqs, NEW n \in Int,
         Len(priority_queues'[d]) = Len(priority_queues[d]) + n,
         \A e \in Deqs : e # d => priority_queues'[e] = priority_queues[e]
  PROVE  TotalQueued' = TotalQueued + n
<1> DEFINE L(e) == Len(priority_queues[e])
           M(e) == Len(priority_queues'[e])
<1>1. \A e \in Deqs : L(e) \in Nat /\ M(e) \in Nat
  BY LenProperties DEF TypeOK
<1>2. Deqs = {0, 1, 2}
  BY DEF Deqs, PriorityCount
<1>3. TotalQueued = L(0) + L(1) + L(2) /\ TotalQueued' = M(0) + M(1) + M(2)
  BY DEF TotalQueued
<1>4. M(d) = L(d) + n /\ \A e \in Deqs : e # d => M(e) = L(e)
  OBVIOUS
<1> HIDE DEF L, M
<1>5. CASE d = 0
  BY <1>1, <1>2, <1>3, <1>4, <1>5
<1>6. CASE d = 1
  BY <1>1, <1>2, <1>3, <1>4, <1>6
<1>7. CASE d = 2
  BY <1>1, <1>2, <1>3, <1>4, <1>7
<1> QED BY <1>2, <1>5, <1>6, <1>7

LEMMA BalanceNext ==
  Inv /\ Inv' /\ DeliveryBalance /\ [Next]_vars => DeliveryBalance'
<1> SUFFICES ASSUME Inv, Inv', DeliveryBalance, [Next]_vars, NEW c \in Clients
             PROVE  Len(received'[c]) + TotalQueued' =
                      Len(accepted')
                        + IF pc' = "send" /\ c < next_client' THEN 1 ELSE 0
  BY DEF DeliveryBalance
<1>0. /\ Len(received[c]) \in Nat /\ Len(accepted) \in Nat
      /\ TotalQueued \in Int
      /\ c \in Nat /\ next_client \in Nat
      /\ Len(received[c]) + TotalQueued =
           Len(accepted) + IF pc = "send" /\ c < next_client THEN 1 ELSE 0
  <2>1. Len(received[c]) \in Nat /\ Len(accepted) \in Nat
    BY Lengths DEF Inv
  <2>2. /\ Len(priority_queues[0]) \in Nat /\ Len(priority_queues[1]) \in Nat
        /\ Len(priority_queues[2]) \in Nat
    BY Lengths DEF Inv
  <2>3. TotalQueued \in Int
    BY <2>2 DEF TotalQueued
  <2>4. c \in Nat /\ next_client \in Nat
    BY ClientAssumption DEF Inv, TypeOK, Clients
  <2> QED BY <2>1, <2>3, <2>4 DEF DeliveryBalance
<1>1. ASSUME NEW p \in Pushes, Post(p)
      PROVE  Len(received'[c]) + TotalQueued' =
               Len(accepted') + IF pc' = "send" /\ c < next_client' THEN 1 ELSE 0
  <2>1. TotalQueued' = TotalQueued + 1
    BY <1>1, EnqueuedQueue, TotalQueuedChange DEF Inv, Post
  <2>2. Len(accepted') = Len(accepted) + 1
    BY <1>1, AppendProperties DEF Inv, TypeOK, Post
  <2>3. pc' = "send" <=> pc = "send"
    BY <1>1 DEF Post, NotifyOne
  <2>4. received' = received /\ next_client' = next_client
    BY <1>1 DEF Post
  <2>5. Len(received'[c]) = Len(received[c])
    BY <2>4
  <2> DEFINE b == IF pc = "send" /\ c < next_client THEN 1 ELSE 0
  <2>6. /\ b' = b /\ b \in Int
        /\ Len(received[c]) + TotalQueued = Len(accepted) + b
    BY <1>0, <2>3, <2>4
  <2> HIDE DEF b
  <2> DEFINE r == Len(received[c])
             a == Len(accepted)
  <2>7. r \in Int /\ a \in Int /\ TotalQueued \in Int /\ r + TotalQueued = a + b
    BY <1>0, <2>6
  <2> HIDE DEF r, a
  <2>8. r + (TotalQueued + 1) = (a + 1) + b
    BY <2>6, <2>7
  <2>9. Len(received'[c]) + TotalQueued' = Len(accepted') + b'
    BY <2>1, <2>2, <2>5, <2>6, <2>8 DEF r, a
  <2> QED BY <2>9 DEF b
<1>2. CASE SendPush
  <2>1. priority_queues' = priority_queues /\ pc = "send" /\ pc' = "send"
    BY <1>2 DEF SendPush, queue_vars
  <2>2. TotalQueued' = TotalQueued
    BY <2>1 DEF TotalQueued
  <2>3. push \in Pushes
    BY <2>1 DEF Inv, InFlightStillQueued
  <2>4. CASE c = next_client
    <3>1. Len(received'[c]) = Len(received[c]) + 1
      BY <1>2, <2>3, <2>4, AppendProperties DEF Inv, TypeOK, SendPush
    <3>2. next_client' = next_client + 1 /\ accepted' = accepted
      BY <1>2 DEF SendPush
    <3> QED BY <1>0, <2>1, <2>2, <2>4, <3>1, <3>2
  <2>5. CASE c # next_client
    <3>1. received'[c] = received[c]
      BY <1>2, <2>5 DEF Inv, TypeOK, SendPush
    <3>2. next_client' = next_client + 1 /\ accepted' = accepted
      BY <1>2 DEF SendPush
    <3> QED BY <1>0, <2>1, <2>2, <2>5, <3>1, <3>2
  <2> QED BY <2>4, <2>5
<1>3. CASE PopPush
  <2>1. current_deq \in Deqs /\ priority_queues[current_deq] # <<>>
    BY <1>3, PopIsLegal DEF Inv, PopPush
  <2>2. TotalQueued' = TotalQueued + (-1)
    <3>1. /\ priority_queues' = Popped
          /\ Len(Popped[current_deq]) = Len(priority_queues[current_deq]) - 1
          /\ \A e \in Deqs : e # current_deq => Popped[e] = priority_queues[e]
      BY <1>3, <2>1, PoppedQueue DEF Inv, PopPush
    <3>2. Len(Popped[current_deq]) = Len(priority_queues[current_deq]) + (-1)
      BY <2>1, <3>1, Lengths DEF Inv
    <3>3. -1 \in Int
      OBVIOUS
    <3> QED BY <2>1, <3>1, <3>2, <3>3, TotalQueuedChange DEF Inv
  <2>3. /\ pc = "send" /\ pc' = "get"
        /\ received' = received /\ accepted' = accepted
        /\ next_client \in 1 .. NClients + 1 /\ next_client \notin Clients
    BY <1>3 DEF PopPush, Inv, TypeOK
  <2>4. c < next_client
    BY <2>3, ClientAssumption DEF Clients
  <2> QED BY <1>0, <2>2, <2>3, <2>4
<1>4. CASE GetPush
  <2>1. /\ pc = "get" /\ pc' = "send" /\ next_client' = 1
        /\ UNCHANGED <<priority_queues, received, accepted>>
    BY <1>4 DEF GetPush, queue_vars
  <2>2. ~(c < 1)
    BY DEF Clients
  <2> QED BY <1>0, <2>1, <2>2 DEF TotalQueued
<1>5. CASE \/ Stop \/ Destroy \/ Joined \/ WaitForPush \/ SpuriousWakeup
           \/ Finish \/ UNCHANGED vars
  <2>1. /\ UNCHANGED <<priority_queues, received, accepted, next_client>>
        /\ pc' = "send" <=> pc = "send"
    BY <1>5 DEF Stop, Destroy, Joined, WaitForPush, SpuriousWakeup, Finish,
                vars, queue_vars, NotifyOne
  <2>2. TotalQueued' = TotalQueued
    BY <2>1 DEF TotalQueued
  <2> QED BY <1>0, <2>1, <2>2
<1> QED BY <1>1, <1>2, <1>3, <1>4, <1>5 DEF Next, Terminated

\* Whatever pop() removes, deliveries and queued pushes add up to the accepted
\* pushes for every client: this is why the size check of the test at
\* server/tests/src/tests_utils.cpp:79-83 succeeds even when a push was lost.
THEOREM DeliveriesBalance == Spec => []DeliveryBalance
BY Invariance, BalanceInit, BalanceNext, PTL DEF Spec

-----------------------------------------------------------------------------
(* What overtaking costs.  LossOnlyByOvertaking is not inductive: of the push *)
(* sent instead of the lost one it says that it is queued or was sent twice,  *)
(* and a first sending may be under way.  LostInv says what is true of a push *)
(* once the sending that cost another has ended: it will be sent again.       *)

\* The clients the loop in Send has passed have the push in flight.
Served ==
  pc = "send" => \A c \in Clients : c < next_client => Deliveries(c, push) # {}

Twice(c, q) == \E i, j \in Deliveries(c, q) : i # j

\* q was sent to c and is to be sent to it again, or has been already.
SentAgain(c, q) ==
  \/ Twice(c, q)
  \/ /\ Queued(q)
     /\ Deliveries(c, q) # {}
     /\ pc = "send" /\ push = q => ~(c < next_client)

Lost(c, p) == IsAccepted(p) /\ ~Queued(p) /\ Deliveries(c, p) = {}

LostInv ==
  \A c \in Clients : \A p \in Pushes : Lost(c, p) =>
    \E q \in Pushes : Priority[q] < Priority[p] /\ SentAgain(c, q)

LEMMA ServedNext == Inv /\ Served /\ [Next]_vars => Served'
<1> SUFFICES ASSUME Inv, Served, [Next]_vars, pc' = "send",
                    NEW c \in Clients, c < next_client'
             PROVE  Deliveries(c, push)' # {}
  BY DEF Served
<1>1. CASE GetPush
  BY <1>1 DEF GetPush, Clients
<1>2. CASE SendPush
  <2>1. /\ pc = "send" /\ push \in Pushes /\ push' = push
        /\ next_client \in Clients /\ next_client' = next_client + 1
        /\ received' = [received EXCEPT ![next_client] = Append(@, push)]
        /\ received \in [Clients -> Seq(Pushes)]
    BY <1>2 DEF SendPush, Inv, InFlightStillQueued, TypeOK
  <2>2. CASE c = next_client
    <3>1. Len(received'[c]) \in 1 .. Len(received'[c]) /\ received'[c][Len(received'[c])] = push
      BY <2>1, <2>2, AppendProperties
    <3> QED BY <2>1, <3>1 DEF Deliveries
  <2>3. CASE c # next_client
    <3>1. c < next_client /\ received'[c] = received[c]
      BY <2>1, <2>3 DEF Clients
    <3> QED BY <2>1, <3>1 DEF Served, Deliveries
  <2> QED BY <2>2, <2>3
<1>3. CASE UNCHANGED <<received, push, next_client>> /\ pc = "send"
  BY <1>3 DEF Served, Deliveries
<1>4. \/ GetPush \/ SendPush
      \/ UNCHANGED <<received, push, next_client>> /\ pc = "send"
  BY DEF Next, Terminated, vars, Post, Stop, Destroy, Joined, WaitForPush,
         SpuriousWakeup, Finish, PopPush, NotifyOne
<1> QED BY <1>1, <1>2, <1>3, <1>4

\* Who is queued after a push was enqueued, and after one was popped.
LEMMA QueuedAfterPost ==
  ASSUME Inv, NEW p \in Pushes, Post(p), NEW q
  PROVE  /\ Queued(q) => Queued(q)'
         /\ Queued(p)'
         /\ IsAccepted(q)' => IsAccepted(q) \/ q = p
<1> DEFINE d == Priority[p]
           s == priority_queues[d]
<1>1. /\ d \in Deqs /\ s \in Seq(Pushes) /\ Len(s) \in Nat
      /\ \A e \in Deqs : e # d => priority_queues'[e] = priority_queues[e]
      /\ Len(priority_queues'[d]) = Len(s) + 1
      /\ \A i \in 1 .. Len(priority_queues'[d]) :
           priority_queues'[d][i] = IF i <= Len(s) THEN s[i] ELSE p
  BY EnqueuedQueue, LenProperties DEF Inv, TypeOK, Post
<1>2. ASSUME Queued(q) PROVE Queued(q)'
  <2>0. PICK e \in Deqs : \E i \in 1 .. Len(priority_queues[e]) : priority_queues[e][i] = q
    BY <1>2 DEF Queued
  <2>1. PICK i \in 1 .. Len(priority_queues[e]) : priority_queues[e][i] = q
    BY <2>0
  <2>2. i \in 1 .. Len(priority_queues'[e]) /\ priority_queues'[e][i] = q
    <3>1. CASE e = d
      BY <1>1, <2>1, <3>1
    <3>2. CASE e # d
      BY <1>1, <2>1, <3>2
    <3> QED BY <3>1, <3>2
  <2> QED BY <2>2 DEF Queued
<1>3. Queued(p)'
  <2>1. Len(s) + 1 \in 1 .. Len(priority_queues'[d]) /\ priority_queues'[d][Len(s) + 1] = p
    BY <1>1
  <2> QED BY <1>1, <2>1 DEF Queued
<1>4. ASSUME IsAccepted(q)' PROVE IsAccepted(q) \/ q = p
  <2>1. PICK i \in 1 .. Len(accepted') : accepted'[i] = q
    BY <1>4 DEF IsAccepted
  <2>2. /\ Len(accepted) \in Nat /\ Len(accepted') = Len(accepted) + 1
        /\ accepted'[Len(accepted) + 1] = p
        /\ \A j \in 1 .. Len(accepted) : accepted'[j] = accepted[j]
    BY AppendProperties, LenProperties DEF Inv, TypeOK, Post
  <2> QED BY <2>1, <2>2 DEF IsAccepted
<1> QED BY <1>2, <1>3, <1>4

LEMMA QueuedAfterPop ==
  ASSUME Inv, PopPush, NEW q, Queued(q), ~Queued(q)'
  PROVE  q \in Pushes /\ Priority[q] = current_deq /\ q = Front
<1>1. /\ current_deq \in Deqs /\ priority_queues[current_deq] # <<>>
      /\ priority_queues' = Popped
  BY PopIsLegal DEF Inv, PopPush
<1>0. PICK e \in Deqs : \E i \in 1 .. Len(priority_queues[e]) : priority_queues[e][i] = q
  BY DEF Queued
<1>2. PICK i \in 1 .. Len(priority_queues[e]) : priority_queues[e][i] = q
  BY <1>0
<1>3. /\ priority_queues[e] \in Seq(Pushes) /\ Len(priority_queues[e]) \in Nat
  BY LenProperties DEF Inv, TypeOK
<1>4. q \in Pushes /\ Priority[q] = e
  BY <1>2, <1>3, ElementOfSeq DEF Inv, InOwnDeque
<1>5. e = current_deq
  <2> SUFFICES ASSUME e # current_deq PROVE FALSE
    OBVIOUS
  <2>1. priority_queues'[e] = priority_queues[e]
    BY <1>1, PoppedQueue DEF Inv
  <2> QED BY <1>2, <2>1 DEF Queued
<1>6. i = 1
  <2> SUFFICES ASSUME i # 1 PROVE FALSE
    OBVIOUS
  <2> DEFINE k == i - 1
  <2>1. /\ Len(priority_queues'[e]) = Len(priority_queues[e]) - 1
        /\ \A j \in 1 .. Len(priority_queues'[e]) :
             priority_queues'[e][j] = priority_queues[e][j + 1]
    BY <1>1, <1>5, PoppedQueue DEF Inv
  <2>2. k \in 1 .. Len(priority_queues'[e]) /\ k + 1 = i
    BY <1>3, <2>1
  <2>3. priority_queues'[e][k] = q
    BY <1>2, <2>1, <2>2
  <2> QED BY <2>2, <2>3 DEF Queued
<1> QED BY <1>2, <1>3, <1>4, <1>5, <1>6 DEF Front

\* Nobody who is queued after a pop was not before, and nobody is accepted by it.
LEMMA NothingQueuedByPop ==
  ASSUME Inv, PopPush, NEW q, Queued(q)'
  PROVE  Queued(q)
<1>1. /\ current_deq \in Deqs /\ priority_queues[current_deq] # <<>>
      /\ priority_queues' = Popped
  BY PopIsLegal DEF Inv, PopPush
<1>0. PICK e \in Deqs : \E i \in 1 .. Len(Popped[e]) : Popped[e][i] = q
  BY <1>1 DEF Queued
<1>2. PICK i \in 1 .. Len(Popped[e]) : Popped[e][i] = q
  BY <1>0
<1>3. CASE e = current_deq
  <2>1. i + 1 \in 1 .. Len(priority_queues[e]) /\ priority_queues[e][i + 1] = q
    BY <1>1, <1>2, <1>3, PoppedQueue DEF Inv
  <2> QED BY <2>1 DEF Queued
<1>4. CASE e # current_deq
  <2>1. Popped[e] = priority_queues[e]
    BY <1>1, <1>4, PoppedQueue DEF Inv
  <2> QED BY <1>2, <2>1 DEF Queued
<1> QED BY <1>3, <1>4

\* The pop that follows a sending: the push sent is queued still if another is popped,
\* and then it is of lower priority.
LEMMA OvertakenStays ==
  ASSUME Inv, Served, PopPush, NEW c \in Clients,
         NEW p \in Pushes, Queued(p), ~Queued(p)', p # push
  PROVE  /\ push \in Pushes /\ Priority[push] < Priority[p]
         /\ SentAgain(c, push)'
<1>1. /\ pc = "send" /\ pc' = "get" /\ push \in Pushes
      /\ UNCHANGED <<received, push>>
      /\ next_client \in 1 .. NClients + 1 /\ next_client \notin Clients
      /\ Priority[push] \in Deqs
      /\ priority_queues[Priority[push]] # <<>>
      /\ Head(priority_queues[Priority[push]]) = push
  BY PriorityAssumption DEF PopPush, Inv, InFlightStillQueued, TypeOK
<1>2. Priority[p] = current_deq /\ p = Front
  BY QueuedAfterPop
<1>3. Priority[push] # current_deq
  BY <1>1, <1>2 DEF Front
<1>4. Priority[push] < Priority[p]
  BY <1>1, <1>2, <1>3, PopIsLegal DEF Inv, Deqs, PriorityCount
<1>5. Queued(push)
  <2>1. /\ 1 \in 1 .. Len(priority_queues[Priority[push]])
        /\ priority_queues[Priority[push]][1] = push
    BY <1>1, EmptySeq, LenProperties DEF Inv, TypeOK
  <2> QED BY <1>1, <2>1 DEF Queued
<1>6. Queued(push)'
  <2>1. PICK q : q = push
    OBVIOUS
  <2>2. Queued(q)'
    BY <1>3, <1>5, <2>1, QueuedAfterPop
  <2> QED BY <1>1, <2>1, <2>2 DEF Queued
<1>7. c < next_client
  BY <1>1, ClientAssumption DEF Clients
<1>8. Deliveries(c, push)' # {}
  BY <1>1, <1>7 DEF Served, Deliveries
<1> QED BY <1>1, <1>4, <1>6, <1>8 DEF SentAgain

\* What is still to be sent again stays so, or it was popped in its turn for another.
LEMMA SentAgainPop ==
  ASSUME Inv, Served, PopPush, NEW c \in Clients, NEW q \in Pushes, SentAgain(c, q)
  PROVE  \E r \in Pushes : Priority[r] <= Priority[q] /\ SentAgain(c, r)'
<1>1. /\ pc = "send" /\ pc' = "get" /\ received' = received
      /\ next_client \in 1 .. NClients + 1 /\ next_client \notin Clients
  BY DEF PopPush, Inv, TypeOK
<1>2. c < next_client /\ Priority[q] \in Int
  BY <1>1, ClientAssumption, PriorityAssumption DEF Clients, Deqs
<1>3. \A r : (Twice(c, r) => Twice(c, r)') /\ (Deliveries(c, r) # {} => Deliveries(c, r)' # {})
  BY <1>1 DEF Twice, Deliveries
<1>4. CASE Twice(c, q)
  BY <1>2, <1>3, <1>4 DEF SentAgain
<1>5. CASE ~Twice(c, q)
  <2>1. Queued(q) /\ Deliveries(c, q) # {} /\ q # push
    BY <1>1, <1>2, <1>5 DEF SentAgain
  <2>2. CASE Queued(q)'
    BY <1>1, <1>2, <1>3, <2>1, <2>2 DEF SentAgain
  <2>3. CASE ~Queued(q)'
    <3>1. push \in Pushes /\ Priority[push] < Priority[q] /\ SentAgain(c, push)'
      BY <2>1, <2>3, OvertakenStays
    <3>2. PICK r \in Pushes : r = push
      BY <3>1
    <3>3. push' = push
      BY DEF PopPush
    <3>4. Priority[r] <= Priority[q]
      BY <1>2, <3>1, <3>2, PriorityAssumption DEF Deqs
    <3>5. SentAgain(c, r)'
      BY <3>1, <3>2, <3>3 DEF SentAgain, Twice, Deliveries, Queued
    <3> QED BY <3>4, <3>5
  <2> QED BY <2>2, <2>3
<1> QED BY <1>4, <1>5

\* A sending only adds to what was delivered, and the second one of q makes it two.
LEMMA SentAgainSend ==
  ASSUME Inv, SendPush, NEW c \in Clients, NEW q \in Pushes
  PROVE  /\ Deliveries(c, q) \subseteq Deliveries(c, q)'
         /\ SentAgain(c, q) => SentAgain(c, q)'
<1>1. /\ pc = "send" /\ push \in Pushes /\ push' = push /\ pc' = "send"
      /\ next_client \in Clients /\ next_client' = next_client + 1
      /\ received' = [received EXCEPT ![next_client] = Append(@, push)]
      /\ received \in [Clients -> Seq(Pushes)] /\ received[c] \in Seq(Pushes)
      /\ priority_queues' = priority_queues
  BY DEF SendPush, Inv, InFlightStillQueued, TypeOK, queue_vars
<1>2. /\ Len(received[c]) \in Nat
      /\ c = next_client => /\ Len(received'[c]) = Len(received[c]) + 1
                            /\ \A i \in 1 .. Len(received[c]) : received'[c][i] = received[c][i]
                            /\ received'[c][Len(received[c]) + 1] = push
      /\ c # next_client => received'[c] = received[c]
  BY <1>1, AppendProperties, LenProperties
<1>3. Deliveries(c, q) \subseteq Deliveries(c, q)'
  BY <1>2 DEF Deliveries
<1>4. ASSUME Twice(c, q) PROVE SentAgain(c, q)'
  BY <1>3, <1>4 DEF Twice, SentAgain
<1>5. ASSUME Queued(q), Deliveries(c, q) # {}, pc = "send" /\ push = q => ~(c < next_client)
      PROVE  SentAgain(c, q)'
  <2>1. Queued(q)'
    BY <1>1, <1>5 DEF Queued
  <2>2. Deliveries(c, q)' # {}
    BY <1>3, <1>5
  <2>3. CASE push = q /\ c = next_client
    <3>1. PICK i \in Deliveries(c, q) : TRUE
      BY <1>5
    <3>2. i \in Deliveries(c, q)' /\ i \in 1 .. Len(received[c])
      BY <1>3, <3>1 DEF Deliveries
    <3> DEFINE n == Len(received[c]) + 1
    <3>3. n \in Deliveries(c, q)' /\ n # i
      BY <1>2, <2>3, <3>2 DEF Deliveries
    <3> QED BY <3>2, <3>3 DEF Twice, SentAgain
  <2>4. CASE ~(push = q /\ c = next_client)
    <3>1. push' = q => ~(c < next_client')
      BY <1>1, <1>5, <2>4 DEF Clients
    <3> QED BY <1>1, <2>1, <2>2, <3>1 DEF SentAgain
  <2> QED BY <2>3, <2>4
<1> QED BY <1>3, <1>4, <1>5 DEF SentAgain

LEMMA LostNext == Inv /\ Served /\ LostInv /\ [Next]_vars => LostInv'
<1> SUFFICES ASSUME Inv, Served, LostInv, [Next]_vars,
                    NEW c \in Clients, NEW p \in Pushes, Lost(c, p)'
             PROVE  \E q \in Pushes : Priority[q] < Priority[p] /\ SentAgain(c, q)'
  BY DEF LostInv
<1>1. ASSUME NEW r \in Pushes, Post(r)
      PROVE  \E q \in Pushes : Priority[q] < Priority[p] /\ SentAgain(c, q)'
  <2>1. Lost(c, p)
    <3>1. p # r /\ IsAccepted(p) /\ ~Queued(p)
      BY <1>1, QueuedAfterPost DEF Lost
    <3> QED BY <1>1, <3>1 DEF Lost, Deliveries, Post
  <2>2. PICK q \in Pushes : Priority[q] < Priority[p] /\ SentAgain(c, q)
    BY <2>1 DEF LostInv
  <2>3. Queued(q) => Queued(q)'
    BY <1>1, QueuedAfterPost
  <2>4. UNCHANGED <<received, push, next_client>> /\ (pc' = "send" <=> pc = "send")
    BY <1>1 DEF Post, NotifyOne
  <2>5. SentAgain(c, q)'
    BY <2>2, <2>3, <2>4 DEF SentAgain, Twice, Deliveries
  <2> QED BY <2>2, <2>5
<1>2. CASE GetPush
  <2>1. UNCHANGED <<received, accepted, priority_queues>> /\ next_client' = 1
    BY <1>2 DEF GetPush, queue_vars
  <2>2. Lost(c, p)
    BY <2>1 DEF Lost, IsAccepted, Queued, Deliveries
  <2>3. PICK q \in Pushes : Priority[q] < Priority[p] /\ SentAgain(c, q)
    BY <2>2 DEF LostInv
  <2>4. SentAgain(c, q)'
    BY <2>1, <2>3 DEF SentAgain, Twice, Deliveries, Queued, Clients
  <2> QED BY <2>3, <2>4
<1>3. CASE SendPush
  <2>1. Lost(c, p)
    <3>1. UNCHANGED <<accepted, priority_queues>>
      BY <1>3 DEF SendPush, queue_vars
    <3> QED BY <1>3, <3>1, SentAgainSend DEF Lost, IsAccepted, Queued
  <2>2. PICK q \in Pushes : Priority[q] < Priority[p] /\ SentAgain(c, q)
    BY <2>1 DEF LostInv
  <2> QED BY <1>3, <2>2, SentAgainSend
<1>4. CASE PopPush
  <2>1. UNCHANGED <<received, accepted, push>> /\ pc = "send"
    BY <1>4 DEF PopPush
  <2>2. IsAccepted(p) /\ Deliveries(c, p) = {} /\ ~Queued(p)'
    BY <2>1 DEF Lost, IsAccepted, Deliveries
  <2>3. CASE Queued(p)
    <3>1. c < next_client
      BY <1>4, ClientAssumption DEF PopPush, Inv, TypeOK, Clients
    <3>2. p # push
      BY <2>1, <2>2, <3>1 DEF Served
    <3>3. push \in Pushes /\ Priority[push] < Priority[p] /\ SentAgain(c, push)'
      BY <1>4, <2>2, <2>3, <3>2, OvertakenStays
    <3>4. PICK r \in Pushes : r = push
      BY <3>3
    <3>5. SentAgain(c, r)'
      BY <2>1, <3>3, <3>4 DEF SentAgain, Twice, Deliveries, Queued
    <3> QED BY <3>3, <3>4, <3>5
  <2>4. CASE ~Queued(p)
    <3>1. PICK q \in Pushes : Priority[q] < Priority[p] /\ SentAgain(c, q)
      BY <2>2, <2>4 DEF Lost, LostInv
    <3>2. PICK r \in Pushes : Priority[r] <= Priority[q] /\ SentAgain(c, r)'
      BY <1>4, <3>1, SentAgainPop
    <3>3. Priority[r] < Priority[p]
      BY <3>1, <3>2, PriorityAssumption DEF Deqs
    <3> QED BY <3>2, <3>3
  <2> QED BY <2>3, <2>4
<1>5. CASE /\ UNCHANGED <<received, accepted, priority_queues, push, next_client>>
           /\ pc' = "send" <=> pc = "send"
  <2>1. Lost(c, p)
    BY <1>5 DEF Lost, IsAccepted, Queued, Deliveries
  <2>2. PICK q \in Pushes : Priority[q] < Priority[p] /\ SentAgain(c, q)
    BY <2>1 DEF LostInv
  <2>3. SentAgain(c, q)'
    BY <1>5, <2>2 DEF SentAgain, Twice, Deliveries, Queued
  <2> QED BY <2>2, <2>3
<1>6. \/ \E r \in Pushes : Post(r)
      \/ GetPush \/ SendPush \/ PopPush
      \/ /\ UNCHANGED <<received, accepted, priority_queues, push, next_client>>
         /\ pc' = "send" <=> pc = "send"
  BY DEF Next, Terminated, vars, queue_vars, Stop, Destroy, Joined, WaitForPush,
         SpuriousWakeup, Finish, NotifyOne
<1> QED BY <1>1, <1>2, <1>3, <1>4, <1>5, <1>6

LEMMA LostImplies == Inv /\ LostInv => LossOnlyByOvertaking
<1> SUFFICES ASSUME Inv, LostInv, NEW c \in Clients, NEW p \in Pushes,
                    IsAccepted(p) /\ ~Queued(p) /\ Deliveries(c, p) = {}
             PROVE  \E q \in Pushes :
                      /\ Priority[q] < Priority[p]
                      /\ Deliveries(c, q) # {}
                      /\ Queued(q) \/ Cardinality(Deliveries(c, q)) >= 2
  BY DEF LossOnlyByOvertaking
<1>1. PICK q \in Pushes : Priority[q] < Priority[p] /\ SentAgain(c, q)
  BY DEF Lost, LostInv
<1>2. CASE Twice(c, q)
  <2>1. PICK i \in Deliveries(c, q) : \E j \in Deliveries(c, q) : i # j
    BY <1>2 DEF Twice
  <2>2. PICK j \in Deliveries(c, q) : i # j
    BY <2>1
  <2>3. IsFiniteSet(Deliveries(c, q))
    <3>1. Len(received[c]) \in Nat
      BY LenProperties DEF Inv, TypeOK
    <3>2. IsFiniteSet(1 .. Len(received[c]))
      BY <3>1, FS_Interval
    <3>3. Deliveries(c, q) \subseteq 1 .. Len(received[c])
      BY DEF Deliveries
    <3> QED BY <3>2, <3>3, FS_Subset
  <2>4. Cardinality({i, j}) = 2
    <3>1. IsFiniteSet({i}) /\ Cardinality({i}) = 1
      BY FS_Singleton
    <3>2. j \notin {i} /\ {i} \cup {j} = {i, j}
      BY <2>2
    <3>3. Cardinality({i} \cup {j}) = Cardinality({i}) + 1
      BY <3>1, <3>2, FS_AddElement
    <3> QED BY <3>1, <3>2, <3>3
  <2>5. {i, j} \subseteq Deliveries(c, q)
    BY <2>1, <2>2
  <2>6. Cardinality({i, j}) <= Cardinality(Deliveries(c, q))
    BY <2>3, <2>5, FS_Subset
  <2>7. Cardinality(Deliveries(c, q)) \in Nat
    BY <2>3, FS_CardinalityType
  <2>8. Cardinality(Deliveries(c, q)) >= 2
    BY <2>4, <2>6, <2>7
  <2> QED BY <1>1, <2>1, <2>8
<1>3. CASE ~Twice(c, q)
  BY <1>1, <1>3 DEF SentAgain
<1> QED BY <1>2, <1>3

\* What pop() at dispatcher.cpp:194 can cost a client is a push overtaken while one of
\* lower priority was being sent, and then that one reaches the client again; nothing
\* else loses a push, for any number of pushes and clients.
THEOREM OnlyOvertakingLoses == Spec => []LossOnlyByOvertaking
<1>1. Init => Served /\ LostInv
  <2>1. Init => Served
    BY DEF Init, Served
  <2>2. Init => LostInv
    BY EmptySeq DEF Init, LostInv, Lost, IsAccepted
  <2> QED BY <2>1, <2>2
<1>2. Inv /\ LostInv => LossOnlyByOvertaking
  BY LostImplies
<1> QED BY <1>1, <1>2, Invariance, ServedNext, LostNext, PTL DEF Spec

-----------------------------------------------------------------------------
(* Order within a priority.  What clients received is in the order of acceptance *)
(* because the deques are, and because nothing in a deque was accepted before    *)
(* what a client has received of its priority (ReceivedFirst): a push that is    *)
(* sent again is still the oldest of its deque.                                  *)

Among(s, p) == \E k \in 1 .. Len(s) : s[k] = p

\* p stands in s no later than q, if both are there.
NotAfter(s, p, q) == \A k, l \in 1 .. Len(s) : s[k] = p /\ s[l] = q => k <= l

AcceptedOnce == \A k, l \in 1 .. Len(accepted) : accepted[k] = accepted[l] => k = l

QueuedInOrder ==
  \A d \in Deqs : \A i \in 1 .. Len(priority_queues[d]) :
    /\ Among(accepted, priority_queues[d][i])
    /\ \A j \in 1 .. Len(priority_queues[d]) :
         i < j => NotAfter(accepted, priority_queues[d][i], priority_queues[d][j])

ReceivedFirst ==
  \A c \in Clients : \A i \in 1 .. Len(received[c]) :
    /\ Among(accepted, received[c][i])
    /\ \A d \in Deqs : \A k \in 1 .. Len(priority_queues[d]) :
         Priority[received[c][i]] = d =>
           NotAfter(accepted, received[c][i], priority_queues[d][k])

ReceivedInOrder ==
  \A c \in Clients : \A i, j \in 1 .. Len(received[c]) :
    i < j /\ Priority[received[c][i]] = Priority[received[c][j]]
      => NotAfter(accepted, received[c][i], received[c][j])

FifoInv == AcceptedOnce /\ QueuedInOrder /\ ReceivedFirst /\ ReceivedInOrder

LEMMA FifoInit == Init => FifoInv
BY EmptySeq DEF Init, FifoInv, AcceptedOnce, QueuedInOrder, ReceivedFirst,
                ReceivedInOrder, Deqs

\* Nothing that was accepted before changes its place, and the new push is last.
LEMMA NotAfterPost ==
  ASSUME Inv, NEW p \in Pushes, Post(p)
  PROVE  /\ ~Among(accepted, p) /\ Among(accepted', p)
         /\ \A q : Among(accepted, q) => Among(accepted', q)
         /\ \A q, r : Among(accepted, q) /\ Among(accepted, r) /\ NotAfter(accepted, q, r)
                        => NotAfter(accepted', q, r)
         /\ \A q : NotAfter(accepted', q, p)
<1> DEFINE a == Len(accepted)
<1>1. /\ a \in Nat /\ Len(accepted') = a + 1
      /\ accepted'[a + 1] = p
      /\ \A j \in 1 .. a : accepted'[j] = accepted[j]
      /\ \A j \in 1 .. a : accepted[j] # p
  BY AppendProperties, LenProperties DEF Inv, TypeOK, Post
<1>2. ~Among(accepted, p) /\ Among(accepted', p)
  BY <1>1 DEF Among
<1>3. ASSUME NEW q, Among(accepted, q) PROVE Among(accepted', q)
  BY <1>1, <1>3 DEF Among
<1>4. ASSUME NEW q, NEW r, Among(accepted, q), Among(accepted, r), NotAfter(accepted, q, r)
      PROVE  NotAfter(accepted', q, r)
  <2> SUFFICES ASSUME NEW k \in 1 .. a + 1, NEW l \in 1 .. a + 1,
                      accepted'[k] = q, accepted'[l] = r
               PROVE  k <= l
    BY <1>1 DEF NotAfter
  <2>1. q # p /\ r # p
    BY <1>2, <1>4
  <2>2. k \in 1 .. a /\ l \in 1 .. a
    BY <1>1, <2>1
  <2> QED BY <1>1, <1>4, <2>2 DEF NotAfter
<1>5. ASSUME NEW q PROVE NotAfter(accepted', q, p)
  BY <1>1 DEF NotAfter
<1> QED BY <1>2, <1>3, <1>4, <1>5

LEMMA AcceptedOncePost ==
  ASSUME Inv, AcceptedOnce, NEW p \in Pushes, Post(p)
  PROVE  AcceptedOnce'
<1> DEFINE a == Len(accepted)
<1>1. /\ a \in Nat /\ Len(accepted') = a + 1
      /\ accepted'[a + 1] = p
      /\ \A j \in 1 .. a : accepted'[j] = accepted[j]
      /\ \A j \in 1 .. a : accepted[j] # p
  BY AppendProperties, LenProperties DEF Inv, TypeOK, Post
<1> SUFFICES ASSUME NEW k \in 1 .. a + 1, NEW l \in 1 .. a + 1, accepted'[k] = accepted'[l]
             PROVE  k = l
  BY <1>1 DEF AcceptedOnce
<1>2. CASE k = a + 1 \/ l = a + 1
  <2>1. k = a + 1 => l = a + 1
    BY <1>1
  <2>2. l = a + 1 => k = a + 1
    BY <1>1
  <2> QED BY <1>2, <2>1, <2>2
<1>3. CASE k \in 1 .. a /\ l \in 1 .. a
  BY <1>1, <1>3 DEF AcceptedOnce
<1> QED BY <1>1, <1>2, <1>3

LEMMA FifoPost ==
  ASSUME Inv, FifoInv, NEW p \in Pushes, Post(p)
  PROVE  FifoInv'
<1> DEFINE d == Priority[p]
           s == priority_queues[d]
<1>1. /\ d \in Deqs /\ s \in Seq(Pushes) /\ Len(s) \in Nat
      /\ \A e \in Deqs : e # d => priority_queues'[e] = priority_queues[e]
      /\ Len(priority_queues'[d]) = Len(s) + 1
      /\ \A i \in 1 .. Len(s) + 1 :
           priority_queues'[d][i] = IF i <= Len(s) THEN s[i] ELSE p
      /\ received' = received
  BY EnqueuedQueue, LenProperties DEF Inv, TypeOK, Post
<1>2. /\ ~Among(accepted, p) /\ Among(accepted', p)
      /\ \A q : Among(accepted, q) => Among(accepted', q)
      /\ \A q, r : Among(accepted, q) /\ Among(accepted, r) /\ NotAfter(accepted, q, r)
                     => NotAfter(accepted', q, r)
      /\ \A q : NotAfter(accepted', q, p)
  BY NotAfterPost
<1>3. AcceptedOnce'
  BY AcceptedOncePost DEF FifoInv
<1>4. \A e \in Deqs : \A i \in 1 .. Len(priority_queues'[e]) :
        \/ /\ i \in 1 .. Len(priority_queues[e])
           /\ priority_queues'[e][i] = priority_queues[e][i]
        \/ e = d /\ i = Len(s) + 1 /\ priority_queues'[e][i] = p
  <2> SUFFICES ASSUME NEW e \in Deqs, NEW i \in 1 .. Len(priority_queues'[e])
               PROVE  \/ /\ i \in 1 .. Len(priority_queues[e])
                         /\ priority_queues'[e][i] = priority_queues[e][i]
                      \/ e = d /\ i = Len(s) + 1 /\ priority_queues'[e][i] = p
    OBVIOUS
  <2>1. CASE e # d
    BY <1>1, <2>1
  <2>2. CASE e = d
    <3> HIDE DEF d
    <3> QED BY <1>1, <2>2
  <2> QED BY <2>1, <2>2
<1> HIDE DEF d, s
<1>5. \A e \in Deqs : \A i \in 1 .. Len(priority_queues[e]) :
        Among(accepted, priority_queues[e][i])
  BY DEF FifoInv, QueuedInOrder
<1>6. QueuedInOrder'
  <2> SUFFICES ASSUME NEW e \in Deqs, NEW i \in 1 .. Len(priority_queues'[e])
               PROVE  /\ Among(accepted', priority_queues'[e][i])
                      /\ \A j \in 1 .. Len(priority_queues'[e]) :
                           i < j => NotAfter(accepted', priority_queues'[e][i],
                                                        priority_queues'[e][j])
    BY DEF QueuedInOrder
  <2>1. Among(accepted', priority_queues'[e][i])
    BY <1>2, <1>4, <1>5
  <2>2. ASSUME NEW j \in 1 .. Len(priority_queues'[e]), i < j
        PROVE  NotAfter(accepted', priority_queues'[e][i], priority_queues'[e][j])
    <3>1. CASE priority_queues'[e][j] = p
      BY <1>2, <3>1
    <3>2. CASE priority_queues'[e][j] # p
      <4>1. /\ j \in 1 .. Len(priority_queues[e])
            /\ priority_queues'[e][j] = priority_queues[e][j]
        BY <1>4, <3>2
      <4>2. Len(priority_queues[e]) \in Nat
        BY LenProperties DEF Inv, TypeOK
      <4>3. e = d => Len(priority_queues[e]) = Len(s)
        BY DEF s
      <4>4. /\ i \in 1 .. Len(priority_queues[e])
            /\ priority_queues'[e][i] = priority_queues[e][i]
        BY <1>4, <2>2, <4>1, <4>2, <4>3
      <4>5. NotAfter(accepted, priority_queues[e][i], priority_queues[e][j])
        BY <2>2, <4>1, <4>4 DEF FifoInv, QueuedInOrder
      <4> QED BY <1>2, <1>5, <4>1, <4>4, <4>5
    <3> QED BY <3>1, <3>2
  <2> QED BY <2>1, <2>2
<1>7. \A c \in Clients : \A i \in 1 .. Len(received[c]) : Among(accepted, received[c][i])
  BY DEF FifoInv, ReceivedFirst
<1>8. ReceivedFirst'
  <2> SUFFICES ASSUME NEW c \in Clients, NEW i \in 1 .. Len(received[c])
               PROVE  /\ Among(accepted', received[c][i])
                      /\ \A e \in Deqs : \A k \in 1 .. Len(priority_queues'[e]) :
                           Priority[received[c][i]] = e =>
                             NotAfter(accepted', received[c][i], priority_queues'[e][k])
    BY <1>1 DEF ReceivedFirst
  <2>1. ASSUME NEW e \in Deqs, NEW k \in 1 .. Len(priority_queues'[e]),
               Priority[received[c][i]] = e
        PROVE  NotAfter(accepted', received[c][i], priority_queues'[e][k])
    <3>1. CASE priority_queues'[e][k] = p
      BY <1>2, <3>1
    <3>2. CASE priority_queues'[e][k] # p
      <4>1. /\ k \in 1 .. Len(priority_queues[e])
            /\ priority_queues'[e][k] = priority_queues[e][k]
        BY <1>4, <3>2
      <4>2. NotAfter(accepted, received[c][i], priority_queues[e][k])
        BY <2>1, <4>1 DEF FifoInv, ReceivedFirst
      <4> QED BY <1>2, <1>5, <1>7, <4>1, <4>2
    <3> QED BY <3>1, <3>2
  <2> QED BY <1>2, <1>7, <2>1
<1>9. ReceivedInOrder'
  BY <1>1, <1>2, <1>7 DEF FifoInv, ReceivedInOrder
<1> QED BY <1>3, <1>6, <1>8, <1>9 DEF FifoInv

LEMMA FifoSend ==
  ASSUME Inv, FifoInv, SendPush
  PROVE  FifoInv'
<1>1. /\ push \in Pushes /\ next_client \in Clients
      /\ received' = [received EXCEPT ![next_client] = Append(@, push)]
      /\ received \in [Clients -> Seq(Pushes)]
      /\ priority_queues' = priority_queues /\ accepted' = accepted
      /\ Priority[push] \in Deqs
      /\ priority_queues[Priority[push]] # <<>>
      /\ Head(priority_queues[Priority[push]]) = push
  BY PriorityAssumption DEF SendPush, Inv, InFlightStillQueued, TypeOK, queue_vars
<1> DEFINE n == next_client
           a == Len(received[n]) + 1
           q == priority_queues[Priority[push]]
<1>2. /\ Len(received[n]) \in Nat /\ Len(received'[n]) = a
      /\ \A i \in 1 .. Len(received[n]) : received'[n][i] = received[n][i]
      /\ received'[n][a] = push
      /\ \A c \in Clients : c # n => received'[c] = received[c]
  BY <1>1, AppendProperties, LenProperties
<1>3. 1 \in 1 .. Len(q) /\ q[1] = push
  BY <1>1, EmptySeq, LenProperties DEF Inv, TypeOK
<1>4. Among(accepted, push) /\ \A k \in 1 .. Len(q) : NotAfter(accepted, push, q[k])
  <2>1. Among(accepted, q[1])
    BY <1>1, <1>3 DEF FifoInv, QueuedInOrder
  <2>2. ASSUME NEW k \in 1 .. Len(q) PROVE NotAfter(accepted, push, q[k])
    <3>1. CASE k = 1
      BY <1>3, <3>1 DEF FifoInv, AcceptedOnce, NotAfter
    <3>2. CASE k # 1
      <4>1. 1 < k
        BY <3>2
      <4>2. NotAfter(accepted, q[1], q[k])
        BY <1>1, <1>3, <4>1 DEF FifoInv, QueuedInOrder
      <4> QED BY <1>3, <4>2
    <3> QED BY <3>1, <3>2
  <2> QED BY <1>3, <2>1, <2>2
<1>5. \A c \in Clients : \A i \in 1 .. Len(received'[c]) :
        \/ i \in 1 .. Len(received[c]) /\ received'[c][i] = received[c][i]
        \/ c = n /\ i = a /\ received'[c][i] = push
  BY <1>1, <1>2
<1>6. AcceptedOnce' /\ QueuedInOrder'
  BY <1>1 DEF FifoInv, AcceptedOnce, QueuedInOrder
<1>7. ReceivedFirst'
  <2> SUFFICES ASSUME NEW c \in Clients, NEW i \in 1 .. Len(received'[c])
               PROVE  /\ Among(accepted, received'[c][i])
                      /\ \A e \in Deqs : \A k \in 1 .. Len(priority_queues[e]) :
                           Priority[received'[c][i]] = e =>
                             NotAfter(accepted, received'[c][i], priority_queues[e][k])
    BY <1>1 DEF ReceivedFirst
  <2>1. CASE i \in 1 .. Len(received[c]) /\ received'[c][i] = received[c][i]
    BY <2>1 DEF FifoInv, ReceivedFirst
  <2>2. CASE received'[c][i] = push
    BY <1>4, <2>2
  <2> QED BY <1>5, <2>1, <2>2
<1>8. ReceivedInOrder'
  <2> SUFFICES ASSUME NEW c \in Clients
               PROVE  \A i, j \in 1 .. Len(received'[c]) :
                        i < j /\ Priority[received'[c][i]] = Priority[received'[c][j]]
                          => NotAfter(accepted, received'[c][i], received'[c][j])
    <3>1. accepted' = accepted
      BY <1>1
    <3> QED BY <3>1 DEF ReceivedInOrder
  <2> SUFFICES ASSUME NEW i \in 1 .. Len(received'[c]), NEW j \in 1 .. Len(received'[c]),
                      i < j, Priority[received'[c][i]] = Priority[received'[c][j]]
               PROVE  NotAfter(accepted, received'[c][i], received'[c][j])
    OBVIOUS
  <2>1. CASE j \in 1 .. Len(received[c]) /\ received'[c][j] = received[c][j]
    <3>1. i \in 1 .. Len(received[c]) /\ received'[c][i] = received[c][i]
      <4>1. Len(received[c]) \in Nat
        BY <1>1, LenProperties
      <4>2. ~(c = n /\ i = a)
        BY <2>1, <4>1
      <4> QED BY <1>5, <4>2
    <3> QED BY <2>1, <3>1 DEF FifoInv, ReceivedInOrder
  <2>2. CASE c = n /\ j = a /\ received'[c][j] = push
    <3>1. i \in 1 .. Len(received[c]) /\ received'[c][i] = received[c][i]
      <4>1. i # a
        BY <1>2, <2>2
      <4> QED BY <1>5, <4>1
    <3>2. NotAfter(accepted, received[c][i], q[1])
      BY <1>1, <1>3, <2>2, <3>1 DEF FifoInv, ReceivedFirst
    <3> QED BY <1>3, <2>2, <3>1, <3>2
  <2> QED BY <1>5, <2>1, <2>2
<1> QED BY <1>6, <1>7, <1>8 DEF FifoInv

LEMMA FifoPop ==
  ASSUME Inv, FifoInv, PopPush
  PROVE  FifoInv'
<1>1. /\ current_deq \in Deqs /\ priority_queues[current_deq] # <<>>
      /\ UNCHANGED <<received, accepted>>
      /\ priority_queues' = Popped
  BY PopIsLegal DEF Inv, PopPush
<1>2. \A e \in Deqs : \E n \in {0, 1} : \A i \in 1 .. Len(Popped[e]) :
        /\ i + n \in 1 .. Len(priority_queues[e])
        /\ Popped[e][i] = priority_queues[e][i + n]
  <2> SUFFICES ASSUME NEW e \in Deqs
               PROVE  \E n \in {0, 1} : \A i \in 1 .. Len(Popped[e]) :
                        /\ i + n \in 1 .. Len(priority_queues[e])
                        /\ Popped[e][i] = priority_queues[e][i + n]
    OBVIOUS
  <2>1. CASE e = current_deq
    <3>1. \A i \in 1 .. Len(Popped[e]) :
            /\ i + 1 \in 1 .. Len(priority_queues[e])
            /\ Popped[e][i] = priority_queues[e][i + 1]
      BY <1>1, <2>1, PoppedQueue DEF Inv
    <3> QED BY <3>1
  <2>2. CASE e # current_deq
    <3>1. Popped[e] = priority_queues[e]
      BY <1>1, <2>2, PoppedQueue DEF Inv
    <3>2. \A i \in 1 .. Len(Popped[e]) : i + 0 = i
      OBVIOUS
    <3>3. \A i \in 1 .. Len(Popped[e]) :
            /\ i + 0 \in 1 .. Len(priority_queues[e])
            /\ Popped[e][i] = priority_queues[e][i + 0]
      BY <3>1, <3>2
    <3> QED BY <3>3
  <2> QED BY <2>1, <2>2
<1>3. QueuedInOrder'
  <2> SUFFICES ASSUME NEW e \in Deqs, NEW i \in 1 .. Len(Popped[e])
               PROVE  /\ Among(accepted, Popped[e][i])
                      /\ \A j \in 1 .. Len(Popped[e]) :
                           i < j => NotAfter(accepted, Popped[e][i], Popped[e][j])
    BY <1>1 DEF QueuedInOrder
  <2>1. PICK n \in {0, 1} : \A k \in 1 .. Len(Popped[e]) :
               /\ k + n \in 1 .. Len(priority_queues[e])
               /\ Popped[e][k] = priority_queues[e][k + n]
    BY <1>2
  <2>2. Among(accepted, Popped[e][i])
    BY <2>1 DEF FifoInv, QueuedInOrder
  <2>3. ASSUME NEW j \in 1 .. Len(Popped[e]), i < j
        PROVE  NotAfter(accepted, Popped[e][i], Popped[e][j])
    <3>1. i + n < j + n
      BY <2>3
    <3>2. NotAfter(accepted, priority_queues[e][i + n], priority_queues[e][j + n])
      BY <2>1, <3>1 DEF FifoInv, QueuedInOrder
    <3> QED BY <2>1, <3>2
  <2> QED BY <2>2, <2>3
<1>4. ReceivedFirst'
  <2> SUFFICES ASSUME NEW c \in Clients, NEW i \in 1 .. Len(received[c]),
                      NEW e \in Deqs, NEW k \in 1 .. Len(Popped[e]),
                      Priority[received[c][i]] = e
               PROVE  NotAfter(accepted, received[c][i], Popped[e][k])
    BY <1>1 DEF FifoInv, ReceivedFirst
  <2>1. PICK n \in {0, 1} : /\ k + n \in 1 .. Len(priority_queues[e])
                            /\ Popped[e][k] = priority_queues[e][k + n]
    BY <1>2
  <2> QED BY <2>1 DEF FifoInv, ReceivedFirst
<1> QED BY <1>1, <1>3, <1>4 DEF FifoInv, AcceptedOnce, ReceivedInOrder

LEMMA FifoNext == Inv /\ FifoInv /\ [Next]_vars => FifoInv'
<1> SUFFICES ASSUME Inv, FifoInv, [Next]_vars PROVE FifoInv'
  OBVIOUS
<1>1. CASE \E p \in Pushes : Post(p)
  BY <1>1, FifoPost
<1>2. CASE SendPush
  BY <1>2, FifoSend
<1>3. CASE PopPush
  BY <1>3, FifoPop
<1>4. CASE UNCHANGED <<accepted, received, priority_queues>>
  BY <1>4 DEF FifoInv, AcceptedOnce, QueuedInOrder, ReceivedFirst, ReceivedInOrder
<1>5. \/ \E p \in Pushes : Post(p)
      \/ SendPush \/ PopPush
      \/ UNCHANGED <<accepted, received, priority_queues>>
  BY DEF Next, Terminated, vars, queue_vars, Stop, Destroy, Joined, WaitForPush,
         SpuriousWakeup, Finish, GetPush
<1> QED BY <1>1, <1>2, <1>3, <1>4, <1>5

LEMMA FifoImplies == FifoInv => PriorityFifo
<1> SUFFICES ASSUME FifoInv, NEW c \in Clients,
                    NEW i \in 1 .. Len(received[c]), NEW j \in 1 .. Len(received[c]),
                    i < j, Priority[received[c][i]] = Priority[received[c][j]]
             PROVE  Position(received[c][i]) <= Position(received[c][j])
  BY DEF PriorityFifo
<1>1. \A q : Among(accepted, q) =>
        Position(q) \in 1 .. Len(accepted) /\ accepted[Position(q)] = q
  BY DEF Among, Position
<1>2. Among(accepted, received[c][i]) /\ Among(accepted, received[c][j])
  BY DEF FifoInv, ReceivedFirst
<1>3. NotAfter(accepted, received[c][i], received[c][j])
  BY DEF FifoInv, ReceivedInOrder
<1> QED BY <1>1, <1>2, <1>3 DEF NotAfter

\* Within a priority each client receives in the order of acceptance, whatever was
\* overtaken, lost or sent again (dispatcher.cpp:55, 64, 70).
THEOREM DeliveryOrder == Spec => []PriorityFifo
BY Invariance, FifoInit, FifoNext, FifoImplies, PTL DEF Spec

-----------------------------------------------------------------------------
(* The refinement.  Every step of the dispatcher is a step of FifoBroadcast or a  *)
(* stutter, for any number of clients and pushes.  On top of Inv the argument     *)
(* needs to know which pushes are queued: the last ones accepted, in that order,  *)
(* while all have one priority.                                                   *)

OnePriority == Broadcast!OnePriority

QueueIsTail ==
  \A d \in Deqs :
    LET n == Len(priority_queues[d])
        a == Len(accepted)
    IN  /\ n <= a
        /\ \A i \in 1 .. n : priority_queues[d][i] = accepted[a - n + i]

TailInv == OnePriority => QueueIsTail

-----------------------------------------------------------------------------
\* While there is one priority, all deques but one are empty.
LEMMA OneDeque ==
  ASSUME Inv, OnePriority, QueueIsTail, NEW d \in Deqs, NEW e \in Deqs,
         priority_queues[d] # <<>>, e # d
  PROVE  priority_queues[e] = <<>>
<1> SUFFICES ASSUME priority_queues[e] # <<>> PROVE FALSE
  OBVIOUS
<1>1. \A f \in {d, e} : /\ priority_queues[f] \in Seq(Pushes)
                        /\ Len(priority_queues[f]) \in Nat \ {0}
  BY EmptySeq DEF Inv, TypeOK
<1>2. Len(accepted) \in Nat
  BY LenProperties DEF Inv, TypeOK
<1>3. \A f \in {d, e} : \E i \in 1 .. Len(accepted) : Priority[accepted[i]] = f
  <2> SUFFICES ASSUME NEW f \in {d, e}
               PROVE  \E i \in 1 .. Len(accepted) : Priority[accepted[i]] = f
    OBVIOUS
  <2> DEFINE n == Len(priority_queues[f])
             i == Len(accepted) - n + 1
  <2>1. n \in Nat \ {0} /\ n <= Len(accepted) /\ f \in Deqs
    BY <1>1 DEF QueueIsTail
  <2>2. priority_queues[f][1] = accepted[i] /\ 1 \in 1 .. n
    <3>1. 1 \in 1 .. n
      BY <2>1
    <3> QED BY <2>1, <3>1 DEF QueueIsTail
  <2>4. Priority[priority_queues[f][1]] = f
    BY <2>1, <2>2 DEF Inv, InOwnDeque
  <2>3. i \in 1 .. Len(accepted)
    BY <1>2, <2>1
  <2> QED BY <2>2, <2>3, <2>4
<1> QED BY <1>3 DEF OnePriority, Broadcast!OnePriority

LEMMA TailPost ==
  ASSUME Inv, TailInv, NEW p \in Pushes, Post(p), OnePriority'
  PROVE  QueueIsTail'
<1> DEFINE d == Priority[p]
           s == priority_queues[d]
           a == Len(accepted)
<1>1. /\ d \in Deqs /\ s \in Seq(Pushes) /\ Len(s) \in Nat /\ a \in Nat
      /\ accepted \in Seq(Pushes)
      /\ \A e \in Deqs : e # d => priority_queues'[e] = priority_queues[e]
      /\ Len(priority_queues'[d]) = Len(s) + 1
      /\ \A i \in 1 .. Len(s) + 1 :
           priority_queues'[d][i] = IF i <= Len(s) THEN s[i] ELSE p
  BY EnqueuedQueue, LenProperties DEF Inv, TypeOK, Post
<1>2. /\ Len(accepted') = a + 1
      /\ \A i \in 1 .. a : accepted'[i] = accepted[i]
      /\ accepted'[a + 1] = p
  BY <1>1, AppendProperties DEF Post
<1>3. OnePriority /\ \A i \in 1 .. a : Priority[accepted[i]] = d
  <2>1. \A i, j \in 1 .. a + 1 : Priority[accepted'[i]] = Priority[accepted'[j]]
    BY <1>2 DEF OnePriority, Broadcast!OnePriority
  <2>2. \A i \in 1 .. a : i \in 1 .. a + 1
    BY <1>1
  <2>3. a + 1 \in 1 .. a + 1
    BY <1>1
  <2> QED BY <1>2, <2>1, <2>2, <2>3 DEF OnePriority, Broadcast!OnePriority
<1>4. QueueIsTail
  BY <1>3 DEF TailInv
<1>5. ASSUME NEW e \in Deqs, e # d
      PROVE  priority_queues[e] = <<>>
  <2> SUFFICES ASSUME priority_queues[e] # <<>> PROVE FALSE
    OBVIOUS
  <2> DEFINE n == Len(priority_queues[e])
             j == a - n + 1
  <2>1. n \in Nat \ {0} /\ n <= a
    BY <1>4, EmptySeq DEF Inv, TypeOK, QueueIsTail
  <2>2. 1 \in 1 .. n
    BY <2>1
  <2>3. priority_queues[e][1] = accepted[j]
    BY <1>4, <2>2 DEF QueueIsTail
  <2>4. Priority[priority_queues[e][1]] = e
    BY <2>2 DEF Inv, InOwnDeque
  <2>5. j \in 1 .. a
    BY <1>1, <2>1
  <2> QED BY <1>3, <1>5, <2>3, <2>4, <2>5
<1> SUFFICES ASSUME NEW e \in Deqs
             PROVE  /\ Len(priority_queues'[e]) <= Len(accepted')
                    /\ \A i \in 1 .. Len(priority_queues'[e]) :
                         priority_queues'[e][i] =
                           accepted'[Len(accepted') - Len(priority_queues'[e]) + i]
  BY DEF QueueIsTail
<1>6. CASE e # d
  <2>1. priority_queues'[e] = <<>>
    BY <1>1, <1>5, <1>6
  <2> QED BY <1>1, <1>2, <2>1
<1>7. CASE e = d
  <2>1. Len(s) <= a /\ \A i \in 1 .. Len(s) : s[i] = accepted[a - Len(s) + i]
    BY <1>1, <1>4 DEF QueueIsTail
  <2> DEFINE n == Len(s)
  <2>2. \A i \in 1 .. n + 1 : priority_queues'[d][i] = accepted'[(a + 1) - (n + 1) + i]
    <3> SUFFICES ASSUME NEW i \in 1 .. n + 1
                 PROVE  priority_queues'[d][i] = accepted'[(a + 1) - (n + 1) + i]
      OBVIOUS
    <3>1. n \in Nat /\ n <= a
      BY <1>1, <2>1
    <3>2. CASE i <= n
      <4>1. a - n + i \in 1 .. a /\ (a + 1) - (n + 1) + i = a - n + i /\ i \in 1 .. n
        <5> HIDE DEF a, n
        <5> QED BY <1>1, <3>1, <3>2 DEF a
      <4>2. priority_queues'[d][i] = accepted[a - n + i]
        BY <1>1, <2>1, <3>2, <4>1
      <4>3. accepted'[a - n + i] = accepted[a - n + i]
        BY <1>2, <4>1
      <4> QED BY <4>1, <4>2, <4>3
    <3>3. CASE i = n + 1
      <4>1. (a + 1) - (n + 1) + i = a + 1 /\ ~(i <= n)
        <5> HIDE DEF a, n
        <5> QED BY <1>1, <3>1, <3>3 DEF a
      <4>2. priority_queues'[d][i] = p
        <5>1. i \in 1 .. Len(s) + 1 /\ ~(i <= Len(s))
          BY <4>1
        <5> QED BY <1>1, <5>1
      <4> QED BY <1>2, <4>1, <4>2
    <3>4. i <= n \/ i = n + 1
      <4> HIDE DEF n
      <4> QED BY <3>1
    <3> QED BY <3>2, <3>3, <3>4
  <2>3. n + 1 <= a + 1
    BY <1>1, <2>1
  <2> QED BY <1>1, <1>2, <1>7, <2>2, <2>3
<1> QED BY <1>6, <1>7

LEMMA TailPop ==
  ASSUME Inv, QueueIsTail, PopPush
  PROVE  QueueIsTail'
<1> DEFINE a == Len(accepted)
<1>1. current_deq \in Deqs /\ priority_queues[current_deq] # <<>>
  BY PopIsLegal DEF Inv, PopPush
<1>2. /\ priority_queues' = Popped /\ accepted' = accepted
      /\ a \in Nat /\ Len(priority_queues[current_deq]) \in Nat
  BY <1>1, LenProperties DEF Inv, TypeOK, PopPush
<1> SUFFICES ASSUME NEW e \in Deqs
             PROVE  /\ Len(Popped[e]) <= a
                    /\ \A i \in 1 .. Len(Popped[e]) :
                         Popped[e][i] = accepted[a - Len(Popped[e]) + i]
  BY <1>2 DEF QueueIsTail
<1>3. CASE e # current_deq
  <2>1. Popped[e] = priority_queues[e]
    BY <1>1, <1>3, PoppedQueue DEF Inv
  <2> QED BY <2>1 DEF QueueIsTail
<1>4. CASE e = current_deq
  <2> DEFINE s == priority_queues[e]
             n == Len(s)
  <2>1. /\ Len(Popped[e]) = n - 1
        /\ \A i \in 1 .. n - 1 : i + 1 \in 1 .. n /\ Popped[e][i] = s[i + 1]
    BY <1>1, <1>4, PoppedQueue DEF Inv
  <2>2. n \in Nat /\ n <= a /\ \A i \in 1 .. n : s[i] = accepted[a - n + i]
    BY <1>2, <1>4 DEF QueueIsTail
  <2>3. \A i \in 1 .. n - 1 : Popped[e][i] = accepted[a - n + (i + 1)]
    BY <2>1, <2>2
  <2> HIDE DEF n, a
  <2>4. \A i \in 1 .. n - 1 : a - n + (i + 1) = a - (n - 1) + i
    BY <1>2, <2>2 DEF a
  <2>5. n - 1 <= a
    BY <1>2, <2>2 DEF a
  <2>6. \A i \in 1 .. n - 1 : Popped[e][i] = accepted[a - (n - 1) + i]
    BY <2>3, <2>4
  <2> QED BY <2>1, <2>5, <2>6
<1> QED BY <1>3, <1>4

LEMMA TailNext == Inv /\ TailInv /\ [Next]_vars => TailInv'
<1> SUFFICES ASSUME Inv, TailInv, [Next]_vars, OnePriority'
             PROVE  QueueIsTail'
  BY DEF TailInv
<1>1. CASE \E p \in Pushes : Post(p)
  BY <1>1, TailPost
<1>2. CASE PopPush
  <2>1. OnePriority
    BY <1>2 DEF PopPush, OnePriority, Broadcast!OnePriority
  <2> QED BY <1>2, <2>1, TailPop DEF TailInv
<1>3. CASE UNCHANGED <<priority_queues, accepted>>
  <2>1. OnePriority
    BY <1>3 DEF OnePriority, Broadcast!OnePriority
  <2> QED BY <1>3, <2>1 DEF TailInv, QueueIsTail
<1>4. \/ \E p \in Pushes : Post(p)
      \/ PopPush
      \/ UNCHANGED <<priority_queues, accepted>>
  BY DEF Next, Terminated, vars, queue_vars, Stop, Destroy, Joined, WaitForPush,
         SpuriousWakeup, GetPush, Finish, SendPush
<1> QED BY <1>1, <1>2, <1>3, <1>4

LEMMA TailInit == Init => TailInv
BY EmptySeq DEF Init, TailInv, QueueIsTail

-----------------------------------------------------------------------------
\* The push being sent is the next one of the client being served, which is behind
\* the clients served before it by this push alone.
LEMMA SendIsDeliver ==
  ASSUME Inv, DeliveryBalance, OnePriority, QueueIsTail, SendPush
  PROVE  Broadcast!Deliver(next_client)
<1> DEFINE c == next_client
           d == Priority[push]
           q == Len(priority_queues[d])
           a == Len(accepted)
           n == Len(received[c]) + 1
<1>1. /\ pc = "send" /\ c \in Clients /\ UNCHANGED <<accepted, stopped>>
      /\ received' = [received EXCEPT ![c] = Append(@, push)]
  BY DEF SendPush
<1>2. /\ push \in Pushes /\ d \in Deqs
      /\ priority_queues[d] # <<>> /\ Head(priority_queues[d]) = push
  BY <1>1, PriorityAssumption DEF Inv, InFlightStillQueued
<1>3. priority_queues[d] \in Seq(Pushes) /\ q \in Nat \ {0} /\ a \in Nat
  BY <1>2, EmptySeq, LenProperties DEF Inv, TypeOK
<1>4. q <= a /\ push = accepted[a - q + 1]
  <2>1. priority_queues[d][1] = push
    BY <1>2, <1>3
  <2>2. 1 \in 1 .. q
    BY <1>3
  <2> QED BY <1>2, <2>1, <2>2 DEF QueueIsTail
<1>5. TotalQueued = q
  <2>1. \A e \in Deqs : e # d => Len(priority_queues[e]) = 0
    BY <1>2, OneDeque, EmptySeq
  <2>2. Deqs = {0, 1, 2}
    BY DEF Deqs, PriorityCount
  <2> DEFINE L(e) == Len(priority_queues[e])
  <2>3. L(d) \in Nat /\ \A e \in Deqs : e # d => L(e) = 0
    BY <1>3, <2>1
  <2>4. TotalQueued = L(0) + L(1) + L(2) /\ L(d) = q
    BY DEF TotalQueued
  <2> HIDE DEF L, d, q
  <2>5. d \in Deqs
    BY <1>2
  <2> QED BY <2>2, <2>3, <2>4, <2>5
<1> HIDE DEF q, a, d
<1>6. ASSUME NEW e \in Clients
      PROVE  Len(received[e]) \in Nat /\ e \in Nat
             /\ Len(received[e]) = a - q + IF e < c THEN 1 ELSE 0
  <2> DEFINE r == Len(received[e])
  <2>1. r \in Nat /\ e \in Nat /\ c \in Nat
    BY <1>1, LenProperties DEF Inv, TypeOK, Clients
  <2>2. r + q = a + IF e < c THEN 1 ELSE 0
    BY <1>1, <1>5 DEF DeliveryBalance, a
  <2> HIDE DEF r
  <2>3. r = a - q + IF e < c THEN 1 ELSE 0
    BY <1>3, <2>1, <2>2
  <2> QED BY <2>1, <2>3 DEF r
<1>7. n = a - q + 1 /\ n <= a
  BY <1>1, <1>3, <1>6
<1>8. \A e \in Clients : Len(received[e]) = IF e < c THEN n ELSE n - 1
  BY <1>1, <1>3, <1>6, <1>7
<1>9. push = accepted[n]
  BY <1>4, <1>7
<1> QED BY <1>1, <1>7, <1>8, <1>9
        DEF Broadcast!Deliver, Broadcast!Receivers, Clients, a

LEMMA StepRefines ==
  Inv /\ DeliveryBalance /\ TailInv /\ [Next]_vars => [Broadcast!Next]_(Broadcast!all_vars)
<1> SUFFICES ASSUME Inv, DeliveryBalance, TailInv, [Next]_vars
             PROVE  Broadcast!Next \/ UNCHANGED Broadcast!all_vars
  OBVIOUS
<1>1. ASSUME NEW p \in Pushes, Post(p)
      PROVE  Broadcast!Accept(p)
  BY <1>1 DEF Post, Broadcast!Accept
<1>2. CASE Stop \/ Destroy
  BY <1>2 DEF Stop, Destroy, Broadcast!Next, Broadcast!Close
<1>3. CASE SendPush
  <2>1. CASE OnePriority
    <3>1. next_client \in Broadcast!Receivers
      BY <1>3 DEF SendPush, Clients, Broadcast!Receivers
    <3> QED BY <1>3, <2>1, <3>1, SendIsDeliver
            DEF TailInv, Broadcast!Next, Broadcast!DeliverSome
  <2>2. CASE ~OnePriority
    <3>1. ~Broadcast!OnePriority'
      BY <1>3, <2>2 DEF SendPush, OnePriority, Broadcast!OnePriority
    <3> QED BY <3>1 DEF Broadcast!Next, Broadcast!NoPromise
  <2> QED BY <2>1, <2>2
<1>4. CASE UNCHANGED <<accepted, received, stopped>>
  BY <1>4 DEF Broadcast!all_vars
<1>5. \/ \E p \in Pushes : Post(p)
      \/ Stop \/ Destroy \/ SendPush
      \/ UNCHANGED <<accepted, received, stopped>>
  BY DEF Next, Terminated, vars, queue_vars, Joined, WaitForPush, SpuriousWakeup,
         GetPush, Finish, PopPush
<1> QED BY <1>1, <1>2, <1>3, <1>4, <1>5 DEF Broadcast!Next

\* Until a push of a second priority is posted, every client gets every accepted push
\* exactly once and in the order of acceptance, and nothing is accepted after Stop
\* (server/include/server.h:38-40).
THEOREM ImplementsBroadcast == Spec => ImplementsFifoBroadcast
<1>1. Init => Broadcast!Init
  BY DEF Init, Broadcast!Init, Broadcast!Receivers, Clients
<1>2. Spec => []TailInv
  BY Invariance, TailInit, TailNext, PTL DEF Spec
<1>3. Spec => Broadcast!Spec
  BY <1>1, <1>2, StepRefines, Invariance, DeliveriesBalance, PTL DEF Spec, Broadcast!Spec
<1> QED BY <1>3 DEF ImplementsFifoBroadcast

=============================================================================
