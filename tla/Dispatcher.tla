----------------------------- MODULE Dispatcher -----------------------------
(***************************************************************************)
(* The push dispatcher of server/src/dispatcher.cpp and the Server class   *)
(* that owns it (server/include/server.h, server/src/server.cpp).          *)
(*                                                                         *)
(* Any thread may call Post and Stop.  One processing thread peeks the     *)
(* push of highest priority, hands it to every client WITHOUT holding      *)
(* queue_mutex_, then locks again and pops.  Every critical section of     *)
(* queue_mutex_ is one atomic action; each SendPush to a client is a step  *)
(* of its own, so Post and Stop interleave with the sending.               *)
(*                                                                         *)
(* A push is an identity with a priority; its type, payload and sender are *)
(* carried unchanged and left out, as is the logger.  Post(nullptr), and   *)
(* Post after Stop, return without changing anything and so are stutters.  *)
(***************************************************************************)
EXTENDS Integers, Sequences, FiniteSets

CONSTANTS
  Pushes,    \* the pushes that may be posted, each at most once
  NoPush,    \* what the processing thread holds before its first push
  Priority,  \* Priority[p]: PushPriority of p as an int, 0 is Normal
  NClients   \* the clients are 1 .. NClients, in the order of clients_

PriorityCount == 3
Deqs == 0 .. PriorityCount - 1
NoDeq == -1    \* current_deq_ is nullopt
Clients == 1 .. NClients

ASSUME PushAssumption == NoPush \notin Pushes
ASSUME PriorityAssumption == Priority \in [Pushes -> Deqs]
ASSUME ClientAssumption == NClients \in Nat

VARIABLES
  priority_queues,  \* PushQueue: a FIFO of pushes per priority
  current_deq,      \* PushQueue: the deque front() and pop() use, or NoDeq
  stopped,          \* stopped_
  pc,               \* where the processing thread is
  push,             \* the push Process holds
  next_client,      \* the client the loop in Send serves next
  received,         \* received_pushes_ of each client
  server,           \* lifetime of the Server object: "up", "joining", "gone"
  accepted          \* history: the pushes enqueued, in order

queue_vars == <<priority_queues, current_deq>>
vars == <<priority_queues, current_deq, stopped, pc, push, next_client,
          received, server, accepted>>

-----------------------------------------------------------------------------
(* class PushQueue, as functions of the queue's two fields. *)

QueueEmpty == current_deq = NoDeq

\* Mutant: emplace_front instead of emplace_back.
Enqueued_AtFront(p) == [priority_queues EXCEPT ![Priority[p]] = <<p>> \o @]
Enqueued(p) == [priority_queues EXCEPT ![Priority[p]] = Append(@, p)]

\* Mutant: the early return of push() forgotten.
DeqAfterPush_Always(p) == Priority[p]
\* push(): a lower current_deq_, or none, moves up to the deque of p.
DeqAfterPush(p) == IF current_deq > Priority[p] THEN current_deq ELSE Priority[p]

Front == Head(priority_queues[current_deq])

\* Mutant: pop_front forgotten.
Popped_Nothing == priority_queues
Popped == [priority_queues EXCEPT ![current_deq] = Tail(@)]

\* Mutant: pop() without UpdateCurrentDeq.
UpdateCurrentDeq_Stays(queues, deq) == deq
\* UpdateCurrentDeq(): stay if the deque still has elements, else the first
\* non-empty one below it, else nullopt.
UpdateCurrentDeq(queues, deq) ==
  LET nonEmpty == {i \in 0 .. deq : queues[i] # <<>>}
  IN  IF nonEmpty = {} THEN NoDeq
      ELSE CHOOSE i \in nonEmpty : \A j \in nonEmpty : j <= i

-----------------------------------------------------------------------------
Init ==
  /\ priority_queues = [i \in Deqs |-> <<>>]
  /\ current_deq = NoDeq
  /\ stopped = FALSE
  /\ pc = "get"
  /\ push = NoPush
  /\ next_client = 1
  /\ received = [c \in Clients |-> <<>>]
  /\ server = "up"
  /\ accepted = <<>>

\* Mutant: notify_one forgotten.
NotifyOne_Nobody == pc' = pc
\* push_queue_condition_.notify_one(): only the processing thread waits.
NotifyOne == pc' = IF pc = "waiting" THEN "get" ELSE pc

\* Server::PostPushNotification -> Dispatcher::Post -> EnqueueOrNot.
Post(p) ==
  /\ server = "up"
  /\ ~stopped
  /\ \A i \in 1 .. Len(accepted) : accepted[i] # p
  /\ priority_queues' = Enqueued(p)
  /\ current_deq' = DeqAfterPush(p)
  /\ accepted' = Append(accepted, p)
  /\ NotifyOne
  /\ UNCHANGED <<stopped, push, next_client, received, server>>

\* Server::StopBroadcast -> Dispatcher::Stop.
Stop ==
  /\ server = "up"
  /\ stopped' = TRUE
  /\ NotifyOne
  /\ UNCHANGED <<queue_vars, push, next_client, received, server, accepted>>

\* ~Server: Stop() again, then ~Dispatcher starts joining processing_thread_.
Destroy ==
  /\ server = "up"
  /\ server' = "joining"
  /\ stopped' = TRUE
  /\ NotifyOne
  /\ UNCHANGED <<queue_vars, push, next_client, received, accepted>>

\* The join returns once the processing thread has ended.
Joined ==
  /\ server = "joining"
  /\ pc = "done"
  /\ server' = "gone"
  /\ UNCHANGED <<queue_vars, stopped, pc, push, next_client, received, accepted>>

-----------------------------------------------------------------------------
(* The processing thread. *)

\* GetPushFromQueue: nothing to do and not stopped, so wait.
WaitForPush ==
  /\ pc = "get"
  /\ QueueEmpty /\ ~stopped
  /\ pc' = "waiting"
  /\ UNCHANGED <<queue_vars, stopped, push, next_client, received, server, accepted>>

\* The wait may return with nobody having notified; its predicate is then
\* evaluated again, as it is at "get".
SpuriousWakeup ==
  /\ pc = "waiting"
  /\ pc' = "get"
  /\ UNCHANGED <<queue_vars, stopped, push, next_client, received, server, accepted>>

\* Mutant: the loop over the clients resumes where the last one ended.
GetPush_NoRestart ==
  /\ pc = "get"
  /\ ~QueueEmpty
  /\ push' = Front
  /\ pc' = "send"
  /\ UNCHANGED <<queue_vars, stopped, next_client, received, server, accepted>>

\* Mutant: the push is taken out of the queue at once, as the comment at
\* dispatcher.cpp:129 has it, and the later pop() is kept.
GetPush_Removes ==
  /\ pc = "get"
  /\ ~QueueEmpty
  /\ push' = Front
  /\ next_client' = 1
  /\ pc' = "send"
  /\ priority_queues' = Popped
  /\ current_deq' = UpdateCurrentDeq(Popped, current_deq)
  /\ UNCHANGED <<stopped, received, server, accepted>>

\* GetPushFromQueue: a copy of the front push; it stays in the queue.
GetPush ==
  /\ pc = "get"
  /\ ~QueueEmpty
  /\ push' = Front
  /\ next_client' = 1
  /\ pc' = "send"
  /\ UNCHANGED <<queue_vars, stopped, received, server, accepted>>

\* GetPushFromQueue returns nullopt: Process leaves its loop.
Finish ==
  /\ pc = "get"
  /\ QueueEmpty /\ stopped
  /\ pc' = "done"
  /\ UNCHANGED <<queue_vars, stopped, push, next_client, received, server, accepted>>

\* Mutant: the loop over the clients runs one too far.
SendPush_PastEnd ==
  /\ pc = "send"
  /\ next_client <= NClients + 1
  /\ received' = [c \in Clients |-> IF c = next_client THEN Append(received[c], push)
                                                       ELSE received[c]]
  /\ next_client' = next_client + 1
  /\ UNCHANGED <<queue_vars, stopped, pc, push, server, accepted>>

\* One turn of the loop in Send, with queue_mutex_ free.
SendPush ==
  /\ pc = "send"
  /\ next_client \in Clients
  /\ received' = [received EXCEPT ![next_client] = Append(@, push)]
  /\ next_client' = next_client + 1
  /\ UNCHANGED <<queue_vars, stopped, pc, push, server, accepted>>

\* Send returned true: lock and pop whatever is in front now.
PopPush ==
  /\ pc = "send"
  /\ next_client \notin Clients
  /\ priority_queues' = Popped
  /\ current_deq' = UpdateCurrentDeq(Popped, current_deq)
  /\ pc' = "get"
  /\ UNCHANGED <<stopped, push, next_client, received, server, accepted>>

Process == WaitForPush \/ GetPush \/ Finish \/ SendPush \/ PopPush

Terminated == server = "gone" /\ UNCHANGED vars

Next ==
  \/ \E p \in Pushes : Post(p)
  \/ Stop
  \/ Destroy
  \/ Joined
  \/ WaitForPush
  \/ SpuriousWakeup
  \/ GetPush
  \/ Finish
  \/ SendPush
  \/ PopPush
  \/ Terminated

Spec == Init /\ [][Next]_vars

\* The operating system schedules the processing thread and the joining one;
\* nobody is obliged to post, to stop or to destroy the server.
FairSpec == Spec /\ WF_vars(Process) /\ WF_vars(Joined)

-----------------------------------------------------------------------------
(* Properties. *)

\* Where an accepted push stands in the order of acceptance.
Position(p) == CHOOSE i \in 1 .. Len(accepted) : accepted[i] = p

IsAccepted(p) == \E i \in 1 .. Len(accepted) : accepted[i] = p
Queued(p) == \E d \in Deqs : \E i \in 1 .. Len(priority_queues[d]) :
               priority_queues[d][i] = p
Deliveries(c, p) == {i \in 1 .. Len(received[c]) : received[c][i] = p}
TotalQueued == Len(priority_queues[0]) + Len(priority_queues[1])
                 + Len(priority_queues[2])

TypeOK ==
  /\ priority_queues \in [Deqs -> Seq(Pushes)]
  /\ current_deq \in Deqs \cup {NoDeq}
  /\ stopped \in BOOLEAN
  /\ pc \in {"get", "waiting", "send", "done"}
  /\ push \in Pushes \cup {NoPush}
  /\ next_client \in 1 .. NClients + 1
  /\ received \in [Clients -> Seq(Pushes)]
  /\ server \in {"up", "joining", "gone"}
  /\ accepted \in Seq(Pushes)

\* current_deq_ is the non-empty deque of highest priority, and nullopt only
\* when all are empty: front() and pop() never touch an empty deque
\* (dispatcher.cpp:80, 84) and empty() never hides a push from the consumer.
QueueConsistent ==
  /\ current_deq # NoDeq => priority_queues[current_deq] # <<>>
  /\ \A d \in Deqs : priority_queues[d] # <<>> => d <= current_deq

\* Every push sits in the deque of its own priority, so the deque order is the
\* priority order front() promises (dispatcher.cpp:62).
InOwnDeque ==
  \A d \in Deqs : \A i \in 1 .. Len(priority_queues[d]) :
    Priority[priority_queues[d][i]] = d

\* While Send runs without the lock, the push it sends is still in front of its
\* own deque whatever was posted meanwhile: pop() always finds an element, and
\* the push is never sent after it left the queue.
InFlightStillQueued ==
  pc = "send" =>
    /\ push \in Pushes
    /\ priority_queues[Priority[push]] # <<>>
    /\ Head(priority_queues[Priority[push]]) = push

\* The pop() after the sending always finds an element, and of a deque that front()
\* has read from or that has overtaken it.
PopIsSafe == QueueConsistent /\ InFlightStillQueued

\* The consumer waits only when there is nothing to do: no interleaving of Post
\* and Stop with the wait loses a wake-up (dispatcher.cpp:230-234).
NoLostWakeup == pc = "waiting" => QueueEmpty /\ ~stopped

\* Each push accepted costs each client exactly one SendPush: deliveries and
\* queued pushes always add up to the accepted ones, counting the push being
\* sent as queued only for the clients it has not reached.  At the end every
\* client got as many pushes as were accepted, whatever pop() removed.
DeliveryBalance ==
  \A c \in Clients :
    Len(received[c]) + TotalQueued =
      Len(accepted) + IF pc = "send" /\ c < next_client THEN 1 ELSE 0

\* Within one priority, delivery follows acceptance: a push is never delivered
\* after a later one of its priority, although pushes may be lost or repeated.
PriorityFifo ==
  \A c \in Clients : \A i, j \in 1 .. Len(received[c]) :
    i < j /\ Priority[received[c][i]] = Priority[received[c][j]]
      => Position(received[c][i]) <= Position(received[c][j])

\* What pop() at dispatcher.cpp:194 can cost: a push that left the queue without
\* reaching a client was overtaken while one of lower priority was being sent,
\* and that one is sent again instead.  Nothing else loses a push.
LossOnlyByOvertaking ==
  \A c \in Clients : \A p \in Pushes :
    IsAccepted(p) /\ ~Queued(p) /\ Deliveries(c, p) = {} =>
      \E q \in Pushes :
        /\ Priority[q] < Priority[p]
        /\ Deliveries(c, q) # {}
        /\ Queued(q) \/ Cardinality(Deliveries(c, q)) >= 2

\* "firstly return elements with max priority" (dispatcher.cpp:48): when the
\* consumer takes a push, no push waiting in the queue has a higher priority.
MaxPriorityFirst ==
  [][pc = "get" /\ pc' = "send" =>
       \A p \in Pushes : Queued(p) => Priority[p] <= Priority[push']]_vars

\* Once stopped, the processing thread drains the queue and ends, so the join in
\* ~Dispatcher returns.
StopDrains == stopped ~> (pc = "done" /\ TotalQueued = 0)

\* The name of the test at server/tests/src/test_dispatcher.cpp:7: when the
\* server is gone, each client has received every push that was accepted.
AllPushIsDeliveredToClient ==
  server = "gone" =>
    \A c \in Clients : \A p \in Pushes : IsAccepted(p) => Deliveries(c, p) # {}

-----------------------------------------------------------------------------
(* While all pushes have one priority nothing overtakes, and the dispatcher  *)
(* is a reliable, totally ordered broadcast of the pushes it accepted.        *)
Broadcast == INSTANCE FifoBroadcast WITH closed <- stopped

ImplementsFifoBroadcast == Broadcast!Spec
FairImplementsFifoBroadcast == Broadcast!FairSpec

=============================================================================
