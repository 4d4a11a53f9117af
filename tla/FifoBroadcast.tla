--------------------------- MODULE FifoBroadcast ---------------------------
(***************************************************************************)
(* What the Server interface (server/include/server.h) promises to callers *)
(* for as long as the pushes posted have one priority: every client gets   *)
(* every accepted push exactly once, in the order of acceptance, and no    *)
(* client starts on a push before all clients have the previous one.       *)
(* Nothing is promised from the first push of a second priority on.        *)
(***************************************************************************)
EXTENDS Integers, Sequences

CONSTANTS Pushes, NClients, Priority

Receivers == 1 .. NClients

VARIABLES
  accepted,  \* the pushes accepted, in order
  received,  \* what each client has received
  closed     \* nothing is accepted any more

all_vars == <<accepted, received, closed>>

OnePriority ==
  \A i, j \in 1 .. Len(accepted) : Priority[accepted[i]] = Priority[accepted[j]]

Init ==
  /\ accepted = <<>>
  /\ received = [c \in Receivers |-> <<>>]
  /\ closed = FALSE

Accept(p) ==
  /\ ~closed
  /\ \A i \in 1 .. Len(accepted) : accepted[i] # p
  /\ accepted' = Append(accepted, p)
  /\ UNCHANGED <<received, closed>>

\* The clients are served in turn: c gets its next push when the clients before
\* it have it already and none is behind c.
Deliver(c) ==
  LET n == Len(received[c]) + 1
  IN  /\ n <= Len(accepted)
      /\ \A d \in Receivers :
           Len(received[d]) = IF d < c THEN n ELSE n - 1
      /\ received' = [received EXCEPT ![c] = Append(@, accepted[n])]
      /\ UNCHANGED <<accepted, closed>>

Close ==
  /\ closed' = TRUE
  /\ UNCHANGED <<accepted, received>>

DeliverSome == \E c \in Receivers : Deliver(c)

NoPromise == ~OnePriority'

Next == (\E p \in Pushes : Accept(p)) \/ DeliverSome \/ Close \/ NoPromise

Spec == Init /\ [][Next]_all_vars

FairSpec == Spec /\ (WF_all_vars(DeliverSome) \/ <>~OnePriority)

=============================================================================
