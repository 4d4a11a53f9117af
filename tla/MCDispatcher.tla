---------------------------- MODULE MCDispatcher ----------------------------
(* Instances of Dispatcher for TLC. *)
EXTENDS Dispatcher

CONSTANTS p1, p2, p3, p4, p5

\* Pushes of the lowest priority but for one of each other priority.
MixedPriority == [p \in Pushes |-> CASE p = p3 -> 1 [] p = p4 -> 2 [] OTHER -> 0]

=============================================================================
