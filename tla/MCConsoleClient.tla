-------------------------- MODULE MCConsoleClient --------------------------
(* An instance of ConsoleClient for TLC. *)
EXTENDS ConsoleClient

CONSTANT MaxLoad  \* bound on commands, exit included, pushes and failures together

Exits == IF cmd = "exit" THEN 1 ELSE 0
Load == received + commands + failures + Exits

\* What is entered, sent or fails is nobody's duty, so that the bound takes
\* nothing from the fairness.
LoadSpec == Init /\ [][Next /\ Load' <= MaxLoad]_vars /\ Fairness

=============================================================================
