---------------------------- MODULE MCTcpServer ----------------------------
(* Instances of TcpServer for TLC. *)
EXTENDS TcpServer

OneClient == \A c, d \in Conns : peer[c] = "new" \/ peer[d] = "new" \/ c = d
NoData == \A c \in Conns : ~unread[c] /\ "data" \notin ToSet(events[c])

\* Several clients that send, several that are sent a message, or one client and several
\* messages.  What clients and application do is nobody's duty, so that the bound takes
\* nothing from the fairness.
BoundedLoad == broadcasts = 0 \/ (broadcasts = 1 /\ NoData) \/ OneClient

LoadSpec == Init /\ [][Next /\ BoundedLoad']_vars /\ Fairness

=============================================================================
