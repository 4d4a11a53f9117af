---------------------------- MODULE MCGuiClient ----------------------------
(***************************************************************************)
(* The GUI client for TLC.  What the connection does and what the table of *)
(* pushes shows have no state in common, so each behaviour is about one of *)
(* them, and the state spaces add up instead of multiplying.               *)
(***************************************************************************)
EXTENDS GuiClient, PushList

VARIABLE part  \* "connection" or "list"; never changes

PartsInit == GuiInit /\ ListInit /\ part \in {"connection", "list"}

Connection == part = "connection" /\ GuiNext /\ UNCHANGED <<list_vars, part>>
List == part = "list" /\ ListNext /\ UNCHANGED <<gui_vars, part>>

PartsSpec ==
  /\ PartsInit /\ [][Connection \/ List]_<<gui_vars, list_vars, part>>
  /\ GuiFairness

=============================================================================
