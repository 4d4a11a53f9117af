----------------------------- MODULE MCDatabase -----------------------------
(***************************************************************************)
(* The two stores of database/src for TLC.  They are files of their own,   *)
(* used one after the other (database/src/main.cpp): no step of one reads  *)
(* or writes what belongs to the other, so each is followed by itself, and *)
(* the state spaces add up instead of multiplying.                         *)
(***************************************************************************)
EXTENDS PushStorage, ServerEvents

VARIABLE store  \* the store this behaviour is about; never changes

\* Texts: plain, with one quote, of nothing but quotes, with a NUL.
SomePayloads == {<<"a">>, <<"a", Quote, "b">>, <<Quote, Quote>>, <<"a", Nul, "b">>}

BothInit == Init /\ EventsInit /\ store \in {"pushes", "events"}

BothNext ==
  \/ store = "pushes" /\ Next /\ UNCHANGED <<event_vars, store>>
  \/ store = "events" /\ EventsNext /\ UNCHANGED <<vars, store>>

\* Every field of the process and of the files keeps its type.
StoresTypeOK == TypeOK /\ EventsTypeOK

BothSpec == BothInit /\ [][BothNext]_<<vars, event_vars, store>>

=============================================================================
