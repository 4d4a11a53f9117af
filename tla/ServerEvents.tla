---------------------------- MODULE ServerEvents ----------------------------
(***************************************************************************)
(* The log of server events of database/src/server_event_db.cpp: a table   *)
(* that InitTable drops and creates again, and a trigger on it that keeps  *)
(* users.last_seen.  Each ExecuteNonQuery (sqlite_db.h) is one action; it  *)
(* may fail, and the process may crash before the next one.                *)
(*                                                                         *)
(* External: SQLite, and the table users, which the store does not create  *)
(* (the tests under database/tests do).  A description is the number of    *)
(* the call that gave it.  The local time may go back as well as forward.  *)
(***************************************************************************)
EXTENDS Naturals, Sequences

CONSTANTS
  Users,        \* ids of the rows of users
  PushIds,      \* ids AddPushEvent is given
  EventTypes,   \* values of ServerEventType that are used
  Times,        \* values of GetCurrentTime()
  MaxEvents,    \* bound on the events stored
  MaxInits,     \* bound on the calls of InitTable
  MaxBreaks     \* bound on crashes and on statements that fail

NULL == 0

ASSUME EventAssumption ==
  /\ Users \subseteq Nat \ {NULL} /\ PushIds \subseteq Nat \ {NULL}
  /\ Times \subseteq Nat \ {NULL} /\ Times # {}
  /\ EventTypes \subseteq 0 .. 7
ASSUME EventBoundAssumption == {MaxEvents, MaxInits, MaxBreaks} \subseteq Nat

\* enum ServerEventType, enum EventOwnerType.
ClientConnected == 0
ClientReconnected == 3
OwnerServer == 0
OwnerUser == 1

VARIABLES
  table, trigger,  \* in the file: ServerEvents and its trigger exist
  events,          \* in the file: the rows of ServerEvents
  users,           \* in the file: users exists
  last_seen,       \* in the file: users.last_seen, by id
  step,            \* the process: "down", "idle", or inside InitTable
  now,             \* what GetCurrentTime() returns
  calls,           \* number of events stored so far
  acknowledged,    \* history: calls answered true since the last DROP that worked
  first,           \* history: value of calls when InitTable was called last
  dropped,         \* history: its DROP worked
  ready,           \* history: it returned true
  seen,            \* history: when each user's last connection was stored
  unready,         \* history: a connection was stored while ~ready
  inits, breaks

log_file == <<table, trigger, events>>
user_table == <<users, last_seen, seen, unready>>
event_vars == <<log_file, user_table, step, now, calls, acknowledged, first, dropped,
                ready, inits, breaks>>

EventsInit ==
  /\ table = FALSE /\ trigger = FALSE /\ events = <<>>
  /\ users = FALSE /\ last_seen = [u \in Users |-> NULL]
  /\ step = "down"
  /\ now \in Times
  /\ calls = 0 /\ acknowledged = {}
  /\ first = 0 /\ dropped = FALSE /\ ready = FALSE
  /\ seen = [u \in Users |-> NULL] /\ unready = FALSE
  /\ inits = 0 /\ breaks = 0

Break == breaks < MaxBreaks /\ breaks' = breaks + 1

\* Database::Database: sqlite3_open works, or the constructor throws.
OpenLog ==
  /\ step = "down"
  /\ step' = "idle"
  /\ UNCHANGED <<log_file, user_table, now, calls, acknowledged, first, dropped, ready,
                 inits, breaks>>

-----------------------------------------------------------------------------
(* InitTable *)

InitTable ==
  /\ step = "idle" /\ inits < MaxInits
  /\ inits' = inits + 1
  /\ step' = "dropping"
  /\ first' = calls /\ dropped' = FALSE /\ ready' = FALSE
  /\ UNCHANGED <<log_file, user_table, now, calls, acknowledged, breaks>>

\* The result of the DROP is not looked at.  A table takes its triggers with it.
DropTable ==
  /\ step = "dropping"
  /\ step' = "creating"
  /\ \/ /\ table' = FALSE /\ trigger' = FALSE /\ events' = <<>>
        /\ acknowledged' = {} /\ dropped' = TRUE
        /\ UNCHANGED breaks
     \/ Break /\ UNCHANGED <<log_file, acknowledged, dropped>>
  /\ UNCHANGED <<user_table, now, calls, first, ready, inits>>

StatementFails == Break /\ step' = "idle"

\* Mutant: InitTable returns true when the table is there.
CreateTable_Variant ==
  /\ step = "creating"
  /\ table' = TRUE
  /\ ready' = TRUE /\ step' = "idle"
  /\ UNCHANGED <<trigger, events, user_table, now, calls, acknowledged, first, dropped,
                 inits, breaks>>

CreateTable ==
  /\ step = "creating"
  /\ \/ table' = TRUE /\ step' = "arming" /\ UNCHANGED breaks
     \/ StatementFails /\ UNCHANGED table
  /\ UNCHANGED <<trigger, events, user_table, now, calls, acknowledged, first, dropped,
                 ready, inits>>

CreateLastSeenTrigger ==
  /\ step = "arming"
  /\ \/ trigger' = TRUE /\ ready' = TRUE /\ step' = "idle" /\ UNCHANGED breaks
     \/ StatementFails /\ UNCHANGED <<trigger, ready>>
  /\ UNCHANGED <<table, events, user_table, now, calls, acknowledged, first, dropped,
                 inits>>

-----------------------------------------------------------------------------
(* Adding events *)

\* The statement of an INSERT is compiled with the triggers of its table, and
\* cannot be when one of them names a table that is not there.
Insertable == table /\ (trigger => users)

IsConnection(owner_type, type) ==
  owner_type = OwnerUser /\ type \in {ClientConnected, ClientReconnected}

\* Mutant: the trigger fires for every event of a user.
Fires_Variant(owner_type, type) == owner_type = OwnerUser

\* The WHEN clause of the trigger.
Fires(owner_type, type) == trigger /\ IsConnection(owner_type, type)

\* Mutant: the call returns true before the statement is executed.
Store_Variant(type, owner_type, owner_id, push_id) ==
  /\ calls < MaxEvents
  /\ calls' = calls + 1
  /\ acknowledged' = acknowledged \cup {calls'}
  /\ UNCHANGED <<events, last_seen, seen, unready, step, breaks>>

\* The row and what the trigger does are one transaction.  The process may die
\* before the caller hears of it.
Store(type, owner_type, owner_id, push_id) ==
  /\ calls < MaxEvents
  /\ calls' = calls + 1
  /\ events' = Append(events,
       [type |-> type, owner_type |-> owner_type, owner_id |-> owner_id,
        push_id |-> push_id, description |-> calls', timestamp |-> now])
  /\ last_seen' = IF Fires(owner_type, type)
                  THEN [last_seen EXCEPT ![owner_id] = now] ELSE last_seen
  /\ IF users /\ IsConnection(owner_type, type)
     THEN seen' = [seen EXCEPT ![owner_id] = now] /\ unready' = (unready \/ ~ready)
     ELSE UNCHANGED <<seen, unready>>
  /\ \/ acknowledged' = acknowledged \cup {calls'} /\ UNCHANGED <<step, breaks>>
     \/ Break /\ step' = "down" /\ UNCHANGED acknowledged

\* The event is stored; a call that returns false changes nothing but the
\* text of the last error, which is left out.
Add(type, owner_type, owner_id, push_id) ==
  /\ step = "idle" /\ Insertable
  /\ Store(type, owner_type, owner_id, push_id)
  /\ UNCHANGED <<table, trigger, users, now, first, dropped, ready, inits>>

AddServerEvent(type) == Add(type, OwnerServer, NULL, NULL)
\* Mutant: the id is bound to the column of pushes.
AddUserEvent_Variant(type, user_id) == Add(type, OwnerUser, NULL, user_id)
AddUserEvent(type, user_id) == Add(type, OwnerUser, user_id, NULL)
AddPushEvent(type, push_id) == Add(type, OwnerServer, NULL, push_id)

-----------------------------------------------------------------------------
(* The world around. *)

\* Whoever owns users makes it, or makes it again.
RecreateUsers ==
  /\ users' \in BOOLEAN
  /\ last_seen' = [u \in Users |-> NULL] /\ seen' = last_seen'
  /\ unready' = FALSE
  /\ UNCHANGED <<log_file, step, now, calls, acknowledged, first, dropped, ready, inits,
                 breaks>>

GetCurrentTime ==
  /\ now' \in Times
  /\ UNCHANGED <<log_file, user_table, step, calls, acknowledged, first, dropped, ready,
                 inits, breaks>>

ProcessDies ==
  /\ step # "down"
  /\ Break
  /\ step' = "down"
  /\ UNCHANGED <<log_file, user_table, now, calls, acknowledged, first, dropped, ready,
                 inits>>

EventsNext ==
  \/ OpenLog \/ InitTable \/ DropTable \/ CreateTable \/ CreateLastSeenTrigger
  \/ \E type \in EventTypes :
       \/ AddServerEvent(type)
       \/ \E u \in Users : AddUserEvent(type, u)
       \/ \E p \in PushIds : AddPushEvent(type, p)
  \/ RecreateUsers \/ GetCurrentTime \/ ProcessDies

EventsSpec == EventsInit /\ [][EventsNext]_event_vars

-----------------------------------------------------------------------------
(* Properties. *)

Event == [type : EventTypes, owner_type : {OwnerServer, OwnerUser},
          owner_id : Users \cup {NULL}, push_id : PushIds \cup {NULL},
          description : Nat, timestamp : Times]

EventsTypeOK ==
  /\ table \in BOOLEAN /\ trigger \in BOOLEAN /\ users \in BOOLEAN
  /\ events \in Seq(Event)
  /\ last_seen \in [Users -> Times \cup {NULL}] /\ seen \in [Users -> Times \cup {NULL}]
  /\ step \in {"down", "idle", "dropping", "creating", "arming"}
  /\ now \in Times
  /\ calls \in Nat /\ acknowledged \subseteq 1 .. calls /\ first \in 0 .. calls
  /\ dropped \in BOOLEAN /\ ready \in BOOLEAN /\ unready \in BOOLEAN
  /\ inits \in Nat /\ breaks \in Nat

Descriptions == {events[i].description : i \in DOMAIN events}

\* An event for which Add returned true is in the table, once and in the order of
\* the calls, until a DROP of InitTable works; whether the process crashed, was
\* started again without InitTable, or InitTable failed half way.  After an
\* InitTable whose DROP worked nothing older is left (server_event_db.cpp:75).
EventsKept ==
  /\ \A i, j \in DOMAIN events : i < j => events[i].description < events[j].description
  /\ acknowledged \subseteq Descriptions
  /\ dropped => \A d \in Descriptions : d > first

\* "Creates SQLite trigger that updates users.last_seen when user connects or
\* reconnects" (server_event_db.cpp:43): last_seen is the time of the user's last
\* connection stored, also over restarts and over tables made again, if callers
\* add events only when the last InitTable returned true.  It returns true only
\* with the trigger in place, whatever an earlier failure or crash had left.
LastSeenRight ==
  /\ ready => table /\ trigger
  /\ users /\ ~unready => last_seen = seen

=============================================================================
