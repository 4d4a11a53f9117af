----------------------------- MODULE PushStorage -----------------------------
(***************************************************************************)
(* The push log of database/src/push_storage.cpp: a SQLite file that        *)
(* OpenDatabase creates and fills with several statements, none of them in  *)
(* a transaction, and InsertPush appends to.  Each statement is one action: *)
(* the process may crash between two of them, and each may fail.            *)
(*                                                                          *)
(* A payload is a text of Quoting.  The other columns of a row are written  *)
(* as given.                                                                *)
(***************************************************************************)
EXTENDS Naturals, Sequences, Quoting

CONSTANTS
  Payloads,     \* the texts of pushes
  MaxInserts,   \* bound on the pushes not refused
  MaxCrashes,   \* bound on the crashes of the process
  MaxFaults     \* bound on the statements that fail (locked file, full disk)

ASSUME PayloadAssumption == \A p \in Payloads : p \in Seq(STRING)
ASSUME BoundsAssumption == {MaxInserts, MaxCrashes, MaxFaults} \subseteq Nat

VARIABLES
  tables,    \* in the file: the tables created
  filled,    \* in the file: the dictionaries that hold their entries
  rows,      \* in the file: the payloads in PushEvents
  phase,     \* the PushStorage object, see Phases
  todo,      \* the statements left in the loop of CreateTabs or FillTabs
  asked,     \* history: the payloads InsertPush did not refuse
  acked,     \* history: the payloads for which it returned true
  cut,       \* history: an initialisation ended with the file incomplete
  crashes, faults

file == <<tables, filled, rows>>
history == <<asked, acked>>
vars == <<file, phase, todo, history, cut, crashes, faults>>

PushEvents == "PushEvents"
Dictionaries == {"TypeId", "PriorityId", "SenderId"}
Tables == Dictionaries \cup {PushEvents}

\* none: no object, or not opened; bad: sqlite3_open failed; creating, filling:
\* inside OpenDatabase; failed, open: it returned false, true.
Phases == {"none", "bad", "creating", "filling", "failed", "open"}
Idle == {"none", "bad", "failed", "open"}

Complete == tables = Tables /\ filled = Dictionaries

-----------------------------------------------------------------------------
(* Actions. *)

Init ==
  /\ tables = {} /\ filled = {} /\ rows = <<>>
  /\ phase = "none" /\ todo = {}
  /\ asked = <<>> /\ acked = <<>>
  /\ cut = FALSE
  /\ crashes = 0 /\ faults = 0

Fault == faults < MaxFaults /\ faults' = faults + 1
CrashPossible == crashes < MaxCrashes /\ crashes' = crashes + 1

\* Whether the initialisation that stops here leaves an incomplete file behind.
NoteCut == cut' = (cut \/ (tables # {} /\ ~Complete))

\* sqlite3_open fails: the handle it leaves is not usable.
OpenFails ==
  /\ phase \in Idle
  /\ Fault
  /\ phase' = "bad"
  /\ UNCHANGED <<file, todo, history, cut, crashes>>

IsTableExists(name) == name \in tables

\* OpenDatabase up to its first statement that writes.  When the query itself
\* fails, IsTableExists returns false.
OpenDatabase ==
  /\ phase \in Idle
  /\ \/ /\ IsTableExists(PushEvents)
        /\ phase' = "open"
        /\ UNCHANGED <<todo, faults>>
     \/ /\ ~IsTableExists(PushEvents)
        /\ phase' = "creating" /\ todo' = Tables
        /\ UNCHANGED faults
     \/ /\ Fault
        /\ phase' = "creating" /\ todo' = Tables
  /\ UNCHANGED <<file, history, cut, crashes>>

\* A statement of the initialisation fails: OpenDatabase returns false.
\* Mutant: InitTabs does not look at what CreateTabs returned.
InitFails_Variant ==
  /\ IF phase = "creating"
     THEN phase' = "filling" /\ todo' = Dictionaries
     ELSE phase' = "failed" /\ todo' = {}
  /\ NoteCut
  /\ UNCHANGED <<file, history, crashes>>

InitFails ==
  /\ phase' = "failed" /\ todo' = {}
  /\ NoteCut
  /\ UNCHANGED <<file, history, crashes>>

\* One CREATE TABLE of CreateTabs; the map is walked in an order of its own.
\* Mutant: the dictionaries are not filled.
CreateTab_Variant(t) ==
  /\ phase = "creating" /\ t \in todo \ tables
  /\ tables' = tables \cup {t}
  /\ todo' = todo \ {t}
  /\ phase' = IF todo = {t} THEN "open" ELSE "creating"
  /\ UNCHANGED <<filled, rows, history, cut, crashes, faults>>

CreateTab(t) ==
  /\ phase = "creating" /\ t \in todo
  /\ \/ /\ t \notin tables
        /\ tables' = tables \cup {t}
        /\ IF todo = {t}
           THEN phase' = "filling" /\ todo' = Dictionaries
           ELSE todo' = todo \ {t} /\ UNCHANGED phase
        /\ UNCHANGED <<filled, rows, history, cut, crashes, faults>>
     \/ t \in tables /\ InitFails /\ UNCHANGED faults
     \/ Fault /\ InitFails

\* One INSERT of FillTabs; the entries have primary keys.
FillTab(t) ==
  /\ phase = "filling" /\ t \in todo
  /\ \/ /\ t \notin filled
        /\ filled' = filled \cup {t}
        /\ todo' = todo \ {t}
        /\ phase' = IF todo = {t} THEN "open" ELSE "filling"
        /\ UNCHANGED <<tables, rows, history, cut, crashes, faults>>
     \/ t \in filled /\ InitFails /\ UNCHANGED faults
     \/ Fault /\ InitFails

\* InsertPush executes its statement: it is stored and true is returned, or the
\* process dies in between.
StorePush(p) ==
  /\ phase \in {"open", "failed"}
  /\ Len(asked) < MaxInserts
  /\ PushEvents \in tables
  /\ IsLiteral(ScreenQuote(p))
  /\ rows' = Append(rows, Meaning(ScreenQuote(p)))
  /\ asked' = Append(asked, p)
  /\ \/ acked' = Append(acked, p) /\ UNCHANGED <<phase, crashes>>
     \/ CrashPossible /\ phase' = "none" /\ UNCHANGED acked
  /\ UNCHANGED <<tables, filled, todo, cut, faults>>

\* InsertPush returns false: no table, not a statement, or an error of SQLite.
RefusePush(p) ==
  /\ phase \in {"open", "failed"}
  /\ \/ PushEvents \notin tables /\ UNCHANGED faults
     \/ ~IsLiteral(ScreenQuote(p)) /\ UNCHANGED faults
     \/ Fault
  /\ UNCHANGED <<file, phase, todo, history, cut, crashes>>

\* On a handle that could not be opened sqlite3_exec sets no error message, and
\* ExecSqlQuery makes a string of an uninitialised pointer: false with some text,
\* or the process dies.
InsertUnopened ==
  /\ phase = "bad"
  /\ phase' \in {"bad", "none"}
  /\ UNCHANGED <<file, todo, history, cut, crashes, faults>>

\* ~PushStorage.
Close ==
  /\ phase \in {"bad", "failed", "open"}
  /\ phase' = "none"
  /\ UNCHANGED <<file, todo, history, cut, crashes, faults>>

\* The process dies; the statements executed are in the file.
Crash ==
  /\ phase # "none"
  /\ CrashPossible
  /\ phase' = "none" /\ todo' = {}
  /\ IF phase \in {"creating", "filling"} THEN NoteCut ELSE UNCHANGED cut
  /\ UNCHANGED <<file, history, faults>>

Next ==
  \/ OpenFails
  \/ OpenDatabase
  \/ \E t \in Tables : CreateTab(t)
  \/ \E t \in Dictionaries : FillTab(t)
  \/ \E p \in Payloads : StorePush(p) \/ RefusePush(p)
  \/ InsertUnopened
  \/ Close
  \/ Crash

Spec == Init /\ [][Next]_vars

-----------------------------------------------------------------------------
(* Properties. *)

TypeOK ==
  /\ tables \subseteq Tables /\ filled \subseteq Dictionaries \cap tables
  /\ rows \in Seq(Seq(STRING))
  /\ phase \in Phases
  /\ todo \subseteq (IF phase = "creating" THEN Tables
                     ELSE IF phase = "filling" THEN Dictionaries ELSE {})
  /\ asked \in Seq(Payloads) /\ acked \in Seq(Payloads)
  /\ cut \in BOOLEAN
  /\ crashes \in 0 .. MaxCrashes /\ faults \in 0 .. MaxFaults

\* s can be made from t by leaving elements out.
IsSubsequence(s, t) ==
  \E f \in [DOMAIN s -> DOMAIN t] :
    \A i \in DOMAIN s :
      /\ t[f[i]] = s[i]
      /\ \A j \in 1 .. i - 1 : f[j] < f[i]

\* Whatever crashes, fails or is opened again: every push InsertPush answered
\* true for is in the table, with the very text it had before ScreenQuote, in the
\* order of the calls; and nothing else is, but pushes whose call was cut off by a
\* crash.  A push that was refused left nothing.
AcknowledgedPushesKept ==
  IsSubsequence(acked, rows) /\ IsSubsequence(rows, asked)

\* "if tables doesn't exist create them and fill with init info"
\* (push_storage.cpp:197) holds for the first initialisation or never: a file
\* opened with success is complete exactly if no initialisation was cut off half
\* way, because only PushEvents is looked for; one that was is neither repaired
\* nor reported.  Without errors of SQLite, OpenDatabase fails only on such a file.
InitialisedAtOnceOrNever ==
  /\ phase = "open" => (Complete <=> ~cut)
  /\ phase = "failed" /\ faults = 0 => cut

=============================================================================
