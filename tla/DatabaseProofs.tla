--------------------------- MODULE DatabaseProofs ---------------------------
(***************************************************************************)
(* The two stores, for any payloads, users and times and any number of      *)
(* calls, crashes and failed statements.                                    *)
(*                                                                          *)
(* Of the initialisation of PushStorage the property says nothing about the *)
(* loops of CreateTabs and FillTabs.  Inv does: CreateTabs either meets a   *)
(* table that exists, and fails, or began with an empty file and has        *)
(* created what is no longer to do; FillTabs is reached in the second case  *)
(* only.                                                                    *)
(*                                                                          *)
(* That pushes are kept rests on QuotingProofs: what is stored is what was  *)
(* asked for (Logged).                                                      *)
(***************************************************************************)
EXTENDS MCDatabase, QuotingProofs

-----------------------------------------------------------------------------
(* PushStorage: the file is initialised at once or never. *)

DiskOK ==
  /\ tables \subseteq Tables /\ filled \subseteq Dictionaries
  /\ filled # {} => tables = Tables
  /\ cut \in BOOLEAN /\ faults \in Nat

\* What an interrupted initialisation left is never completed; and between two
\* calls a file that none left is either empty or complete.
CutOK ==
  /\ cut => tables # {} /\ ~Complete
  /\ ~cut /\ phase \in Idle => tables = {} \/ Complete

CreatingOK ==
  phase = "creating" =>
    /\ todo \subseteq Tables
    /\ \/ todo \cap tables # {}
       \/ tables = Tables \ todo /\ filled = {} /\ ~cut
    /\ faults = 0 => filled = {}

FillingOK ==
  phase = "filling" =>
    tables = Tables /\ todo = Dictionaries \ filled /\ ~cut

Inv ==
  /\ DiskOK
  /\ phase \in Phases
  /\ CutOK
  /\ CreatingOK
  /\ FillingOK
  /\ InitialisedAtOnceOrNever

LEMMA InitInv == Init => Inv
<1> SUFFICES ASSUME Init PROVE Inv
  OBVIOUS
<1>1. /\ tables = {} /\ filled = {} /\ phase = "none"
      /\ cut = FALSE /\ faults = 0
  BY DEF Init
<1>2. DiskOK /\ phase \in Phases
  BY <1>1 DEF DiskOK, Phases
<1>3. CutOK /\ CreatingOK /\ FillingOK /\ InitialisedAtOnceOrNever
  BY <1>1 DEF CutOK, CreatingOK, FillingOK, InitialisedAtOnceOrNever
<1> QED
  BY <1>2, <1>3 DEF Inv

\* The end of an initialisation by an error or a crash: Inv holds again, whatever
\* idle phase follows, if a return without fault is accounted for.
LEMMA CutInv ==
  ASSUME Inv, phase \in {"creating", "filling"}, NoteCut,
         UNCHANGED <<tables, filled>>,
         phase' \in {"none", "failed"},
         faults' \in Nat,
         phase' = "failed" /\ faults' = 0 => cut'
  PROVE  Inv'
<1>1. DiskOK' /\ phase' \in Phases
  BY DEF Inv, DiskOK, NoteCut, Phases
<1>2. CutOK'
  BY DEF Inv, CutOK, NoteCut, Complete
<1>3. CreatingOK' /\ FillingOK' /\ InitialisedAtOnceOrNever'
  BY DEF CreatingOK, FillingOK, InitialisedAtOnceOrNever
<1> QED
  BY <1>1, <1>2, <1>3 DEF Inv

LEMMA OpenDatabaseInv == Inv /\ OpenDatabase => Inv'
<1> SUFFICES ASSUME Inv, OpenDatabase PROVE Inv'
  OBVIOUS
<1>1. UNCHANGED <<tables, filled, cut>> /\ phase \in Idle
  BY DEF OpenDatabase, file
<1>2. faults' \in Nat /\ (faults' = 0 => faults = 0)
  BY DEF OpenDatabase, Fault, Inv, DiskOK
<1>3. DiskOK'
  BY <1>1, <1>2 DEF Inv, DiskOK
<1>4. CASE phase' = "open"
  <2>1. PushEvents \in tables
    BY <1>4 DEF OpenDatabase, IsTableExists
  <2>2. Complete <=> ~cut
    BY <1>1, <2>1 DEF Inv, CutOK
  <2> QED
    BY <1>1, <1>3, <1>4, <2>1, <2>2
       DEF Inv, Phases, CutOK, CreatingOK, FillingOK, InitialisedAtOnceOrNever,
           Complete
<1>5. CASE phase' = "creating"
  <2>1. todo' = Tables
    BY <1>5 DEF OpenDatabase
  <2>2. PushEvents \notin tables \/ faults' # 0
    BY <1>5 DEF OpenDatabase, IsTableExists, Fault, Inv, DiskOK
  <2>3. CreatingOK'
    <3>1. todo' \cap tables' # {} \/ (tables' = {} /\ filled' = {} /\ ~cut')
      BY <1>1, <2>1 DEF Inv, DiskOK, CutOK, Tables
    <3>2. faults' = 0 => filled' = {}
      BY <1>1, <2>2 DEF Inv, DiskOK, Tables
    <3> QED
      BY <2>1, <3>1, <3>2 DEF CreatingOK
  <2>4. CutOK'
    BY <1>1, <1>5 DEF Inv, CutOK, Complete, Idle
  <2> QED
    BY <1>3, <1>5, <2>3, <2>4 DEF Inv, Phases, FillingOK, InitialisedAtOnceOrNever
<1> QED
  BY <1>4, <1>5 DEF OpenDatabase

LEMMA CreateTabInv ==
  ASSUME Inv, NEW t \in Tables, CreateTab(t) PROVE Inv'
<1>1. phase = "creating" /\ t \in todo
  BY DEF CreateTab
<1>2. CASE InitFails
  <2>1. faults' \in Nat /\ (faults' = 0 => faults = 0)
    BY <1>2 DEF CreateTab, Fault, Inv, DiskOK
  <2>2. faults' = 0 => cut'
    <3>1. CASE t \in tables
      <4>1. faults = 0 => ~Complete
        BY <1>1 DEF Inv, CreatingOK, Complete, Dictionaries
      <4> QED
        BY <1>2, <2>1, <3>1, <4>1 DEF InitFails, NoteCut
    <3>2. CASE t \notin tables
      BY <1>2, <3>2 DEF CreateTab, InitFails, Fault, Inv, DiskOK
    <3> QED
      BY <3>1, <3>2
  <2> QED
    BY <1>1, <1>2, <2>1, <2>2, CutInv DEF InitFails, file
<1>3. CASE ~InitFails
  <2>1. /\ t \notin tables
        /\ tables' = tables \cup {t}
        /\ UNCHANGED <<filled, cut, faults>>
        /\ IF todo = {t} THEN phase' = "filling" /\ todo' = Dictionaries
                         ELSE todo' = todo \ {t} /\ phase' = phase
    BY <1>3 DEF CreateTab
  <2>2. DiskOK'
    BY <2>1 DEF Inv, DiskOK
  <2>3. CutOK'
    <3>1. filled = {}
      BY <2>1 DEF Inv, DiskOK
    <3>2. tables' # {} /\ ~Complete' /\ phase' \notin Idle
      BY <1>1, <2>1, <3>1 DEF Complete, Dictionaries, Idle
    <3> QED
      BY <3>2 DEF CutOK
  <2>4. CreatingOK'
    BY <1>1, <2>1 DEF Inv, CreatingOK
  <2>5. FillingOK'
    <3> SUFFICES ASSUME phase' = "filling"
                 PROVE  tables' = Tables /\ todo' = Dictionaries \ filled' /\ ~cut'
      BY DEF FillingOK
    <3>1. todo = {t} /\ todo' = Dictionaries
      BY <1>1, <2>1
    <3>2. tables = Tables \ todo /\ filled = {} /\ ~cut
      BY <1>1, <2>1, <3>1 DEF Inv, CreatingOK
    <3> QED
      BY <2>1, <3>1, <3>2
  <2> QED
    BY <1>1, <2>1, <2>2, <2>3, <2>4, <2>5
       DEF Inv, Phases, InitialisedAtOnceOrNever
<1> QED
  BY <1>2, <1>3

LEMMA FillTabInv ==
  ASSUME Inv, NEW t \in Dictionaries, FillTab(t) PROVE Inv'
<1>1. phase = "filling" /\ t \in todo
  BY DEF FillTab
<1>2. tables = Tables /\ todo = Dictionaries \ filled /\ ~cut /\ t \notin filled
  BY <1>1 DEF Inv, FillingOK
<1>3. CASE InitFails
  <2>1. faults' \in Nat
    BY <1>3 DEF FillTab, Fault, Inv, DiskOK
  <2>2. cut'
    BY <1>2, <1>3 DEF InitFails, NoteCut, Complete, Tables
  <2> QED
    BY <1>1, <1>3, <2>1, <2>2, CutInv DEF InitFails, file
<1>4. CASE ~InitFails
  <2>1. /\ filled' = filled \cup {t}
        /\ todo' = todo \ {t}
        /\ phase' = IF todo = {t} THEN "open" ELSE "filling"
        /\ UNCHANGED <<tables, cut, faults>>
    BY <1>4 DEF FillTab
  <2>2. DiskOK'
    BY <1>2, <2>1 DEF Inv, DiskOK
  <2>3. phase' = "open" => Complete'
    BY <1>2, <2>1, <2>2 DEF Complete, DiskOK
  <2>4. CutOK' /\ FillingOK'
    BY <1>2, <2>1, <2>3 DEF CutOK, FillingOK, Idle
  <2> QED
    BY <1>2, <2>1, <2>2, <2>3, <2>4
       DEF Inv, Phases, CreatingOK, InitialisedAtOnceOrNever
<1> QED
  BY <1>3, <1>4

\* The steps that leave the initialisation and its history alone.
LEMMA OtherInv ==
  ASSUME Inv, UNCHANGED <<tables, filled, cut>>,
         faults' \in Nat, faults' = 0 => faults = 0,
         \/ UNCHANGED <<phase, todo>>
         \/ phase \in Idle /\ phase' \in {"none", "bad"}
  PROVE  Inv'
<1>1. DiskOK' /\ phase' \in Phases
  BY DEF Inv, DiskOK, Phases
<1>2. CutOK'
  BY DEF Inv, CutOK, Complete, Idle
<1>3. CreatingOK' /\ FillingOK' /\ InitialisedAtOnceOrNever'
  BY DEF Inv, CreatingOK, FillingOK, InitialisedAtOnceOrNever, Complete
<1> QED
  BY <1>1, <1>2, <1>3 DEF Inv

LEMMA CrashInv == Inv /\ Crash => Inv'
<1> SUFFICES ASSUME Inv, Crash PROVE Inv'
  OBVIOUS
<1>1. UNCHANGED <<tables, filled, faults>> /\ phase' = "none"
  BY DEF Crash, file
<1>2. faults' \in Nat
  BY <1>1 DEF Inv, DiskOK
<1>3. CASE phase \in {"creating", "filling"}
  BY <1>1, <1>2, <1>3, CutInv DEF Crash
<1>4. CASE phase \notin {"creating", "filling"}
  <2>1. phase \in Idle /\ cut' = cut
    BY <1>4 DEF Crash, Inv, Phases, Idle
  <2> QED
    BY <1>1, <1>2, <2>1, OtherInv
<1> QED
  BY <1>3, <1>4

LEMMA NextInv == Inv /\ [Next]_vars => Inv'
<1> SUFFICES ASSUME Inv, [Next]_vars PROVE Inv'
  OBVIOUS
<1>0. faults \in Nat
  BY DEF Inv, DiskOK
<1>1. CASE OpenFails
  <2>1. faults' \in Nat /\ (faults' = 0 => faults = 0)
    BY <1>0, <1>1 DEF OpenFails, Fault
  <2> QED
    BY <1>1, <2>1, OtherInv DEF OpenFails, file
<1>2. CASE OpenDatabase
  BY <1>2, OpenDatabaseInv
<1>3. ASSUME NEW t \in Tables, CreateTab(t) PROVE Inv'
  BY <1>3, CreateTabInv
<1>4. ASSUME NEW t \in Dictionaries, FillTab(t) PROVE Inv'
  BY <1>4, FillTabInv
<1>5. ASSUME NEW p \in Payloads, StorePush(p) PROVE Inv'
  <2>1. UNCHANGED <<tables, filled, todo, cut, faults>>
    BY <1>5 DEF StorePush
  <2>2. UNCHANGED phase \/ (phase \in Idle /\ phase' = "none")
    BY <1>5 DEF StorePush, Idle
  <2> QED
    BY <1>0, <2>1, <2>2, OtherInv
<1>6. ASSUME NEW p \in Payloads, RefusePush(p) PROVE Inv'
  <2>1. faults' \in Nat /\ (faults' = 0 => faults = 0)
    BY <1>0, <1>6 DEF RefusePush, Fault
  <2> QED
    BY <1>6, <2>1, OtherInv DEF RefusePush, file
<1>7. CASE InsertUnopened \/ Close
  BY <1>0, <1>7, OtherInv DEF InsertUnopened, Close, file, Idle
<1>8. CASE Crash
  BY <1>8, CrashInv
<1>9. CASE UNCHANGED vars
  BY <1>0, <1>9, OtherInv DEF vars, file
<1> QED
  BY <1>1, <1>2, <1>3, <1>4, <1>5, <1>6, <1>7, <1>8, <1>9 DEF Next

\* A file opened with success is complete exactly if no initialisation was cut off,
\* whatever crashes and fails.
THEOREM InitialisationAtomicOrNeverDone == Spec => []InitialisedAtOnceOrNever
<1>1. Inv => InitialisedAtOnceOrNever
  BY DEF Inv
<1> QED
  BY <1>1, InitInv, NextInv, PTL DEF Spec

-----------------------------------------------------------------------------
(* PushStorage: the log. *)

LogTyped ==
  /\ asked \in Seq(Payloads) /\ acked \in Seq(Payloads)
  /\ crashes \in 0 .. MaxCrashes /\ faults \in 0 .. MaxFaults
  /\ phase \in Idle => todo = {}

\* The rows are the very payloads; and those acknowledged are among them, in order.
Logged == rows = asked /\ IsSubsequence(acked, rows)

\* A sequence is made from itself by leaving nothing out.
LEMMA WholeIsSubsequence ==
  ASSUME NEW S, NEW s \in Seq(S)
  PROVE  IsSubsequence(s, s)
<1> DEFINE f == [i \in DOMAIN s |-> i]
<1>1. DOMAIN s = 1 .. Len(s) /\ Len(s) \in Nat
  BY LenProperties
<1>2. \A i \in DOMAIN s : f[i] = i /\ \A j \in 1 .. i - 1 : j \in DOMAIN s /\ j < i
  BY <1>1
<1>3. f \in [DOMAIN s -> DOMAIN s]
  OBVIOUS
<1> HIDE DEF f
<1>4. \A i \in DOMAIN s : s[f[i]] = s[i] /\ \A j \in 1 .. i - 1 : f[j] < f[i]
  BY <1>2
<1> QED BY <1>3, <1>4 DEF IsSubsequence

\* It stays one when an element is added to the whole, and when it is added to both.
LEMMA SubsequenceGrows ==
  ASSUME NEW S, NEW s \in Seq(S), NEW t \in Seq(S), NEW e \in S, IsSubsequence(s, t)
  PROVE  /\ IsSubsequence(s, Append(t, e))
         /\ IsSubsequence(Append(s, e), Append(t, e))
<1> DEFINE s2 == Append(s, e)
           t2 == Append(t, e)
           m == Len(s) + 1
           n == Len(t) + 1
<1>1. PICK f \in [DOMAIN s -> DOMAIN t] :
        \A i \in DOMAIN s : t[f[i]] = s[i] /\ \A j \in 1 .. i - 1 : f[j] < f[i]
  BY DEF IsSubsequence
<1>2. /\ DOMAIN s = 1 .. m - 1 /\ DOMAIN s2 = 1 .. m /\ m \in Nat \ {0}
      /\ DOMAIN t = 1 .. n - 1 /\ DOMAIN t2 = 1 .. n /\ n \in Nat \ {0}
      /\ \A i \in 1 .. m - 1 : s2[i] = s[i]
      /\ \A i \in 1 .. n - 1 : t2[i] = t[i]
      /\ s2[m] = e /\ t2[n] = e
  BY AppendProperties, LenProperties
<1> HIDE DEF s2, t2, m, n
<1>3. \A i \in DOMAIN s : f[i] \in 1 .. n - 1
  BY <1>2
<1>4. IsSubsequence(s, t2)
  <2>1. f \in [DOMAIN s -> DOMAIN t2]
    BY <1>2
  <2>2. \A i \in DOMAIN s : t2[f[i]] = s[i]
    BY <1>1, <1>2, <1>3
  <2> QED BY <1>1, <2>1, <2>2 DEF IsSubsequence
<1>5. IsSubsequence(s2, t2)
  <2> DEFINE g == [i \in DOMAIN s2 |-> IF i = m THEN n ELSE f[i]]
  <2>1. g \in [DOMAIN s2 -> DOMAIN t2]
    BY <1>2, <1>3
  <2>2. g[m] = n /\ \A i \in 1 .. m - 1 : g[i] = f[i]
    BY <1>2
  <2> HIDE DEF g
  <2>3. ASSUME NEW i \in DOMAIN s2
        PROVE  t2[g[i]] = s2[i] /\ \A j \in 1 .. i - 1 : g[j] < g[i]
    <3>1. CASE i = m
      <4>1. \A j \in 1 .. i - 1 : g[j] = f[j] /\ f[j] \in 1 .. n - 1
        BY <1>2, <1>3, <2>2, <3>1
      <4> QED BY <1>2, <2>2, <3>1, <4>1
    <3>2. CASE i # m
      <4>1. i \in 1 .. m - 1 /\ \A j \in 1 .. i - 1 : j \in 1 .. m - 1
        BY <1>2, <3>2
      <4> QED BY <1>1, <1>2, <1>3, <2>2, <4>1
    <3> QED BY <3>1, <3>2
  <2> QED BY <2>1, <2>3 DEF IsSubsequence
<1> QED BY <1>4, <1>5 DEF s2, t2

LEMMA LogInit == Init => LogTyped /\ Logged
<1> SUFFICES ASSUME Init PROVE LogTyped /\ Logged
  OBVIOUS
<1>1. asked = <<>> /\ acked = <<>> /\ rows = <<>> /\ <<>> \in Seq(Payloads)
  BY DEF Init
<1>2. IsSubsequence(acked, rows)
  BY <1>1, WholeIsSubsequence
<1> QED BY <1>1, <1>2, BoundsAssumption DEF Init, LogTyped, Logged

LEMMA LogNext ==
  ASSUME Inv, LogTyped, Logged, [Next]_vars
  PROVE  LogTyped' /\ Logged'
<1>0. /\ {MaxInserts, MaxCrashes, MaxFaults} \subseteq Nat
      /\ faults \in 0 .. MaxFaults /\ crashes \in 0 .. MaxCrashes
      /\ asked \in Seq(Payloads) /\ acked \in Seq(Payloads)
      /\ (phase \in Idle => todo = {})
  BY BoundsAssumption DEF LogTyped
\* Every step but StorePush leaves the log alone.
<1>1. ASSUME UNCHANGED <<rows, asked, acked>>,
             crashes' \in 0 .. MaxCrashes, faults' \in 0 .. MaxFaults,
             phase' \in Idle => todo' = {}
      PROVE  LogTyped' /\ Logged'
  BY <1>1 DEF LogTyped, Logged
<1>2. Fault => faults' \in 0 .. MaxFaults
  BY <1>0 DEF Fault
<1>3. CrashPossible => crashes' \in 0 .. MaxCrashes
  BY <1>0 DEF CrashPossible
<1>4. CASE OpenFails
  BY <1>0, <1>1, <1>2, <1>4 DEF OpenFails, file, history
<1>5. CASE OpenDatabase
  <2>1. UNCHANGED <<rows, asked, acked>> /\ crashes' = crashes
    BY <1>5 DEF OpenDatabase, file, history
  <2>2. faults' \in 0 .. MaxFaults
    BY <1>0, <1>2, <1>5 DEF OpenDatabase
  <2>3. phase' \in Idle => todo' = {}
    BY <1>0, <1>5 DEF OpenDatabase, Idle
  <2> QED BY <1>0, <1>1, <2>1, <2>2, <2>3
<1>6. ASSUME NEW t \in Tables, CreateTab(t) PROVE LogTyped' /\ Logged'
  <2>1. UNCHANGED <<rows, asked, acked>> /\ crashes' = crashes
    BY <1>6 DEF CreateTab, InitFails, file, history
  <2>2. faults' \in 0 .. MaxFaults
    BY <1>0, <1>2, <1>6 DEF CreateTab
  <2>3. phase' \in Idle => todo' = {}
    BY <1>6 DEF CreateTab, InitFails, Idle
  <2> QED BY <1>0, <1>1, <2>1, <2>2, <2>3
<1>7. ASSUME NEW t \in Dictionaries, FillTab(t) PROVE LogTyped' /\ Logged'
  <2>1. UNCHANGED <<rows, asked, acked>> /\ crashes' = crashes
    BY <1>7 DEF FillTab, InitFails, file, history
  <2>2. faults' \in 0 .. MaxFaults
    BY <1>0, <1>2, <1>7 DEF FillTab
  <2>3. phase' \in Idle => todo' = {}
    BY <1>7 DEF FillTab, InitFails, Idle
  <2> QED BY <1>0, <1>1, <2>1, <2>2, <2>3
<1>8. ASSUME NEW p \in Payloads, StorePush(p) PROVE LogTyped' /\ Logged'
  <2>1. /\ rows' = Append(rows, Meaning(ScreenQuote(p)))
        /\ asked' = Append(asked, p)
        /\ acked' \in {acked, Append(acked, p)}
        /\ UNCHANGED <<todo, faults>>
        /\ phase \in Idle /\ phase' \in Idle
    BY <1>8 DEF StorePush, Idle
  <2>2. crashes' \in 0 .. MaxCrashes
    BY <1>0, <1>3, <1>8 DEF StorePush
  <2>3. Meaning(ScreenQuote(p)) = p
    BY PayloadAssumption, RoundTrip
  <2>4. rows = asked /\ IsSubsequence(acked, asked)
    BY DEF Logged
  <2>5. Append(asked, p) \in Seq(Payloads) /\ Append(acked, p) \in Seq(Payloads)
    BY <1>0
  <2>6. /\ IsSubsequence(acked, Append(asked, p))
        /\ IsSubsequence(Append(acked, p), Append(asked, p))
    BY <1>0, <2>4, SubsequenceGrows
  <2>7. Logged'
    BY <2>1, <2>3, <2>4, <2>6 DEF Logged
  <2> QED BY <1>0, <2>1, <2>2, <2>5, <2>7 DEF LogTyped
<1>9. ASSUME NEW p \in Payloads, RefusePush(p) PROVE LogTyped' /\ Logged'
  <2>1. faults' \in 0 .. MaxFaults
    BY <1>0, <1>2, <1>9 DEF RefusePush
  <2> QED BY <1>0, <1>1, <1>9, <2>1 DEF RefusePush, file, history
<1>10. CASE InsertUnopened \/ Close
  BY <1>0, <1>1, <1>10 DEF InsertUnopened, Close, Idle, file, history
<1>11. CASE Crash
  BY <1>0, <1>1, <1>3, <1>11 DEF Crash, file, history
<1>12. CASE UNCHANGED vars
  BY <1>0, <1>1, <1>12 DEF vars, file, history
<1> QED
  BY <1>4, <1>5, <1>6, <1>7, <1>8, <1>9, <1>10, <1>11, <1>12 DEF Next

\* Whatever the payloads, and whatever crashes and fails: every push InsertPush
\* answered true for is in the table, verbatim and in order, and nothing is that was
\* not asked for (push_storage.cpp:210-225).
THEOREM PushesKeptVerbatim == Spec => []AcknowledgedPushesKept
<1>1. LogTyped /\ Logged => AcknowledgedPushesKept
  BY WholeIsSubsequence DEF LogTyped, Logged, AcknowledgedPushesKept
<1>2. Inv /\ LogTyped /\ Logged /\ [Next]_vars => Inv' /\ LogTyped' /\ Logged'
  BY NextInv, LogNext
<1> QED BY <1>1, <1>2, InitInv, LogInit, PTL DEF Spec

\* Every field of PushStorage and of its file keeps its type.
THEOREM PushStorageTyped == Spec => []TypeOK
<1>1. Inv /\ LogTyped /\ Logged => TypeOK
  <2> SUFFICES ASSUME Inv, LogTyped, Logged PROVE TypeOK
    OBVIOUS
  <2>1. tables \subseteq Tables /\ filled \subseteq Dictionaries \cap tables
    BY DEF Inv, DiskOK, Tables
  <2>2. rows \in Seq(Seq(STRING))
    <3>1. Payloads \subseteq Seq(STRING)
      BY PayloadAssumption
    <3>2. Seq(Payloads) \subseteq Seq(Seq(STRING))
      BY <3>1, SeqMonotonic
    <3> QED BY <3>2 DEF LogTyped, Logged
  <2>3. todo \subseteq (IF phase = "creating" THEN Tables
                      ELSE IF phase = "filling" THEN Dictionaries ELSE {})
    BY DEF Inv, CreatingOK, FillingOK, LogTyped, Idle, Phases
  <2> QED BY <2>1, <2>2, <2>3 DEF Inv, DiskOK, LogTyped, TypeOK
<1>2. Inv /\ LogTyped /\ Logged /\ [Next]_vars => Inv' /\ LogTyped' /\ Logged'
  BY NextInv, LogNext
<1> QED BY <1>1, <1>2, InitInv, LogInit, PTL DEF Spec

-----------------------------------------------------------------------------
(* ServerEvents *)

USE EventAssumption, EventBoundAssumption

-----------------------------------------------------------------------------
(* EventsKept: descriptions grow along the table and never pass calls. *)

Kept ==
  /\ calls \in Nat /\ first \in Nat /\ first <= calls
  /\ events \in Seq(Event)
  /\ now \in Times
  /\ \A i \in DOMAIN events : events[i].description <= calls
  /\ EventsKept

\* One more event is stored, by whichever call.
LEMMA StoreKept ==
  ASSUME Kept, NEW type \in EventTypes, NEW owner_type \in {OwnerServer, OwnerUser},
         NEW owner_id \in Users \cup {NULL}, NEW push_id \in PushIds \cup {NULL},
         Add(type, owner_type, owner_id, push_id)
  PROVE  Kept'
<1> DEFINE event == [type |-> type, owner_type |-> owner_type, owner_id |-> owner_id,
                     push_id |-> push_id, description |-> calls + 1, timestamp |-> now]
<1>1. /\ calls' = calls + 1 /\ events' = Append(events, event)
      /\ UNCHANGED <<now, first, dropped>>
  BY DEF Add, Store
<1>2. acknowledged' \subseteq acknowledged \cup {calls + 1}
  BY <1>1 DEF Add, Store
<1>3. event \in Event
  BY DEF Kept, Event
<1>4. events \in Seq(Event)
  BY DEF Kept
<1>5. event.description = calls + 1
  OBVIOUS
<1> HIDE DEF event
<1>6. /\ events' \in Seq(Event)
      /\ DOMAIN events' = DOMAIN events \cup {Len(events) + 1}
      /\ \A i \in DOMAIN events : events'[i] = events[i]
      /\ events'[Len(events) + 1] = event
      /\ DOMAIN events = 1 .. Len(events) /\ Len(events) \in Nat
  BY <1>1, <1>3, <1>4
<1>7. \A i \in DOMAIN events : events[i].description \in Nat
  <2>1. \A e \in Event : e.description \in Nat
    BY DEF Event
  <2> QED BY <1>4, <1>6, <2>1
<1>8. \A i \in DOMAIN events' : events'[i].description <= calls'
  BY <1>1, <1>5, <1>6, <1>7 DEF Kept
<1>9. \A i, j \in DOMAIN events' : i < j => events'[i].description < events'[j].description
  <2> SUFFICES ASSUME NEW i \in DOMAIN events', NEW j \in DOMAIN events', i < j
               PROVE  events'[i].description < events'[j].description
    OBVIOUS
  <2>1. CASE j \in DOMAIN events
    BY <2>1, <1>6 DEF Kept, EventsKept
  <2>2. CASE j = Len(events) + 1
    BY <2>2, <1>5, <1>6, <1>7 DEF Kept
  <2> QED BY <2>1, <2>2, <1>6
<1>10. Descriptions' = Descriptions \cup {calls + 1}
  BY <1>5, <1>6 DEF Descriptions
<1>11. dropped' => \A d \in Descriptions' : d > first'
  BY <1>1, <1>10 DEF Kept, EventsKept
<1>12. EventsKept'
  BY <1>2, <1>9, <1>10, <1>11 DEF Kept, EventsKept
<1> QED BY <1>1, <1>6, <1>8, <1>12 DEF Kept

LEMMA KeptInit == EventsInit => Kept
<1> SUFFICES ASSUME EventsInit PROVE Kept
  OBVIOUS
<1>1. events \in Seq(Event) /\ DOMAIN events = {} /\ Descriptions = {}
  BY DEF EventsInit, Descriptions
<1>2. EventsKept
  BY <1>1 DEF EventsInit, EventsKept
<1> QED BY <1>1, <1>2 DEF EventsInit, Kept

LEMMA KeptNext == Kept /\ [EventsNext]_event_vars => Kept'
<1> SUFFICES ASSUME Kept, [EventsNext]_event_vars PROVE Kept'
  OBVIOUS
<1>1. CASE InitTable
  <2>1. /\ UNCHANGED <<events, calls, acknowledged, now>>
        /\ first' = calls /\ dropped' = FALSE
    BY <1>1 DEF InitTable, log_file
  <2>2. EventsKept'
    BY <2>1 DEF Kept, EventsKept, Descriptions
  <2> QED BY <2>1, <2>2 DEF Kept
<1>2. CASE DropTable
  <2>1. CASE events' = <<>> /\ acknowledged' = {} /\ dropped' = TRUE
    <3>1. events' \in Seq(Event) /\ DOMAIN events' = {} /\ Descriptions' = {}
      BY <2>1 DEF Descriptions
    <3> QED BY <1>2, <2>1, <3>1 DEF DropTable, Kept, EventsKept
  <2>2. CASE UNCHANGED <<events, acknowledged, dropped>>
    BY <1>2, <2>2 DEF DropTable, Kept, EventsKept, Descriptions
  <2> QED BY <1>2, <2>1, <2>2 DEF DropTable, log_file
<1>3. CASE OpenLog \/ CreateTable \/ CreateLastSeenTrigger \/ RecreateUsers \/ ProcessDies
           \/ UNCHANGED event_vars
  BY <1>3 DEF OpenLog, CreateTable, CreateLastSeenTrigger, RecreateUsers, ProcessDies,
              event_vars, log_file, user_table, Kept, EventsKept, Descriptions
<1>4. CASE GetCurrentTime
  BY <1>4 DEF GetCurrentTime, log_file, Kept, EventsKept, Descriptions
<1>5. ASSUME NEW type \in EventTypes, AddServerEvent(type)
      PROVE  Kept'
  BY <1>5, StoreKept DEF AddServerEvent
<1>6. ASSUME NEW type \in EventTypes, NEW u \in Users, AddUserEvent(type, u)
      PROVE  Kept'
  BY <1>6, StoreKept DEF AddUserEvent
<1>7. ASSUME NEW type \in EventTypes, NEW p \in PushIds, AddPushEvent(type, p)
      PROVE  Kept'
  BY <1>7, StoreKept DEF AddPushEvent
<1> QED BY <1>1, <1>2, <1>3, <1>4, <1>5, <1>6, <1>7 DEF EventsNext

\* An event for which Add returned true stays in the log, in order, until a DROP of
\* InitTable works, whatever crashes or fails in between.
THEOREM AcknowledgedEventsKept == EventsSpec => []EventsKept
<1>1. Kept => EventsKept
  BY DEF Kept
<1> QED BY <1>1, KeptInit, KeptNext, PTL DEF EventsSpec

-----------------------------------------------------------------------------
(* LastSeenRight: InitTable is not ready while it runs, and its last statement *)
(* runs with the table in place.                                               *)

Watched ==
  /\ step \in {"dropping", "creating", "arming"} => ~ready
  /\ step = "arming" => table
  /\ LastSeenRight

\* One more event is stored: the trigger and the history agree about users, unless
\* the log was not ready.
LEMMA StoreWatched ==
  ASSUME Watched, NEW type, NEW owner_type, NEW owner_id, NEW push_id,
         Add(type, owner_type, owner_id, push_id)
  PROVE  Watched'
<1>1. /\ step = "idle" /\ step' \in {"idle", "down"}
      /\ UNCHANGED <<table, trigger, users, ready>>
      /\ trigger => users
      /\ last_seen' = IF trigger /\ IsConnection(owner_type, type)
                      THEN [last_seen EXCEPT ![owner_id] = now] ELSE last_seen
  BY DEF Add, Insertable, Store, Fires
<1>2. CASE users /\ IsConnection(owner_type, type)
  <2>1. /\ seen' = [seen EXCEPT ![owner_id] = now]
        /\ unready' = (unready \/ ~ready)
    BY <1>2 DEF Add, Store
  <2>2. ~unready' => last_seen' = seen'
    BY <1>1, <1>2, <2>1 DEF Watched, LastSeenRight
  <2> QED BY <1>1, <2>2 DEF Watched, LastSeenRight
<1>3. CASE ~(users /\ IsConnection(owner_type, type))
  <2>1. UNCHANGED <<seen, unready, last_seen>>
    BY <1>1, <1>3 DEF Add, Store
  <2> QED BY <1>1, <2>1 DEF Watched, LastSeenRight
<1> QED BY <1>2, <1>3

LEMMA WatchedInit == EventsInit => Watched
BY DEF EventsInit, Watched, LastSeenRight

LEMMA WatchedNext == Watched /\ [EventsNext]_event_vars => Watched'
<1> SUFFICES ASSUME Watched, [EventsNext]_event_vars PROVE Watched'
  OBVIOUS
<1> USE DEF Watched, LastSeenRight, log_file, user_table
<1>1. CASE OpenLog \/ InitTable
  BY <1>1 DEF OpenLog, InitTable
<1>2. CASE DropTable
  BY <1>2 DEF DropTable
<1>3. CASE CreateTable \/ CreateLastSeenTrigger
  BY <1>3 DEF CreateTable, CreateLastSeenTrigger, StatementFails
<1>4. CASE RecreateUsers
  BY <1>4 DEF RecreateUsers
<1>5. CASE GetCurrentTime \/ ProcessDies \/ UNCHANGED event_vars
  BY <1>5 DEF GetCurrentTime, ProcessDies, event_vars
<1>6. ASSUME NEW type, \/ AddServerEvent(type)
                       \/ \E u \in Users : AddUserEvent(type, u)
                       \/ \E p \in PushIds : AddPushEvent(type, p)
      PROVE  Watched'
  BY <1>6, StoreWatched DEF AddServerEvent, AddUserEvent, AddPushEvent
<1> QED BY <1>1, <1>2, <1>3, <1>4, <1>5, <1>6 DEF EventsNext

\* InitTable returns true only with table and trigger in place, and from then on
\* last_seen is the time of the user's last stored connection.
THEOREM LastSeenIsLastConnection == EventsSpec => []LastSeenRight
<1>1. Watched => LastSeenRight
  BY DEF Watched
<1> QED BY <1>1, WatchedInit, WatchedNext, PTL DEF EventsSpec

-----------------------------------------------------------------------------
(* ServerEvents: types. *)

EventFlags ==
  /\ table \in BOOLEAN /\ trigger \in BOOLEAN /\ users \in BOOLEAN
  /\ dropped \in BOOLEAN /\ ready \in BOOLEAN /\ unready \in BOOLEAN

EventData ==
  /\ events \in Seq(Event) /\ now \in Times
  /\ last_seen \in [Users -> Times \cup {NULL}] /\ seen \in [Users -> Times \cup {NULL}]
  /\ step \in {"down", "idle", "dropping", "creating", "arming"}

EventNumbers ==
  /\ calls \in Nat /\ acknowledged \subseteq 1 .. calls /\ first \in 0 .. calls
  /\ inits \in Nat /\ breaks \in Nat

LEMMA EventsTypeParts == EventsTypeOK <=> EventFlags /\ EventData /\ EventNumbers
BY DEF EventsTypeOK, EventFlags, EventData, EventNumbers

LEMMA EventsTypeInit == EventsInit => EventsTypeOK
<1> SUFFICES ASSUME EventsInit PROVE EventFlags /\ EventData /\ EventNumbers
  BY EventsTypeParts
<1>1. EventFlags
  BY DEF EventsInit, EventFlags
<1>2. EventNumbers
  BY DEF EventsInit, EventNumbers
<1>3. EventData
  <2>1. events \in Seq(Event)
    BY DEF EventsInit
  <2> QED BY <2>1 DEF EventsInit, EventData
<1> QED BY <1>1, <1>2, <1>3

\* One more event is stored, by whichever call.
LEMMA StoreTyped ==
  ASSUME EventsTypeOK, NEW type \in EventTypes,
         NEW owner_type \in {OwnerServer, OwnerUser},
         NEW owner_id \in Users \cup {NULL}, NEW push_id \in PushIds \cup {NULL},
         Add(type, owner_type, owner_id, push_id)
  PROVE  EventsTypeOK'
<1> DEFINE event == [type |-> type, owner_type |-> owner_type, owner_id |-> owner_id,
                     push_id |-> push_id, description |-> calls + 1, timestamp |-> now]
<1>1. /\ calls' = calls + 1 /\ events' = Append(events, event)
      /\ UNCHANGED <<table, trigger, users, now, first, dropped, ready, inits>>
      /\ step' \in {step, "down"} /\ breaks' \in {breaks, breaks + 1}
      /\ acknowledged' \in {acknowledged, acknowledged \cup {calls + 1}}
      /\ unready' \in {unready, unready \/ ~ready}
  BY DEF Add, Store, Break
<1>2. last_seen' \in {last_seen, [last_seen EXCEPT ![owner_id] = now]}
  BY DEF Add, Store
<1>3. seen' \in {seen, [seen EXCEPT ![owner_id] = now]}
  BY DEF Add, Store
<1>4. event \in Event /\ events \in Seq(Event)
  BY DEF EventsTypeOK, Event
<1> HIDE DEF event
<1>5. events' \in Seq(Event)
  BY <1>1, <1>4
<1>6. /\ last_seen' \in [Users -> Times \cup {NULL}]
      /\ seen' \in [Users -> Times \cup {NULL}]
  BY <1>2, <1>3 DEF EventsTypeOK
<1>7. calls' \in Nat /\ acknowledged' \subseteq 1 .. calls' /\ first' \in 0 .. calls'
  BY <1>1 DEF EventsTypeOK
<1>8. breaks' \in Nat /\ inits' \in Nat
  BY <1>1 DEF EventsTypeOK
<1>9. unready' \in BOOLEAN
  BY <1>1 DEF EventsTypeOK
<1>10. /\ table' \in BOOLEAN /\ trigger' \in BOOLEAN /\ users' \in BOOLEAN
       /\ dropped' \in BOOLEAN /\ ready' \in BOOLEAN /\ now' \in Times
       /\ step' \in {"down", "idle", "dropping", "creating", "arming"}
  BY <1>1 DEF EventsTypeOK
<1> QED BY <1>5, <1>6, <1>7, <1>8, <1>9, <1>10 DEF EventsTypeOK

LEMMA EventsTypeNext == EventsTypeOK /\ [EventsNext]_event_vars => EventsTypeOK'
<1> SUFFICES ASSUME EventsTypeOK, [EventsNext]_event_vars PROVE EventsTypeOK'
  OBVIOUS
<1>0. EventFlags /\ EventData /\ EventNumbers
  BY EventsTypeParts
<1>8. ASSUME NEW type \in EventTypes,
             \/ AddServerEvent(type)
             \/ \E u \in Users : AddUserEvent(type, u)
             \/ \E p \in PushIds : AddPushEvent(type, p)
      PROVE  EventsTypeOK'
  BY <1>8, StoreTyped DEF AddServerEvent, AddUserEvent, AddPushEvent
<1>9. ASSUME \/ OpenLog \/ InitTable \/ DropTable \/ CreateTable
             \/ CreateLastSeenTrigger \/ RecreateUsers \/ GetCurrentTime \/ ProcessDies
             \/ UNCHANGED event_vars
      PROVE  EventFlags' /\ EventData' /\ EventNumbers'
  <2> USE DEF log_file, user_table, OpenLog, InitTable, DropTable, CreateTable,
              CreateLastSeenTrigger, RecreateUsers, GetCurrentTime, ProcessDies,
              StatementFails, Break, event_vars
  <2>1. EventFlags'
    BY <1>0, <1>9, Zenon DEF EventFlags
  <2>2. EventData'
    <3>1. CASE RecreateUsers
      BY <1>0, <3>1 DEF EventData
    <3>2. CASE DropTable
      <4>1. events' \in {<<>>, events} /\ <<>> \in Seq(Event)
        BY <3>2
      <4> QED BY <1>0, <3>2, <4>1 DEF EventData
    <3> QED BY <1>0, <1>9, <3>1, <3>2 DEF EventData
  <2>3. EventNumbers'
    <3>1. calls' = calls /\ first' \in {first, calls}
      BY <1>9
    <3>2. acknowledged' \in {acknowledged, {}}
      BY <1>9
    <3>3. inits' \in {inits, inits + 1} /\ breaks' \in {breaks, breaks + 1}
      BY <1>9
    <3> QED BY <1>0, <3>1, <3>2, <3>3 DEF EventNumbers
  <2> QED BY <2>1, <2>2, <2>3
<1>10. EventsTypeOK' <=> EventFlags' /\ EventData' /\ EventNumbers'
  BY EventsTypeParts, PTL
<1> QED BY <1>8, <1>9, <1>10 DEF EventsNext

\* Every field of the store of events and of its file keeps its type.
THEOREM ServerEventsTyped == EventsSpec => []EventsTypeOK
BY EventsTypeInit, EventsTypeNext, PTL DEF EventsSpec

-----------------------------------------------------------------------------
(* Both stores. *)

\* A behaviour of both is one of each.
LEMMA BothAreEach == BothSpec => Spec /\ EventsSpec
<1>1. BothInit => Init /\ EventsInit
  BY DEF BothInit
<1>2. [BothNext]_<<vars, event_vars, store>> => [Next]_vars /\ [EventsNext]_event_vars
  BY DEF BothNext
<1> QED BY <1>1, <1>2, PTL DEF BothSpec, Spec, EventsSpec

\* Whichever store is used, each keeps its types.
THEOREM StoresTyped == BothSpec => []StoresTypeOK
<1>1. TypeOK /\ EventsTypeOK => StoresTypeOK
  BY DEF StoresTypeOK
<1> QED BY <1>1, BothAreEach, PushStorageTyped, ServerEventsTyped, PTL

=============================================================================
