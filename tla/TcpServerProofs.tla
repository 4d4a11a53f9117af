-------------------------- MODULE TcpServerProofs --------------------------
(***************************************************************************)
(* Proofs about the TCP server, for any number of connections, broadcasts  *)
(* and calls of stop().                                                    *)
(*                                                                         *)
(* The invariants are built one upon the other: TypeInv, what the queue of *)
(* completions may hold; then the registry, the loops of reads and accepts *)
(* and the late sessions; Reported, for CallbacksOnce: what a session was  *)
(* told follows from the state of its socket; and StreamRight, for         *)
(* PiecesInOrder: a message has one write at most, and it goes on where    *)
(* the bytes written so far end.                                           *)
(***************************************************************************)
EXTENDS TcpServer, SequenceTheorems, FiniteSetTheorems, TLAPS

-----------------------------------------------------------------------------
(* What the queue of completions may hold. *)

Unfinished == [msg : 1 .. MaxBroadcasts, left : 1 .. Pieces]
Rest == [msg : 1 .. MaxBroadcasts, left : 0 .. Pieces]

Done ==
  {x \in Completions :
     /\ x.op = "accept" /\ x.ok => x.conn \in Conns
     /\ x.op \in {"read", "write"} => x.conn \in Conns
     /\ x.op = "write" => x.write \in Rest}

TypeInv ==
  /\ TypeOK
  /\ ready \in Seq(Done)
  /\ writes \in [Conns -> Seq(Unfinished)]
  /\ IsFiniteSet(registry)

LEMMA Subtypes ==
  /\ Unfinished \subseteq Rest /\ Rest \subseteq Writes /\ NoWrite \in Writes
  /\ Done \subseteq Completions
  /\ \A s \in Seq(Done) : s \in Seq(Completions)
  /\ \A f \in [Conns -> Seq(Unfinished)] : f \in [Conns -> Seq(Writes)]
<1>1. Unfinished \subseteq Rest /\ Rest \subseteq Writes /\ NoWrite \in Writes
  BY BoundAssumption DEF Unfinished, Rest, Writes, NoWrite, Write
<1>2. Done \subseteq Completions
  BY DEF Done
<1>3. \A s \in Seq(Done) : s \in Seq(Completions)
  BY <1>2, SeqMonotonic, ElementOfSeq
<1>4. \A s \in Seq(Unfinished) : s \in Seq(Writes)
  BY <1>1, SeqMonotonic, ElementOfSeq
<1> QED BY <1>1, <1>2, <1>3, <1>4

\* The completion in front: its connection and the rest of its message.
LEMMA CurrentType ==
  ASSUME TypeInv, ready # <<>>
  PROVE  /\ Current \in Done /\ Tail(ready) \in Seq(Done)
         /\ Current.op = "accept" /\ Current.ok => Current.conn \in Conns
         /\ Current.op \in {"read", "write"} => Current.conn \in Conns
         /\ Current.op = "write" => Current.write \in Rest
<1>1. Current \in Done /\ Tail(ready) \in Seq(Done)
  BY HeadTailProperties DEF TypeInv, Current
<1> QED BY <1>1 DEF Done

LEMMA CompletionTypes ==
  /\ AcceptFailed \in Done
  /\ Completion("stop", NoConn, TRUE, NoWrite) \in Done
  /\ \A c \in Conns :
       /\ Accepted(c) \in Done
       /\ \A ok \in BOOLEAN : Completion("read", c, ok, NoWrite) \in Done
       /\ \A ok \in BOOLEAN, w \in Rest : Completion("write", c, ok, w) \in Done
<1>1. ASSUME NEW op \in {"stop", "accept", "read", "write"},
             NEW c \in Conns \cup {NoConn}, NEW ok \in BOOLEAN, NEW w \in Writes
      PROVE  Completion(op, c, ok, w) \in Completions
  BY <1>1 DEF Completion, Completions
<1>2. NoWrite \in Writes /\ Rest \subseteq Writes
  BY Subtypes
<1> QED BY <1>1, <1>2 DEF Done, AcceptFailed, Accepted, Completion

LEMMA QueuedType ==
  ASSUME TypeInv, NEW op, NEW c, NEW x \in Done
  PROVE  Queued(op, c, x) \in Seq(Done)
<1>1. Append(ready, x) \in Seq(Done)
  BY AppendProperties DEF TypeInv
<1>2. <<x>> \in Seq(Done)
  OBVIOUS
<1>3. <<x>> \o ready \in Seq(Done)
  BY <1>2, ConcatProperties DEF TypeInv
<1> QED BY <1>1, <1>3 DEF Queued

-----------------------------------------------------------------------------
(* The completions a closed socket leaves. *)

\* SetToSeq lists a finite set, each element once.
LEMMA SetToSeqLists ==
  ASSUME NEW S, IsFiniteSet(S)
  PROVE  /\ SetToSeq(S) \in Seq(S)
         /\ \A i, j \in 1 .. Len(SetToSeq(S)) : SetToSeq(S)[i] = SetToSeq(S)[j] => i = j
<1> DEFINE n == Cardinality(S)
<1>1. n \in Nat /\ ExistsBijection(1 .. n, S)
  BY FS_CardinalityType
<1>2. PICK f \in [1 .. n -> S] : IsInjective(f)
  BY <1>1 DEF ExistsBijection, Bijection, Injection, Surjection, IsInjective
<1>3. SetToSeq(S) \in [1 .. n -> S] /\ IsInjective(SetToSeq(S))
  BY <1>2 DEF SetToSeq
<1> HIDE DEF n
<1> QED BY <1>1, <1>3 DEF IsInjective

AllAborted(S) == UNION {Aborted(c) : c \in S}

LEMMA AbortedFinite ==
  ASSUME TypeInv, NEW S \in SUBSET Conns, IsFiniteSet(S)
  PROVE  IsFiniteSet(AllAborted(S))
<1>1. ASSUME NEW c \in S
      PROVE  IsFiniteSet(Aborted(c))
  <2> DEFINE R == {Completion("read", c, FALSE, NoWrite) :
                     i \in IF reading[c] THEN {1} ELSE {}}
             I == 1 .. Len(writes[c])
             f == [i \in I |-> Completion("write", c, FALSE, writes[c][i])]
             W == {Completion("write", c, FALSE, writes[c][i]) : i \in I}
  <2>1. IsFiniteSet(R)
    <3>1. R = IF reading[c] THEN {Completion("read", c, FALSE, NoWrite)} ELSE {}
      OBVIOUS
    <3>2. CASE reading[c]
      BY <3>1, <3>2, FS_Singleton
    <3>3. CASE ~reading[c]
      BY <3>1, <3>3, FS_EmptySet
    <3> QED BY <3>2, <3>3
  <2>2. IsFiniteSet(W)
    <3>1. Len(writes[c]) \in Nat
      BY LenProperties DEF TypeInv
    <3>2. IsFiniteSet(I)
      BY <3>1, FS_Interval
    <3>3. f \in Surjection(I, W)
      BY DEF Surjection
    <3> QED BY <3>2, <3>3, FS_Surjection
  <2> QED BY <2>1, <2>2, FS_Union DEF Aborted
<1>2. IsFiniteSet({Aborted(c) : c \in S})
  <2>1. [c \in S |-> Aborted(c)] \in Surjection(S, {Aborted(c) : c \in S})
    BY DEF Surjection
  <2> QED BY <2>1, FS_Surjection
<1> QED BY <1>1, <1>2, FS_UNION DEF AllAborted

LEMMA AbortedType ==
  ASSUME TypeInv, NEW S \in SUBSET Conns, IsFiniteSet(S)
  PROVE  SetToSeq(AllAborted(S)) \in Seq(Done)
<1>1. ASSUME NEW c \in S
      PROVE  Aborted(c) \subseteq Done
  <2>1. \A i \in 1 .. Len(writes[c]) : writes[c][i] \in Rest
    <3>1. writes[c] \in Seq(Unfinished)
      BY DEF TypeInv
    <3> QED BY <3>1, Subtypes, ElementOfSeq
  <2> QED BY <2>1, CompletionTypes DEF Aborted
<1>2. AllAborted(S) \subseteq Done
  BY <1>1 DEF AllAborted
<1>3. SetToSeq(AllAborted(S)) \in Seq(AllAborted(S))
  BY AbortedFinite, SetToSeqLists
<1> QED BY <1>2, <1>3, SeqMonotonic, ElementOfSeq

LEMMA CloseType ==
  ASSUME TypeInv, NEW S \in SUBSET Conns, IsFiniteSet(S), NEW queue \in Seq(Done),
         Close(S, queue)
  PROVE  /\ ready' \in Seq(Done)
         /\ socket' \in [Conns -> {"none", "open", "closed"}]
         /\ reading' \in [Conns -> BOOLEAN]
         /\ writes' \in [Conns -> Seq(Unfinished)]
         /\ registry' \subseteq Conns /\ IsFiniteSet(registry')
         /\ events' \in [Conns -> Seq({"connected", "data", "disconnected"})]
<1>1. ready' \in Seq(Done)
  <2>1. ready' = queue \o SetToSeq(AllAborted(S))
    BY DEF Close, AllAborted
  <2> QED BY <2>1, AbortedType, ConcatProperties
<1>2. /\ socket' \in [Conns -> {"none", "open", "closed"}]
      /\ reading' \in [Conns -> BOOLEAN]
  BY DEF Close, TypeInv, TypeOK
<1>3. writes' \in [Conns -> Seq(Unfinished)]
  BY EmptySeq DEF Close, TypeInv
<1>4. registry' \subseteq Conns /\ IsFiniteSet(registry')
  BY FS_Subset DEF Close, TypeInv, TypeOK
<1>5. events' \in [Conns -> Seq({"connected", "data", "disconnected"})]
  BY AppendProperties DEF Close, TypeInv, TypeOK
<1> QED BY <1>1, <1>2, <1>3, <1>4, <1>5

-----------------------------------------------------------------------------
(* Types. *)

LEMMA TypeInit == Init => TypeInv
<1> SUFFICES ASSUME Init PROVE TypeInv
  OBVIOUS
<1>1. /\ ready \in Seq(Completions) /\ ready \in Seq(Done) /\ backlog \in Seq(Conns)
      /\ writes \in [Conns -> Seq(Writes)] /\ writes \in [Conns -> Seq(Unfinished)]
      /\ stream \in [Conns -> Seq((1 .. MaxBroadcasts) \X (1 .. Pieces))]
      /\ events \in [Conns -> Seq({"connected", "data", "disconnected"})]
  BY EmptySeq DEF Init
<1>2. /\ unsent \in [Conns -> 0 .. SendRoom]
      /\ broadcasts \in 0 .. MaxBroadcasts /\ stops \in 0 .. MaxStops
  BY BoundAssumption DEF Init
<1>3. IsFiniteSet(registry) /\ registry \subseteq Conns
  BY FS_EmptySet DEF Init
<1>4. /\ loop \in {"created", "running", "dead"} /\ acceptor \in {"open", "closed"}
      /\ accepting \in BOOLEAN /\ started = {}
      /\ socket \in [Conns -> {"none", "open", "closed"}]
      /\ reading \in [Conns -> BOOLEAN] /\ unread \in [Conns -> BOOLEAN]
      /\ peer \in [Conns -> {"new", "up", "closed", "reset", "refused"}]
  BY DEF Init
<1> QED BY <1>1, <1>2, <1>3, <1>4 DEF TypeInv, TypeOK

\* What of a step need be shown: the rest of TypeInv speaks of supersets.
LEMMA TypeSuffices ==
  ASSUME ready' \in Seq(Done), writes' \in [Conns -> Seq(Unfinished)],
         IsFiniteSet(registry'), registry' \subseteq Conns,
         loop' \in {"created", "running", "dead"}, acceptor' \in {"open", "closed"},
         accepting' \in BOOLEAN, backlog' \in Seq(Conns),
         started' \subseteq {"accept", "read", "write"} \X (Conns \cup {NoConn}),
         socket' \in [Conns -> {"none", "open", "closed"}],
         reading' \in [Conns -> BOOLEAN],
         peer' \in [Conns -> {"new", "up", "closed", "reset", "refused"}],
         unread' \in [Conns -> BOOLEAN], unsent' \in [Conns -> 0 .. SendRoom],
         stream' \in [Conns -> Seq((1 .. MaxBroadcasts) \X (1 .. Pieces))],
         events' \in [Conns -> Seq({"connected", "data", "disconnected"})],
         broadcasts' \in 0 .. MaxBroadcasts, stops' \in 0 .. MaxStops
  PROVE  TypeInv'
BY Subtypes DEF TypeInv, TypeOK

LEMMA TypeEnvironment ==
  ASSUME TypeInv, Environment
  PROVE  TypeInv'
<1> USE DEF TypeInv, TypeOK, io_vars, peer_vars
<1>1. CASE Start
  BY <1>1, TypeSuffices DEF Start
<1>2. CASE Stop
  <2>1. ready' \in Seq(Done)
    BY <1>2, CompletionTypes, AppendProperties DEF Stop
  <2>2. stops' \in 0 .. MaxStops
    BY <1>2, BoundAssumption DEF Stop
  <2> QED BY <1>2, <2>1, <2>2, TypeSuffices DEF Stop
<1>3. ASSUME NEW c \in Conns, Connect(c)
      PROVE  TypeInv'
  <2>1. backlog' \in Seq(Conns)
    <3>1. Append(backlog, c) \in Seq(Conns)
      BY AppendProperties
    <3>2. backlog' = Append(backlog, c) \/ backlog' = backlog
      BY <1>3 DEF Connect
    <3> QED BY <3>1, <3>2
  <2>2. peer' \in [Conns -> {"new", "up", "closed", "reset", "refused"}]
    BY <1>3 DEF Connect
  <2> QED BY <1>3, <2>1, <2>2, TypeSuffices DEF Connect
<1>4. ASSUME NEW c \in Conns, PeerSends(c)
      PROVE  TypeInv'
  BY <1>4, TypeSuffices DEF PeerSends
<1>5. ASSUME NEW c \in Conns, PeerTakes(c)
      PROVE  TypeInv'
  <2>1. unsent' \in [Conns -> 0 .. SendRoom]
    BY <1>5, BoundAssumption DEF PeerTakes
  <2> QED BY <1>5, <2>1, TypeSuffices DEF PeerTakes
<1>6. ASSUME NEW c \in Conns, PeerGoes(c)
      PROVE  TypeInv'
  <2>1. peer' \in [Conns -> {"new", "up", "closed", "reset", "refused"}]
    BY <1>6 DEF PeerGoes
  <2> QED BY <1>6, <2>1, TypeSuffices DEF PeerGoes
<1> QED BY <1>1, <1>2, <1>3, <1>4, <1>5, <1>6 DEF Environment

\* The pending write in front of the others, and the others.
LEMMA WriteInFront ==
  ASSUME TypeInv, NEW c \in Conns, writes[c] # <<>>
  PROVE  /\ Head(writes[c]) \in Unfinished
         /\ [writes EXCEPT ![c] = Tail(@)] \in [Conns -> Seq(Unfinished)]
BY HeadTailProperties DEF TypeInv

\* What the socket takes of a message of which l pieces are left, u being in it.
LEMMA Share ==
  \A P, R \in Nat : \A l \in 1 .. P, u \in 0 .. R :
    LET k == IF l <= R - u THEN l ELSE R - u IN
    u < R => /\ k \in 1 .. l /\ u + k \in 0 .. R /\ l - k \in 0 .. P
             /\ P - l \in Nat /\ \A i \in 1 .. k : (P - l) + i \in 1 .. P
OBVIOUS

LEMMA TypePerform ==
  ASSUME TypeInv, Perform
  PROVE  TypeInv'
<1> USE DEF TypeInv, TypeOK, io_vars, peer_vars
<1>1. CASE PerformAccept
  <2>1. Head(backlog) \in Conns /\ backlog' \in Seq(Conns)
    BY <1>1, HeadTailProperties DEF PerformAccept
  <2>2. ready' \in Seq(Done)
    BY <1>1, <2>1, CompletionTypes, QueuedType DEF PerformAccept
  <2> QED BY <1>1, <2>1, <2>2, TypeSuffices DEF PerformAccept
<1>2. CASE FailAccept
  <2>1. ready' \in Seq(Done)
    BY <1>2, CompletionTypes, QueuedType DEF FailAccept
  <2> QED BY <1>2, <2>1, TypeSuffices DEF FailAccept
<1>3. ASSUME NEW c \in Conns, PerformRead(c)
      PROVE  TypeInv'
  <2>1. ready' \in Seq(Done)
    <3>1. (unread[c] /\ peer[c] # "reset") \in BOOLEAN
      OBVIOUS
    <3> QED BY <1>3, <3>1, CompletionTypes, QueuedType DEF PerformRead
  <2> QED BY <1>3, <2>1, TypeSuffices DEF PerformRead
<1>4. ASSUME NEW c \in Conns, PerformWrite(c)
      PROVE  TypeInv'
  <2> DEFINE w == Head(writes[c])
             k == IF w.left <= SendRoom - unsent[c] THEN w.left ELSE SendRoom - unsent[c]
             first == Pieces - w.left
             sent == [i \in 1 .. k |-> <<w.msg, first + i>>]
  <2>1. w \in Unfinished /\ writes' \in [Conns -> Seq(Unfinished)]
    BY <1>4, WriteInFront DEF PerformWrite
  <2>2. /\ w.msg \in 1 .. MaxBroadcasts /\ w.left \in 1 .. Pieces
        /\ unsent[c] \in 0 .. SendRoom /\ unsent[c] < SendRoom
    BY <1>4, <2>1 DEF Unfinished, PerformWrite
  <2>3. /\ stream' = [stream EXCEPT ![c] = @ \o sent]
        /\ unsent' = [unsent EXCEPT ![c] = @ + k]
        /\ ready' = Queued("write", c, Completion("write", c, TRUE, Write(w.msg, w.left - k)))
    BY <1>4 DEF PerformWrite
  <2>4. /\ k \in 1 .. w.left /\ unsent[c] + k \in 0 .. SendRoom /\ w.left - k \in 0 .. Pieces
        /\ first \in Nat /\ \A i \in 1 .. k : first + i \in 1 .. Pieces
    <3> HIDE DEF w
    <3> QED BY <2>2, BoundAssumption, Share
  <2> HIDE DEF w, k, first
  <2>5. sent \in Seq((1 .. MaxBroadcasts) \X (1 .. Pieces))
    <3>1. sent \in [1 .. k -> (1 .. MaxBroadcasts) \X (1 .. Pieces)]
      BY <2>2, <2>4
    <3>2. k \in Nat
      BY <2>2, <2>4
    <3> HIDE DEF sent
    <3> QED BY <3>1, <3>2
  <2> HIDE DEF sent
  <2>6. stream' \in [Conns -> Seq((1 .. MaxBroadcasts) \X (1 .. Pieces))]
    <3>1. stream[c] \o sent \in Seq((1 .. MaxBroadcasts) \X (1 .. Pieces))
      BY <2>5, ConcatProperties
    <3> QED BY <2>3, <3>1
  <2>7. Write(w.msg, w.left - k) \in Rest
    BY <2>2, <2>4 DEF Write, Rest
  <2>8. ready' \in Seq(Done)
    BY <2>3, <2>7, CompletionTypes, QueuedType
  <2>9. unsent' \in [Conns -> 0 .. SendRoom]
    BY <2>3, <2>4
  <2> QED BY <1>4, <2>1, <2>6, <2>8, <2>9, TypeSuffices DEF PerformWrite
<1>5. ASSUME NEW c \in Conns, FailWrite(c)
      PROVE  TypeInv'
  <2>1. Head(writes[c]) \in Unfinished /\ writes' \in [Conns -> Seq(Unfinished)]
    BY <1>5, WriteInFront DEF FailWrite
  <2>2. ready' \in Seq(Done)
    BY <1>5, <2>1, Subtypes, CompletionTypes, QueuedType DEF FailWrite
  <2> QED BY <1>5, <2>1, <2>2, TypeSuffices DEF FailWrite
<1> QED BY <1>1, <1>2, <1>3, <1>4, <1>5 DEF Perform

LEMMA BroadcastType ==
  ASSUME TypeInv, NEW targets, BroadcastOrNot(targets)
  PROVE  /\ writes' \in [Conns -> Seq(Unfinished)]
         /\ broadcasts' \in 0 .. MaxBroadcasts
<1>1. CASE UNCHANGED <<writes, broadcasts>>
  BY <1>1 DEF TypeInv, TypeOK
<1>2. CASE broadcasts < MaxBroadcasts /\ broadcasts' = broadcasts + 1
  <2>1. Write(broadcasts + 1, Pieces) \in Unfinished
    BY <1>2, BoundAssumption DEF TypeInv, TypeOK, Write, Unfinished
  <2>2. CASE UNCHANGED <<writes, broadcasts>>
    BY <2>2, <1>1
  <2>3. CASE writes' = [c \in Conns |->
                          IF c \in targets
                          THEN Append(writes[c], Write(broadcasts + 1, Pieces))
                          ELSE writes[c]]
    <3>1. writes' \in [Conns -> Seq(Unfinished)]
      BY <2>1, <2>3, AppendProperties DEF TypeInv
    <3>2. broadcasts' \in 0 .. MaxBroadcasts
      BY <1>2, BoundAssumption DEF TypeInv, TypeOK
    <3> QED BY <3>1, <3>2
  <2> QED BY <2>2, <2>3 DEF BroadcastOrNot
<1> QED BY <1>1, <1>2 DEF BroadcastOrNot

LEMMA StartedType ==
  ASSUME NEW c \in Conns, NEW S \in SUBSET Conns
  PROVE  StartedAccept \cup StartedWrites(S) \cup {<<"read", c>>}
           \subseteq {"accept", "read", "write"} \X (Conns \cup {NoConn})
BY DEF StartedAccept, StartedWrites

\* A partial or whole write is over.
RunWrite == ContinueWrite \/ WriteDone

LEMMA TypeHandle ==
  ASSUME TypeInv, Handle
  PROVE  TypeInv'
<1> USE DEF TypeInv, TypeOK, io_vars, peer_vars
<1>0. /\ ready # <<>> /\ Current \in Done /\ Tail(ready) \in Seq(Done)
      /\ Current.op = "accept" /\ Current.ok => Current.conn \in Conns
      /\ Current.op \in {"read", "write"} => Current.conn \in Conns
      /\ Current.op = "write" => Current.write \in Rest
  BY CurrentType DEF Handle, RunStop, RunAccept, ThrowInAccept, RunAcceptError, RunRead,
                     RunError, RunWrite, ContinueWrite, WriteDone
<1> DEFINE c == Current.conn
<1>1. CASE RunStop
  <2> DEFINE queue == Tail(ready) \o IF accepting THEN <<AcceptFailed>> ELSE <<>>
  <2>1. queue \in Seq(Done)
    <3>1. <<AcceptFailed>> \in Seq(Done) /\ <<>> \in Seq(Done)
      BY CompletionTypes
    <3> QED BY <1>0, <3>1, ConcatProperties
  <2>2. Close(registry, queue)
    BY <1>1 DEF RunStop
  <2> HIDE DEF queue
  <2>3. <<>> \in Seq(Conns)
    OBVIOUS
  <2>4. peer' \in [Conns -> {"new", "up", "closed", "reset", "refused"}]
    BY <1>1 DEF RunStop
  <2>5. /\ acceptor' = "closed" /\ accepting' = FALSE /\ backlog' = <<>> /\ started' = {}
        /\ UNCHANGED <<loop, unread, unsent, stream, broadcasts, stops>>
    BY <1>1 DEF RunStop
  <2> QED BY <2>1, <2>2, <2>3, <2>4, <2>5, CloseType, TypeSuffices
<1>2. CASE RunAccept
  <2>1. c \in Conns
    BY <1>0, <1>2 DEF RunAccept
  <2>2. /\ writes' \in [Conns -> Seq(Unfinished)]
        /\ broadcasts' \in 0 .. MaxBroadcasts
    BY <1>2, BroadcastType DEF RunAccept
  <2>3. /\ registry' = registry \cup {c} /\ ready' = Tail(ready)
        /\ started' = StartedAccept \cup StartedWrites(registry \cup {c}) \cup {<<"read", c>>}
        /\ socket' = [socket EXCEPT ![c] = "open"]
        /\ events' = [events EXCEPT ![c] = Append(@, "connected")]
        /\ reading' = [reading EXCEPT ![c] = TRUE]
        /\ accepting' = (acceptor = "open")
        /\ UNCHANGED <<loop, acceptor, backlog, peer_vars, stream, stops>>
    BY <1>2 DEF RunAccept
  <2> HIDE DEF c
  <2>4. IsFiniteSet(registry') /\ registry' \subseteq Conns
    BY <2>1, <2>3, FS_AddElement
  <2>5. events' \in [Conns -> Seq({"connected", "data", "disconnected"})]
    <3>1. Append(events[c], "connected") \in Seq({"connected", "data", "disconnected"})
      BY <2>1, AppendProperties
    <3> QED BY <2>1, <2>3, <3>1
  <2>6. started' \subseteq {"accept", "read", "write"} \X (Conns \cup {NoConn})
    <3>1. registry \cup {c} \in SUBSET Conns
      BY <2>1
    <3> QED BY <2>1, <2>3, <3>1, StartedType
  <2> QED BY <1>0, <2>2, <2>3, <2>4, <2>5, <2>6, TypeSuffices
<1>3. CASE ThrowInAccept
  BY <1>0, <1>3, TypeSuffices DEF ThrowInAccept
<1>4. CASE RunAcceptError
  <2>1. started' \subseteq {"accept", "read", "write"} \X (Conns \cup {NoConn})
    BY <1>4 DEF RunAcceptError, StartedAccept
  <2> QED BY <1>0, <1>4, <2>1, TypeSuffices DEF RunAcceptError
<1>5. CASE RunRead
  <2>1. c \in Conns
    BY <1>0, <1>5 DEF RunRead
  <2>2. /\ writes' \in [Conns -> Seq(Unfinished)]
        /\ broadcasts' \in 0 .. MaxBroadcasts
    BY <1>5, BroadcastType DEF RunRead
  <2>3. started' \subseteq {"accept", "read", "write"} \X (Conns \cup {NoConn})
    BY <1>5, <2>1, StartedType DEF RunRead
  <2>4. events' \in [Conns -> Seq({"connected", "data", "disconnected"})]
    BY <1>5, <2>1, AppendProperties DEF RunRead
  <2>5. ready' \in Seq(Done)
    <3>1. Completion("read", c, FALSE, NoWrite) \in Done
      BY <2>1, CompletionTypes
    <3>2. Append(Tail(ready), Completion("read", c, FALSE, NoWrite)) \in Seq(Done)
      BY <1>0, <3>1, AppendProperties
    <3> QED BY <1>0, <1>5, <3>2 DEF RunRead
  <2>6. reading' \in [Conns -> BOOLEAN]
    BY <1>5, <2>1 DEF RunRead
  <2> QED BY <1>5, <2>2, <2>3, <2>4, <2>5, <2>6, TypeSuffices DEF RunRead
<1>6. CASE RunError
  <2>1. IfOpen(c) \subseteq Conns /\ IsFiniteSet(IfOpen(c))
    <3>1. c \in Conns
      BY <1>0, <1>6 DEF RunError
    <3>2. IfOpen(c) \in SUBSET {c}
      BY DEF IfOpen
    <3> QED BY <3>1, <3>2, FS_Singleton, FS_Subset
  <2>2. Close(IfOpen(c), Tail(ready))
    BY <1>6 DEF RunError
  <2>3. started' = {} /\ UNCHANGED <<loop, io_vars, peer_vars, stream, broadcasts, stops>>
    BY <1>6 DEF RunError
  <2> QED BY <1>0, <2>1, <2>2, <2>3, CloseType, TypeSuffices
<1>7. CASE RunWrite
  <2>1. c \in Conns /\ Current.write \in Rest
    BY <1>0, <1>7 DEF RunWrite, ContinueWrite, WriteDone
  <2>2. ready' \in Seq(Done)
    <3>1. Completion("write", c, FALSE, Current.write) \in Done
      BY <2>1, CompletionTypes
    <3>2. Append(Tail(ready), Completion("write", c, FALSE, Current.write)) \in Seq(Done)
      BY <1>0, <3>1, AppendProperties
    <3> QED BY <1>0, <1>7, <3>2 DEF RunWrite, ContinueWrite, WriteDone
  <2>3. writes' \in [Conns -> Seq(Unfinished)]
    <3>1. CASE Current.write.left > 0 /\ socket[c] = "open"
      <4>1. Current.write \in Unfinished
        BY <2>1, <3>1 DEF Rest, Unfinished
      <4>2. writes' = [writes EXCEPT ![c] = Append(@, Current.write)]
        BY <1>7, <3>1 DEF RunWrite, ContinueWrite, WriteDone
      <4> HIDE DEF c
      <4> QED BY <2>1, <4>1, <4>2, AppendProperties
    <3>2. CASE ~(Current.write.left > 0 /\ socket[c] = "open")
      BY <1>7, <3>2 DEF RunWrite, ContinueWrite, WriteDone
    <3> QED BY <3>1, <3>2
  <2>4. started' \subseteq {"accept", "read", "write"} \X (Conns \cup {NoConn})
    <3>1. {c} \in SUBSET Conns
      BY <2>1
    <3>2. started' = StartedWrites({c}) \/ started' = {}
      BY <1>7 DEF RunWrite, ContinueWrite, WriteDone
    <3> QED BY <3>1, <3>2 DEF StartedWrites
  <2> QED BY <1>7, <2>2, <2>3, <2>4, TypeSuffices DEF RunWrite, ContinueWrite, WriteDone
<1> QED BY <1>1, <1>2, <1>3, <1>4, <1>5, <1>6, <1>7 DEF Handle, RunWrite

LEMMA TypeNext == TypeInv /\ [Next]_vars => TypeInv'
<1> SUFFICES ASSUME TypeInv, [Next]_vars PROVE TypeInv'
  OBVIOUS
<1>1. CASE UNCHANGED vars
  BY <1>1, TypeSuffices DEF vars, TypeInv, TypeOK, io_vars, peer_vars
<1> QED BY <1>1, TypeEnvironment, TypePerform, TypeHandle DEF Next

\* Every field of the server, its queue of completions and its sockets keeps its type:
\* a socket never holds more than it has room for, and no more pieces are written than
\* a message has (TcpSession.cpp:30).
THEOREM TypeCorrect == Spec => []TypeOK
<1>1. TypeInv => TypeOK
  BY DEF TypeInv
<1> QED BY <1>1, TypeInit, TypeNext, PTL DEF Spec

-----------------------------------------------------------------------------
(* How many elements of a sequence are in a set T: none, or one at most. *)

Elements(s) == {s[i] : i \in 1 .. Len(s)}
NoneOf(s, T) == \A i \in 1 .. Len(s) : s[i] \notin T
OneOf(s, T) == \A i, j \in 1 .. Len(s) : s[i] \in T /\ s[j] \in T => i = j

LEMMA ConcatenatedOf ==
  ASSUME NEW S, NEW s \in Seq(S), NEW t \in Seq(S), NEW T
  PROVE  /\ NoneOf(s \o t, T) <=> NoneOf(s, T) /\ NoneOf(t, T)
         /\ OneOf(s, T) /\ OneOf(t, T) /\ (NoneOf(s, T) \/ NoneOf(t, T)) => OneOf(s \o t, T)
         /\ Elements(s \o t) = Elements(s) \cup Elements(t)
<1> DEFINE m == Len(s)
           n == Len(t)
           st == s \o t
<1>1. /\ m \in Nat /\ n \in Nat /\ Len(st) = m + n
      /\ \A i \in 1 .. m + n : st[i] = IF i <= m THEN s[i] ELSE t[i - m]
  BY ConcatProperties, LenProperties
<1> HIDE DEF m, n, st
<1>2. /\ \A i \in 1 .. m : i \in 1 .. m + n /\ st[i] = s[i]
      /\ \A j \in 1 .. n : j + m \in 1 .. m + n /\ st[j + m] = t[j]
      /\ \A i \in 1 .. m + n : i \in 1 .. m \/ i - m \in 1 .. n
  BY <1>1
<1>3. \A i \in 1 .. m + n :
        \/ i \in 1 .. m /\ st[i] = s[i]
        \/ i - m \in 1 .. n /\ st[i] = t[i - m] /\ (i - m) + m = i
  BY <1>1, <1>2
<1>4. NoneOf(st, T) <=> NoneOf(s, T) /\ NoneOf(t, T)
  BY <1>1, <1>2, <1>3 DEF NoneOf, m, n
<1>5. ASSUME OneOf(s, T), OneOf(t, T), NoneOf(s, T) \/ NoneOf(t, T)
      PROVE  OneOf(st, T)
  <2> SUFFICES ASSUME NEW i \in 1 .. m + n, NEW j \in 1 .. m + n, st[i] \in T, st[j] \in T
               PROVE  i = j
    BY <1>1 DEF OneOf
  <2>1. CASE NoneOf(s, T)
    <3>1. /\ i - m \in 1 .. n /\ st[i] = t[i - m] /\ (i - m) + m = i
          /\ j - m \in 1 .. n /\ st[j] = t[j - m] /\ (j - m) + m = j
      BY <1>3, <2>1 DEF NoneOf, m
    <3>2. i - m = j - m
      BY <1>5, <3>1 DEF OneOf, n
    <3> QED BY <3>1, <3>2
  <2>2. CASE NoneOf(t, T)
    <3>1. /\ i \in 1 .. m /\ st[i] = s[i]
          /\ j \in 1 .. m /\ st[j] = s[j]
      BY <1>3, <2>2 DEF NoneOf, n
    <3> QED BY <1>5, <3>1 DEF OneOf, m
  <2> QED BY <1>5, <2>1, <2>2
<1>6. Elements(st) = Elements(s) \cup Elements(t)
  <2>1. /\ Elements(s) = {s[i] : i \in 1 .. m} /\ Elements(t) = {t[i] : i \in 1 .. n}
        /\ Elements(st) = {st[i] : i \in 1 .. m + n}
    BY <1>1 DEF Elements, m, n
  <2>2. \A i \in 1 .. m + n : st[i] \in Elements(s) \cup Elements(t)
    BY <1>3, <2>1
  <2>3. /\ \A i \in 1 .. m : s[i] \in Elements(st)
        /\ \A i \in 1 .. n : t[i] \in Elements(st)
    BY <1>2, <2>1
  <2> QED BY <2>1, <2>2, <2>3
<1> QED BY <1>4, <1>5, <1>6 DEF st

\* One element joins a sequence, at either end.
LEMMA JoinsOf ==
  ASSUME NEW S, NEW s \in Seq(S), NEW x \in S, NEW T,
         NEW t, t = Append(s, x) \/ t = <<x>> \o s
  PROVE  /\ NoneOf(t, T) <=> NoneOf(s, T) /\ x \notin T
         /\ OneOf(s, T) /\ (x \in T => NoneOf(s, T)) => OneOf(t, T)
         /\ Elements(t) = Elements(s) \cup {x}
<1>1. Append(s, x) = s \o <<x>> /\ <<x>> \in Seq(S)
  BY AppendIsConcat
<1>2. NoneOf(<<x>>, T) <=> x \notin T
  BY DEF NoneOf
<1>3. OneOf(<<x>>, T) /\ Elements(<<x>>) = {x}
  BY DEF OneOf, Elements
<1> HIDE DEF NoneOf, OneOf, Elements
<1>4. CASE t = s \o <<x>>
  <2>1. /\ NoneOf(s \o <<x>>, T) <=> NoneOf(s, T) /\ NoneOf(<<x>>, T)
        /\ OneOf(s, T) /\ OneOf(<<x>>, T) /\ (NoneOf(s, T) \/ NoneOf(<<x>>, T))
             => OneOf(s \o <<x>>, T)
        /\ Elements(s \o <<x>>) = Elements(s) \cup Elements(<<x>>)
    BY <1>1, ConcatenatedOf
  <2> QED BY <1>2, <1>3, <1>4, <2>1
<1>5. CASE t = <<x>> \o s
  <2>1. /\ NoneOf(<<x>> \o s, T) <=> NoneOf(<<x>>, T) /\ NoneOf(s, T)
        /\ OneOf(<<x>>, T) /\ OneOf(s, T) /\ (NoneOf(<<x>>, T) \/ NoneOf(s, T))
             => OneOf(<<x>> \o s, T)
        /\ Elements(<<x>> \o s) = Elements(<<x>>) \cup Elements(s)
    BY <1>1, ConcatenatedOf
  <2> QED BY <1>2, <1>3, <1>5, <2>1
<1> QED BY <1>1, <1>4, <1>5

\* The element in front leaves.
LEMMA LeavesOf ==
  ASSUME NEW S, NEW s \in Seq(S), s # <<>>, NEW T
  PROVE  /\ NoneOf(s, T) <=> NoneOf(Tail(s), T) /\ Head(s) \notin T
         /\ OneOf(s, T) => OneOf(Tail(s), T)
         /\ OneOf(s, T) /\ Head(s) \in T => NoneOf(Tail(s), T)
         /\ Elements(s) = Elements(Tail(s)) \cup {Head(s)}
<1> DEFINE n == Len(s)
           t == Tail(s)
           h == Head(s)
<1>1. /\ n \in Nat \ {0} /\ Len(t) = n - 1 /\ h = s[1]
      /\ \A i \in 1 .. n - 1 : t[i] = s[i + 1]
  BY EmptySeq, HeadTailProperties
<1> HIDE DEF n, t, h
<1>2. /\ \A i \in 1 .. n - 1 : i + 1 \in 1 .. n /\ i + 1 # 1 /\ s[i + 1] = t[i]
      /\ \A i \in 1 .. n : i = 1 \/ (i - 1 \in 1 .. n - 1 /\ s[i] = t[i - 1])
      /\ 1 \in 1 .. n
  BY <1>1
<1>3. NoneOf(s, T) <=> NoneOf(t, T) /\ h \notin T
  BY <1>1, <1>2 DEF NoneOf, n
<1>4. OneOf(s, T) => OneOf(t, T)
  <2> SUFFICES ASSUME OneOf(s, T), NEW i \in 1 .. n - 1, NEW j \in 1 .. n - 1,
                      t[i] \in T, t[j] \in T
               PROVE  i = j
    BY <1>1 DEF OneOf
  <2>1. i + 1 = j + 1
    BY <1>2 DEF OneOf, n
  <2> QED BY <1>1, <2>1
<1>5. OneOf(s, T) /\ h \in T => NoneOf(t, T)
  <2> SUFFICES ASSUME OneOf(s, T), h \in T, NEW i \in 1 .. n - 1, t[i] \in T
               PROVE  FALSE
    BY <1>1 DEF NoneOf
  <2>1. i + 1 = 1
    BY <1>1, <1>2 DEF OneOf, n
  <2> QED BY <1>2, <2>1
<1>6. Elements(s) = Elements(t) \cup {h}
  <2>1. Elements(s) = {s[i] : i \in 1 .. n} /\ Elements(t) = {t[i] : i \in 1 .. n - 1}
    BY <1>1 DEF Elements, n
  <2>2. \A i \in 1 .. n : s[i] \in Elements(t) \cup {h}
    BY <1>1, <1>2, <2>1
  <2>3. h \in Elements(s) /\ \A i \in 1 .. n - 1 : t[i] \in Elements(s)
    BY <1>1, <1>2, <2>1
  <2> QED BY <2>1, <2>2, <2>3
<1> QED BY <1>3, <1>4, <1>5, <1>6 DEF t, h

-----------------------------------------------------------------------------
(* The loops of doAccept (named NoConn) and of each session's doRead in the *)
(* queue of completions.                                                    *)

IsLoop(x, k) == IF k = NoConn THEN x.op = "accept" ELSE x.op = "read" /\ x.conn = k
NoneIn(s, k) == \A i \in 1 .. Len(s) : ~IsLoop(s[i], k)
AtMostOne(s, k) ==
  \A i, j \in 1 .. Len(s) : IsLoop(s[i], k) /\ IsLoop(s[j], k) => i = j

LoopOnes(k) == {x \in Done : IsLoop(x, k)}

LEMMA LoopsInSet ==
  ASSUME NEW s \in Seq(Done), NEW k
  PROVE  /\ NoneIn(s, k) <=> NoneOf(s, LoopOnes(k))
         /\ AtMostOne(s, k) <=> OneOf(s, LoopOnes(k))
<1>1. \A i \in 1 .. Len(s) : s[i] \in LoopOnes(k) <=> IsLoop(s[i], k)
  BY ElementOfSeq DEF LoopOnes
<1> QED BY <1>1 DEF NoneIn, AtMostOne, NoneOf, OneOf

LEMMA Concatenated ==
  ASSUME NEW s \in Seq(Done), NEW t \in Seq(Done), NEW k
  PROVE  /\ NoneIn(s \o t, k) <=> NoneIn(s, k) /\ NoneIn(t, k)
         /\ AtMostOne(s, k) /\ AtMostOne(t, k) /\ (NoneIn(s, k) \/ NoneIn(t, k))
              => AtMostOne(s \o t, k)
         /\ Elements(s \o t) = Elements(s) \cup Elements(t)
<1>1. s \o t \in Seq(Done)
  BY ConcatProperties
<1>2. /\ NoneOf(s \o t, LoopOnes(k)) <=> NoneOf(s, LoopOnes(k)) /\ NoneOf(t, LoopOnes(k))
      /\ OneOf(s, LoopOnes(k)) /\ OneOf(t, LoopOnes(k))
           /\ (NoneOf(s, LoopOnes(k)) \/ NoneOf(t, LoopOnes(k))) => OneOf(s \o t, LoopOnes(k))
      /\ Elements(s \o t) = Elements(s) \cup Elements(t)
  BY ConcatenatedOf
<1> QED BY <1>1, <1>2, LoopsInSet

LEMMA Single ==
  ASSUME NEW x \in Done, NEW k
  PROVE  /\ <<x>> \in Seq(Done)
         /\ NoneIn(<<x>>, k) <=> ~IsLoop(x, k)
         /\ AtMostOne(<<x>>, k)
         /\ Elements(<<x>>) = {x}
         /\ <<>> \in Seq(Done) /\ NoneIn(<<>>, k) /\ AtMostOne(<<>>, k)
         /\ Elements(<<>>) = {}
<1>1. /\ Len(<<x>>) = 1 /\ <<x>>[1] = x /\ 1 .. 1 = {1}
      /\ Len(<<>>) = 0 /\ 1 .. 0 = {}
  OBVIOUS
<1>2. <<x>> \in Seq(Done) /\ <<>> \in Seq(Done)
  OBVIOUS
<1> HIDE DEF IsLoop
<1>3. /\ NoneIn(<<x>>, k) <=> ~IsLoop(x, k)
      /\ AtMostOne(<<x>>, k) /\ Elements(<<x>>) = {x}
  BY <1>1 DEF NoneIn, AtMostOne, Elements
<1>4. NoneIn(<<>>, k) /\ AtMostOne(<<>>, k) /\ Elements(<<>>) = {}
  BY <1>1 DEF NoneIn, AtMostOne, Elements
<1> QED BY <1>2, <1>3, <1>4

\* One completion joins the queue, at either end.
LEMMA Joins ==
  ASSUME NEW s \in Seq(Done), NEW x \in Done, NEW k,
         NEW t \in {Append(s, x), <<x>> \o s}
  PROVE  /\ NoneIn(t, k) <=> NoneIn(s, k) /\ ~IsLoop(x, k)
         /\ AtMostOne(s, k) /\ (IsLoop(x, k) => NoneIn(s, k)) => AtMostOne(t, k)
         /\ Elements(t) = Elements(s) \cup {x}
<1> DEFINE T == LoopOnes(k)
<1>1. t \in Seq(Done)
  <2>1. <<x>> \in Seq(Done)
    OBVIOUS
  <2>2. Append(s, x) \in Seq(Done)
    BY AppendProperties
  <2>3. <<x>> \o s \in Seq(Done)
    BY <2>1, ConcatProperties
  <2> QED BY <2>2, <2>3
<1>2. x \in T <=> IsLoop(x, k)
  BY DEF LoopOnes
<1> HIDE DEF T
<1>3. /\ NoneOf(t, T) <=> NoneOf(s, T) /\ x \notin T
      /\ OneOf(s, T) /\ (x \in T => NoneOf(s, T)) => OneOf(t, T)
      /\ Elements(t) = Elements(s) \cup {x}
  BY JoinsOf
<1> QED BY <1>1, <1>2, <1>3, LoopsInSet DEF T

LEMMA QueuedJoins ==
  ASSUME TypeInv, NEW op, NEW c, NEW x \in Done, NEW k
  PROVE  LET t == Queued(op, c, x) IN
         /\ NoneIn(t, k) <=> NoneIn(ready, k) /\ ~IsLoop(x, k)
         /\ AtMostOne(ready, k) /\ (IsLoop(x, k) => NoneIn(ready, k)) => AtMostOne(t, k)
         /\ Elements(t) = Elements(ready) \cup {x}
<1>1. Queued(op, c, x) \in {Append(ready, x), <<x>> \o ready}
  BY DEF Queued
<1>2. ready \in Seq(Done)
  BY DEF TypeInv
<1> HIDE DEF NoneIn, AtMostOne, Elements, IsLoop
<1> QED BY <1>1, <1>2, Joins

\* The completion in front leaves the queue.
LEMMA Leaves ==
  ASSUME TypeInv, ready # <<>>, NEW k
  PROVE  /\ NoneIn(ready, k) <=> NoneIn(Tail(ready), k) /\ ~IsLoop(Current, k)
         /\ AtMostOne(ready, k) => AtMostOne(Tail(ready), k)
         /\ AtMostOne(ready, k) /\ IsLoop(Current, k) => NoneIn(Tail(ready), k)
         /\ Elements(ready) = Elements(Tail(ready)) \cup {Current}
<1> DEFINE T == LoopOnes(k)
<1>1. ready \in Seq(Done) /\ Tail(ready) \in Seq(Done) /\ Current \in Done
  BY CurrentType DEF TypeInv
<1>2. Current \in T <=> IsLoop(Current, k)
  BY <1>1 DEF LoopOnes
<1> HIDE DEF T
<1>3. /\ NoneOf(ready, T) <=> NoneOf(Tail(ready), T) /\ Current \notin T
      /\ OneOf(ready, T) => OneOf(Tail(ready), T)
      /\ OneOf(ready, T) /\ Current \in T => NoneOf(Tail(ready), T)
      /\ Elements(ready) = Elements(Tail(ready)) \cup {Current}
  BY <1>1, LeavesOf DEF Current
<1> QED BY <1>1, <1>2, <1>3, LoopsInSet DEF T

\* Closing sockets leaves a completion of each read that was pending, and of no accept.
LEMMA AbortedLoops ==
  ASSUME TypeInv, NEW S \in SUBSET Conns, IsFiniteSet(S), NEW k \in Conns \cup {NoConn}
  PROVE  LET t == SetToSeq(AllAborted(S)) IN
         /\ t \in Seq(Done)
         /\ AtMostOne(t, k)
         /\ k = NoConn \/ k \notin S \/ ~reading[k] => NoneIn(t, k)
         /\ \A x \in Elements(t) : x.op # "accept"
<1> DEFINE t == SetToSeq(AllAborted(S))
<1>1. /\ t \in Seq(AllAborted(S)) /\ t \in Seq(Done)
      /\ \A i, j \in 1 .. Len(t) : t[i] = t[j] => i = j
  BY AbortedFinite, AbortedType, SetToSeqLists
<1> HIDE DEF t
<1>2. \A i \in 1 .. Len(t) : t[i] \in AllAborted(S)
  BY <1>1, ElementOfSeq
<1>3. ASSUME NEW x \in AllAborted(S)
      PROVE  /\ x.op \in {"read", "write"}
             /\ x.op = "read" => /\ x = Completion("read", x.conn, FALSE, NoWrite)
                                 /\ x.conn \in S /\ reading[x.conn]
  <2>1. PICK c \in S : x \in Aborted(c)
    BY DEF AllAborted
  <2>2. CASE \E i \in 1 .. Len(writes[c]) : x = Completion("write", c, FALSE, writes[c][i])
    BY <2>2 DEF Completion
  <2>3. CASE x \in {Completion("read", c, FALSE, NoWrite) :
                       i \in IF reading[c] THEN {1} ELSE {}}
    <3>1. reading[c] /\ x = Completion("read", c, FALSE, NoWrite)
      BY <2>3
    <3>2. x.op = "read" /\ x.conn = c
      BY <3>1 DEF Completion
    <3> QED BY <3>1, <3>2
  <2> QED BY <2>1, <2>2, <2>3 DEF Aborted
<1>4. AtMostOne(t, k)
  <2> SUFFICES ASSUME NEW i \in 1 .. Len(t), NEW j \in 1 .. Len(t),
                      IsLoop(t[i], k), IsLoop(t[j], k)
               PROVE  i = j
    BY DEF AtMostOne
  <2>1. \A x \in AllAborted(S) : IsLoop(x, k) => x = Completion("read", k, FALSE, NoWrite)
    BY <1>3 DEF IsLoop
  <2>2. t[i] = t[j]
    BY <1>2, <2>1
  <2> QED BY <1>1, <2>2
<1>5. k = NoConn \/ k \notin S \/ ~reading[k] => NoneIn(t, k)
  BY <1>2, <1>3 DEF NoneIn, IsLoop
<1>6. \A x \in Elements(t) : x.op # "accept"
  BY <1>2, <1>3 DEF Elements
<1> QED BY <1>1, <1>4, <1>5, <1>6 DEF t

-----------------------------------------------------------------------------
(* The invariant of the loops.  A connection that is not a session yet has no *)
(* read; once the acceptor is closed, what registers a late session is the one *)
(* accept that was queued, and nothing can follow it.                          *)

ReadLoop(c) ==
  /\ AtMostOne(ready, c)
  /\ reading[c] => NoneIn(ready, c)
  /\ socket[c] = "open" => reading[c] \/ ~NoneIn(ready, c)
  /\ socket[c] = "none" => ~reading[c] /\ NoneIn(ready, c)

AcceptLoop ==
  /\ AtMostOne(ready, NoConn)
  /\ accepting => NoneIn(ready, NoConn)
  /\ acceptor = "open" /\ Running => accepting \/ ~NoneIn(ready, NoConn)
  /\ acceptor = "closed" => ~accepting
  /\ loop = "created" => NoneIn(ready, NoConn) /\ acceptor = "open"

Late ==
  acceptor = "closed" =>
    /\ \A c, d \in registry : c = d
    /\ registry = {} \/ NoneIn(ready, NoConn)

\* Connections on their way to a session, each in one place.
Waiting(c) == peer[c] # "new" /\ socket[c] = "none"
Fresh ==
  /\ \A c \in Conns : peer[c] = "new" => socket[c] = "none"
  /\ \A i \in 1 .. Len(backlog) : Waiting(backlog[i])
  /\ \A i, j \in 1 .. Len(backlog) : backlog[i] = backlog[j] => i = j
  /\ \A x \in Elements(ready) : x.op = "accept" /\ x.ok =>
       Waiting(x.conn) /\ \A i \in 1 .. Len(backlog) : backlog[i] # x.conn

Loops ==
  /\ RegistryIsOpenSessions
  /\ \A c \in Conns : ReadLoop(c)
  /\ AcceptLoop
  /\ Late
  /\ Fresh

Inv == TypeInv /\ Loops

\* A step that does not concern a loop.
LEMMA SameReadLoop ==
  ASSUME NEW c \in Conns, ReadLoop(c), NoneIn(ready, c)' <=> NoneIn(ready, c),
         AtMostOne(ready, c) => AtMostOne(ready, c)',
         reading'[c] <=> reading[c], socket'[c] = socket[c]
  PROVE  ReadLoop(c)'
BY DEF ReadLoop

LEMMA SameAcceptLoop ==
  ASSUME AcceptLoop, NoneIn(ready, NoConn)' <=> NoneIn(ready, NoConn),
         AtMostOne(ready, NoConn) => AtMostOne(ready, NoConn)',
         accepting' <=> accepting, acceptor' = acceptor,
         loop' = loop \/ loop' = "dead"
  PROVE  AcceptLoop'
BY DEF AcceptLoop, Running

\* A connection that waits keeps waiting.
LEMMA SameFresh ==
  ASSUME TypeInv, Fresh, backlog' = backlog, \A c \in Conns : Waiting(c) => Waiting(c)',
         \A c \in Conns : peer'[c] = "new" => peer[c] = "new" /\ socket'[c] = socket[c],
         \A x \in Elements(ready)' : x.op = "accept" /\ x.ok => x \in Elements(ready)
  PROVE  Fresh'
<1>1. /\ \A i \in 1 .. Len(backlog) : backlog[i] \in Conns
      /\ \A x \in Elements(ready) : x.op = "accept" /\ x.ok => x.conn \in Conns
  <2>1. \A i \in 1 .. Len(ready) : ready[i] \in Done
    BY ElementOfSeq DEF TypeInv
  <2>2. \A x \in Elements(ready) : x.op = "accept" /\ x.ok => x.conn \in Conns
    BY <2>1 DEF Elements, Done
  <2>3. \A i \in 1 .. Len(backlog) : backlog[i] \in Conns
    BY ElementOfSeq DEF TypeInv, TypeOK
  <2> QED BY <2>2, <2>3
<1> QED BY <1>1 DEF Fresh

LEMMA Unconcerned ==
  ASSUME Inv,
         \A k \in Conns \cup {NoConn} :
           /\ NoneIn(ready, k)' <=> NoneIn(ready, k)
           /\ AtMostOne(ready, k) => AtMostOne(ready, k)',
         \A x \in Elements(ready)' : x.op = "accept" => x \in Elements(ready),
         UNCHANGED <<accepting, acceptor, socket, reading, registry, backlog>>,
         loop' = loop \/ loop' = "dead",
         \A c \in Conns : peer[c] # "new" => peer'[c] # "new"
  PROVE  Loops'
<1> USE DEF Inv, Loops
<1>1. RegistryIsOpenSessions'
  BY DEF RegistryIsOpenSessions, Open
<1>2. \A c \in Conns : ReadLoop(c)'
  BY SameReadLoop
<1>3. AcceptLoop'
  BY SameAcceptLoop
<1>4. Late'
  BY DEF Late
<1>5. Fresh'
  BY SameFresh DEF Waiting
<1> QED BY <1>1, <1>2, <1>3, <1>4, <1>5

LEMMA LoopsInit == Init => Loops
<1> SUFFICES ASSUME Init PROVE Loops
  OBVIOUS
<1>1. \A k : NoneIn(ready, k) /\ AtMostOne(ready, k)
  BY EmptySeq DEF Init, NoneIn, AtMostOne
<1>2. Elements(ready) = {} /\ Len(backlog) = 0
  BY EmptySeq DEF Init, Elements
<1>3. RegistryIsOpenSessions
  BY DEF Init, RegistryIsOpenSessions, Open
<1>4. (\A c \in Conns : ReadLoop(c)) /\ AcceptLoop /\ Late
  BY <1>1 DEF Init, ReadLoop, AcceptLoop, Late, Running
<1>5. Fresh
  BY <1>2 DEF Init, Fresh
<1> QED BY <1>3, <1>4, <1>5 DEF Loops

LEMMA LoopsEnvironment ==
  ASSUME Inv, TypeInv', Environment
  PROVE  Loops'
<1> USE DEF io_vars, peer_vars
<1>1. CASE Start
  <2>1. /\ NoneIn(ready, NoConn) /\ accepting' = TRUE /\ loop' = "running"
        /\ UNCHANGED <<ready, socket, reading, registry, acceptor, backlog, peer>>
    BY <1>1 DEF Start, Inv, Loops, AcceptLoop
  <2>2. acceptor = "closed" => FALSE
    BY <1>1 DEF Start, Inv, Loops, AcceptLoop
  <2> QED BY <2>1, <2>2
  DEF Inv, Loops, AcceptLoop, ReadLoop, Late, Fresh, Waiting, RegistryIsOpenSessions, Open
<1>2. CASE Stop
  <2> DEFINE x == Completion("stop", NoConn, TRUE, NoWrite)
  <2>1. x \in Done /\ (\A k : ~IsLoop(x, k)) /\ x.op = "stop" /\ ready \in Seq(Done)
    BY CompletionTypes DEF Completion, IsLoop, Inv, TypeInv
  <2>2. /\ ready' = Append(ready, x)
        /\ UNCHANGED <<loop, io_vars, socket, reading, registry, peer>>
    BY <1>2 DEF Stop
  <2> HIDE DEF x
  <2>3. \A k \in Conns \cup {NoConn} :
          /\ NoneIn(ready, k)' <=> NoneIn(ready, k)
          /\ AtMostOne(ready, k) => AtMostOne(ready, k)'
          /\ Elements(ready)' = Elements(ready) \cup {x}
    BY <2>1, <2>2, Joins
  <2> QED BY <2>1, <2>2, <2>3, Unconcerned DEF Waiting
<1>3. ASSUME NEW c \in Conns, Connect(c)
      PROVE  Loops'
  <2>1. /\ peer[c] = "new" /\ peer'[c] # "new"
        /\ \A d \in Conns : d # c => peer'[d] = peer[d]
        /\ UNCHANGED <<loop, acceptor, accepting, ready, socket, reading, registry>>
    BY <1>3 DEF Connect, Inv, TypeInv, TypeOK
  <2>3. CASE backlog' = backlog
    BY <2>1, <2>3, Unconcerned
  <2>4. CASE backlog' = Append(backlog, c)
    <3>1. socket[c] = "none"
      BY <2>1 DEF Inv, Loops, Fresh
    <3>2. \A d \in Conns : Waiting(d) => Waiting(d)' /\ d # c
      BY <2>1 DEF Waiting
    <3>3. /\ Len(backlog) \in Nat /\ Len(backlog') = Len(backlog) + 1
          /\ \A i \in 1 .. Len(backlog) : backlog'[i] = backlog[i] /\ backlog[i] \in Conns
          /\ backlog'[Len(backlog) + 1] = c
      BY <2>4, AppendProperties, LenProperties, ElementOfSeq DEF Inv, TypeInv, TypeOK
    <3>4. \A x \in Elements(ready) : x.op = "accept" /\ x.ok => x.conn \in Conns
      <4>1. \A i \in 1 .. Len(ready) : ready[i] \in Done
        BY ElementOfSeq DEF Inv, TypeInv
      <4> QED BY <4>1 DEF Elements, Done
    <3>5. Fresh'
      <4> DEFINE n == Len(backlog)
      <4>1. /\ \A i \in 1 .. n : Waiting(backlog[i])' /\ backlog[i] # c
            /\ Waiting(c)'
        BY <2>1, <3>1, <3>2, <3>3 DEF Inv, Loops, Fresh, Waiting
      <4>2. \A i \in 1 .. n + 1 : i \in 1 .. n \/ i = n + 1
        <5> n \in Nat
          BY <3>3
        <5> HIDE DEF n
        <5> QED OBVIOUS
      <4>3. (\A i \in 1 .. Len(backlog) : Waiting(backlog[i]))'
        BY <3>3, <4>1, <4>2 DEF Waiting
      <4>4. \A i, j \in 1 .. Len(backlog') : backlog'[i] = backlog'[j] => i = j
        BY <3>3, <4>1, <4>2 DEF Inv, Loops, Fresh
      <4>5. \A x \in Elements(ready) : x.op = "accept" /\ x.ok =>
              /\ Waiting(x.conn)' /\ x.conn # c
              /\ \A i \in 1 .. n : backlog[i] # x.conn
        BY <3>2, <3>4 DEF Inv, Loops, Fresh
      <4>6. \A d \in Conns : peer'[d] = "new" => socket'[d] = "none"
        BY <2>1 DEF Inv, Loops, Fresh
      <4>7. \A x \in Elements(ready)' : x.op = "accept" /\ x.ok =>
              Waiting(x.conn)' /\ \A i \in 1 .. Len(backlog') : backlog'[i] # x.conn
        <5>1. /\ Elements(ready)' = Elements(ready)
              /\ \A i \in 1 .. Len(backlog') : i \in 1 .. n \/ i = n + 1
          BY <2>1, <3>3, <4>2
        <5>2. \A x \in Elements(ready) : x.op = "accept" /\ x.ok =>
                \A i \in 1 .. Len(backlog') : backlog'[i] # x.conn
          BY <3>3, <4>5, <5>1
        <5> QED BY <4>5, <5>1, <5>2
      <4> QED BY <4>3, <4>4, <4>6, <4>7 DEF Fresh
    <3> QED BY <2>1, <3>5 DEF Inv, Loops, RegistryIsOpenSessions, Open, ReadLoop,
                              AcceptLoop, Late, Running
  <2> QED BY <1>3, <2>3, <2>4 DEF Connect
<1>4. ASSUME NEW c \in Conns, PeerSends(c) \/ PeerTakes(c) \/ PeerGoes(c)
      PROVE  Loops'
  <2>1. /\ \A d \in Conns : peer[d] # "new" => peer'[d] # "new"
        /\ UNCHANGED <<loop, io_vars, ready, socket, reading, registry>>
    BY <1>4 DEF PeerSends, PeerTakes, PeerGoes, Inv, TypeInv, TypeOK
  <2> QED BY <2>1, Unconcerned DEF Waiting
<1> QED BY <1>1, <1>2, <1>3, <1>4 DEF Environment

\* Which loop a completion belongs to.
LEMMA LoopOf ==
  ASSUME NEW op, NEW c, NEW ok, NEW w, NEW k
  PROVE  LET x == Completion(op, c, ok, w) IN
         /\ x.op = op /\ x.conn = c /\ x.ok = ok
         /\ IsLoop(x, k) <=> IF k = NoConn THEN op = "accept" ELSE op = "read" /\ c = k
BY DEF Completion, IsLoop

LEMMA LoopsPerformAccept ==
  ASSUME Inv, PerformAccept \/ FailAccept
  PROVE  Loops'
<1> USE DEF io_vars, peer_vars
<1> DEFINE c == Head(backlog)
<1>1. /\ Running /\ accepting /\ accepting' = FALSE /\ backlog # <<>>
      /\ UNCHANGED <<loop, acceptor, socket, reading, registry, peer>>
  BY DEF PerformAccept, FailAccept
<1>2. /\ NoneIn(ready, NoConn) /\ acceptor # "closed" /\ loop # "created"
      /\ AtMostOne(ready, NoConn)
  BY <1>1 DEF Inv, Loops, AcceptLoop, Running
<1>3. PICK x \in Done :
        /\ ready' = Queued("accept", NoConn, x) /\ x.op = "accept"
        /\ \/ x.ok /\ x.conn = c /\ c \in Conns /\ backlog' = Tail(backlog)
           \/ ~x.ok /\ backlog' = backlog
  <2>1. CASE PerformAccept
    <3>1. c \in Conns
      BY <1>1, HeadTailProperties DEF Inv, TypeInv, TypeOK
    <3>2. Accepted(c) \in Done /\ Accepted(c).op = "accept" /\ Accepted(c).ok
            /\ Accepted(c).conn = c
      BY <3>1, CompletionTypes DEF Accepted, Completion
    <3> QED BY <2>1, <3>1, <3>2 DEF PerformAccept
  <2>2. CASE FailAccept
    <3>1. AcceptFailed \in Done /\ AcceptFailed.op = "accept" /\ ~AcceptFailed.ok
      BY CompletionTypes DEF AcceptFailed, Completion
    <3> QED BY <2>2, <3>1 DEF FailAccept
  <2> QED BY <2>1, <2>2
<1>4. \A k \in Conns : ~IsLoop(x, k)
  BY <1>3, ConnAssumption DEF IsLoop
<1>5. IsLoop(x, NoConn)
  BY <1>3 DEF IsLoop
<1>6. \A k \in Conns \cup {NoConn} :
        /\ NoneIn(ready, k)' <=> NoneIn(ready, k) /\ ~IsLoop(x, k)
        /\ AtMostOne(ready, k) /\ (IsLoop(x, k) => NoneIn(ready, k)) => AtMostOne(ready, k)'
        /\ Elements(ready)' = Elements(ready) \cup {x}
  BY <1>3, QueuedJoins DEF Inv
<1>7. RegistryIsOpenSessions'
  BY <1>1 DEF Inv, Loops, RegistryIsOpenSessions, Open
<1>8. \A k \in Conns : ReadLoop(k)'
  BY <1>1, <1>4, <1>6, SameReadLoop DEF Inv, Loops
<1>9. AcceptLoop'
  BY <1>1, <1>2, <1>5, <1>6 DEF AcceptLoop
<1>10. Late'
  BY <1>1, <1>2 DEF Late
<1>11. Fresh'
  <2>1. CASE ~x.ok /\ backlog' = backlog
    BY <1>1, <1>6, <2>1, SameFresh DEF Inv, Loops, Waiting
  <2>2. CASE x.ok /\ x.conn = c /\ c \in Conns /\ backlog' = Tail(backlog)
    <3> DEFINE n == Len(backlog)
    <3>1. /\ n \in Nat \ {0} /\ Len(backlog') = n - 1 /\ c = backlog[1]
          /\ \A i \in 1 .. n - 1 : backlog'[i] = backlog[i + 1]
      BY <1>1, <2>2, EmptySeq, HeadTailProperties DEF Inv, TypeInv, TypeOK
    <3> HIDE DEF n
    <3>2. 1 \in 1 .. n /\ \A i \in 1 .. n - 1 : i + 1 \in 1 .. n /\ i + 1 # 1
      BY <3>1
    <3>3. /\ \A i \in 1 .. n : Waiting(backlog[i])
          /\ \A i, j \in 1 .. n : backlog[i] = backlog[j] => i = j
      BY DEF Inv, Loops, Fresh, n
    <3>4. Waiting(c) /\ \A i \in 1 .. Len(backlog') : backlog'[i] # c
      BY <3>1, <3>2, <3>3
    <3>5. (\A i \in 1 .. Len(backlog) : Waiting(backlog[i]))'
      BY <1>1, <3>1, <3>2, <3>3 DEF Waiting
    <3>6. \A i, j \in 1 .. Len(backlog') : backlog'[i] = backlog'[j] => i = j
      <4> SUFFICES ASSUME NEW i \in 1 .. n - 1, NEW j \in 1 .. n - 1,
                          backlog[i + 1] = backlog[j + 1]
                   PROVE  i = j
        BY <3>1
      <4>1. i + 1 = j + 1
        BY <3>2, <3>3
      <4> QED BY <3>1, <4>1
    <3>7. \A y \in Elements(ready) : y.op = "accept" /\ y.ok => FALSE
      BY <1>2 DEF Elements, NoneIn, IsLoop
    <3>8. \A y \in Elements(ready)' : y.op = "accept" /\ y.ok =>
             Waiting(y.conn)' /\ \A i \in 1 .. Len(backlog') : backlog'[i] # y.conn
      BY <1>1, <1>6, <2>2, <3>4, <3>7 DEF Waiting
    <3>9. \A k \in Conns : peer'[k] = "new" => socket'[k] = "none"
      BY <1>1 DEF Inv, Loops, Fresh
    <3> QED BY <3>5, <3>6, <3>8, <3>9 DEF Fresh
  <2> QED BY <1>3, <2>1, <2>2
<1> QED BY <1>7, <1>8, <1>9, <1>10, <1>11 DEF Loops

LEMMA LoopsPerform ==
  ASSUME Inv, Perform
  PROVE  Loops'
<1> USE DEF io_vars, peer_vars
<1>1. CASE PerformAccept \/ FailAccept
  BY <1>1, LoopsPerformAccept
<1>2. ASSUME NEW c \in Conns, PerformRead(c)
      PROVE  Loops'
  <2> DEFINE x == Completion("read", c, unread[c] /\ peer[c] # "reset", NoWrite)
  <2>1. x \in Done
    <3>1. (unread[c] /\ peer[c] # "reset") \in BOOLEAN
      OBVIOUS
    <3> QED BY <3>1, CompletionTypes
  <2>2. /\ reading[c] /\ reading' = [reading EXCEPT ![c] = FALSE]
        /\ ready' = Queued("read", c, x)
        /\ UNCHANGED <<loop, io_vars, socket, registry, peer>>
    BY <1>2 DEF PerformRead
  <2>3. reading'[c] = FALSE /\ \A d \in Conns : d # c => reading'[d] = reading[d]
    BY <2>2 DEF Inv, TypeInv, TypeOK
  <2>4. /\ x.op = "read" /\ IsLoop(x, c) /\ ~IsLoop(x, NoConn)
        /\ \A d \in Conns : d # c => ~IsLoop(x, d)
    BY ConnAssumption, LoopOf
  <2> HIDE DEF x
  <2>5. \A k \in Conns \cup {NoConn} :
          /\ NoneIn(ready, k)' <=> NoneIn(ready, k) /\ ~IsLoop(x, k)
          /\ AtMostOne(ready, k) /\ (IsLoop(x, k) => NoneIn(ready, k))
               => AtMostOne(ready, k)'
          /\ Elements(ready)' = Elements(ready) \cup {x}
    BY <2>1, <2>2, QueuedJoins DEF Inv
  <2>6. \A d \in Conns : ReadLoop(d)'
    <3>1. ReadLoop(c)'
      BY <2>2, <2>3, <2>4, <2>5 DEF Inv, Loops, ReadLoop
    <3>2. ASSUME NEW d \in Conns, d # c
          PROVE  ReadLoop(d)'
      BY <2>2, <2>3, <2>4, <2>5, <3>2, SameReadLoop DEF Inv, Loops
    <3> QED BY <3>1, <3>2
  <2>7. AcceptLoop'
    BY <2>2, <2>4, <2>5, SameAcceptLoop DEF Inv, Loops
  <2>8. Late'
    BY <2>2, <2>4, <2>5 DEF Inv, Loops, Late
  <2>9. Fresh'
    BY <2>2, <2>4, <2>5, SameFresh DEF Inv, Loops, Waiting
  <2>10. RegistryIsOpenSessions'
    BY <2>2 DEF Inv, Loops, RegistryIsOpenSessions, Open
  <2> QED BY <2>6, <2>7, <2>8, <2>9, <2>10 DEF Loops
<1>3. ASSUME NEW c \in Conns, PerformWrite(c) \/ FailWrite(c)
      PROVE  Loops'
  <2>1. PICK x : /\ x \in Done /\ x.op = "write" /\ (\A k : ~IsLoop(x, k))
                 /\ ready' = Queued("write", c, x)
    <3>1. \A ok, w : LET x == Completion("write", c, ok, w) IN
             x.op = "write" /\ (\A k : ~IsLoop(x, k))
      BY DEF Completion, IsLoop
    <3>2. CASE FailWrite(c)
      <4>1. Head(writes[c]) \in Rest
        BY <3>2, WriteInFront, Subtypes DEF FailWrite, Inv
      <4> QED BY <3>1, <3>2, <4>1, CompletionTypes DEF FailWrite
    <3>3. CASE PerformWrite(c)
      <4>1. PICK k : ready' = Queued("write", c, Completion("write", c, TRUE,
                                Write(Head(writes[c]).msg, Head(writes[c]).left - k)))
                     /\ Head(writes[c]).left - k \in 0 .. Pieces
        <5> DEFINE w == Head(writes[c])
                   k == IF w.left <= SendRoom - unsent[c] THEN w.left
                                                          ELSE SendRoom - unsent[c]
        <5>1. w.left \in 1 .. Pieces /\ unsent[c] \in 0 .. SendRoom /\ unsent[c] < SendRoom
          BY <3>3, WriteInFront DEF PerformWrite, Inv, TypeInv, TypeOK, Unfinished
        <5>2. ready' = Queued("write", c, Completion("write", c, TRUE,
                                                     Write(w.msg, w.left - k)))
          BY <3>3 DEF PerformWrite
        <5>3. w.left - k \in 0 .. Pieces
          <6> HIDE DEF w
          <6> QED BY <5>1, BoundAssumption, Share
        <5> QED BY <5>2, <5>3
      <4>2. Head(writes[c]).msg \in 1 .. MaxBroadcasts
        BY <3>3, WriteInFront DEF PerformWrite, Inv, Unfinished
      <4>3. Write(Head(writes[c]).msg, Head(writes[c]).left - k) \in Rest
        BY <4>1, <4>2 DEF Write, Rest
      <4> QED BY <3>1, <4>1, <4>3, CompletionTypes
    <3> QED BY <1>3, <3>2, <3>3
  <2>2. \A k \in Conns \cup {NoConn} :
          /\ NoneIn(ready, k)' <=> NoneIn(ready, k)
          /\ AtMostOne(ready, k) => AtMostOne(ready, k)'
          /\ Elements(ready)' = Elements(ready) \cup {x}
    BY <2>1, QueuedJoins DEF Inv
  <2>3. UNCHANGED <<loop, io_vars, socket, reading, registry, peer>>
    BY <1>3 DEF PerformWrite, FailWrite
  <2> QED BY <2>1, <2>2, <2>3, Unconcerned
<1> QED BY <1>1, <1>2, <1>3 DEF Perform

\* The queue when a handler has run that starts nothing.
LEMMA AfterCurrent ==
  ASSUME Inv, ready # <<>>
  PROVE  \A k \in Conns \cup {NoConn} :
           /\ NoneIn(ready, k) => NoneIn(Tail(ready), k)
           /\ ~IsLoop(Current, k) => (NoneIn(Tail(ready), k) <=> NoneIn(ready, k))
           /\ AtMostOne(ready, k) => AtMostOne(Tail(ready), k)
           /\ IsLoop(Current, k) => ~NoneIn(ready, k)
           /\ AtMostOne(ready, k) /\ IsLoop(Current, k) => NoneIn(Tail(ready), k)
           /\ Elements(Tail(ready)) \subseteq Elements(ready) /\ Current \in Elements(ready)
BY Leaves DEF Inv

LEMMA CloseLoops ==
  ASSUME Inv, ready # <<>>, NEW S \in SUBSET Open, IsFiniteSet(S), NEW F \in Seq(Done),
         Close(S, Tail(ready) \o F), \A k \in Conns : NoneIn(F, k),
         \A k \in Conns \ S : IsLoop(Current, k) => socket[k] = "closed"
  PROVE  /\ RegistryIsOpenSessions'
         /\ \A c \in Conns : ReadLoop(c)'
         /\ NoneIn(ready, NoConn)' <=> NoneIn(Tail(ready), NoConn) /\ NoneIn(F, NoConn)
         /\ AtMostOne(Tail(ready), NoConn) /\ AtMostOne(F, NoConn)
              /\ (NoneIn(Tail(ready), NoConn) \/ NoneIn(F, NoConn))
                => AtMostOne(ready, NoConn)'
         /\ \A x \in Elements(ready)' : x.op = "accept" =>
              x \in Elements(Tail(ready)) \cup Elements(F)
         /\ \A c \in Conns : socket[c] = "none" => socket'[c] = "none"
<1> DEFINE T == Tail(ready)
           A == SetToSeq(AllAborted(S))
<1>1. /\ ready' = (T \o F) \o A /\ registry' = registry \ S
      /\ socket' = [c \in Conns |-> IF c \in S THEN "closed" ELSE socket[c]]
      /\ reading' = [c \in Conns |-> reading[c] /\ c \notin S]
  BY DEF Close, AllAborted
<1>2. S \in SUBSET Conns
  BY DEF Open
<1>3. T \in Seq(Done) /\ T \o F \in Seq(Done)
  BY CurrentType, ConcatProperties DEF Inv
<1>4. \A k \in Conns \cup {NoConn} :
        /\ A \in Seq(Done) /\ AtMostOne(A, k)
        /\ k = NoConn \/ k \notin S \/ ~reading[k] => NoneIn(A, k)
        /\ \A x \in Elements(A) : x.op # "accept"
  BY <1>2, AbortedLoops DEF Inv
<1> HIDE DEF T, A
<1>5. \A k \in Conns \cup {NoConn} :
        /\ NoneIn(T \o F, k) <=> NoneIn(T, k) /\ NoneIn(F, k)
        /\ AtMostOne(T, k) /\ AtMostOne(F, k) /\ (NoneIn(T, k) \/ NoneIn(F, k))
             => AtMostOne(T \o F, k)
        /\ Elements(T \o F) = Elements(T) \cup Elements(F)
  BY <1>3, Concatenated
<1>6. \A k \in Conns \cup {NoConn} :
        /\ NoneIn(ready, k)' <=> NoneIn(T \o F, k) /\ NoneIn(A, k)
        /\ AtMostOne(T \o F, k) /\ AtMostOne(A, k) /\ (NoneIn(T \o F, k) \/ NoneIn(A, k))
             => AtMostOne(ready, k)'
        /\ Elements(ready)' = Elements(T \o F) \cup Elements(A)
  BY <1>1, <1>3, <1>4, Concatenated
<1>7. RegistryIsOpenSessions'
  BY <1>1 DEF Inv, Loops, RegistryIsOpenSessions, Open
<1>8. ASSUME NEW c \in Conns
      PROVE  ReadLoop(c)'
  <2>1. /\ ReadLoop(c) /\ AtMostOne(ready, c)
        /\ reading[c] => NoneIn(ready, c)
        /\ socket[c] = "open" => reading[c] \/ ~NoneIn(ready, c)
        /\ socket[c] = "none" => ~reading[c] /\ NoneIn(ready, c)
    BY DEF Inv, Loops, ReadLoop
  <2>2. /\ NoneIn(ready, c) => NoneIn(T, c)
        /\ AtMostOne(T, c)
        /\ ~IsLoop(Current, c) => (NoneIn(T, c) <=> NoneIn(ready, c))
        /\ IsLoop(Current, c) => ~NoneIn(ready, c)
    BY <2>1, AfterCurrent DEF T
  <2>3. NoneIn(F, c) /\ AtMostOne(F, c)
    BY DEF NoneIn, AtMostOne
  <2>4. AtMostOne(T \o F, c) /\ (NoneIn(T \o F, c) <=> NoneIn(T, c))
    BY <1>5, <2>2, <2>3
  <2>5. CASE c \in S
    <3>1. NoneIn(T, c) \/ NoneIn(A, c)
      BY <1>4, <2>1, <2>2
    <3>2. AtMostOne(ready, c)'
      BY <1>4, <1>6, <2>4, <3>1
    <3>3. socket'[c] = "closed" /\ ~reading'[c]
      BY <1>1, <2>5
    <3> QED BY <3>2, <3>3 DEF ReadLoop
  <2>6. CASE c \notin S
    <3>1. /\ NoneIn(ready, c)' <=> NoneIn(T, c)
          /\ AtMostOne(ready, c)'
      BY <1>4, <1>6, <2>4, <2>6
    <3>2. socket'[c] = socket[c] /\ (reading'[c] <=> reading[c])
      BY <1>1, <2>6
    <3> QED BY <2>1, <2>2, <2>6, <3>1, <3>2 DEF ReadLoop
  <2> QED BY <2>5, <2>6
<1>9. \A c \in Conns : socket[c] = "none" => socket'[c] = "none"
  BY <1>1 DEF Open
<1>10. NoneIn(A, NoConn) /\ AtMostOne(A, NoConn)
  BY <1>4
<1>11. \A x \in Elements(ready)' : x.op = "accept" => x \in Elements(T) \cup Elements(F)
  BY <1>4, <1>5, <1>6
<1> QED BY <1>5, <1>6, <1>7, <1>8, <1>9, <1>10, <1>11 DEF T

LEMMA LoopsRunStop ==
  ASSUME Inv, RunStop
  PROVE  Loops'
<1> DEFINE F == IF accepting THEN <<AcceptFailed>> ELSE <<>>
<1>1. /\ Running /\ ready # <<>> /\ Current.op = "stop"
      /\ acceptor' = "closed" /\ accepting' = FALSE /\ backlog' = <<>>
      /\ peer' = [c \in Conns |-> IF \E i \in 1 .. Len(backlog) : backlog[i] = c
                                  THEN "reset" ELSE peer[c]]
      /\ Close(registry, Tail(ready) \o F) /\ UNCHANGED loop
  BY DEF RunStop
<1>2. /\ F \in Seq(Done) /\ (\A k \in Conns : NoneIn(F, k)) /\ AtMostOne(F, NoConn)
      /\ ~accepting => NoneIn(F, NoConn)
      /\ \A x \in Elements(F) : ~x.ok
  <2>1. AcceptFailed \in Done /\ AcceptFailed.op = "accept" /\ ~AcceptFailed.ok
    BY CompletionTypes DEF AcceptFailed, Completion
  <2>2. \A k \in Conns : ~IsLoop(AcceptFailed, k)
    BY <2>1, ConnAssumption DEF IsLoop
  <2>3. CASE accepting
    BY <2>1, <2>2, <2>3, Single
  <2>4. CASE ~accepting
    BY <2>1, <2>4, Single
  <2> QED BY <2>3, <2>4
<1> HIDE DEF F
<1>3. registry \in SUBSET Open /\ IsFiniteSet(registry)
  BY DEF Inv, Loops, RegistryIsOpenSessions, TypeInv
<1>4. \A k \in Conns \cup {NoConn} : ~IsLoop(Current, k)
  BY <1>1 DEF IsLoop
<1>5. /\ RegistryIsOpenSessions'
      /\ \A c \in Conns : ReadLoop(c)'
      /\ NoneIn(ready, NoConn)' <=> NoneIn(Tail(ready), NoConn) /\ NoneIn(F, NoConn)
      /\ AtMostOne(Tail(ready), NoConn) /\ AtMostOne(F, NoConn)
           /\ (NoneIn(Tail(ready), NoConn) \/ NoneIn(F, NoConn))
             => AtMostOne(ready, NoConn)'
      /\ \A x \in Elements(ready)' : x.op = "accept" =>
           x \in Elements(Tail(ready)) \cup Elements(F)
      /\ \A c \in Conns : socket[c] = "none" => socket'[c] = "none"
  BY <1>1, <1>2, <1>3, <1>4, CloseLoops
<1>6. AcceptLoop'
  <2>1. AtMostOne(Tail(ready), NoConn) /\ (accepting => NoneIn(Tail(ready), NoConn))
    BY <1>1, AfterCurrent DEF Inv, Loops, AcceptLoop
  <2>2. AtMostOne(ready, NoConn)'
    BY <1>2, <1>5, <2>1
  <2> QED BY <1>1, <2>2 DEF AcceptLoop, Running
<1>7. Late'
  BY <1>1 DEF Close, Late
<1>8. Fresh'
  <2>1. \A x \in Elements(ready)' : x.op = "accept" /\ x.ok =>
          x \in Elements(ready) /\ x.conn \in Conns
    <3>1. \A x \in Elements(ready)' : x.op = "accept" /\ x.ok => x \in Elements(ready)
      BY <1>1, <1>2, <1>5, AfterCurrent
    <3>2. \A i \in 1 .. Len(ready) : ready[i] \in Done
      BY ElementOfSeq DEF Inv, TypeInv
    <3> QED BY <3>1, <3>2 DEF Elements, Done
  <2>2. \A c \in Conns : (peer[c] # "new" => peer'[c] # "new")
                         /\ (peer'[c] = "new" => peer[c] = "new")
    BY <1>1
  <2>3. Len(backlog') = 0
    BY <1>1, EmptySeq
  <2> QED BY <1>5, <2>1, <2>2, <2>3 DEF Fresh, Waiting, Inv, Loops
<1> QED BY <1>5, <1>6, <1>7, <1>8 DEF Loops

LEMMA LoopsRunError ==
  ASSUME Inv, RunError
  PROVE  Loops'
<1> DEFINE c == Current.conn
<1>1. /\ Running /\ ready # <<>> /\ Current.op \in {"read", "write"}
      /\ Close(IfOpen(c), Tail(ready)) /\ UNCHANGED <<loop, acceptor, accepting, backlog, peer>>
  BY DEF RunError, io_vars, peer_vars
<1>2. c \in Conns /\ Tail(ready) \in Seq(Done) /\ Current \in Done
  BY <1>1, CurrentType DEF Inv
<1>3. ~IsLoop(Current, NoConn)
  BY <1>1 DEF IsLoop
<1>4. \A k \in Conns \ IfOpen(c) : IsLoop(Current, k) => socket[k] = "closed"
  <2> SUFFICES ASSUME NEW k \in Conns, k \notin IfOpen(c), IsLoop(Current, k)
               PROVE  socket[k] = "closed"
    OBVIOUS
  <2>1. k = c
    BY ConnAssumption DEF IsLoop
  <2>2. socket[k] # "open"
    BY <2>1 DEF IfOpen
  <2>3. socket[k] # "none"
    BY <1>1, AfterCurrent DEF Inv, Loops, ReadLoop
  <2> QED BY <2>2, <2>3 DEF Inv, TypeInv, TypeOK
<1>5. IfOpen(c) \in SUBSET Open /\ IsFiniteSet(IfOpen(c))
  <2>1. IfOpen(c) \in SUBSET {c}
    BY DEF IfOpen
  <2> QED BY <1>2, <2>1, FS_Singleton, FS_Subset DEF IfOpen, Open
<1>6. /\ Tail(ready) = Tail(ready) \o <<>> /\ <<>> \in Seq(Done)
      /\ (\A k : NoneIn(<<>>, k)) /\ Elements(<<>>) = {}
  <2>1. Tail(ready) \o <<>> = Tail(ready)
    BY <1>2, ConcatEmptySeq
  <2> QED BY <1>2, <2>1, Single
<1>7. Close(IfOpen(c), Tail(ready) \o <<>>)
  BY <1>1, <1>6
<1> HIDE DEF c
<1>8. /\ RegistryIsOpenSessions'
      /\ \A d \in Conns : ReadLoop(d)'
      /\ NoneIn(ready, NoConn)' <=> NoneIn(Tail(ready), NoConn) /\ NoneIn(<<>>, NoConn)
      /\ AtMostOne(Tail(ready), NoConn) /\ AtMostOne(<<>>, NoConn)
           /\ (NoneIn(Tail(ready), NoConn) \/ NoneIn(<<>>, NoConn))
             => AtMostOne(ready, NoConn)'
      /\ \A x \in Elements(ready)' : x.op = "accept" =>
           x \in Elements(Tail(ready)) \cup Elements(<<>>)
      /\ \A d \in Conns : socket[d] = "none" => socket'[d] = "none"
  BY <1>1, <1>4, <1>5, <1>6, <1>7, CloseLoops
<1>9. /\ NoneIn(ready, NoConn)' <=> NoneIn(ready, NoConn)
      /\ AtMostOne(ready, NoConn) => AtMostOne(ready, NoConn)'
  <2>1. AtMostOne(<<>>, NoConn)
    BY <1>2, Single
  <2> QED BY <1>1, <1>3, <1>6, <1>8, <2>1, AfterCurrent
<1>10. AcceptLoop'
  BY <1>1, <1>9, SameAcceptLoop DEF Inv, Loops
<1>11. Late'
  <2>1. registry' \subseteq registry
    BY <1>7 DEF Close
  <2> QED BY <1>1, <1>9, <2>1 DEF Inv, Loops, Late
<1>12. Fresh'
  <2>1. \A x \in Elements(ready)' : x.op = "accept" /\ x.ok => x \in Elements(ready)
    BY <1>1, <1>6, <1>8, AfterCurrent
  <2> QED BY <1>1, <1>8, <2>1, SameFresh DEF Inv, Loops, Fresh, Waiting
<1> QED BY <1>8, <1>10, <1>11, <1>12 DEF Loops

LEMMA LoopsRunAccept ==
  ASSUME Inv, RunAccept \/ ThrowInAccept \/ RunAcceptError
  PROVE  Loops'
<1> USE DEF io_vars, peer_vars
<1>1. /\ Running /\ ready # <<>> /\ Current.op = "accept" /\ ready' = Tail(ready)
      /\ UNCHANGED <<acceptor, backlog, peer>>
  BY DEF RunAccept, ThrowInAccept, RunAcceptError
<1>2. IsLoop(Current, NoConn) /\ \A k \in Conns : ~IsLoop(Current, k)
  BY <1>1, ConnAssumption DEF IsLoop
<1>3. /\ AtMostOne(ready, NoConn) /\ ~NoneIn(ready, NoConn) /\ ~accepting
      /\ AtMostOne(ready, NoConn)' /\ NoneIn(ready, NoConn)'
      /\ acceptor = "closed" => registry = {}
  BY <1>1, <1>2, AfterCurrent DEF Inv, Loops, AcceptLoop, Late
<1>4. \A k \in Conns : /\ NoneIn(ready, k)' <=> NoneIn(ready, k)
                       /\ AtMostOne(ready, k) => AtMostOne(ready, k)'
  BY <1>1, <1>2, AfterCurrent
<1>5. \A x \in Elements(ready)' : x.op # "accept"
  BY <1>3 DEF Elements, NoneIn, IsLoop
<1>6. CASE ThrowInAccept
  <2>1. loop' = "dead" /\ UNCHANGED <<accepting, socket, reading, registry>>
    BY <1>6 DEF ThrowInAccept
  <2>2. RegistryIsOpenSessions'
    BY <2>1 DEF Inv, Loops, RegistryIsOpenSessions, Open
  <2>3. \A k \in Conns : ReadLoop(k)'
    BY <1>4, <2>1, SameReadLoop DEF Inv, Loops
  <2>4. AcceptLoop'
    BY <1>1, <1>3, <2>1 DEF AcceptLoop, Running, Inv, Loops
  <2>5. Late'
    BY <1>1, <1>3, <2>1 DEF Late, Inv, Loops
  <2>6. Fresh'
    BY <1>1, <1>5, <2>1, SameFresh DEF Inv, Loops, Waiting
  <2> QED BY <2>2, <2>3, <2>4, <2>5, <2>6 DEF Loops
<1>7. CASE RunAcceptError
  <2>1. (accepting' <=> acceptor = "open") /\ UNCHANGED <<loop, socket, reading, registry>>
    BY <1>7 DEF RunAcceptError
  <2>2. RegistryIsOpenSessions'
    BY <2>1 DEF Inv, Loops, RegistryIsOpenSessions, Open
  <2>3. \A k \in Conns : ReadLoop(k)'
    BY <1>4, <2>1, SameReadLoop DEF Inv, Loops
  <2>4. AcceptLoop'
    BY <1>1, <1>3, <2>1 DEF AcceptLoop, Running
  <2>5. Late'
    BY <1>1, <1>3, <2>1 DEF Late, Inv, Loops
  <2>6. Fresh'
    BY <1>1, <1>5, <2>1, SameFresh DEF Inv, Loops, Waiting
  <2> QED BY <2>2, <2>3, <2>4, <2>5, <2>6 DEF Loops
<1>8. CASE RunAccept
  <2>0. PICK c \in Conns : c = Current.conn
    BY <1>1, <1>8, CurrentType DEF RunAccept, Inv
  <2>1. /\ (accepting' <=> acceptor = "open") /\ loop' = loop
        /\ socket' = [socket EXCEPT ![c] = "open"] /\ registry' = registry \cup {c}
        /\ reading' = [reading EXCEPT ![c] = TRUE] /\ Current.ok
    BY <1>8, <2>0 DEF RunAccept
  <2>3. Waiting(c) /\ \A j \in 1 .. Len(backlog) : backlog[j] # c
    BY <1>1, <2>0, <2>1, AfterCurrent DEF Inv, Loops, Fresh
  <2>4. /\ socket'[c] = "open" /\ reading'[c] = TRUE
        /\ \A d \in Conns : d # c => socket'[d] = socket[d] /\ reading'[d] = reading[d]
    BY <2>1 DEF Inv, TypeInv, TypeOK
  <2>5. RegistryIsOpenSessions'
    BY <2>1, <2>4 DEF Inv, Loops, RegistryIsOpenSessions, Open
  <2>6. \A k \in Conns : ReadLoop(k)'
    <3>1. ReadLoop(c)'
      BY <1>4, <2>3, <2>4 DEF Inv, Loops, ReadLoop, Waiting
    <3>2. ASSUME NEW d \in Conns, d # c
          PROVE  ReadLoop(d)'
      BY <1>4, <2>4, <3>2, SameReadLoop DEF Inv, Loops
    <3> QED BY <3>1, <3>2
  <2>7. AcceptLoop'
    BY <1>1, <1>3, <2>1 DEF AcceptLoop, Running
  <2>8. Late'
    BY <1>1, <1>3, <2>1 DEF Late
  <2>9. Fresh'
    <3>1. \A j \in 1 .. Len(backlog) : backlog[j] \in Conns
      BY ElementOfSeq DEF Inv, TypeInv, TypeOK
    <3>2. \A d \in Conns : d # c /\ Waiting(d) => Waiting(d)'
      BY <1>1, <2>4 DEF Waiting
    <3>3. \A d \in Conns : peer'[d] = "new" => socket'[d] = "none"
      BY <1>1, <2>3, <2>4 DEF Waiting, Inv, Loops, Fresh
    <3> QED BY <1>1, <1>5, <2>3, <3>1, <3>2, <3>3 DEF Inv, Loops, Fresh
  <2> QED BY <2>5, <2>6, <2>7, <2>8, <2>9 DEF Loops
<1> QED BY <1>6, <1>7, <1>8

LEMMA LoopsRunRead ==
  ASSUME Inv, RunRead
  PROVE  Loops'
<1> USE DEF io_vars, peer_vars
<1>1. /\ Running /\ ready # <<>> /\ Current.op = "read"
      /\ UNCHANGED <<loop, acceptor, accepting, backlog, socket, registry, peer>>
  BY DEF RunRead
<1>0. PICK c \in Conns : c = Current.conn
  BY <1>1, CurrentType DEF Inv
<1>2. c \in Conns /\ Tail(ready) \in Seq(Done)
  BY <1>1, CurrentType DEF Inv
<1> DEFINE x == Completion("read", c, FALSE, NoWrite)
<1>3. /\ IsLoop(Current, c) /\ ~IsLoop(Current, NoConn)
      /\ \A k \in Conns : k # c => ~IsLoop(Current, k)
  BY <1>0, <1>1, <1>2, ConnAssumption DEF IsLoop
<1>4. /\ ~reading[c] /\ ~NoneIn(ready, c) /\ NoneIn(Tail(ready), c)
      /\ AtMostOne(Tail(ready), c) /\ AtMostOne(ready, c)
      /\ socket[c] # "none"
  BY <1>1, <1>2, <1>3, AfterCurrent DEF Inv, Loops, ReadLoop
<1>5. CASE socket[c] = "open"
  <2>1. ready' = Tail(ready) /\ reading' = [reading EXCEPT ![c] = TRUE]
    BY <1>0, <1>5 DEF RunRead
  <2>2. reading'[c] = TRUE /\ \A d \in Conns : d # c => reading'[d] = reading[d]
    BY <1>2, <2>1 DEF Inv, TypeInv, TypeOK
  <2>3. \A k \in Conns \cup {NoConn} : k # c =>
          /\ NoneIn(ready, k)' <=> NoneIn(ready, k)
          /\ AtMostOne(ready, k) => AtMostOne(ready, k)'
    BY <1>1, <1>3, <2>1, AfterCurrent
  <2>4. c # NoConn
    BY <1>2, ConnAssumption
  <2>5. \A k \in Conns : ReadLoop(k)'
    <3>1. ReadLoop(c)'
      BY <1>1, <1>4, <1>5, <2>1, <2>2 DEF ReadLoop
    <3>2. ASSUME NEW d \in Conns, d # c
          PROVE  ReadLoop(d)'
      BY <1>1, <2>2, <2>3, <3>2, SameReadLoop DEF Inv, Loops
    <3> QED BY <3>1, <3>2
  <2>6. AcceptLoop'
    BY <1>1, <2>3, <2>4, SameAcceptLoop DEF Inv, Loops
  <2>7. Late'
    BY <1>1, <2>3, <2>4 DEF Inv, Loops, Late
  <2>8. Fresh'
    <3>1. Elements(ready)' \subseteq Elements(ready)
      BY <1>1, <2>1, AfterCurrent
    <3> QED BY <1>1, <3>1, SameFresh DEF Inv, Loops, Waiting
  <2>9. RegistryIsOpenSessions'
    BY <1>1 DEF Inv, Loops, RegistryIsOpenSessions, Open
  <2> QED BY <2>5, <2>6, <2>7, <2>8, <2>9 DEF Loops
<1>6. CASE socket[c] # "open"
  <2>1. ready' = Append(Tail(ready), x) /\ reading' = reading
    BY <1>0, <1>6 DEF RunRead
  <2>2. x \in Done /\ x.op = "read"
    BY <1>2, CompletionTypes DEF Completion
  <2>3. IsLoop(x, c) /\ \A k \in Conns \cup {NoConn} : k # c => ~IsLoop(x, k)
    BY <1>2, ConnAssumption DEF Completion, IsLoop
  <2> HIDE DEF x
  <2>4. \A k \in Conns \cup {NoConn} :
          /\ NoneIn(ready, k)' <=> NoneIn(Tail(ready), k) /\ ~IsLoop(x, k)
          /\ AtMostOne(Tail(ready), k) /\ (IsLoop(x, k) => NoneIn(Tail(ready), k))
               => AtMostOne(ready, k)'
          /\ Elements(ready)' = Elements(Tail(ready)) \cup {x}
    BY <1>2, <2>1, <2>2, Joins
  <2>5. ASSUME NEW k \in Conns \cup {NoConn}
        PROVE  /\ NoneIn(ready, k)' <=> NoneIn(ready, k)
               /\ AtMostOne(ready, k) => AtMostOne(ready, k)'
    <3>1. CASE k = c
      BY <1>4, <2>3, <2>4, <3>1
    <3>2. CASE k # c
      <4>1. ~IsLoop(Current, k) /\ ~IsLoop(x, k)
        BY <1>3, <2>3, <3>2
      <4> QED BY <1>1, <2>4, <4>1, AfterCurrent
    <3> QED BY <3>1, <3>2
  <2>6. \A y \in Elements(ready)' : y.op = "accept" => y \in Elements(ready)
    BY <1>1, <2>2, <2>4, AfterCurrent
  <2> QED BY <1>1, <2>1, <2>5, <2>6, Unconcerned
<1> QED BY <1>5, <1>6

LEMMA LoopsRunWrite ==
  ASSUME Inv, RunWrite
  PROVE  Loops'
<1> DEFINE c == Current.conn
           w == Current.write
           x == Completion("write", c, FALSE, w)
<1>1. /\ ready # <<>> /\ Current.op = "write"
      /\ UNCHANGED <<loop, acceptor, accepting, backlog, socket, registry, reading, peer>>
      /\ ready' = Append(Tail(ready), x) \/ ready' = Tail(ready)
  BY DEF RunWrite, ContinueWrite, WriteDone, io_vars, peer_vars
<1>2. x \in Done /\ x.op = "write" /\ Tail(ready) \in Seq(Done)
  <2>1. c \in Conns /\ w \in Rest
    BY <1>1, CurrentType DEF Inv
  <2> QED BY <2>1, <1>1, CurrentType, CompletionTypes DEF Completion, Inv
<1> HIDE DEF x
<1>3. \A k : ~IsLoop(Current, k) /\ ~IsLoop(x, k)
  BY <1>1, <1>2 DEF IsLoop
<1>4. \A k \in Conns \cup {NoConn} :
        /\ NoneIn(Tail(ready), k) <=> NoneIn(ready, k)
        /\ AtMostOne(ready, k) => AtMostOne(Tail(ready), k)
        /\ Elements(Tail(ready)) \subseteq Elements(ready)
  BY <1>1, <1>3, AfterCurrent
<1>5. \A k \in Conns \cup {NoConn} :
        /\ NoneIn(Append(Tail(ready), x), k) <=> NoneIn(Tail(ready), k)
        /\ AtMostOne(Tail(ready), k) => AtMostOne(Append(Tail(ready), x), k)
        /\ Elements(Append(Tail(ready), x)) = Elements(Tail(ready)) \cup {x}
  BY <1>2, <1>3, Joins
<1>6. \A k \in Conns \cup {NoConn} :
        /\ NoneIn(ready, k)' <=> NoneIn(ready, k)
        /\ AtMostOne(ready, k) => AtMostOne(ready, k)'
  BY <1>1, <1>4, <1>5
<1>7. \A y \in Elements(ready)' : y.op = "accept" => y \in Elements(ready)
  BY <1>1, <1>2, <1>4, <1>5
<1> QED BY <1>1, <1>6, <1>7, Unconcerned

LEMMA InvNext == Inv /\ [Next]_vars => Inv'
<1> SUFFICES ASSUME Inv, [Next]_vars PROVE Inv'
  OBVIOUS
<1>1. TypeInv'
  BY TypeNext DEF Inv
<1>2. Loops'
  <2>1. CASE UNCHANGED vars
    BY <2>1, Unconcerned DEF vars, io_vars, peer_vars
  <2>2. CASE Environment
    BY <1>1, <2>2, LoopsEnvironment
  <2>3. CASE Handle
    BY <2>3, LoopsRunStop, LoopsRunError, LoopsRunAccept, LoopsRunRead, LoopsRunWrite
    DEF Handle, RunWrite
  <2> QED BY <2>1, <2>2, <2>3, LoopsPerform DEF Next
<1> QED BY <1>1, <1>2 DEF Inv

LEMMA InvImplies == Inv => RegistryIsOpenSessions /\ LoopsArmed /\ AtMostOneLateSession
<1> SUFFICES ASSUME Inv PROVE RegistryIsOpenSessions /\ LoopsArmed /\ AtMostOneLateSession
  OBVIOUS
<1>1. OneReadOutstanding
  <2> SUFFICES ASSUME NEW c \in Conns
               PROVE  /\ \A i, j \in Handlers("read", c) : i = j
                      /\ reading[c] => Handlers("read", c) = {}
                      /\ c \in Open => reading[c] \/ Handlers("read", c) # {}
    BY DEF OneReadOutstanding
  <2>1. \A x : IsLoop(x, c) <=> x.op = "read" /\ x.conn = c
    BY ConnAssumption DEF IsLoop
  <2>2. ReadLoop(c)
    BY DEF Inv, Loops
  <2> QED BY <2>1, <2>2 DEF ReadLoop, NoneIn, AtMostOne, Handlers, Open
<1>2. OneAcceptOutstanding
  BY DEF Inv, Loops, AcceptLoop, NoneIn, AtMostOne, IsLoop, AcceptHandlers,
         OneAcceptOutstanding
<1> QED BY <1>1, <1>2 DEF Inv, Loops, Late, LoopsArmed, AtMostOneLateSession

LEMMA Invariant == Spec => []Inv
<1>1. Init => Inv
  BY TypeInit, LoopsInit DEF Inv
<1> QED BY <1>1, InvNext, PTL DEF Spec

\* The registry is the set of the open sessions between any two handlers, whichever of
\* a read error, a write error and stop() closed the others (TcpSession.cpp:42,
\* ClientRegistry.cpp:15).
THEOREM RegistryRight == Spec => []RegistryIsOpenSessions
BY Invariant, InvImplies, PTL

\* Each session has one read outstanding as long as its socket is open, and the server
\* one accept as long as the acceptor is open and the thread runs; neither ever has two
\* (TcpSession.cpp:74, TcpServer.cpp:84).
THEOREM LoopsNeverStopNorDouble == Spec => []LoopsArmed
BY Invariant, InvImplies, PTL

\* Once stop() has closed the acceptor no more than one session is left over: that of
\* the accept whose handler was queued then (TcpServer.cpp:24).
THEOREM OneLateSession == Spec => []AtMostOneLateSession
BY Invariant, InvImplies, PTL

-----------------------------------------------------------------------------
(* What the callbacks reported of a session.  Needs of Inv that a handler that *)
(* opens, reads or closes finds the socket new, not new, or open.              *)

Report(state, reports) ==
  /\ state = "none" => reports = <<>>
  /\ state # "none" => /\ reports # <<>> /\ reports[1] = "connected"
                       /\ \A i \in 1 .. Len(reports) : reports[i] = "connected" => i = 1
  /\ state # "closed" => \A i \in 1 .. Len(reports) : reports[i] # "disconnected"
  /\ state = "closed" =>
       \E k \in 1 .. Len(reports) :
         \A i \in 1 .. Len(reports) : reports[i] = "disconnected" <=> i = k

Reported(c) == Report(socket[c], events[c])

\* A report is added to those of a session.
LEMMA ReportAdded ==
  ASSUME NEW s, NEW r \in Seq({"connected", "data", "disconnected"}), Report(s, r)
  PROVE  /\ s = "none" => Report("open", Append(r, "connected"))
         /\ s = "open" => Report("closed", Append(r, "disconnected"))
         /\ s # "none" => Report(s, Append(r, "data"))
<1> DEFINE n == Len(r)
<1>1. n \in Nat
  BY LenProperties
<1>2. ASSUME NEW e \in {"connected", "data", "disconnected"}
      PROVE  /\ Len(Append(r, e)) = n + 1 /\ Append(r, e) # <<>>
             /\ \A i \in 1 .. n : Append(r, e)[i] = r[i]
             /\ Append(r, e)[n + 1] = e
  BY AppendProperties
<1>3. n + 1 \in 1 .. n + 1 /\ \A i \in 1 .. n + 1 : i \in 1 .. n \/ i = n + 1
  BY <1>1
<1>4. ASSUME s = "none"
      PROVE  Report("open", Append(r, "connected"))
  <2>1. n = 0
    BY <1>4, EmptySeq DEF Report
  <2>2. Append(r, "connected")[1] = "connected" /\ \A i \in 1 .. n + 1 : i = 1
    BY <1>2, <2>1
  <2> QED BY <1>2, <2>2 DEF Report
<1>5. ASSUME s # "none", NEW e \in {"data", "disconnected"}
      PROVE  /\ Append(r, e)[1] = "connected"
             /\ \A i \in 1 .. n + 1 : Append(r, e)[i] = "connected" => i = 1
  <2>1. /\ n >= 1 /\ r[1] = "connected"
        /\ \A i \in 1 .. n : r[i] = "connected" => i = 1
    BY <1>1, <1>5, EmptySeq DEF Report
  <2>2. 1 \in 1 .. n
    BY <1>1, <2>1
  <2> QED BY <1>2, <1>3, <2>1, <2>2
<1>6. ASSUME s = "open"
      PROVE  Report("closed", Append(r, "disconnected"))
  <2>1. \A i \in 1 .. n : r[i] # "disconnected"
    BY <1>6 DEF Report
  <2>2. \A i \in 1 .. n + 1 : Append(r, "disconnected")[i] = "disconnected" <=> i = n + 1
    BY <1>1, <1>2, <1>3, <2>1
  <2>3. \E k \in 1 .. n + 1 : \A i \in 1 .. n + 1 :
          Append(r, "disconnected")[i] = "disconnected" <=> i = k
    BY <1>3, <2>2
  <2>4. /\ Append(r, "disconnected") # <<>> /\ Append(r, "disconnected")[1] = "connected"
        /\ \A i \in 1 .. n + 1 : Append(r, "disconnected")[i] = "connected" => i = 1
        /\ Len(Append(r, "disconnected")) = n + 1
    BY <1>2, <1>5, <1>6
  <2> HIDE DEF n
  <2> QED BY <2>3, <2>4 DEF Report
<1>7. ASSUME s # "none"
      PROVE  Report(s, Append(r, "data"))
  <2>1. CASE s # "closed"
    <3>1. \A i \in 1 .. n + 1 : Append(r, "data")[i] # "disconnected"
      BY <1>2, <1>3, <2>1 DEF Report
    <3> QED BY <1>2, <1>5, <1>7, <2>1, <3>1 DEF Report
  <2>2. CASE s = "closed"
    <3>1. PICK k \in 1 .. n : \A i \in 1 .. n : r[i] = "disconnected" <=> i = k
      BY <2>2 DEF Report
    <3>2. k \in 1 .. n + 1 /\ k # n + 1
      BY <1>1
    <3>3. \A i \in 1 .. n + 1 : Append(r, "data")[i] = "disconnected" <=> i = k
      BY <1>2, <1>3, <3>1, <3>2
    <3>4. PICK t : t = Append(r, "data")
      OBVIOUS
    <3>5. /\ t # <<>> /\ t[1] = "connected" /\ Len(t) = n + 1
          /\ \A i \in 1 .. n + 1 : t[i] = "connected" => i = 1
          /\ \A i \in 1 .. n + 1 : t[i] = "disconnected" <=> i = k
      BY <1>2, <1>5, <1>7, <3>3, <3>4
    <3> HIDE DEF n
    <3>6. Report("closed", t)
      BY <3>2, <3>5 DEF Report
    <3> QED BY <2>2, <3>4, <3>6
  <2> QED BY <2>1, <2>2
<1> QED BY <1>4, <1>6, <1>7

LEMMA ReportedClose ==
  ASSUME Inv, NEW S \in SUBSET Open, NEW queue, Close(S, queue),
         NEW c \in Conns, Reported(c)
  PROVE  Reported(c)'
<1>1. CASE c \in S
  <2>1. socket[c] = "open" /\ socket'[c] = "closed" /\ events'[c] = Append(events[c], "disconnected")
    BY <1>1 DEF Close, Open
  <2> QED BY <2>1, ReportAdded DEF Reported, Inv, TypeInv, TypeOK
<1>2. CASE c \notin S
  <2>1. socket'[c] = socket[c] /\ events'[c] = events[c]
    BY <1>2 DEF Close
  <2> QED BY <2>1 DEF Reported
<1> QED BY <1>1, <1>2

LEMMA ReportedNext ==
  ASSUME Inv, [Next]_vars, NEW c \in Conns, Reported(c)
  PROVE  Reported(c)'
<1>1. CASE RunStop
  BY <1>1, ReportedClose DEF RunStop, Inv, Loops, RegistryIsOpenSessions
<1>2. CASE RunError
  <2>1. IfOpen(Current.conn) \in SUBSET Open
    BY <1>2, CurrentType DEF RunError, IfOpen, Open, Inv
  <2> QED BY <1>2, <2>1, ReportedClose DEF RunError
<1>3. CASE RunAccept
  <2>1. PICK d \in Conns : d = Current.conn
    BY <1>3, CurrentType DEF RunAccept, Inv
  <2>2. /\ ready # <<>> /\ Current.op = "accept" /\ Current.ok
        /\ socket' = [socket EXCEPT ![d] = "open"]
        /\ events' = [events EXCEPT ![d] = Append(@, "connected")]
    BY <1>3, <2>1 DEF RunAccept
  <2>3. socket[d] = "none"
    BY <2>1, <2>2, AfterCurrent DEF Inv, Loops, Fresh, Waiting
  <2>4. CASE c = d
    <3>1. socket'[c] = "open" /\ events'[c] = Append(events[c], "connected")
      BY <2>2, <2>4 DEF Inv, TypeInv, TypeOK
    <3> QED BY <2>3, <2>4, <3>1, ReportAdded DEF Reported, Inv, TypeInv, TypeOK
  <2>5. CASE c # d
    <3>1. socket'[c] = socket[c] /\ events'[c] = events[c]
      BY <2>2, <2>5 DEF Inv, TypeInv, TypeOK
    <3> QED BY <3>1 DEF Reported
  <2> QED BY <2>4, <2>5
<1>4. CASE RunRead
  <2>1. PICK d \in Conns : d = Current.conn
    BY <1>4, CurrentType DEF RunRead, Inv
  <2>2. /\ ready # <<>> /\ Current.op = "read" /\ socket' = socket
        /\ events' = [events EXCEPT ![d] = IF Len(@) > 0 /\ @[Len(@)] = "data"
                                           THEN @ ELSE Append(@, "data")]
    BY <1>4, <2>1 DEF RunRead
  <2>3. socket[d] # "none"
    <3>1. IsLoop(Current, d)
      BY <2>1, <2>2, ConnAssumption DEF IsLoop
    <3> QED BY <2>2, <3>1, AfterCurrent DEF Inv, Loops, ReadLoop
  <2>4. CASE events'[c] = events[c]
    BY <2>2, <2>4 DEF Reported
  <2>5. CASE c = d /\ events'[c] = Append(events[c], "data")
    BY <2>2, <2>3, <2>5, ReportAdded DEF Reported, Inv, TypeInv, TypeOK
  <2>6. events'[c] = events[c] \/ (c = d /\ events'[c] = Append(events[c], "data"))
    BY <2>2 DEF Inv, TypeInv, TypeOK
  <2> QED BY <2>4, <2>5, <2>6
<1>5. CASE UNCHANGED <<socket, events>>
  BY <1>5 DEF Reported
<1>6. \/ RunStop \/ RunError \/ RunAccept \/ RunRead
      \/ UNCHANGED <<socket, events>>
  BY DEF Next, vars, Environment, Start, Stop, Connect, PeerSends, PeerTakes, PeerGoes,
         Perform, PerformAccept, FailAccept, PerformRead, PerformWrite, FailWrite,
         Handle, ThrowInAccept, RunAcceptError, RunWrite, ContinueWrite, WriteDone
<1> QED BY <1>1, <1>2, <1>3, <1>4, <1>5, <1>6

LEMMA ReportedOnce == TypeInv /\ (\A c \in Conns : Reported(c)) => CallbacksOnce
<1> SUFFICES ASSUME TypeInv, \A c \in Conns : Reported(c), NEW c \in Conns
             PROVE  LET Count(e) ==
                          Cardinality({i \in 1 .. Len(events[c]) : events[c][i] = e})
                    IN  /\ Count("connected") = IF socket[c] = "none" THEN 0 ELSE 1
                        /\ Count("disconnected") = IF socket[c] = "closed" THEN 1 ELSE 0
                        /\ events[c] # <<>> => Head(events[c]) = "connected"
  BY DEF CallbacksOnce
<1> DEFINE At(e) == {i \in 1 .. Len(events[c]) : events[c][i] = e}
<1>1. Reported(c) /\ socket[c] \in {"none", "open", "closed"} /\ Len(events[c]) \in Nat
  BY LenProperties DEF TypeInv, TypeOK
<1>2. Cardinality({}) = 0 /\ \A i : Cardinality({i}) = 1
  BY FS_EmptySet, FS_Singleton
<1>3. Cardinality(At("connected")) = IF socket[c] = "none" THEN 0 ELSE 1
  <2>1. CASE socket[c] = "none"
    <3>1. At("connected") = {}
      BY <1>1, <2>1, EmptySeq DEF Reported, Report
    <3> QED BY <1>2, <2>1, <3>1
  <2>2. CASE socket[c] # "none"
    <3>1. events[c] # <<>> /\ events[c] \in Seq({"connected", "data", "disconnected"})
      BY <1>1, <2>2 DEF Reported, Report, TypeInv, TypeOK
    <3>2. 1 \in 1 .. Len(events[c])
      BY <1>1, <3>1, EmptySeq
    <3>3. At("connected") = {1}
      BY <1>1, <2>2, <3>2 DEF Reported, Report
    <3> QED BY <1>2, <2>2, <3>3
  <2> QED BY <2>1, <2>2
<1>4. Cardinality(At("disconnected")) = IF socket[c] = "closed" THEN 1 ELSE 0
  <2>1. CASE socket[c] = "closed"
    <3>1. PICK k \in 1 .. Len(events[c]) :
            \A i \in 1 .. Len(events[c]) : events[c][i] = "disconnected" <=> i = k
      BY <1>1, <2>1 DEF Reported, Report
    <3>2. At("disconnected") = {k}
      BY <3>1
    <3> QED BY <1>2, <2>1, <3>2
  <2>2. CASE socket[c] # "closed"
    <3>1. At("disconnected") = {}
      BY <1>1, <2>2 DEF Reported, Report
    <3> QED BY <1>2, <2>2, <3>1
  <2> QED BY <2>1, <2>2
<1>5. events[c] # <<>> => Head(events[c]) = "connected"
  BY <1>1 DEF Reported, Report
<1> QED BY <1>3, <1>4, <1>5

\* onConnected_ comes first and once, onDisconnected_ exactly once when the session is
\* closed, however many of its operations fail and whoever closes it (TcpSession.cpp:42).
THEOREM EachCallbackOnce == Spec => []CallbacksOnce
<1>1. Init => \A c \in Conns : Reported(c)
  BY EmptySeq DEF Init, Reported, Report
<1>2. Inv /\ (\A c \in Conns : Reported(c)) /\ [Next]_vars => (\A c \in Conns : Reported(c))'
  BY ReportedNext
<1>3. Inv /\ (\A c \in Conns : Reported(c)) => CallbacksOnce
  BY ReportedOnce DEF Inv
<1> QED BY <1>1, <1>2, <1>3, Invariant, PTL DEF Spec

-----------------------------------------------------------------------------
(* The pieces of a message.  An async_write is at one place at most, pending or in a *)
(* completion that will go on with it, and what it says is left is what the stream   *)
(* has not got.                                                                      *)

PieceSet == (1 .. MaxBroadcasts) \X (1 .. Pieces)
WrittenIn(s, m) == {n \in 1 .. Pieces : \E i \in 1 .. Len(s) : s[i] = <<m, n>>}
Rising(s) == \A i, j \in 1 .. Len(s) : i < j /\ s[i][1] = s[j][1] => s[i][2] < s[j][2]

OfMessage(m) == {w \in Unfinished : w.msg = m}
Progress(c, m) ==
  {x \in Done : x.op = "write" /\ x.ok /\ x.conn = c /\ x.write.msg = m}

OneWrite(c, m) ==
  /\ OneOf(writes[c], OfMessage(m))
  /\ OneOf(ready, Progress(c, m))
  /\ NoneOf(writes[c], OfMessage(m)) \/ NoneOf(ready, Progress(c, m))
  /\ m > broadcasts => NoneOf(writes[c], OfMessage(m)) /\ NoneOf(ready, Progress(c, m))

GoesOn(c, m) ==
  /\ \A w \in Elements(writes[c]) :
       w \in OfMessage(m) => WrittenIn(stream[c], m) = 1 .. Pieces - w.left
  /\ \A x \in Elements(ready) :
       x \in Progress(c, m) => WrittenIn(stream[c], m) = 1 .. Pieces - x.write.left
  /\ m > broadcasts => WrittenIn(stream[c], m) = {}
  /\ \A n \in WrittenIn(stream[c], m) : 1 .. n \subseteq WrittenIn(stream[c], m)

StreamRight(c) ==
  /\ Rising(stream[c])
  /\ \A m \in 1 .. MaxBroadcasts : OneWrite(c, m) /\ GoesOn(c, m)

\* The next k pieces of a message go behind those already there.
LEMMA PiecesAppended ==
  ASSUME NEW s \in Seq(PieceSet), NEW m \in 1 .. MaxBroadcasts, NEW first \in Nat,
         NEW k \in Nat, first + k <= Pieces, Rising(s), WrittenIn(s, m) = 1 .. first,
         NEW sent \in [1 .. k -> PieceSet], \A i \in 1 .. k : sent[i] = <<m, first + i>>
  PROVE  /\ Rising(s \o sent)
         /\ WrittenIn(s \o sent, m) = 1 .. first + k
         /\ \A l : l # m => WrittenIn(s \o sent, l) = WrittenIn(s, l)
<1> DEFINE n == Len(s)
           t == s \o sent
<1>0. sent \in Seq(PieceSet) /\ Len(sent) = k
  <2> HIDE DEF PieceSet
  <2> QED BY LenProperties
<1>1. /\ n \in Nat /\ Len(t) = n + k
      /\ \A i \in 1 .. n + k : t[i] = IF i <= n THEN s[i] ELSE sent[i - n]
  BY <1>0, ConcatProperties, LenProperties
<1> HIDE DEF n, t
<1>2. \A i \in 1 .. n + k :
        \/ i \in 1 .. n /\ t[i] = s[i]
        \/ i - n \in 1 .. k /\ t[i] = <<m, first + (i - n)>> /\ i > n
  BY <1>0, <1>1
<1>3. /\ \A i \in 1 .. n : i \in 1 .. n + k /\ t[i] = s[i] /\ s[i] \in PieceSet
      /\ \A j \in 1 .. k : j + n \in 1 .. n + k /\ t[j + n] = <<m, first + j>>
  <2>1. \A i \in 1 .. n : s[i] \in PieceSet
    BY ElementOfSeq DEF n
  <2>2. \A i \in 1 .. n : i \in 1 .. n + k /\ t[i] = s[i]
    BY <1>1
  <2>3. ASSUME NEW j \in 1 .. k
        PROVE  j + n \in 1 .. n + k /\ t[j + n] = <<m, first + j>>
    <3>1. /\ j + n \in 1 .. n + k /\ ~(j + n <= n) /\ (j + n) - n = j
      BY <1>1
    <3> QED BY <1>0, <1>1, <3>1
  <2> QED BY <2>1, <2>2, <2>3
<1>4. \A i \in 1 .. n : s[i][1] = m => s[i][2] \in 1 .. first
  <2> SUFFICES ASSUME NEW i \in 1 .. n, s[i][1] = m
               PROVE  s[i][2] \in 1 .. first
    OBVIOUS
  <2>1. s[i] = <<m, s[i][2]>> /\ s[i][2] \in 1 .. Pieces
    BY <1>3 DEF PieceSet
  <2>2. s[i][2] \in WrittenIn(s, m)
    BY <2>1 DEF WrittenIn, n
  <2> QED BY <2>2
<1>5. Rising(t)
  <2> SUFFICES ASSUME NEW i \in 1 .. n + k, NEW j \in 1 .. n + k, i < j, t[i][1] = t[j][1]
               PROVE  t[i][2] < t[j][2]
    BY <1>1 DEF Rising
  <2>1. CASE j \in 1 .. n /\ t[j] = s[j]
    <3>1. i \in 1 .. n /\ t[i] = s[i]
      BY <1>1, <1>3, <2>1
    <3> QED BY <2>1, <3>1 DEF Rising, n
  <2>2. CASE j - n \in 1 .. k /\ t[j] = <<m, first + (j - n)>> /\ j > n
    <3>1. t[j][1] = m /\ t[j][2] = first + (j - n)
      BY <2>2
    <3>2. CASE i \in 1 .. n /\ t[i] = s[i]
      <4>1. t[i][2] \in 1 .. first
        BY <1>4, <3>1, <3>2
      <4> QED BY <1>1, <2>2, <3>1, <4>1
    <3>3. CASE i - n \in 1 .. k /\ t[i] = <<m, first + (i - n)>>
      BY <1>1, <2>2, <3>1, <3>3
    <3> QED BY <1>2, <3>2, <3>3
  <2> QED BY <1>2, <2>1, <2>2
<1>6. WrittenIn(t, m) = 1 .. first + k
  <2>1. ASSUME NEW q \in WrittenIn(t, m)
        PROVE  q \in 1 .. first + k
    <3>1. PICK i \in 1 .. n + k : t[i] = <<m, q>>
      BY <1>1, <2>1 DEF WrittenIn
    <3>2. CASE i \in 1 .. n /\ t[i] = s[i]
      <4>1. s[i][1] = m /\ s[i][2] = q
        BY <3>1, <3>2
      <4>2. q \in 1 .. first
        BY <1>4, <3>2, <4>1
      <4> QED BY <4>2
    <3>3. CASE i - n \in 1 .. k /\ t[i] = <<m, first + (i - n)>>
      <4>1. q = first + (i - n)
        BY <3>1, <3>3
      <4> QED BY <1>1, <3>3, <4>1
    <3> QED BY <1>2, <3>2, <3>3
  <2>2. ASSUME NEW q \in 1 .. first + k
        PROVE  q \in WrittenIn(t, m)
    <3>1. CASE q <= first
      <4>1. q \in WrittenIn(s, m)
        BY <3>1
      <4>2. PICK i \in 1 .. n : s[i] = <<m, q>>
        BY <4>1 DEF WrittenIn, n
      <4>3. i \in 1 .. Len(t) /\ t[i] = <<m, q>> /\ q \in 1 .. Pieces
        BY <1>1, <1>3, <4>1, <4>2 DEF WrittenIn
      <4> QED BY <4>3 DEF WrittenIn
    <3>2. CASE q > first
      <4> DEFINE j == q - first
      <4>1. j \in 1 .. k /\ first + j = q /\ q \in 1 .. Pieces
        BY <3>2, BoundAssumption
      <4> HIDE DEF j
      <4>2. j + n \in 1 .. Len(t) /\ t[j + n] = <<m, q>>
        BY <1>1, <1>3, <4>1
      <4> QED BY <4>1, <4>2 DEF WrittenIn
    <3> QED BY <3>1, <3>2
  <2> QED BY <2>1, <2>2
<1>7. ASSUME NEW l, l # m
      PROVE  WrittenIn(t, l) = WrittenIn(s, l)
  <2>1. ASSUME NEW q \in 1 .. Pieces
        PROVE  (\E i \in 1 .. n + k : t[i] = <<l, q>>) <=> (\E i \in 1 .. n : s[i] = <<l, q>>)
    <3>1. \A i \in 1 .. n + k : t[i] = <<l, q>> => i \in 1 .. n /\ s[i] = <<l, q>>
      BY <1>2, <1>7
    <3>2. \A i \in 1 .. n : s[i] = <<l, q>> => i \in 1 .. n + k /\ t[i] = <<l, q>>
      BY <1>3
    <3> QED BY <3>1, <3>2
  <2> QED BY <1>1, <2>1 DEF WrittenIn, n
<1> QED BY <1>5, <1>6, <1>7 DEF t

\* What a step does to a sequence that adds to it no element of T.
AddsNone(s, t, T) ==
  /\ NoneOf(s, T) => NoneOf(t, T)
  /\ OneOf(s, T) => OneOf(t, T)
  /\ \A x \in Elements(t) : x \in T => x \in Elements(s)

LEMMA AddsNoneOf ==
  ASSUME NEW S, NEW s \in Seq(S), NEW T
  PROVE  /\ AddsNone(s, s, T)
         /\ AddsNone(s, <<>>, T)
         /\ \A x \in S : x \notin T => AddsNone(s, Append(s, x), T) /\ AddsNone(s, <<x>> \o s, T)
         /\ s # <<>> => AddsNone(s, Tail(s), T)
         /\ \A t \in Seq(S) : NoneOf(t, T) => AddsNone(s, s \o t, T)
<1>1. AddsNone(s, s, T) /\ AddsNone(s, <<>>, T)
  BY DEF AddsNone, NoneOf, OneOf, Elements
<1>2. ASSUME NEW x \in S, x \notin T, NEW t, t = Append(s, x) \/ t = <<x>> \o s
      PROVE  AddsNone(s, t, T)
  <2>1. /\ NoneOf(t, T) <=> NoneOf(s, T) /\ x \notin T
        /\ OneOf(s, T) /\ (x \in T => NoneOf(s, T)) => OneOf(t, T)
        /\ Elements(t) = Elements(s) \cup {x}
    BY <1>2, JoinsOf
  <2> QED BY <1>2, <2>1 DEF AddsNone
<1>3. s # <<>> => AddsNone(s, Tail(s), T)
  BY LeavesOf DEF AddsNone
<1>4. ASSUME NEW t \in Seq(S), NoneOf(t, T)
      PROVE  AddsNone(s, s \o t, T)
  <2>1. /\ NoneOf(s \o t, T) <=> NoneOf(s, T) /\ NoneOf(t, T)
        /\ OneOf(s, T) /\ OneOf(t, T) /\ (NoneOf(s, T) \/ NoneOf(t, T)) => OneOf(s \o t, T)
        /\ Elements(s \o t) = Elements(s) \cup Elements(t)
    BY ConcatenatedOf
  <2>2. OneOf(t, T) /\ \A x \in Elements(t) : x \notin T
    BY <1>4 DEF OneOf, NoneOf, Elements
  <2> QED BY <1>4, <2>1, <2>2 DEF AddsNone
<1> QED BY <1>1, <1>2, <1>3, <1>4

LEMMA AddsNoneTransitive ==
  ASSUME NEW s, NEW t, NEW u, NEW T, AddsNone(s, t, T), AddsNone(t, u, T)
  PROVE  AddsNone(s, u, T)
BY DEF AddsNone

\* Nothing that was aborted has gone well.
LEMMA AbortedNone ==
  ASSUME TypeInv, NEW S \in SUBSET Conns, IsFiniteSet(S), NEW c, NEW m
  PROVE  NoneOf(SetToSeq(AllAborted(S)), Progress(c, m))
<1>1. \A x \in AllAborted(S) : ~x.ok
  BY DEF AllAborted, Aborted, Completion
<1>2. SetToSeq(AllAborted(S)) \in Seq(AllAborted(S))
  BY AbortedFinite, SetToSeqLists
<1>3. \A i \in 1 .. Len(SetToSeq(AllAborted(S))) : SetToSeq(AllAborted(S))[i] \in AllAborted(S)
  BY <1>2, ElementOfSeq
<1> QED BY <1>1, <1>3 DEF NoneOf, Progress

\* Of the handlers and the operations only a write of c adds one that went well.
LEMMA NoProgress ==
  ASSUME TypeInv, RegistryIsOpenSessions, [Next]_vars, NEW c \in Conns, ~PerformWrite(c), NEW m
  PROVE  AddsNone(ready, ready', Progress(c, m))
<1> DEFINE T == Progress(c, m)
<1> SUFFICES AddsNone(ready, ready', T)
  OBVIOUS
<1>1. ready \in Seq(Done)
  BY DEF TypeInv
<1>2. ASSUME NEW x \in Done, x \notin T, NEW op, NEW d, ready' = Queued(op, d, x)
      PROVE  AddsNone(ready, ready', T)
  BY <1>1, <1>2, AddsNoneOf DEF Queued
<1>3. /\ \A x : x.op # "write" => x \notin T
      /\ \A x : ~x.ok => x \notin T
      /\ \A x : x.conn # c => x \notin T
  BY DEF Progress
<1>4. ASSUME ready # <<>>
      PROVE  /\ AddsNone(ready, Tail(ready), T)
             /\ \A x \in Done : x \notin T => AddsNone(ready, Append(Tail(ready), x), T)
  <2>1. AddsNone(ready, Tail(ready), T) /\ Tail(ready) \in Seq(Done)
    BY <1>1, <1>4, AddsNoneOf, CurrentType
  <2>2. \A x \in Done : x \notin T => AddsNone(Tail(ready), Append(Tail(ready), x), T)
    BY <2>1, AddsNoneOf
  <2> QED BY <2>1, <2>2, AddsNoneTransitive
<1> HIDE DEF T
<1>5. ASSUME NEW S \in SUBSET Conns, IsFiniteSet(S), NEW queue \in Seq(Done),
             AddsNone(ready, queue, T), Close(S, queue)
      PROVE  AddsNone(ready, ready', T)
  <2>1. ready' = queue \o SetToSeq(AllAborted(S))
    BY <1>5 DEF Close, AllAborted
  <2>2. /\ SetToSeq(AllAborted(S)) \in Seq(Done)
        /\ NoneOf(SetToSeq(AllAborted(S)), T)
    BY <1>5, AbortedType, AbortedNone DEF T
  <2>3. AddsNone(queue, ready', T)
    BY <2>1, <2>2, <1>5, AddsNoneOf
  <2> QED BY <1>5, <2>3, AddsNoneTransitive
<1>6. CASE UNCHANGED ready
  BY <1>1, <1>6, AddsNoneOf
<1>7. CASE Stop
  <2> DEFINE x == Completion("stop", NoConn, TRUE, NoWrite)
  <2>1. ready' = Append(ready, x) /\ x \in Done /\ x.op = "stop"
    BY <1>7, CompletionTypes DEF Stop, Completion
  <2> HIDE DEF x
  <2>2. x \notin T
    BY <1>3, <2>1
  <2> QED BY <1>1, <2>1, <2>2, AddsNoneOf
<1>8. CASE PerformAccept
  <2> DEFINE x == Accepted(Head(backlog))
  <2>1. ready' = Queued("accept", NoConn, x) /\ x.op = "accept"
    BY <1>8 DEF PerformAccept, Accepted, Completion
  <2>2. x \in Done
    BY <1>8, HeadTailProperties, CompletionTypes DEF PerformAccept, TypeInv, TypeOK
  <2> HIDE DEF x
  <2>3. x \notin T
    BY <1>3, <2>1
  <2> QED BY <1>2, <2>1, <2>2, <2>3
<1>9. CASE FailAccept
  <2>1. AcceptFailed.op = "accept"
    BY DEF AcceptFailed, Completion
  <2>2. AcceptFailed \in Done /\ AcceptFailed \notin T
    BY <1>3, <2>1, CompletionTypes
  <2>3. ready' = Queued("accept", NoConn, AcceptFailed)
    BY <1>9 DEF FailAccept
  <2> QED BY <1>2, <2>2, <2>3
<1>10. ASSUME NEW d \in Conns, PerformRead(d)
       PROVE  AddsNone(ready, ready', T)
  <2>1. PICK ok \in BOOLEAN : ready' = Queued("read", d, Completion("read", d, ok, NoWrite))
    BY <1>10 DEF PerformRead
  <2>2. Completion("read", d, ok, NoWrite).op = "read"
    BY DEF Completion
  <2> QED BY <1>2, <1>3, <2>1, <2>2, CompletionTypes
<1>11. ASSUME NEW d \in Conns, PerformWrite(d)
       PROVE  AddsNone(ready, ready', T)
  <2> DEFINE w == Head(writes[d])
             k == IF w.left <= SendRoom - unsent[d] THEN w.left ELSE SendRoom - unsent[d]
             x == Completion("write", d, TRUE, Write(w.msg, w.left - k))
  <2>1. ready' = Queued("write", d, x) /\ x.conn = d /\ d # c
    BY <1>11 DEF PerformWrite, Completion
  <2>2. /\ w.msg \in 1 .. MaxBroadcasts /\ w.left \in 1 .. Pieces
        /\ unsent[d] \in 0 .. SendRoom /\ unsent[d] < SendRoom
    BY <1>11, WriteInFront DEF PerformWrite, Unfinished, TypeInv, TypeOK
  <2>3. w.left - k \in 0 .. Pieces
    <3> HIDE DEF w
    <3> QED BY <2>2, BoundAssumption, Share
  <2> HIDE DEF w, k
  <2>4. x \in Done
    BY <2>2, <2>3, CompletionTypes DEF Write, Rest
  <2> HIDE DEF x
  <2> QED BY <1>2, <1>3, <2>1, <2>4
<1>12. ASSUME NEW d \in Conns, FailWrite(d)
       PROVE  AddsNone(ready, ready', T)
  <2> DEFINE x == Completion("write", d, FALSE, Head(writes[d]))
  <2>1. ready' = Queued("write", d, x) /\ ~x.ok
    BY <1>12 DEF FailWrite, Completion
  <2>2. x \in Done
    BY <1>12, WriteInFront, Subtypes, CompletionTypes DEF FailWrite
  <2> HIDE DEF x
  <2> QED BY <1>2, <1>3, <2>1, <2>2
<1>13. CASE RunStop
  <2> DEFINE F == IF accepting THEN <<AcceptFailed>> ELSE <<>>
  <2>1. F \in Seq(Done) /\ NoneOf(F, T)
    <3>1. AcceptFailed \in Done /\ AcceptFailed \notin T
      BY <1>3, CompletionTypes DEF AcceptFailed, Completion
    <3> QED BY <3>1, EmptySeq DEF NoneOf
  <2>2. ready # <<>> /\ Close(registry, Tail(ready) \o F)
    BY <1>13 DEF RunStop
  <2> HIDE DEF F
  <2>3. Tail(ready) \in Seq(Done) /\ AddsNone(ready, Tail(ready), T)
    BY <1>4, <2>2, CurrentType
  <2>4. Tail(ready) \o F \in Seq(Done) /\ AddsNone(ready, Tail(ready) \o F, T)
    BY <2>1, <2>3, AddsNoneOf, AddsNoneTransitive, ConcatProperties
  <2>5. registry \in SUBSET Conns /\ IsFiniteSet(registry)
    BY DEF TypeInv, TypeOK
  <2>6. PICK queue : queue = Tail(ready) \o F
    OBVIOUS
  <2> QED BY <1>5, <2>2, <2>4, <2>5, <2>6
<1>14. CASE RunError
  <2>1. ready # <<>> /\ Close(IfOpen(Current.conn), Tail(ready)) /\ Current.conn \in Conns
    BY <1>14, CurrentType DEF RunError
  <2>2. IfOpen(Current.conn) \in SUBSET Conns /\ IsFiniteSet(IfOpen(Current.conn))
    BY <2>1, FS_Singleton, FS_Subset DEF IfOpen
  <2>3. Tail(ready) \in Seq(Done) /\ AddsNone(ready, Tail(ready), T)
    BY <1>4, <2>1, CurrentType
  <2>4. PICK queue \in Seq(Done) : queue = Tail(ready)
    BY <2>3
  <2>5. PICK S \in SUBSET Conns : S = IfOpen(Current.conn)
    BY <2>2
  <2> QED BY <1>5, <2>1, <2>2, <2>3, <2>4, <2>5
<1>15. CASE RunAccept \/ ThrowInAccept \/ RunAcceptError
  <2>1. ready # <<>> /\ ready' = Tail(ready)
    BY <1>15 DEF RunAccept, ThrowInAccept, RunAcceptError
  <2> QED BY <1>4, <2>1
<1>16. CASE RunRead
  <2> DEFINE x == Completion("read", Current.conn, FALSE, NoWrite)
  <2>1. ready # <<>> /\ (ready' = Tail(ready) \/ ready' = Append(Tail(ready), x)) /\ x.op = "read"
    BY <1>16 DEF RunRead, Completion
  <2>2. x \in Done
    BY <1>16, CurrentType, CompletionTypes DEF RunRead
  <2> HIDE DEF x
  <2>3. x \notin T
    BY <1>3, <2>1
  <2> QED BY <1>4, <2>1, <2>2, <2>3
<1>17. CASE RunWrite
  <2> DEFINE x == Completion("write", Current.conn, FALSE, Current.write)
  <2>1. ready # <<>> /\ (ready' = Tail(ready) \/ ready' = Append(Tail(ready), x)) /\ ~x.ok
    BY <1>17 DEF RunWrite, ContinueWrite, WriteDone, Completion
  <2>2. x \in Done
    BY <1>17, CurrentType, CompletionTypes DEF RunWrite, ContinueWrite, WriteDone
  <2> HIDE DEF x
  <2>3. x \notin T
    BY <1>3, <2>1
  <2> QED BY <1>4, <2>1, <2>2, <2>3
<1>18. \/ UNCHANGED ready \/ Stop \/ PerformAccept \/ FailAccept
       \/ \E d \in Conns : PerformRead(d) \/ PerformWrite(d) \/ FailWrite(d)
       \/ RunStop \/ RunError \/ RunAccept \/ ThrowInAccept \/ RunAcceptError
       \/ RunRead \/ RunWrite
  BY DEF Next, vars, Environment, Start, Connect, PeerSends, PeerTakes, PeerGoes, Perform,
         Handle, RunWrite
<1> QED BY <1>6, <1>7, <1>8, <1>9, <1>10, <1>11, <1>12, <1>13, <1>14, <1>15, <1>16, <1>17,
           <1>18

\* The one element of T that joins a sequence, or leaves it from the front.
OnlyOne(s, T, x) == OneOf(s, T) /\ \A y \in Elements(s) : y \in T => y = x

LEMMA OnlyOneOf ==
  ASSUME NEW S, NEW s \in Seq(S), NEW T
  PROVE  /\ \A x \in S : x \in T /\ NoneOf(s, T) =>
              OnlyOne(Append(s, x), T, x) /\ OnlyOne(<<x>> \o s, T, x)
         /\ s # <<>> /\ Head(s) \in T => ~NoneOf(s, T) /\ Head(s) \in Elements(s)
         /\ s # <<>> /\ Head(s) \in T /\ OneOf(s, T) => NoneOf(Tail(s), T)
<1>1. ASSUME NEW x \in S, x \in T, NoneOf(s, T), NEW t, t = Append(s, x) \/ t = <<x>> \o s
      PROVE  OnlyOne(t, T, x)
  <2>1. /\ NoneOf(t, T) <=> NoneOf(s, T) /\ x \notin T
        /\ OneOf(s, T) /\ (x \in T => NoneOf(s, T)) => OneOf(t, T)
        /\ Elements(t) = Elements(s) \cup {x}
    BY <1>1, JoinsOf
  <2>2. OneOf(s, T) /\ \A y \in Elements(s) : y \notin T
    BY <1>1 DEF OneOf, NoneOf, Elements
  <2> QED BY <1>1, <2>1, <2>2 DEF OnlyOne
<1>2. s # <<>> =>
        /\ NoneOf(s, T) <=> NoneOf(Tail(s), T) /\ Head(s) \notin T
        /\ OneOf(s, T) => OneOf(Tail(s), T)
        /\ OneOf(s, T) /\ Head(s) \in T => NoneOf(Tail(s), T)
        /\ Elements(s) = Elements(Tail(s)) \cup {Head(s)}
  BY LeavesOf
<1> QED BY <1>1, <1>2

MessageRight(c, m) == OneWrite(c, m) /\ GoesOn(c, m)

\* A step that touches no write of the message.
LEMMA MessageUntouched ==
  ASSUME TypeInv, TypeInv', NEW c \in Conns, NEW m \in 1 .. MaxBroadcasts, MessageRight(c, m),
         broadcasts' >= broadcasts,
         WrittenIn(stream[c], m)' = WrittenIn(stream[c], m),
         AddsNone(writes[c], writes[c]', OfMessage(m)),
         AddsNone(ready, ready', Progress(c, m))
  PROVE  MessageRight(c, m)'
<1>1. m > broadcasts' => m > broadcasts
  BY DEF TypeInv, TypeOK
<1> QED BY <1>1 DEF AddsNone, MessageRight, OneWrite, GoesOn

\* The message is broadcast: the whole of it is to be written.
LEMMA MessageStarts ==
  ASSUME TypeInv, TypeInv', NEW c \in Conns, NEW m \in 1 .. MaxBroadcasts, MessageRight(c, m),
         m = broadcasts + 1, broadcasts' = broadcasts + 1,
         stream'[c] = stream[c],
         writes'[c] = Append(writes[c], Write(m, Pieces)),
         AddsNone(ready, ready', Progress(c, m))
  PROVE  MessageRight(c, m)'
<1>1. Write(m, Pieces) \in Unfinished /\ Write(m, Pieces).left = Pieces
  BY BoundAssumption DEF Write, Unfinished
<1>2. writes[c] \in Seq(Unfinished) /\ broadcasts \in Nat
  BY DEF TypeInv, TypeOK
<1>3. /\ NoneOf(writes[c], OfMessage(m)) /\ NoneOf(ready, Progress(c, m))
      /\ WrittenIn(stream[c], m) = {}
  BY <1>2 DEF MessageRight, OneWrite, GoesOn
<1>4. NoneOf(ready', Progress(c, m)) /\ OneOf(ready', Progress(c, m))
  BY <1>3 DEF AddsNone, NoneOf, OneOf
<1>5. \A x \in Elements(ready') : x \notin Progress(c, m)
  BY <1>4 DEF Elements, NoneOf
<1>6. Write(m, Pieces) \in OfMessage(m)
  BY <1>1 DEF OfMessage, Write
<1>7. OnlyOne(writes'[c], OfMessage(m), Write(m, Pieces))
  <2>1. PICK T : T = OfMessage(m)
    OBVIOUS
  <2>2. PICK s \in Seq(Unfinished) : s = writes[c]
    BY <1>1, <1>2
  <2>3. PICK v \in Unfinished : v = Write(m, Pieces)
    BY <1>1
  <2>4. OnlyOne(Append(s, v), T, v)
    BY <1>3, <1>6, <2>1, <2>2, <2>3, OnlyOneOf
  <2> QED BY <2>1, <2>2, <2>3, <2>4
<1>8. 1 .. Pieces - Pieces = {} /\ ~(m > broadcasts')
  BY <1>2, BoundAssumption
<1>9. \A w \in Elements(writes'[c]) : w \in OfMessage(m) =>
        WrittenIn(stream'[c], m) = 1 .. Pieces - w.left
  BY <1>1, <1>3, <1>7, <1>8 DEF OnlyOne
<1>10. OneWrite(c, m)'
  BY <1>4, <1>7, <1>8 DEF OneWrite, OnlyOne
<1>11. GoesOn(c, m)'
  BY <1>3, <1>5, <1>8, <1>9 DEF GoesOn
<1> QED BY <1>10, <1>11 DEF MessageRight

\* async_write goes on: the completion becomes a pending write.
LEMMA MessageGoesOn ==
  ASSUME TypeInv, TypeInv', NEW c \in Conns, NEW m \in 1 .. MaxBroadcasts, MessageRight(c, m),
         broadcasts' = broadcasts, stream'[c] = stream[c],
         ready # <<>>, Current \in Progress(c, m), Current.write \in Unfinished,
         writes'[c] = Append(writes[c], Current.write),
         ready' = Tail(ready)
  PROVE  MessageRight(c, m)'
<1> DEFINE w == Current.write
<1>1. ready \in Seq(Done) /\ writes[c] \in Seq(Unfinished)
  BY DEF TypeInv
<1>2. w \in OfMessage(m)
  BY DEF Progress, OfMessage
<1>3. Current \in Elements(ready) /\ ~NoneOf(ready, Progress(c, m))
  BY <1>1, OnlyOneOf DEF Current
<1>4. NoneOf(writes[c], OfMessage(m)) /\ ~(m > broadcasts) /\ OneOf(ready, Progress(c, m))
  BY <1>3 DEF MessageRight, OneWrite
<1>5. NoneOf(ready', Progress(c, m))
  BY <1>1, <1>4, OnlyOneOf DEF Current
<1>6. OneOf(ready', Progress(c, m)) /\ \A x \in Elements(ready') : x \notin Progress(c, m)
  BY <1>5 DEF OneOf, NoneOf, Elements
<1>7. OnlyOne(writes'[c], OfMessage(m), w)
  <2>1. PICK T : T = OfMessage(m)
    OBVIOUS
  <2>2. PICK s \in Seq(Unfinished) : s = writes[c]
    BY <1>1
  <2>3. PICK v \in Unfinished : v = w
    BY <1>1
  <2>4. OnlyOne(Append(s, v), T, v)
    BY <1>2, <1>4, <2>1, <2>2, <2>3, OnlyOneOf
  <2> QED BY <2>1, <2>2, <2>3, <2>4
<1> HIDE DEF w
<1>9. WrittenIn(stream[c], m) = 1 .. Pieces - w.left
  BY <1>3 DEF MessageRight, GoesOn, w
<1>10. OneWrite(c, m)'
  BY <1>4, <1>5, <1>6, <1>7 DEF OneWrite, OnlyOne
<1>11. \A v \in Elements(writes'[c]) : v \in OfMessage(m) =>
         WrittenIn(stream'[c], m) = 1 .. Pieces - v.left
  BY <1>7, <1>9 DEF OnlyOne
<1>12. GoesOn(c, m)'
  BY <1>4, <1>6, <1>11 DEF GoesOn, MessageRight
<1> QED BY <1>10, <1>12 DEF MessageRight

\* The socket takes k pieces: the pending write becomes a completion.
LEMMA MessageWritten ==
  ASSUME TypeInv, TypeInv', NEW c \in Conns, NEW m \in 1 .. MaxBroadcasts, MessageRight(c, m),
         writes[c] # <<>>, Head(writes[c]).msg = m,
         NEW k \in Nat, k <= Head(writes[c]).left,
         NEW x \in Progress(c, m), x.write.left = Head(writes[c]).left - k,
         WrittenIn(stream'[c], m) = 1 .. (Pieces - Head(writes[c]).left) + k,
         broadcasts' = broadcasts, writes'[c] = Tail(writes[c]),
         ready' = Append(ready, x) \/ ready' = <<x>> \o ready
  PROVE  MessageRight(c, m)'
<1> DEFINE w == Head(writes[c])
<1>1. ready \in Seq(Done) /\ writes[c] \in Seq(Unfinished) /\ x \in Done
  BY DEF TypeInv, Progress
<1>2. w \in Unfinished /\ w \in OfMessage(m) /\ w.left \in 1 .. Pieces
  BY WriteInFront DEF OfMessage, Unfinished
<1>3. ~NoneOf(writes[c], OfMessage(m))
  BY <1>1, <1>2, OnlyOneOf
<1>4. NoneOf(ready, Progress(c, m)) /\ ~(m > broadcasts) /\ OneOf(writes[c], OfMessage(m))
  BY <1>3 DEF MessageRight, OneWrite
<1>5. NoneOf(writes'[c], OfMessage(m))
  BY <1>1, <1>2, <1>4, OnlyOneOf
<1>6. OneOf(writes'[c], OfMessage(m)) /\ \A v \in Elements(writes'[c]) : v \notin OfMessage(m)
  BY <1>5 DEF OneOf, NoneOf, Elements
<1>7. OnlyOne(ready', Progress(c, m), x)
  <2>1. PICK T : T = Progress(c, m)
    OBVIOUS
  <2>2. OnlyOne(Append(ready, x), T, x) /\ OnlyOne(<<x>> \o ready, T, x)
    BY <1>1, <1>4, <2>1, OnlyOneOf
  <2> QED BY <2>1, <2>2
<1> HIDE DEF w
<1>9. WrittenIn(stream'[c], m) = 1 .. Pieces - x.write.left
  <2>1. (Pieces - w.left) + k = Pieces - (w.left - k)
    BY <1>2, BoundAssumption
  <2> QED BY <2>1 DEF w
<1>10. OneWrite(c, m)'
  BY <1>4, <1>5, <1>6, <1>7 DEF OneWrite, OnlyOne
<1>11. \A y \in Elements(ready') : y \in Progress(c, m) =>
         WrittenIn(stream'[c], m) = 1 .. Pieces - y.write.left
  BY <1>7, <1>9 DEF OnlyOne
<1>12. \A n \in WrittenIn(stream'[c], m) : 1 .. n \subseteq WrittenIn(stream'[c], m)
  <2>1. (Pieces - w.left) + k \in Int
    BY <1>2, BoundAssumption
  <2>2. PICK l \in Int : WrittenIn(stream'[c], m) = 1 .. l
    BY <2>1 DEF w
  <2>3. \A n \in 1 .. l : 1 .. n \subseteq 1 .. l
    OBVIOUS
  <2> QED BY <2>2, <2>3
<1>13. GoesOn(c, m)'
  BY <1>4, <1>6, <1>11, <1>12 DEF GoesOn
<1> QED BY <1>10, <1>13 DEF MessageRight

\* What a step does to the pending writes of a session and to its stream, unless it is
\* a write that the socket takes or one that goes on.
Keeps(c) ==
  /\ broadcasts' = broadcasts /\ stream'[c] = stream[c]
  /\ \/ writes'[c] = writes[c] \/ writes'[c] = <<>>
     \/ writes[c] # <<>> /\ writes'[c] = Tail(writes[c])

Broadcasts(c) ==
  /\ broadcasts' = broadcasts + 1 /\ broadcasts < MaxBroadcasts /\ stream'[c] = stream[c]
  /\ \/ writes'[c] = writes[c]
     \/ writes'[c] = Append(writes[c], Write(broadcasts + 1, Pieces))

GoesOnWith(c) ==
  /\ RunWrite /\ Current.conn = c /\ Current.write.left > 0
  /\ writes'[c] = Append(writes[c], Current.write) /\ ready' = Tail(ready)

LEMMA StreamSteps ==
  ASSUME Inv, [Next]_vars, NEW c \in Conns
  PROVE  PerformWrite(c) \/ Keeps(c) \/ Broadcasts(c) \/ GoesOnWith(c)
<1> USE DEF Keeps
<1>0. stream \in [Conns -> Seq(PieceSet)] /\ writes \in [Conns -> Seq(Unfinished)]
  BY DEF Inv, TypeInv, TypeOK, PieceSet
<1>1. CASE UNCHANGED <<writes, stream, broadcasts>>
  BY <1>1
<1>2. ASSUME NEW d \in Conns, PerformWrite(d)
      PROVE  PerformWrite(c) \/ Keeps(c)
  BY <1>0, <1>2 DEF PerformWrite
<1>3. ASSUME NEW d \in Conns, FailWrite(d)
      PROVE  Keeps(c)
  BY <1>0, <1>3 DEF FailWrite, peer_vars
<1>4. ASSUME NEW S, NEW queue, Close(S, queue), UNCHANGED <<stream, broadcasts>>
      PROVE  Keeps(c)
  BY <1>4 DEF Close
<1>5. ASSUME NEW targets, BroadcastOrNot(targets), UNCHANGED stream
      PROVE  Keeps(c) \/ Broadcasts(c)
  <2>1. CASE UNCHANGED <<writes, broadcasts>>
    BY <2>1, <1>5
  <2>2. CASE /\ broadcasts < MaxBroadcasts /\ broadcasts' = broadcasts + 1
             /\ writes' = [d \in Conns |-> IF d \in targets
                                           THEN Append(writes[d], Write(broadcasts + 1, Pieces))
                                           ELSE writes[d]]
    BY <2>2, <1>5 DEF Broadcasts
  <2> QED BY <1>5, <2>1, <2>2 DEF BroadcastOrNot
<1>6. CASE RunStop
  BY <1>4, <1>6 DEF RunStop
<1>7. CASE RunError
  BY <1>4, <1>7 DEF RunError
<1>8. CASE RunAccept
  BY <1>5, <1>8 DEF RunAccept
<1>9. CASE RunRead
  BY <1>5, <1>9 DEF RunRead
<1>10. CASE RunWrite
  <2>1. UNCHANGED <<stream, broadcasts>>
    BY <1>10 DEF RunWrite, ContinueWrite, WriteDone
  <2>2. CASE UNCHANGED writes
    BY <2>1, <2>2
  <2>3. CASE /\ Current.write.left > 0
             /\ writes' = [writes EXCEPT ![Current.conn] = Append(@, Current.write)]
             /\ ready' = Tail(ready)
    <3>1. CASE c = Current.conn
      BY <1>0, <1>10, <2>3, <3>1 DEF GoesOnWith
    <3>2. CASE c # Current.conn
      BY <1>0, <2>1, <2>3, <3>2
    <3> QED BY <3>1, <3>2
  <2> QED BY <1>10, <2>2, <2>3 DEF RunWrite, ContinueWrite, WriteDone
<1>11. \/ UNCHANGED <<writes, stream, broadcasts>>
       \/ \E d \in Conns : PerformWrite(d) \/ FailWrite(d)
       \/ RunStop \/ RunError \/ RunAccept \/ RunRead \/ RunWrite
  BY DEF Next, vars, Environment, Start, Stop, Connect, PeerSends, PeerTakes, PeerGoes,
         Perform, PerformAccept, FailAccept, PerformRead, Handle, ThrowInAccept,
         RunAcceptError, RunWrite
<1> QED BY <1>1, <1>2, <1>3, <1>6, <1>7, <1>8, <1>9, <1>10, <1>11

LEMMA StreamKeeps ==
  ASSUME Inv, Inv', [Next]_vars, NEW c \in Conns, StreamRight(c), ~PerformWrite(c), Keeps(c)
  PROVE  StreamRight(c)'
<1>1. Rising(stream[c])'
  BY DEF Keeps, StreamRight
<1>2. ASSUME NEW m \in 1 .. MaxBroadcasts
      PROVE  MessageRight(c, m)'
  <2>1. MessageRight(c, m) /\ WrittenIn(stream[c], m)' = WrittenIn(stream[c], m)
    BY DEF Keeps, StreamRight, MessageRight
  <2>2. AddsNone(ready, ready', Progress(c, m))
    BY NoProgress DEF Inv, Loops
  <2>3. AddsNone(writes[c], writes[c]', OfMessage(m))
    <3>1. PICK s \in Seq(Unfinished) : s = writes[c]
      BY DEF Inv, TypeInv
    <3>2. /\ AddsNone(s, s, OfMessage(m)) /\ AddsNone(s, <<>>, OfMessage(m))
          /\ s # <<>> => AddsNone(s, Tail(s), OfMessage(m))
      BY AddsNoneOf
    <3> QED BY <3>1, <3>2 DEF Keeps
  <2>4. broadcasts' >= broadcasts
    BY DEF Keeps, Inv, TypeInv, TypeOK
  <2> QED BY <2>1, <2>2, <2>3, <2>4, MessageUntouched DEF Inv
<1> QED BY <1>1, <1>2 DEF StreamRight, MessageRight

LEMMA StreamBroadcasts ==
  ASSUME Inv, Inv', [Next]_vars, NEW c \in Conns, StreamRight(c), ~PerformWrite(c),
         Broadcasts(c)
  PROVE  StreamRight(c)'
<1>1. Rising(stream[c])'
  BY DEF Broadcasts, StreamRight
<1>2. ASSUME NEW m \in 1 .. MaxBroadcasts
      PROVE  MessageRight(c, m)'
  <2>1. MessageRight(c, m) /\ WrittenIn(stream[c], m)' = WrittenIn(stream[c], m)
    BY DEF Broadcasts, StreamRight, MessageRight
  <2>2. AddsNone(ready, ready', Progress(c, m))
    BY NoProgress DEF Inv, Loops
  <2>3. broadcasts' >= broadcasts /\ broadcasts + 1 \in 1 .. MaxBroadcasts
    BY BoundAssumption DEF Broadcasts, Inv, TypeInv, TypeOK
  <2>4. CASE m = broadcasts + 1 /\ writes'[c] = Append(writes[c], Write(broadcasts + 1, Pieces))
    <3>1. /\ broadcasts' = broadcasts + 1 /\ stream'[c] = stream[c]
          /\ writes'[c] = Append(writes[c], Write(m, Pieces))
      BY <2>4 DEF Broadcasts
    <3> QED BY <2>1, <2>2, <2>4, <3>1, MessageStarts DEF Inv
  <2>5. CASE writes'[c] = writes[c] \/ m # broadcasts + 1
    <3>1. AddsNone(writes[c], writes[c]', OfMessage(m))
      <4>1. PICK s \in Seq(Unfinished) : s = writes[c]
        BY DEF Inv, TypeInv
      <4>2. PICK v : v = Write(broadcasts + 1, Pieces)
        OBVIOUS
      <4>3. v \in Unfinished /\ v.msg = broadcasts + 1
        BY <2>3, <4>2, BoundAssumption DEF Write, Unfinished
      <4>4. AddsNone(s, s, OfMessage(m))
        BY AddsNoneOf
      <4>5. v \notin OfMessage(m) => AddsNone(s, Append(s, v), OfMessage(m))
        BY <4>3, AddsNoneOf
      <4>6. m # broadcasts + 1 => v \notin OfMessage(m)
        BY <4>3 DEF OfMessage
      <4> QED BY <2>5, <4>1, <4>2, <4>4, <4>5, <4>6 DEF Broadcasts
    <3> QED BY <2>1, <2>2, <2>3, <3>1, MessageUntouched DEF Inv
  <2> QED BY <2>4, <2>5 DEF Broadcasts
<1> QED BY <1>1, <1>2 DEF StreamRight, MessageRight

LEMMA StreamGoesOn ==
  ASSUME Inv, Inv', [Next]_vars, NEW c \in Conns, StreamRight(c), ~PerformWrite(c),
         GoesOnWith(c)
  PROVE  StreamRight(c)'
<1>1. /\ broadcasts' = broadcasts /\ stream'[c] = stream[c] /\ ready # <<>>
      /\ writes'[c] = Append(writes[c], Current.write) /\ ready' = Tail(ready)
      /\ Current.op = "write" /\ Current.conn = c /\ Current.ok
  BY DEF GoesOnWith, RunWrite, ContinueWrite, WriteDone
<1>2. Current \in Done /\ Current.write \in Rest
  BY <1>1, CurrentType DEF Inv
<1>3. Current.write \in Unfinished
  BY <1>2 DEF GoesOnWith, Rest, Unfinished
<1>4. Rising(stream[c])'
  BY <1>1 DEF StreamRight
<1>5. ASSUME NEW m \in 1 .. MaxBroadcasts
      PROVE  MessageRight(c, m)'
  <2>1. MessageRight(c, m) /\ WrittenIn(stream[c], m)' = WrittenIn(stream[c], m)
    BY <1>1 DEF StreamRight, MessageRight
  <2>2. CASE Current.write.msg = m
    <3>1. Current \in Progress(c, m)
      BY <1>1, <1>2, <2>2 DEF Progress
    <3> QED BY <1>1, <1>3, <2>1, <3>1, MessageGoesOn DEF Inv
  <2>3. CASE Current.write.msg # m
    <3>1. AddsNone(ready, ready', Progress(c, m))
      BY NoProgress DEF Inv, Loops
    <3>2. AddsNone(writes[c], writes[c]', OfMessage(m))
      <4>1. PICK s \in Seq(Unfinished) : s = writes[c]
        BY DEF Inv, TypeInv
      <4>2. PICK v \in Unfinished : v = Current.write
        BY <1>3
      <4>3. v \notin OfMessage(m)
        BY <2>3, <4>2 DEF OfMessage
      <4>4. AddsNone(s, Append(s, v), OfMessage(m))
        BY <4>3, AddsNoneOf
      <4> QED BY <1>1, <4>1, <4>2, <4>4
    <3>3. broadcasts' >= broadcasts
      BY <1>1 DEF Inv, TypeInv, TypeOK
    <3> QED BY <2>1, <3>1, <3>2, <3>3, MessageUntouched DEF Inv
  <2> QED BY <2>2, <2>3
<1> QED BY <1>4, <1>5 DEF StreamRight, MessageRight

LEMMA StreamWritten ==
  ASSUME Inv, Inv', NEW c \in Conns, StreamRight(c), PerformWrite(c)
  PROVE  StreamRight(c)'
<1> DEFINE w == Head(writes[c])
           k == IF w.left <= SendRoom - unsent[c] THEN w.left ELSE SendRoom - unsent[c]
           first == Pieces - w.left
           sent == [i \in 1 .. k |-> <<w.msg, first + i>>]
           x == Completion("write", c, TRUE, Write(w.msg, w.left - k))
<1>1. /\ writes[c] # <<>> /\ unsent[c] < SendRoom /\ broadcasts' = broadcasts
      /\ stream' = [stream EXCEPT ![c] = @ \o sent]
      /\ writes' = [writes EXCEPT ![c] = Tail(@)]
      /\ ready' = Queued("write", c, x)
  BY DEF PerformWrite
<1>2. /\ w \in Unfinished /\ w.msg \in 1 .. MaxBroadcasts /\ w.left \in 1 .. Pieces
      /\ unsent[c] \in 0 .. SendRoom
  BY <1>1, WriteInFront DEF Unfinished, Inv, TypeInv, TypeOK
<1>3. /\ k \in 1 .. w.left /\ w.left - k \in 0 .. Pieces
      /\ first \in Nat /\ \A i \in 1 .. k : first + i \in 1 .. Pieces
  <2> HIDE DEF w
  <2> QED BY <1>1, <1>2, BoundAssumption, Share
<1>4. sent \in [1 .. k -> PieceSet] /\ \A i \in 1 .. k : sent[i] = <<w.msg, first + i>>
  <2> HIDE DEF w, k, first
  <2> QED BY <1>2, <1>3 DEF PieceSet
<1>5. k \in Nat /\ first + k <= Pieces /\ k <= w.left
  <2> HIDE DEF w, k
  <2> QED BY <1>2, <1>3, BoundAssumption
<1>6. x \in Progress(c, w.msg) /\ x.write.left = w.left - k
  <2>1. Write(w.msg, w.left - k) \in Rest /\ Write(w.msg, w.left - k).msg = w.msg
    <3> HIDE DEF w, k
    <3> QED BY <1>2, <1>3 DEF Write, Rest
  <2>2. x \in Done
    <3> HIDE DEF w, k
    <3> QED BY <2>1, CompletionTypes
  <2> HIDE DEF w, k
  <2> QED BY <2>1, <2>2 DEF Progress, Completion, Write
<1>7. stream[c] \in Seq(PieceSet) /\ stream'[c] = stream[c] \o sent /\ writes'[c] = Tail(writes[c])
  BY <1>1 DEF Inv, TypeInv, TypeOK, PieceSet
<1>8. MessageRight(c, w.msg) /\ Rising(stream[c])
  BY <1>2 DEF StreamRight, MessageRight
<1>9. WrittenIn(stream[c], w.msg) = 1 .. first
  <2>1. w \in Elements(writes[c]) /\ w \in OfMessage(w.msg)
    <3>1. PICK s \in Seq(Unfinished) : s = writes[c]
      BY DEF Inv, TypeInv
    <3>2. w \in OfMessage(w.msg)
      BY <1>2 DEF OfMessage
    <3> QED BY <1>1, <3>1, <3>2, OnlyOneOf
  <2> QED BY <1>8, <2>1 DEF MessageRight, GoesOn
<1>10. ready' = Append(ready, x) \/ ready' = <<x>> \o ready
  BY <1>1 DEF Queued
<1> HIDE DEF w, k, first, sent, x
<1>11. /\ Rising(stream[c] \o sent)
       /\ WrittenIn(stream[c] \o sent, w.msg) = 1 .. first + k
       /\ \A l : l # w.msg => WrittenIn(stream[c] \o sent, l) = WrittenIn(stream[c], l)
  <2>1. PICK s \in Seq(PieceSet) : s = stream[c]
    BY <1>7
  <2>2. PICK t \in [1 .. k -> PieceSet] : t = sent
    BY <1>4
  <2>3. PICK m \in 1 .. MaxBroadcasts : m = w.msg
    BY <1>2
  <2>4. /\ first \in Nat /\ k \in Nat /\ first + k <= Pieces
        /\ Rising(s) /\ WrittenIn(s, m) = 1 .. first
        /\ \A i \in 1 .. k : t[i] = <<m, first + i>>
    BY <1>3, <1>4, <1>5, <1>8, <1>9, <2>1, <2>2, <2>3
  <2>5. /\ Rising(s \o t)
        /\ WrittenIn(s \o t, m) = 1 .. first + k
        /\ \A l : l # m => WrittenIn(s \o t, l) = WrittenIn(s, l)
    BY <2>4, PiecesAppended
  <2> QED BY <2>1, <2>2, <2>3, <2>5
<1>12. PICK n \in 1 .. MaxBroadcasts : n = w.msg
  BY <1>2
<1>13. MessageRight(c, n)'
  <2>1. PICK y \in Progress(c, n) : y = x
    BY <1>6, <1>12
  <2>2. /\ WrittenIn(stream'[c], n) = 1 .. (Pieces - w.left) + k
        /\ k <= w.left /\ y.write.left = w.left - k
        /\ ready' = Append(ready, y) \/ ready' = <<y>> \o ready
    BY <1>5, <1>6, <1>7, <1>10, <1>11, <1>12, <2>1 DEF first
  <2>3. Head(writes[c]) = w
    BY DEF w
  <2>4. /\ writes[c] # <<>> /\ Head(writes[c]).msg = n /\ k \in Nat
        /\ broadcasts' = broadcasts /\ writes'[c] = Tail(writes[c])
        /\ k <= Head(writes[c]).left /\ y.write.left = Head(writes[c]).left - k
        /\ WrittenIn(stream'[c], n) = 1 .. (Pieces - Head(writes[c]).left) + k
    BY <1>1, <1>5, <1>7, <1>12, <2>2, <2>3
  <2>5. MessageRight(c, n) /\ TypeInv /\ TypeInv'
    BY <1>8, <1>12 DEF Inv
  <2> QED BY <2>2, <2>4, <2>5, MessageWritten
<1>14. ASSUME NEW m \in 1 .. MaxBroadcasts, m # w.msg
       PROVE  MessageRight(c, m)'
  <2>1. MessageRight(c, m) /\ WrittenIn(stream[c], m)' = WrittenIn(stream[c], m)
    BY <1>7, <1>11, <1>14 DEF StreamRight, MessageRight
  <2>2. AddsNone(ready, ready', Progress(c, m))
    <3>1. x \in Done /\ x \notin Progress(c, m)
      BY <1>6, <1>14 DEF Progress
    <3>2. PICK s \in Seq(Done) : s = ready
      BY DEF Inv, TypeInv
    <3>3. AddsNone(s, Append(s, x), Progress(c, m)) /\ AddsNone(s, <<x>> \o s, Progress(c, m))
      BY <3>1, AddsNoneOf
    <3> QED BY <1>10, <3>2, <3>3
  <2>3. AddsNone(writes[c], writes[c]', OfMessage(m))
    <3>1. PICK s \in Seq(Unfinished) : s = writes[c]
      BY DEF Inv, TypeInv
    <3>2. s # <<>> => AddsNone(s, Tail(s), OfMessage(m))
      BY AddsNoneOf
    <3> QED BY <1>1, <1>7, <3>1, <3>2
  <2>4. broadcasts' >= broadcasts
    BY <1>1 DEF Inv, TypeInv, TypeOK
  <2> QED BY <2>1, <2>2, <2>3, <2>4, MessageUntouched DEF Inv
<1>15. Rising(stream[c])'
  BY <1>7, <1>11
<1>16. \A m \in 1 .. MaxBroadcasts : MessageRight(c, m)'
  BY <1>12, <1>13, <1>14
<1> QED BY <1>15, <1>16 DEF StreamRight, MessageRight

LEMMA StreamNext ==
  ASSUME Inv, Inv', [Next]_vars, NEW c \in Conns, StreamRight(c)
  PROVE  StreamRight(c)'
<1>1. CASE PerformWrite(c)
  BY <1>1, StreamWritten
<1>2. CASE ~PerformWrite(c)
  BY <1>2, StreamSteps, StreamKeeps, StreamBroadcasts, StreamGoesOn
<1> QED BY <1>1, <1>2

LEMMA StreamInit == Init => \A c \in Conns : StreamRight(c)
<1> SUFFICES ASSUME Init, NEW c \in Conns
             PROVE  StreamRight(c)
  OBVIOUS
<1>1. ready = <<>> /\ writes[c] = <<>> /\ stream[c] = <<>>
  BY DEF Init
<1>2. \A T : NoneOf(<<>>, T) /\ OneOf(<<>>, T) /\ Elements(<<>>) = {}
  BY DEF NoneOf, OneOf, Elements
<1>3. Rising(<<>>) /\ \A m : WrittenIn(<<>>, m) = {}
  BY DEF Rising, WrittenIn
<1> QED BY <1>1, <1>2, <1>3 DEF StreamRight, OneWrite, GoesOn

LEMMA StreamImplies == TypeInv /\ (\A c \in Conns : StreamRight(c)) => PiecesInOrder
<1> SUFFICES ASSUME TypeInv, NEW c \in Conns, StreamRight(c)
             PROVE  /\ Rising(stream[c])
                    /\ \A m \in 1 .. MaxBroadcasts : \A n \in Written(c, m) :
                         1 .. n \subseteq Written(c, m)
                    /\ \A i \in 1 .. Len(writes[c]) :
                         Written(c, writes[c][i].msg) = 1 .. Pieces - writes[c][i].left
  BY DEF PiecesInOrder, Rising
<1>1. \A m : Written(c, m) = WrittenIn(stream[c], m)
  BY DEF Written, WrittenIn
<1>2. ASSUME NEW i \in 1 .. Len(writes[c])
      PROVE  Written(c, writes[c][i].msg) = 1 .. Pieces - writes[c][i].left
  <2>1. PICK v : v = writes[c][i]
    OBVIOUS
  <2>2. v \in Unfinished
    <3>1. writes[c] \in Seq(Unfinished)
      BY DEF TypeInv
    <3> QED BY <2>1, <3>1, ElementOfSeq
  <2>3. v \in Elements(writes[c]) /\ v \in OfMessage(v.msg) /\ v.msg \in 1 .. MaxBroadcasts
    BY <2>1, <2>2 DEF Elements, OfMessage, Unfinished
  <2>4. WrittenIn(stream[c], v.msg) = 1 .. Pieces - v.left
    BY <2>3 DEF StreamRight, GoesOn
  <2> QED BY <1>1, <2>1, <2>4
<1> QED BY <1>1, <1>2 DEF StreamRight, GoesOn

\* The pieces of each message reach the stream in order, none twice and none left out,
\* across all its partial writes, whatever other messages go between them and whoever
\* closes the session: what a pending write has left is what is missing
\* (TcpSession.cpp:30).
THEOREM MessagesArriveInOrder == Spec => []PiecesInOrder
<1>1. Inv /\ (\A c \in Conns : StreamRight(c)) /\ [Next]_vars
        => (\A c \in Conns : StreamRight(c))'
  BY InvNext, StreamNext
<1>2. Inv /\ (\A c \in Conns : StreamRight(c)) => PiecesInOrder
  BY StreamImplies DEF Inv
<1> QED BY <1>1, <1>2, StreamInit, Invariant, PTL DEF Spec

=============================================================================
