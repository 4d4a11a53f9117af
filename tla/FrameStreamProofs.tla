------------------------- MODULE FrameStreamProofs -------------------------
(***************************************************************************)
(* The stream of frames is kept, for messages and chunks of every size.    *)
(*                                                                         *)
(* From the bottom up: ntohl undoes htonl; Deserialize undoes Serialize    *)
(* and DecodeMessage undoes EncodeMessage; so a frame is taken back for    *)
(* what was sent (IsFrame), and in a stream that begins with a frame       *)
(* TryDecodeFrame finds that frame and no other, as soon as it is there    *)
(* (FoundIsFirst, WholeIsFound).  A sequence of frames is their bytes      *)
(* joined (BytesSplit, BytesHead), so what a step takes off the sequence   *)
(* is what it takes off the bytes (FoundIsPending, ReadIsWhole).           *)
(*                                                                         *)
(* StreamPreserved is inductive with the types alone.  NoLag is not: it    *)
(* needs to know that the first frame is not complete (FirstIncomplete),   *)
(* which a chunk that ends one frame only preserves.                       *)
(***************************************************************************)
EXTENDS FrameStream, SequenceTheorems, NaturalsInduction, WellFoundedInduction, TLAPS

-----------------------------------------------------------------------------
(* Induction. *)

\* A set of natural numbers has a smallest element.
LEMMA Smallest ==
  ASSUME NEW T, T \subseteq Nat, T # {}
  PROVE  \E x \in T : \A y \in T : x <= y
<1>1. PICK x \in T : \A y \in T : ~ (<<y, x>> \in OpToRel(<, Nat))
  BY NatLessThanWellFounded, WFMin
<1>2. \A y \in T : ~(y < x)
  BY <1>1 DEF OpToRel
<1> QED BY <1>2

\* Induction, over a set instead of an operator.
LEMMA ByInduction ==
  ASSUME NEW T, 0 \in T, \A n \in Nat : n \in T => n + 1 \in T
  PROVE  Nat \subseteq T
<1> SUFFICES ASSUME Nat \ T # {} PROVE FALSE
  OBVIOUS
<1>1. PICK x \in Nat \ T : \A y \in Nat \ T : x <= y
  BY Smallest
<1>2. x # 0 /\ x - 1 \in Nat /\ x - 1 \in T
  BY <1>1
<1>3. (x - 1) + 1 \in T
  BY <1>2
<1> QED BY <1>1, <1>3

\* f begins with s and goes on, up to n, by the steps given.
Follows(f, s, step, n) ==
  /\ f[0] = s
  /\ \A k \in 1 .. n : f[k] = step[k][f[k - 1]]

\* What is defined by recursion up to n exists.
LEMMA Recursion ==
  ASSUME NEW S, NEW s \in S, NEW n \in Nat, NEW step \in [1 .. n -> [S -> S]]
  PROVE  \E f \in [0 .. n -> S] : Follows(f, s, step, n)
<1> DEFINE T == {m \in Nat : m <= n => \E f \in [0 .. m -> S] : Follows(f, s, step, m)}
<1>1. 0 \in T
  <2> DEFINE f == [k \in 0 .. 0 |-> s]
  <2>1. f \in [0 .. 0 -> S] /\ Follows(f, s, step, 0)
    BY DEF Follows
  <2> QED BY <2>1
<1>2. ASSUME NEW m \in Nat, m \in T PROVE m + 1 \in T
  <2> SUFFICES ASSUME m + 1 <= n
               PROVE  \E f \in [0 .. m + 1 -> S] : Follows(f, s, step, m + 1)
    OBVIOUS
  <2>1. PICK f \in [0 .. m -> S] : Follows(f, s, step, m)
    BY <1>2
  <2> DEFINE g == [k \in 0 .. m + 1 |-> IF k <= m THEN f[k] ELSE step[k][f[m]]]
  <2>2. g \in [0 .. m + 1 -> S]
    <3> SUFFICES ASSUME NEW k \in 0 .. m + 1 PROVE g[k] \in S
      OBVIOUS
    <3>1. CASE k <= m
      BY <3>1
    <3>2. CASE k = m + 1
      <4>1. step[k] \in [S -> S] /\ f[m] \in S
        BY <3>2
      <4> QED BY <3>2, <4>1
    <3> QED BY <3>1, <3>2
  <2>3. Follows(g, s, step, m + 1)
    <3>1. g[0] = s
      BY <2>1 DEF Follows
    <3>2. ASSUME NEW k \in 1 .. m + 1 PROVE g[k] = step[k][g[k - 1]]
      <4>1. CASE k <= m
        BY <2>1, <4>1 DEF Follows
      <4>2. CASE k = m + 1
        BY <4>2
      <4> QED BY <4>1, <4>2
    <3> QED BY <3>1, <3>2 DEF Follows
  <2> QED BY <2>2, <2>3
<1>3. Nat \subseteq T
  <2> HIDE DEF T
  <2> QED BY <1>1, <1>2, ByInduction
<1> QED BY <1>3

-----------------------------------------------------------------------------
(* Numbers. *)

LEMMA PowerIs ==
  /\ Power \in [0 .. IntSize -> Nat \ {0}]
  /\ Power[0] = 1
  /\ \A k \in 1 .. IntSize : Power[k] = Power[k - 1] * Radix
<1> DEFINE S == Nat \ {0}
           step == [k \in 1 .. IntSize |-> [x \in S |-> x * Radix]]
           Eq(p) == [k \in 0 .. IntSize |-> IF k = 0 THEN 1 ELSE p[k - 1] * Radix]
<1>0. IntSize \in Nat /\ Radix \in S
  BY SizeAssumption
<1>1. step \in [1 .. IntSize -> [S -> S]]
  <2>1. \A x \in S : x * Radix \in S
    BY <1>0
  <2> QED BY <2>1
<1>2. PICK g \in [0 .. IntSize -> S] : Follows(g, 1, step, IntSize)
  <2> HIDE DEF step
  <2>1. 1 \in S
    OBVIOUS
  <2> QED BY <1>0, <1>1, <2>1, Recursion
<1>3. g = Eq(g)
  <2>1. \A k \in 1 .. IntSize : \A x \in S : step[k][x] = x * Radix
    OBVIOUS
  <2>2. \A k \in 1 .. IntSize : g[k] = g[k - 1] * Radix
    <3> SUFFICES ASSUME NEW k \in 1 .. IntSize PROVE g[k] = g[k - 1] * Radix
      OBVIOUS
    <3>1. g[k - 1] \in S
      BY <1>0
    <3> HIDE DEF step, S
    <3>2. g[k] = step[k][g[k - 1]]
      BY <1>2 DEF Follows
    <3> QED BY <2>1, <3>1, <3>2
  <2>3. g[0] = 1
    BY <1>2 DEF Follows
  <2> QED BY <2>2, <2>3
<1>4. Power = CHOOSE p : p = Eq(p)
  BY Zenon DEF Power
<1>5. Power = Eq(Power)
  <2> DEFINE Q(p) == p = Eq(p)
  <2>1. Q(g)
    BY <1>3
  <2>2. Power = CHOOSE p : Q(p)
    BY <1>4
  <2>3. Q(Power)
    <3> HIDE DEF Q
    <3> QED BY <2>1, <2>2
  <2> QED BY <2>3
<1>6. /\ Power[0] = 1
      /\ \A k \in 1 .. IntSize : Power[k] = Power[k - 1] * Radix
      /\ DOMAIN Power = 0 .. IntSize
  BY <1>0, <1>5
<1>7. \A k \in 0 .. IntSize : Power[k] \in S
  <2> DEFINE T == {k \in Nat : k <= IntSize => Power[k] \in S}
  <2>1. 0 \in T
    BY <1>6
  <2>2. ASSUME NEW k \in Nat, k \in T PROVE k + 1 \in T
    <3> SUFFICES ASSUME k + 1 <= IntSize PROVE Power[k + 1] \in S
      OBVIOUS
    <3>1. Power[k + 1] = Power[k] * Radix
      BY <1>6
    <3>2. Power[k] \in S
      <4>1. k <= IntSize
        BY <1>0
      <4> QED BY <2>2, <4>1
    <3> QED BY <3>1, <3>2, <1>0
  <2>3. Nat \subseteq T
    <3> HIDE DEF T
    <3> QED BY <2>1, <2>2, ByInduction
  <2> QED BY <2>3
<1> QED BY <1>5, <1>6, <1>7

\* The number that the first k bytes are, for each k.
Values(v, bytes) ==
  /\ v \in [0 .. Len(bytes) -> Nat]
  /\ v[0] = 0
  /\ \A k \in 1 .. Len(bytes) : v[k] = v[k - 1] * Radix + bytes[k]

LEMMA ntohlIs ==
  ASSUME NEW bytes \in Seq(Byte)
  PROVE  \E v : Values(v, bytes) /\ ntohl(bytes) = v[Len(bytes)]
<1> DEFINE n == Len(bytes)
           step == [k \in 1 .. n |-> [x \in Nat |-> x * Radix + bytes[k]]]
           Eq(v) == [k \in 0 .. Len(bytes) |->
                       IF k = 0 THEN 0 ELSE v[k - 1] * Radix + bytes[k]]
<1>0. n \in Nat /\ Radix \in Nat /\ \A k \in 1 .. n : bytes[k] \in Nat
  <2>1. \A b \in Byte : b \in Nat
    BY SizeAssumption DEF Byte
  <2> QED BY <2>1, SizeAssumption, LenProperties, ElementOfSeq
<1>1. step \in [1 .. n -> [Nat -> Nat]]
  <2>1. \A x \in Nat : x * Radix \in Nat
    BY <1>0
  <2> QED BY <1>0, <2>1
<1>2. PICK g \in [0 .. n -> Nat] : Follows(g, 0, step, n)
  <2> HIDE DEF step, n
  <2> QED BY <1>0, <1>1, Recursion
<1>3. /\ g[0] = 0
      /\ \A k \in 1 .. n : g[k] = g[k - 1] * Radix + bytes[k]
  <2>1. \A k \in 1 .. n : \A x \in Nat : step[k][x] = x * Radix + bytes[k]
    OBVIOUS
  <2>2. ASSUME NEW k \in 1 .. n PROVE g[k] = g[k - 1] * Radix + bytes[k]
    <3>1. g[k - 1] \in Nat
      BY <1>0
    <3> HIDE DEF step
    <3>2. g[k] = step[k][g[k - 1]]
      BY <1>2 DEF Follows
    <3> QED BY <2>1, <3>1, <3>2
  <2> QED BY <2>2, <1>2 DEF Follows
<1> DEFINE u == CHOOSE v : v = Eq(v)
<1>4. ntohl(bytes) = u[n]
  BY Zenon DEF ntohl
<1>5. u = Eq(u)
  <2> DEFINE Q(p) == p = Eq(p)
  <2>1. Q(g)
    BY <1>3, <1>0
  <2>2. u = CHOOSE p : Q(p)
    OBVIOUS
  <2>3. Q(u)
    <3> HIDE DEF Q, u
    <3> QED BY <2>1, <2>2
  <2> QED BY <2>3
<1>6. /\ u[0] = 0 /\ DOMAIN u = 0 .. n
      /\ \A k \in 1 .. n : u[k] = u[k - 1] * Radix + bytes[k]
  <2> HIDE DEF u
  <2> QED BY <1>0, <1>5
<1>7. \A k \in 0 .. n : u[k] = g[k]
  <2> HIDE DEF u, n
  <2> DEFINE T == {k \in Nat : k <= n => u[k] = g[k]}
  <2>1. 0 \in T
    BY <1>3, <1>6
  <2>2. ASSUME NEW k \in Nat, k \in T PROVE k + 1 \in T
    <3> SUFFICES ASSUME k + 1 <= n PROVE u[k + 1] = g[k + 1]
      OBVIOUS
    <3>1. u[k] = g[k] /\ k + 1 \in 1 .. n /\ (k + 1) - 1 = k
      BY <1>0, <2>2
    <3>2. u[k + 1] = u[(k + 1) - 1] * Radix + bytes[k + 1]
      BY <1>6, <3>1
    <3>3. g[k + 1] = g[(k + 1) - 1] * Radix + bytes[k + 1]
      BY <1>3, <3>1
    <3> QED BY <3>1, <3>2, <3>3
  <2>3. Nat \subseteq T
    <3> HIDE DEF T
    <3> QED BY <2>1, <2>2, ByInduction
  <2> QED BY <2>3, <1>0
<1>8. Values(u, bytes)
  <2> HIDE DEF u
  <2>1. u = [k \in 0 .. n |-> u[k]]
    BY <1>5
  <2> QED BY <1>2, <1>6, <1>7, <2>1 DEF Values
<1> QED BY <1>4, <1>8

LEMMA DivMod ==
  ASSUME NEW n \in Nat, NEW d \in Nat \ {0}
  PROVE  /\ n \div d \in Nat /\ n % d \in 0 .. d - 1
         /\ n = d * (n \div d) + (n % d)
OBVIOUS

LEMMA DivIs ==
  ASSUME NEW d \in Nat \ {0}, NEW q \in Nat, NEW e \in 0 .. d - 1
  PROVE  (d * q + e) \div d = q
<1> DEFINE n == d * q + e
           x == n \div d
           y == n % d
<1>1. d * q \in Nat
  OBVIOUS
<1>2. n \in Nat
  BY <1>1
<1>3. x \in Nat /\ y \in 0 .. d - 1 /\ n = d * x + y
  <2> HIDE DEF n
  <2> QED BY <1>2, DivMod
<1>4. d * q + e = d * x + y
  BY <1>3
<1> HIDE DEF x, y, n
<1>5. ASSUME q < x PROVE FALSE
  <2> DEFINE k == x - q - 1
  <2>1. k \in Nat /\ x = q + 1 + k
    BY <1>3, <1>5
  <2> HIDE DEF k
  <2>2. d * x = d * q + d + d * k /\ d * k \in Nat
    BY <2>1, <1>3
  <2> QED BY <2>2, <1>4, <1>3, <1>1
<1>6. ASSUME x < q PROVE FALSE
  <2> DEFINE k == q - x - 1
  <2>1. k \in Nat /\ q = x + 1 + k
    BY <1>3, <1>6
  <2> HIDE DEF k
  <2>2. d * q = d * x + d + d * k /\ d * k \in Nat
    BY <2>1, <1>3
  <2> QED BY <2>2, <1>4, <1>3, <1>1
<1>7. x = q
  BY <1>3, <1>5, <1>6
<1> QED BY <1>7 DEF x, n

\* Dividing by p * r is dividing by p, then by r.
LEMMA DivDiv ==
  ASSUME NEW n \in Nat, NEW p \in Nat \ {0}, NEW r \in Nat \ {0}
  PROVE  (n \div p) \div r = n \div (p * r)
<1> DEFINE a == n \div p
           b == n % p
           c == a \div r
           e == a % r
<1>1. a \in Nat /\ b \in 0 .. p - 1 /\ n = p * a + b
  BY DivMod
<1>2. c \in Nat /\ e \in 0 .. r - 1 /\ a = r * c + e
  <2> HIDE DEF a
  <2> QED BY <1>1, DivMod
<1> HIDE DEF a, b, c, e
<1>3. p * r \in Nat \ {0}
  OBVIOUS
<1>4. n = (p * r) * c + (p * e + b)
  <2>1. p * (r * c + e) = p * (r * c) + p * e
    BY <1>2
  <2>2. p * (r * c) = (p * r) * c
    BY <1>2
  <2> QED BY <2>1, <2>2, <1>1, <1>2
<1>5. p * e + b \in 0 .. p * r - 1
  <2> DEFINE k == r - 1 - e
  <2>1. k \in Nat /\ r = k + 1 + e
    BY <1>2
  <2> HIDE DEF k
  <2>2. p * r = p * k + p + p * e /\ p * k \in Nat /\ p * e \in Nat
    BY <2>1, <1>2
  <2> QED BY <2>2, <1>1
<1>6. ((p * r) * c + (p * e + b)) \div (p * r) = c
  <2> DEFINE d == p * r
             f == p * e + b
  <2>1. d \in Nat \ {0} /\ f \in 0 .. d - 1
    BY <1>3, <1>5
  <2> HIDE DEF d, f
  <2>2. (d * c + f) \div d = c
    BY <2>1, <1>2, DivIs
  <2> QED BY <2>2 DEF d, f
<1>7. n \div (p * r) = c
  BY <1>4, <1>6
<1> QED BY <1>7 DEF c, a

\* A number of k bytes is less than Power[k].
LEMMA ntohlBounded ==
  ASSUME NEW bytes \in Seq(Byte)
  PROVE  /\ ntohl(bytes) \in Nat
         /\ Len(bytes) = IntSize => ntohl(bytes) \in Uint32
<1>1. PICK v : Values(v, bytes) /\ ntohl(bytes) = v[Len(bytes)]
  BY ntohlIs
<1>2. Len(bytes) \in Nat
  BY LenProperties
<1>3. v \in [0 .. Len(bytes) -> Nat]
  BY <1>1 DEF Values
<1>4. ntohl(bytes) \in Nat
  BY <1>1, <1>2, <1>3
<1>5. ASSUME Len(bytes) = IntSize PROVE ntohl(bytes) \in Uint32
  <2>0. IntSize \in Nat /\ Radix \in Nat
    BY SizeAssumption
  <2> DEFINE T == {k \in Nat : k <= IntSize => v[k] < Power[k]}
  <2>1. 0 \in T
    BY <1>1, PowerIs DEF Values
  <2>2. ASSUME NEW k \in Nat, k \in T PROVE k + 1 \in T
    <3> SUFFICES ASSUME k + 1 <= IntSize PROVE v[k + 1] < Power[k + 1]
      OBVIOUS
    <3>1. k \in 0 .. IntSize /\ k + 1 \in 1 .. IntSize
      BY <2>0
    <3>2. v[k] < Power[k]
      BY <2>2, <3>1
    <3>3. v[k + 1] = v[k] * Radix + bytes[k + 1]
      BY <1>1, <1>5, <3>1 DEF Values
    <3>4. Power[k + 1] = Power[k] * Radix
      BY <3>1, PowerIs
    <3>5. v[k] \in Nat /\ Power[k] \in Nat
      BY <3>1, <1>3, <1>5, PowerIs
    <3>6. bytes[k + 1] \in 0 .. Radix - 1
      BY <3>1, <1>5, ElementOfSeq DEF Byte
    <3> DEFINE j == Power[k] - v[k] - 1
    <3>7. j \in Nat /\ Power[k] = v[k] + 1 + j
      BY <3>2, <3>5
    <3> DEFINE P == Power[k]
               w == v[k]
               b == bytes[k + 1]
    <3> HIDE DEF j, P, w, b
    <3>8. P = w + 1 + j /\ w \in Nat /\ j \in Nat /\ b \in 0 .. Radix - 1
      BY <3>5, <3>6, <3>7 DEF P, w, b
    <3>9. P * Radix = w * Radix + Radix + j * Radix /\ j * Radix \in Nat /\ w * Radix \in Nat
      BY <3>8, <2>0
    <3>10. w * Radix + b < P * Radix
      BY <3>8, <3>9, <2>0
    <3> QED BY <3>10, <3>3, <3>4 DEF P, w, b
  <2>3. Nat \subseteq T
    <3> HIDE DEF T
    <3> QED BY <2>1, <2>2, ByInduction
  <2>4. v[IntSize] < Power[IntSize]
    BY <2>0, <2>3
  <2> QED BY <1>1, <1>4, <1>5, <2>4, <2>0, PowerIs DEF Uint32
<1> QED BY <1>4, <1>5

\* htonl writes bytes.
LEMMA htonlBytes ==
  ASSUME NEW n \in Nat
  PROVE  htonl(n) \in Seq(Byte) /\ Len(htonl(n)) = IntSize
<1>1. IntSize \in Nat /\ Radix \in Nat \ {0}
  BY SizeAssumption
<1>2. ASSUME NEW i \in 1 .. IntSize
      PROVE  (n \div Power[IntSize - i]) % Radix \in Byte
  <2>1. Power[IntSize - i] \in Nat \ {0}
    BY <1>1, PowerIs
  <2>2. n \div Power[IntSize - i] \in Nat
    BY <2>1, DivMod
  <2> QED BY <2>2, <1>1, DivMod DEF Byte
<1>3. htonl(n) \in [1 .. IntSize -> Byte]
  BY <1>2 DEF htonl
<1>4. htonl(n) \in Seq(Byte)
  BY <1>1, <1>3, SeqDef
<1> QED BY <1>1, <1>3, <1>4, LenProperties

\* What htonl writes, ntohl reads back.
LEMMA ntohlOfhtonl ==
  ASSUME NEW n \in Uint32
  PROVE  ntohl(htonl(n)) = n
<1>0. IntSize \in Nat \ {0} /\ Radix \in Nat \ {0} /\ n \in Nat /\ n < Power[IntSize]
  BY SizeAssumption, PowerIs DEF Uint32
<1> DEFINE bytes == htonl(n)
           rest(k) == n \div Power[IntSize - k]
<1>1. bytes \in Seq(Byte) /\ Len(bytes) = IntSize
  BY <1>0, htonlBytes
<1>2. PICK v : Values(v, bytes) /\ ntohl(bytes) = v[Len(bytes)]
  <2> HIDE DEF bytes
  <2> QED BY <1>1, ntohlIs
<1> DEFINE T == {k \in Nat : k <= IntSize => v[k] = rest(k)}
<1>3. 0 \in T
  <2>1. v[0] = 0
    BY <1>2 DEF Values
  <2> DEFINE P == Power[IntSize]
  <2>2. P \in Nat \ {0} /\ n < P
    BY <1>0, PowerIs
  <2>3. n \div P = 0
    <3> HIDE DEF P
    <3>1. (P * 0 + n) \div P = 0
      BY <2>2, <1>0, DivIs
    <3> QED BY <3>1, <2>2, <1>0
  <2> QED BY <2>1, <2>3, <1>0
<1>4. ASSUME NEW k \in Nat, k \in T PROVE k + 1 \in T
  <2> SUFFICES ASSUME k + 1 <= IntSize PROVE v[k + 1] = rest(k + 1)
    OBVIOUS
  <2>1. v[k] = rest(k)
    BY <1>4, <1>0
  <2> DEFINE p == Power[IntSize - (k + 1)]
  <2>2. p \in Nat \ {0} /\ Power[IntSize - k] = p * Radix
    <3>1. IntSize - (k + 1) \in 0 .. IntSize /\ IntSize - k \in 1 .. IntSize
      BY <1>0
    <3>2. (IntSize - k) - 1 = IntSize - (k + 1)
      BY <1>0
    <3> QED BY <3>1, <3>2, PowerIs
  <2>3. bytes[k + 1] = (n \div p) % Radix
    BY <1>0 DEF htonl
  <2>4. v[k + 1] = v[k] * Radix + bytes[k + 1]
    <3>1. k + 1 \in 1 .. Len(bytes) /\ (k + 1) - 1 = k
      BY <1>0, <1>1
    <3> HIDE DEF bytes
    <3> QED BY <1>2, <3>1 DEF Values
  <2>5. rest(k) = (n \div p) \div Radix
    <3> HIDE DEF p
    <3>1. (n \div p) \div Radix = n \div (p * Radix)
      BY <1>0, <2>2, DivDiv
    <3> QED BY <2>2, <3>1
  <2> DEFINE a == n \div p
  <2>6. a \in Nat
    <3> HIDE DEF p
    <3> QED BY <1>0, <2>2, DivMod
  <2>7. a = Radix * (a \div Radix) + (a % Radix) /\ a \div Radix \in Nat
    <3> HIDE DEF a
    <3> QED BY <1>0, <2>6, DivMod
  <2>8. v[k + 1] = (a \div Radix) * Radix + (a % Radix)
    <3> HIDE DEF rest, bytes
    <3>1. v[k] = a \div Radix
      BY <2>1, <2>5
    <3>2. bytes[k + 1] = a % Radix
      BY <2>3
    <3> HIDE DEF a
    <3> QED BY <3>1, <3>2, <2>4
  <2>9. rest(k + 1) = a
    OBVIOUS
  <2> HIDE DEF a, rest
  <2>10. Radix * (a \div Radix) = (a \div Radix) * Radix
    BY <2>7, <1>0
  <2> QED BY <2>7, <2>8, <2>9, <2>10
<1>5. Nat \subseteq T
  <2> HIDE DEF T
  <2> QED BY <1>3, <1>4, ByInduction
<1>6. v[IntSize] = n \div Power[0]
  <2>1. IntSize - IntSize = 0
    BY <1>0
  <2> QED BY <1>0, <1>5, <2>1
<1>7. n \div Power[0] = n
  <2>1. (1 * n + 0) \div 1 = n
    BY <1>0, DivIs
  <2> QED BY <2>1, <1>0, PowerIs
<1> QED BY <1>1, <1>2, <1>6, <1>7

-----------------------------------------------------------------------------
(* Sequences, and sequences of sequences put together. *)

LEMMA SubSeqGrows ==
  ASSUME NEW S, NEW s \in Seq(S), NEW m \in 1 .. Len(s), NEW n \in m - 1 .. Len(s) - 1
  PROVE  SubSeq(s, m, n + 1) = Append(SubSeq(s, m, n), s[n + 1])
<1>0. Len(s) \in Nat
  BY LenProperties
<1> DEFINE t == SubSeq(s, m, n)
           u == SubSeq(s, m, n + 1)
<1>1. /\ t \in Seq(S) /\ Len(t) = n - m + 1
      /\ \A i \in 1 .. n - m + 1 : t[i] = s[m + i - 1]
  <2>1. \A i \in m .. n : s[i] \in S
    BY <1>0, ElementOfSeq
  <2> QED BY <1>0, <2>1, SubSeqProperties
<1>2. /\ u \in Seq(S) /\ Len(u) = n - m + 2
      /\ \A i \in 1 .. n - m + 2 : u[i] = s[m + i - 1]
  <2>1. \A i \in m .. n + 1 : s[i] \in S
    BY <1>0, ElementOfSeq
  <2>2. (n + 1) - m + 1 = n - m + 2
    BY <1>0
  <2> QED BY <1>0, <2>1, <2>2, SubSeqProperties
<1>3. s[n + 1] \in S
  BY <1>0, ElementOfSeq
<1> HIDE DEF t, u
<1>4. /\ Append(t, s[n + 1]) \in Seq(S) /\ Len(Append(t, s[n + 1])) = Len(t) + 1
      /\ \A i \in 1 .. Len(t) : Append(t, s[n + 1])[i] = t[i]
      /\ Append(t, s[n + 1])[Len(t) + 1] = s[n + 1]
  BY <1>1, <1>3, AppendProperties
<1>5. \A i \in 1 .. Len(u) : u[i] = Append(t, s[n + 1])[i]
  <2> SUFFICES ASSUME NEW i \in 1 .. Len(u) PROVE u[i] = Append(t, s[n + 1])[i]
    OBVIOUS
  <2>1. CASE i <= n - m + 1
    BY <2>1, <1>0, <1>1, <1>2, <1>4
  <2>2. CASE i = n - m + 2
    <3>1. m + i - 1 = n + 1 /\ i = Len(t) + 1
      BY <2>2, <1>0, <1>1
    <3> QED BY <3>1, <1>2, <1>4
  <2>3. Len(u) = n - m + 2
    BY <1>2
  <2>4. i <= n - m + 1 \/ i = n - m + 2
    BY <2>3, <1>0
  <2> QED BY <2>1, <2>2, <2>4
<1>6. Len(u) = Len(Append(t, s[n + 1]))
  BY <1>0, <1>1, <1>2, <1>4
<1>7. u = Append(t, s[n + 1])
  BY <1>2, <1>4, <1>5, <1>6, SeqEqual
<1> QED BY <1>7 DEF t, u

\* What the first k sequences of ss are together, for each k.
Joins(f, ss, S) ==
  /\ f \in [0 .. Len(ss) -> Seq(S)]
  /\ f[0] = <<>>
  /\ \A k \in 1 .. Len(ss) : f[k] = f[k - 1] \o ss[k]

LEMMA FlattenSeqIs ==
  ASSUME NEW S, NEW ss \in Seq(Seq(S))
  PROVE  \E f : Joins(f, ss, S) /\ FlattenSeq(ss) = f[Len(ss)]
<1> DEFINE n == Len(ss)
           C == Seq(S)
           step == [k \in 1 .. n |-> [x \in C |-> x \o ss[k]]]
           Eq(v) == [i \in 1 .. Len(ss) |-> IF i = 1 THEN ss[i] ELSE v[i - 1] \o ss[i]]
<1>0. n \in Nat /\ \A k \in 1 .. n : ss[k] \in C
  BY LenProperties, ElementOfSeq
<1>1. step \in [1 .. n -> [C -> C]]
  <2>1. \A k \in 1 .. n : \A x \in C : x \o ss[k] \in C
    BY <1>0, ConcatProperties
  <2> HIDE DEF C
  <2> QED BY <2>1
<1>2. PICK g \in [0 .. n -> C] : Follows(g, <<>>, step, n)
  <2>1. <<>> \in C
    BY EmptySeq
  <2> HIDE DEF step, n, C
  <2> QED BY <1>0, <1>1, <2>1, Recursion
<1>3. /\ g[0] = <<>>
      /\ \A k \in 1 .. n : g[k] = g[k - 1] \o ss[k]
  <2>1. \A k \in 1 .. n : \A x \in C : step[k][x] = x \o ss[k]
    OBVIOUS
  <2>2. ASSUME NEW k \in 1 .. n PROVE g[k] = g[k - 1] \o ss[k]
    <3>1. g[k - 1] \in C
      <4>1. k - 1 \in 0 .. n
        BY <1>0
      <4> HIDE DEF C, n
      <4> QED BY <4>1
    <3> HIDE DEF step
    <3>2. g[k] = step[k][g[k - 1]]
      BY <1>2 DEF Follows
    <3> QED BY <2>1, <3>1, <3>2
  <2> QED BY <2>2, <1>2 DEF Follows
<1>4. Joins(g, ss, S)
  BY <1>2, <1>3 DEF Joins
<1>5. CASE n = 0
  <2>1. ss = <<>> /\ FlattenSeq(ss) = ss
    BY <1>5, EmptySeq DEF FlattenSeq
  <2> QED BY <2>1, <1>3, <1>4, <1>5
<1>6. CASE n # 0
  <2> DEFINE u == CHOOSE v : v = Eq(v)
             h == [i \in 1 .. n |-> g[i]]
  <2>1. FlattenSeq(ss) = u[n]
    BY Zenon, <1>6 DEF FlattenSeq
  <2>2. h = Eq(h)
    <3> SUFFICES ASSUME NEW i \in 1 .. n
                 PROVE  h[i] = IF i = 1 THEN ss[i] ELSE h[i - 1] \o ss[i]
      BY Zenon
    <3>1. CASE i = 1
      <4>1. h[1] = <<>> \o ss[1]
        <5>1. 1 \in 1 .. n /\ 1 - 1 = 0
          BY <3>1
        <5>2. h[1] = g[1]
          BY <5>1
        <5> HIDE DEF h
        <5> QED BY <5>1, <5>2, <1>3
      <4>2. <<>> \o ss[1] = ss[1]
        BY <3>1, <1>0, ConcatEmptySeq
      <4> QED BY <4>1, <4>2, <3>1
    <3>2. CASE i # 1
      <4>1. i - 1 \in 1 .. n
        BY <3>2, <1>0
      <4> QED BY <4>1, <3>2, <1>3
    <3> QED BY <3>1, <3>2
  <2>3. u = Eq(u)
    <3> DEFINE Q(p) == p = Eq(p)
    <3>1. Q(h)
      BY <2>2
    <3>2. u = CHOOSE p : Q(p)
      OBVIOUS
    <3>3. Q(u)
      <4> HIDE DEF Q, u, h
      <4> QED BY <3>1, <3>2
    <3> QED BY <3>3
  <2>4. \A i \in 1 .. n : u[i] = IF i = 1 THEN ss[i] ELSE u[i - 1] \o ss[i]
    <3> HIDE DEF u
    <3> QED BY <2>3
  <2>5. \A i \in 1 .. n : u[i] = g[i]
    <3> HIDE DEF u
    <3> DEFINE T == {k \in Nat : k + 1 <= n => u[k + 1] = g[k + 1]}
    <3>1. 0 \in T
      <4> SUFFICES ASSUME 1 <= n PROVE u[1] = g[1]
        BY <1>0
      <4>1. u[1] = ss[1]
        BY <2>4, <1>0
      <4>2. g[1] = <<>> \o ss[1]
        <5>1. 1 \in 1 .. n /\ 1 - 1 = 0
          BY <1>0
        <5> QED BY <5>1, <1>3
      <4>3. <<>> \o ss[1] = ss[1]
        BY <1>0, ConcatEmptySeq
      <4> QED BY <4>1, <4>2, <4>3
    <3>2. ASSUME NEW k \in Nat, k \in T PROVE k + 1 \in T
      <4> SUFFICES ASSUME (k + 1) + 1 <= n PROVE u[(k + 1) + 1] = g[(k + 1) + 1]
        OBVIOUS
      <4> DEFINE i == (k + 1) + 1
      <4>1. i \in 1 .. n /\ i # 1 /\ i - 1 = k + 1
        BY <1>0
      <4>2. u[k + 1] = g[k + 1]
        BY <3>2, <1>0
      <4> HIDE DEF i, T
      <4>3. u[i] = u[i - 1] \o ss[i] /\ g[i] = g[i - 1] \o ss[i]
        BY <4>1, <2>4, <1>3
      <4>4. u[i] = g[i]
        BY <4>1, <4>2, <4>3
      <4> QED BY <4>4 DEF i
    <3>3. Nat \subseteq T
      <4> HIDE DEF T
      <4> QED BY <3>1, <3>2, ByInduction
    <3> SUFFICES ASSUME NEW i \in 1 .. n PROVE u[i] = g[i]
      OBVIOUS
    <3>4. i - 1 \in Nat /\ (i - 1) + 1 = i /\ i <= n
      BY <1>0
    <3> DEFINE j == i - 1
    <3>5. j \in T /\ j + 1 = i
      <4> HIDE DEF T
      <4> QED BY <3>3, <3>4
    <3> HIDE DEF j
    <3> QED BY <3>4, <3>5
  <2>6. FlattenSeq(ss) = g[n]
    <3> HIDE DEF u
    <3> QED BY <1>0, <1>6, <2>1, <2>5
  <2> QED BY <1>4, <2>6
<1> QED BY <1>5, <1>6

LEMMA FlattenType ==
  ASSUME NEW S, NEW ss \in Seq(Seq(S))
  PROVE  FlattenSeq(ss) \in Seq(S)
<1>1. PICK f : Joins(f, ss, S) /\ FlattenSeq(ss) = f[Len(ss)]
  BY FlattenSeqIs
<1>2. Len(ss) \in 0 .. Len(ss)
  BY LenProperties
<1> QED BY <1>1, <1>2 DEF Joins

LEMMA FlattenEmpty == FlattenSeq(<<>>) = <<>>
BY EmptySeq DEF FlattenSeq

LEMMA FlattenAppend ==
  ASSUME NEW S, NEW ss \in Seq(Seq(S)), NEW s \in Seq(S)
  PROVE  FlattenSeq(Append(ss, s)) = FlattenSeq(ss) \o s
<1> DEFINE n == Len(ss)
           tt == Append(ss, s)
<1>1. /\ tt \in Seq(Seq(S)) /\ Len(tt) = n + 1 /\ n \in Nat
      /\ \A i \in 1 .. n : tt[i] = ss[i]
      /\ tt[n + 1] = s
  BY AppendProperties, LenProperties
<1> HIDE DEF tt
<1>2. PICK f : Joins(f, ss, S) /\ FlattenSeq(ss) = f[n]
  BY FlattenSeqIs
<1>3. PICK g : Joins(g, tt, S) /\ FlattenSeq(tt) = g[Len(tt)]
  BY <1>1, FlattenSeqIs
<1>4. /\ f[0] = <<>> /\ \A k \in 1 .. n : f[k] = f[k - 1] \o ss[k]
      /\ g[0] = <<>> /\ \A k \in 1 .. n + 1 : g[k] = g[k - 1] \o tt[k]
  BY <1>1, <1>2, <1>3 DEF Joins
<1> HIDE DEF n
<1> DEFINE T == {k \in Nat : k <= n => f[k] = g[k]}
<1>5. 0 \in T
  BY <1>4
<1>6. ASSUME NEW k \in Nat, k \in T PROVE k + 1 \in T
  <2> SUFFICES ASSUME k + 1 <= n PROVE f[k + 1] = g[k + 1]
    OBVIOUS
  <2> DEFINE i == k + 1
  <2>1. i \in 1 .. n /\ i \in 1 .. n + 1 /\ i - 1 = k
    BY <1>1
  <2>2. f[k] = g[k]
    BY <1>6, <1>1
  <2> HIDE DEF i, T
  <2>3. f[i] = f[i - 1] \o ss[i] /\ g[i] = g[i - 1] \o tt[i] /\ tt[i] = ss[i]
    BY <2>1, <1>1, <1>4
  <2>4. f[i] = g[i]
    BY <2>1, <2>2, <2>3
  <2> QED BY <2>4 DEF i
<1>7. Nat \subseteq T
  <2> HIDE DEF T
  <2> QED BY <1>5, <1>6, ByInduction
<1>8. f[n] = g[n]
  BY <1>1, <1>7
<1>9. g[n + 1] = g[n] \o s
  <2> DEFINE i == n + 1
  <2>1. i \in 1 .. n + 1 /\ i - 1 = n /\ tt[i] = s
    BY <1>1
  <2> HIDE DEF i
  <2>2. g[i] = g[i - 1] \o tt[i]
    BY <2>1, <1>4
  <2>3. g[i] = g[n] \o s
    BY <2>1, <2>2
  <2> QED BY <2>3 DEF i
<1> QED BY <1>1, <1>2, <1>3, <1>8, <1>9 DEF tt

LEMMA FlattenOne ==
  ASSUME NEW S, NEW s \in Seq(S)
  PROVE  FlattenSeq(<<s>>) = s
<1>1. <<>> \in Seq(Seq(S)) /\ Append(<<>>, s) = <<s>>
  BY EmptySeq
<1>2. FlattenSeq(Append(<<>>, s)) = FlattenSeq(<<>>) \o s
  BY <1>1, FlattenAppend
<1> QED BY <1>1, <1>2, FlattenEmpty, ConcatEmptySeq

\* The first k sequences and the others make up the whole.
LEMMA FlattenSplit ==
  ASSUME NEW S, NEW ss \in Seq(Seq(S)), NEW k \in 0 .. Len(ss)
  PROVE  FlattenSeq(ss) =
           FlattenSeq(SubSeq(ss, 1, k)) \o FlattenSeq(SubSeq(ss, k + 1, Len(ss)))
<1> DEFINE n == Len(ss)
           All(j) == SubSeq(ss, 1, j)
           Rest(j) == SubSeq(ss, k + 1, j)
<1>0. n \in Nat /\ k \in Nat /\ \A i \in 1 .. n : ss[i] \in Seq(S)
  BY LenProperties, ElementOfSeq
<1>1. ASSUME NEW j \in 0 .. n
      PROVE  All(j) \in Seq(Seq(S)) /\ Rest(j) \in Seq(Seq(S))
  <2>1. \A i \in 1 .. j : ss[i] \in Seq(S)
    BY <1>0
  <2>2. \A i \in k + 1 .. j : ss[i] \in Seq(S)
    BY <1>0
  <2>3. All(j) \in Seq(Seq(S))
    BY <2>1, <1>0, SubSeqProperties
  <2>4. Rest(j) \in Seq(Seq(S))
    BY <2>2, <1>0, SubSeqProperties
  <2> QED BY <2>3, <2>4
<1> DEFINE T == {m \in Nat : k + m <= n =>
                   FlattenSeq(All(k + m)) = FlattenSeq(All(k)) \o FlattenSeq(Rest(k + m))}
<1>2. 0 \in T
  <2>1. Rest(k) = <<>>
    BY <1>0, SubSeqEmpty
  <2>2. FlattenSeq(All(k)) \in Seq(S)
    BY <1>1, FlattenType
  <2>3. FlattenSeq(All(k)) = FlattenSeq(All(k)) \o <<>>
    <3> HIDE DEF All
    <3> QED BY <2>2, ConcatEmptySeq
  <2>4. k + 0 = k
    BY <1>0
  <2> HIDE DEF All, Rest
  <2> QED BY <2>1, <2>3, <2>4, FlattenEmpty
<1>3. ASSUME NEW m \in Nat, m \in T PROVE m + 1 \in T
  <2> DEFINE j == k + m
  <2> SUFFICES ASSUME k + (m + 1) <= n
               PROVE  FlattenSeq(All(k + (m + 1))) =
                        FlattenSeq(All(k)) \o FlattenSeq(Rest(k + (m + 1)))
    OBVIOUS
  <2>0. k + (m + 1) = j + 1 /\ j \in 0 .. n /\ j + 1 \in 1 .. n
    BY <1>0
  <2>1. FlattenSeq(All(j)) = FlattenSeq(All(k)) \o FlattenSeq(Rest(j))
    BY <1>3, <2>0
  <2>2. All(j + 1) = Append(All(j), ss[j + 1])
    <3>1. 1 \in 1 .. Len(ss) /\ j \in 1 - 1 .. Len(ss) - 1
      BY <1>0, <2>0
    <3> HIDE DEF j
    <3> QED BY <3>1, SubSeqGrows
  <2>3. Rest(j + 1) = Append(Rest(j), ss[j + 1])
    <3>1. k + 1 \in 1 .. Len(ss) /\ j \in (k + 1) - 1 .. Len(ss) - 1
      BY <1>0, <2>0
    <3> HIDE DEF j
    <3> QED BY <3>1, SubSeqGrows
  <2>4. ss[j + 1] \in Seq(S)
    BY <1>0, <2>0
  <2>5. All(j) \in Seq(Seq(S)) /\ Rest(j) \in Seq(Seq(S)) /\ All(k) \in Seq(Seq(S))
    BY <1>1, <2>0
  <2> DEFINE x == ss[j + 1]
  <2> HIDE DEF All, Rest, j, T
  <2>6. FlattenSeq(All(j + 1)) = FlattenSeq(All(j)) \o x
    BY <2>2, <2>4, <2>5, FlattenAppend
  <2>7. FlattenSeq(Rest(j + 1)) = FlattenSeq(Rest(j)) \o x
    BY <2>3, <2>4, <2>5, FlattenAppend
  <2>8. FlattenSeq(All(k)) \in Seq(S) /\ FlattenSeq(Rest(j)) \in Seq(S)
    BY <2>5, FlattenType
  <2>11. x \in Seq(S)
    BY <2>4
  <2> HIDE DEF x
  <2>9. (FlattenSeq(All(k)) \o FlattenSeq(Rest(j))) \o x
          = FlattenSeq(All(k)) \o (FlattenSeq(Rest(j)) \o x)
    BY <2>8, <2>11, ConcatAssociative, SMTT(30)
  <2> QED BY <2>0, <2>1, <2>6, <2>7, <2>9
<1>4. Nat \subseteq T
  <2> HIDE DEF T
  <2> QED BY <1>2, <1>3, ByInduction
<1>5. FlattenSeq(All(n)) = FlattenSeq(All(k)) \o FlattenSeq(Rest(n))
  <2> DEFINE m == n - k
  <2>1. m \in Nat /\ k + m = n
    BY <1>0
  <2>2. m \in T
    <3> HIDE DEF T, m
    <3> QED BY <1>4, <2>1
  <2>3. k + m <= n
    BY <2>1, <1>0
  <2> HIDE DEF All, Rest, m
  <2>4. FlattenSeq(All(k + m)) = FlattenSeq(All(k)) \o FlattenSeq(Rest(k + m))
    BY <2>2, <2>3
  <2> QED BY <2>1, <2>4
<1>6. All(n) = ss
  BY SubSeqFull
<1> QED BY <1>5, <1>6

LEMMA Slices ==
  ASSUME NEW S, NEW p \in Seq(S), NEW q \in Seq(S)
  PROVE  /\ p \o q \in Seq(S) /\ Len(p \o q) = Len(p) + Len(q)
         /\ \A i \in 1 .. Len(p) : (p \o q)[i] = p[i]
         /\ SubSeq(p \o q, 1, Len(p)) = p
         /\ SubSeq(p \o q, Len(p) + 1, Len(p) + Len(q)) = q
<1>0. Len(p) \in Nat /\ Len(q) \in Nat
  BY LenProperties
<1>1. /\ p \o q \in Seq(S) /\ Len(p \o q) = Len(p) + Len(q)
      /\ \A i \in 1 .. Len(p) + Len(q) :
           (p \o q)[i] = IF i <= Len(p) THEN p[i] ELSE q[i - Len(p)]
  BY ConcatProperties
<1> DEFINE r == p \o q
           a == SubSeq(r, 1, Len(p))
           b == SubSeq(r, Len(p) + 1, Len(p) + Len(q))
<1> HIDE DEF r
<1>2. /\ a \in Seq(S) /\ Len(a) = Len(p)
      /\ \A i \in 1 .. Len(p) : a[i] = r[i]
  <2>1. \A i \in 1 .. Len(p) : r[i] \in S
    BY <1>0, <1>1, ElementOfSeq DEF r
  <2>2. /\ a \in Seq(S)
        /\ Len(a) = IF 1 <= Len(p) THEN Len(p) - 1 + 1 ELSE 0
        /\ \A i \in 1 .. Len(p) - 1 + 1 : a[i] = r[1 + i - 1]
    BY <1>0, <2>1, SubSeqProperties
  <2> HIDE DEF a
  <2> QED BY <1>0, <2>2
<1>3. /\ b \in Seq(S) /\ Len(b) = Len(q)
      /\ \A i \in 1 .. Len(q) : b[i] = r[Len(p) + i]
  <2>1. \A i \in Len(p) + 1 .. Len(p) + Len(q) : r[i] \in S
    <3>1. \A i \in 1 .. Len(r) : r[i] \in S
      BY <1>1, ElementOfSeq DEF r
    <3>2. Len(r) = Len(p) + Len(q)
      BY <1>1 DEF r
    <3> QED BY <1>0, <3>1, <3>2
  <2> DEFINE m == Len(p) + 1
             n == Len(p) + Len(q)
  <2>2. /\ b \in Seq(S)
        /\ Len(b) = IF m <= n THEN n - m + 1 ELSE 0
        /\ \A i \in 1 .. n - m + 1 : b[i] = r[m + i - 1]
    <3>1. m \in Int /\ n \in Int
      BY <1>0
    <3> HIDE DEF m, n
    <3> QED BY <2>1, <3>1, SubSeqProperties DEF m, n
  <2> HIDE DEF b
  <2>3. n - m + 1 = Len(q) /\ \A i \in Nat : m + i - 1 = Len(p) + i
    BY <1>0
  <2>4. m <= n <=> 1 <= Len(q)
    BY <1>0
  <2> HIDE DEF m, n
  <2>5. \A i \in 1 .. Len(q) : b[i] = r[Len(p) + i]
    BY <2>2, <2>3
  <2> QED BY <1>0, <2>2, <2>3, <2>4, <2>5
<1>4. a = p
  <2>1. \A i \in 1 .. Len(p) : r[i] = p[i]
    BY <1>0, <1>1 DEF r
  <2> HIDE DEF a
  <2> QED BY <1>2, <2>1, SeqEqual
<1>5. b = q
  <2>1. \A i \in 1 .. Len(q) : r[Len(p) + i] = q[i]
    <3> SUFFICES ASSUME NEW i \in 1 .. Len(q) PROVE r[Len(p) + i] = q[i]
      OBVIOUS
    <3>1. /\ Len(p) + i \in 1 .. Len(p) + Len(q) /\ ~(Len(p) + i <= Len(p))
          /\ (Len(p) + i) - Len(p) = i
      BY <1>0
    <3> QED BY <3>1, <1>1 DEF r
  <2> HIDE DEF b
  <2> QED BY <1>3, <2>1, SeqEqual
<1>6. \A i \in 1 .. Len(p) : (p \o q)[i] = p[i]
  BY <1>0, <1>1
<1> QED BY <1>1, <1>4, <1>5, <1>6 DEF r

LEMMA CancelLeft ==
  ASSUME NEW S, NEW s \in Seq(S), NEW t \in Seq(S), NEW u \in Seq(S), s \o t = s \o u
  PROVE  t = u
BY ConcatSimplifications

\* A part of a sequence.
LEMMA SubSeqType ==
  ASSUME NEW S, NEW s \in Seq(S), NEW m \in Nat \ {0}, NEW n \in Nat, n <= Len(s)
  PROVE  /\ SubSeq(s, m, n) \in Seq(S)
         /\ Len(SubSeq(s, m, n)) = IF m <= n THEN n - m + 1 ELSE 0
<1>1. \A i \in m .. n : s[i] \in S
  BY LenProperties, ElementOfSeq
<1> QED BY <1>1, SubSeqProperties

-----------------------------------------------------------------------------
(* What is encoded is decoded to what it was, and what is decoded is well formed. *)

LEMMA Sizes ==
  /\ IntSize \in Nat \ {0} /\ Radix \in Nat /\ Radix > 3 /\ MaxSize \in Nat
  /\ \A n \in Uint32 : n \in Nat
  /\ \A n \in Nat : n <= MaxSize => n \in Uint32
  /\ Enumerators \subseteq Byte /\ Types \subseteq Byte
<1>1. Power[IntSize] \in Nat
  BY PowerIs, SizeAssumption
<1> QED BY <1>1, SizeAssumption DEF Uint32, Enumerators, Types, Byte, MessageType

LEMMA PushRoundTrip ==
  ASSUME NEW p \in Push
  PROVE  /\ Serialize(p) \in Seq(Byte)
         /\ Len(Serialize(p)) = 3 + IntSize + Len(p.text)
         /\ Len(p.text) \in Uint32 => Deserialize(Serialize(p)) = <<p>>
<1> DEFINE enums == <<p.priority, p.category, p.source>>
           size == htonl(Len(p.text))
           front == enums \o size
           data == front \o p.text
           header == 3 + IntSize
<1>0. /\ p.priority \in Enumerators /\ p.category \in Enumerators
      /\ p.source \in Enumerators /\ p.text \in Seq(Byte)
      /\ p = [priority |-> p.priority, category |-> p.category, source |-> p.source,
              text |-> p.text]
  BY DEF Push
<1>1. enums \in Seq(Byte) /\ Len(enums) = 3
      /\ enums[1] = p.priority /\ enums[2] = p.category /\ enums[3] = p.source
  BY <1>0, Sizes
<1>2. size \in Seq(Byte) /\ Len(size) = IntSize
  BY <1>0, LenProperties, htonlBytes
<1> HIDE DEF enums, size
<1>3. /\ front \in Seq(Byte) /\ Len(front) = header
      /\ \A i \in 1 .. 3 : front[i] = enums[i]
      /\ SubSeq(front, 4, header) = size
  <2>1. /\ front \in Seq(Byte) /\ Len(front) = Len(enums) + Len(size)
        /\ \A i \in 1 .. Len(enums) : front[i] = enums[i]
        /\ SubSeq(front, Len(enums) + 1, Len(enums) + Len(size)) = size
    <3>1. enums \in Seq(Byte) /\ size \in Seq(Byte)
      BY <1>1, <1>2
    <3> QED BY <3>1, Slices, SMTT(30)
  <2> HIDE DEF front
  <2>2. Len(enums) + 1 = 4 /\ Len(enums) + Len(size) = header
    BY <1>1, <1>2, Sizes
  <2> QED BY <1>1, <2>1, <2>2
<1> HIDE DEF front
<1>4. /\ data \in Seq(Byte) /\ Len(data) = header + Len(p.text)
      /\ \A i \in 1 .. header : data[i] = front[i]
      /\ SubSeq(data, header + 1, header + Len(p.text)) = p.text
  <2>1. /\ data \in Seq(Byte) /\ Len(data) = Len(front) + Len(p.text)
        /\ \A i \in 1 .. Len(front) : data[i] = front[i]
        /\ SubSeq(data, Len(front) + 1, Len(front) + Len(p.text)) = p.text
    <3>1. front \in Seq(Byte) /\ p.text \in Seq(Byte)
      BY <1>0, <1>3
    <3> QED BY <3>1, Slices, SMTT(30)
  <2> HIDE DEF data, header
  <2> QED BY <1>3, <2>1
<1>5. SubSeq(data, 4, header) = size
  <2>1. 4 \in 1 .. Len(front) /\ header \in 1 .. Len(front)
    BY <1>3, Sizes
  <2> HIDE DEF header
  <2>2. SubSeq(front \o p.text, 4, header) = SubSeq(front, 4, header)
    BY <1>0, <1>3, <2>1, SubSeqOfConcat1
  <2> QED BY <2>2, <1>3
<1>6. data = Serialize(p)
  BY DEF Serialize, front, enums, size
<1> HIDE DEF data
<1>7. Len(p.text) \in Uint32 => ntohl(SubSeq(data, 4, header)) = Len(p.text)
  BY <1>5, ntohlOfhtonl DEF size
<1>8. data[1] = p.priority /\ data[2] = p.category /\ data[3] = p.source
  <2>1. 1 \in 1 .. header /\ 2 \in 1 .. header /\ 3 \in 1 .. header
    BY Sizes
  <2> HIDE DEF header
  <2> QED BY <2>1, <1>1, <1>3, <1>4
<1>9. ASSUME Len(p.text) \in Uint32 PROVE Deserialize(data) = <<p>>
  <2>1. ~(Len(data) < header) /\ ~(header + Len(p.text) > Len(data))
    BY <1>0, <1>4, Sizes, LenProperties
  <2>2. \A i \in 1 .. 3 : data[i] \in Enumerators
    BY <1>0, <1>8
  <2>3. Deserialize(data) = << [priority |-> data[1], category |-> data[2],
           source |-> data[3], text |-> SubSeq(data, header + 1, header + Len(p.text))] >>
    BY <1>7, <1>9, <2>1, <2>2 DEF Deserialize
  <2> QED BY <2>3, <1>0, <1>4, <1>8
<1> QED BY <1>4, <1>6, <1>9

LEMMA DeserializeType ==
  ASSUME NEW data \in Seq(Byte), Deserialize(data) # Thrown
  PROVE  \E p \in Push : Deserialize(data) = <<p>>
<1> DEFINE header == 3 + IntSize
           size == ntohl(SubSeq(data, 4, header))
           text == SubSeq(data, header + 1, header + size)
           p == [priority |-> data[1], category |-> data[2], source |-> data[3],
                 text |-> text]
<1>1. /\ ~(Len(data) < header) /\ ~(header + size > Len(data))
      /\ \A i \in 1 .. 3 : data[i] \in Enumerators
      /\ Deserialize(data) = <<p>>
  BY DEF Deserialize, Thrown
<1>2. Len(data) \in Nat /\ header \in Nat
  BY LenProperties, Sizes
<1>3. size \in Nat
  <2>1. SubSeq(data, 4, header) \in Seq(Byte)
    <3>1. 4 \in Nat \ {0} /\ header <= Len(data)
      BY <1>1, <1>2
    <3> HIDE DEF header
    <3> QED BY <1>2, <3>1, SubSeqType
  <2> HIDE DEF header
  <2> QED BY <2>1, ntohlBounded
<1>4. text \in Seq(Byte)
  <2>1. header + 1 \in Nat \ {0} /\ header + size \in Nat /\ header + size <= Len(data)
    <3> HIDE DEF header, size
    <3> QED BY <1>1, <1>2, <1>3
  <2> HIDE DEF header, size
  <2> QED BY <2>1, SubSeqType
<1>5. p \in Push
  <2> HIDE DEF text
  <2>1. data[1] \in Enumerators /\ data[2] \in Enumerators /\ data[3] \in Enumerators
    BY <1>1
  <2> QED BY <1>4, <2>1 DEF Push
<1> HIDE DEF p
<1> QED BY <1>1, <1>5

\* What EncodeMessage makes of a message and its push (protocol.cpp:57-69,
\* binary_push_serializer.cpp:16-39), DecodeMessage and Deserialize make the same
\* message and push of, whatever the text.
THEOREM MessageRoundTrip ==
  ASSUME NEW m \in [id : Uint32, type : Types, push : Push]
  PROVE  LET data == EncodeMessage(m, Serialize(m.push)) IN
           /\ data \in Seq(Byte)
           /\ Len(data) = (IntSize + 1) + (3 + IntSize + Len(m.push.text))
           /\ Len(m.push.text) \in Uint32 => DecodeMessage(data) = <<AsDecoded(m)>>
<1> DEFINE id == htonl(m.id)
           type == <<m.type>>
           payload == Serialize(m.push)
           front == id \o type
           header == IntSize + 1
           data == EncodeMessage(m, payload)
<1>0. m.id \in Uint32 /\ m.id \in Nat /\ m.type \in Types /\ m.push \in Push
  BY Sizes
<1>1. /\ payload \in Seq(Byte) /\ Len(payload) = 3 + IntSize + Len(m.push.text)
      /\ Len(m.push.text) \in Uint32 => Deserialize(payload) = <<m.push>>
  BY <1>0, PushRoundTrip
<1>2. id \in Seq(Byte) /\ Len(id) = IntSize
  BY <1>0, htonlBytes
<1>3. type \in Seq(Byte) /\ Len(type) = 1 /\ type[1] = m.type
  <2>1. m.type \in Byte
    BY <1>0, Sizes
  <2> QED BY <2>1
<1> HIDE DEF payload, id, type
<1>4. /\ front \in Seq(Byte) /\ Len(front) = header
      /\ front[header] = m.type
      /\ SubSeq(front, 1, IntSize) = id
  <2>1. /\ front \in Seq(Byte) /\ Len(front) = Len(id) + Len(type)
        /\ SubSeq(front, 1, Len(id)) = id
    <3>1. id \in Seq(Byte) /\ type \in Seq(Byte)
      BY <1>2, <1>3
    <3> QED BY <3>1, Slices, SMTT(30)
  <2>2. \A i \in 1 .. Len(id) + Len(type) :
          front[i] = IF i <= Len(id) THEN id[i] ELSE type[i - Len(id)]
    BY <1>2, <1>3, ConcatProperties
  <2> HIDE DEF front
  <2>3. /\ header \in 1 .. Len(id) + Len(type) /\ ~(header <= Len(id))
        /\ header - Len(id) = 1
    BY <1>2, <1>3, Sizes
  <2>4. front[header] = type[1]
    BY <2>2, <2>3
  <2> QED BY <1>2, <1>3, <2>1, <2>4
<1> HIDE DEF front
<1>5. data = front \o payload
  BY DEF EncodeMessage, front, id, type
<1>6. /\ data \in Seq(Byte) /\ Len(data) = header + Len(payload)
      /\ \A i \in 1 .. header : data[i] = front[i]
      /\ SubSeq(data, header + 1, header + Len(payload)) = payload
  <2> HIDE DEF data
  <2>1. front \in Seq(Byte) /\ payload \in Seq(Byte)
    BY <1>1, <1>4
  <2>2. /\ data \in Seq(Byte) /\ Len(data) = Len(front) + Len(payload)
        /\ \A i \in 1 .. Len(front) : data[i] = front[i]
        /\ SubSeq(data, Len(front) + 1, Len(front) + Len(payload)) = payload
    BY <1>5, <2>1, Slices, SMTT(30)
  <2> HIDE DEF header
  <2> QED BY <1>4, <2>2
<1>7. SubSeq(data, 1, IntSize) = id
  <2>0. 1 \in 1 .. Len(front) /\ IntSize \in 1 .. Len(front)
    BY <1>4, Sizes
  <2>1. SubSeq(front \o payload, 1, IntSize) = SubSeq(front, 1, IntSize)
    BY <1>1, <1>4, <2>0, SubSeqOfConcat1
  <2> QED BY <1>4, <1>5, <2>1
<1> HIDE DEF data
<1>8. ntohl(SubSeq(data, 1, IntSize)) = m.id
  BY <1>0, <1>7, ntohlOfhtonl DEF id
<1>9. data[header] = m.type
  <2>1. header \in 1 .. header
    BY Sizes
  <2> HIDE DEF header
  <2> QED BY <2>1, <1>4, <1>6
<1>10. ~(Len(data) < header) /\ Len(data) # header /\ Len(payload) \in Nat
  <2>1. m.push.text \in Seq(Byte)
    BY <1>0 DEF Push
  <2>2. Len(m.push.text) \in Nat
    BY <2>1, LenProperties
  <2> DEFINE n == Len(m.push.text)
             l == Len(data)
             k == Len(payload)
  <2>3. k = 3 + IntSize + n /\ l = header + k /\ n \in Nat /\ IntSize \in Nat
    BY <1>1, <1>6, <2>2, Sizes
  <2> HIDE DEF n, l, k
  <2>4. ~(l < header) /\ l # header /\ k \in Nat
    BY <2>3
  <2> QED BY <2>4 DEF l, k
<1>11. SubSeq(data, header + 1, Len(data)) = payload
  BY <1>6
<1>12. ASSUME Len(m.push.text) \in Uint32 PROVE DecodeMessage(data) = <<AsDecoded(m)>>
  <2> DEFINE push == IF m.type = MessageType.Push THEN <<m.push>> ELSE <<>>
  <2>1. DecodeMessage(data) = << [id |-> m.id, type |-> m.type, push |-> push] >>
    <3>1. CASE m.type = MessageType.Push
      <4>1. Deserialize(SubSeq(data, header + 1, Len(data))) = <<m.push>>
        BY <1>1, <1>11, <1>12
      <4>2. <<m.push>> # Thrown
        BY DEF Thrown
      <4> QED BY <4>1, <4>2, <3>1, <1>0, <1>8, <1>9, <1>10 DEF DecodeMessage
    <3>2. CASE m.type # MessageType.Push
      BY <3>2, <1>0, <1>8, <1>9, <1>10 DEF DecodeMessage
    <3> QED BY <3>1, <3>2
  <2> QED BY <2>1 DEF AsDecoded
<1>13. Len(data) = (IntSize + 1) + (3 + IntSize + Len(m.push.text))
  BY <1>1, <1>6
<1> QED BY <1>6, <1>12, <1>13 DEF data, payload

LEMMA AsDecodedType ==
  ASSUME NEW m \in [id : Uint32, type : Types, push : Push]
  PROVE  AsDecoded(m) \in Decoded
<1> DEFINE push == IF m.type = MessageType.Push THEN <<m.push>> ELSE <<>>
<1>1. push \in Seq(Push)
  OBVIOUS
<1>2. IF m.type = MessageType.Push THEN Len(push) = 1 ELSE push = <<>>
  OBVIOUS
<1> HIDE DEF push
<1>3. [id |-> m.id, type |-> m.type, push |-> push] \in Decoded
  BY <1>1, <1>2 DEF Decoded
<1> QED BY <1>3 DEF AsDecoded, push

LEMMA DecodeType ==
  ASSUME NEW data \in Seq(Byte), DecodeMessage(data) # Thrown
  PROVE  \E d \in Decoded : DecodeMessage(data) = <<d>>
<1> DEFINE header == IntSize + 1
           type == data[header]
           payload == SubSeq(data, header + 1, Len(data))
           push == IF type = MessageType.Push THEN Deserialize(payload) ELSE <<>>
           d == [id |-> ntohl(SubSeq(data, 1, IntSize)), type |-> type, push |-> push]
<1>1. /\ ~(Len(data) < header) /\ type \in Types
      /\ type = MessageType.Push => push # Thrown
      /\ DecodeMessage(data) = <<d>>
  BY Zenon DEF DecodeMessage, Thrown
<1>2. Len(data) \in Nat /\ header \in Nat /\ IntSize \in Nat \ {0}
  BY LenProperties, Sizes
<1>3. ntohl(SubSeq(data, 1, IntSize)) \in Uint32
  <2>1. SubSeq(data, 1, IntSize) \in Seq(Byte) /\ Len(SubSeq(data, 1, IntSize)) = IntSize
    <3>1. 1 \in Nat \ {0} /\ IntSize <= Len(data) /\ 1 <= IntSize /\ IntSize - 1 + 1 = IntSize
      BY <1>1, <1>2
    <3> QED BY <1>2, <3>1, SubSeqType
  <2> QED BY <2>1, ntohlBounded
<1>4. payload \in Seq(Byte)
  <2>1. header + 1 \in Nat \ {0} /\ Len(data) <= Len(data)
    BY <1>2
  <2> HIDE DEF header
  <2> QED BY <1>2, <2>1, SubSeqType
<1>5. push \in Seq(Push) /\ IF type = MessageType.Push THEN Len(push) = 1 ELSE push = <<>>
  <2>1. CASE type = MessageType.Push
    <3> HIDE DEF payload, type
    <3>1. Deserialize(payload) # Thrown /\ push = Deserialize(payload)
      BY <1>1, <2>1
    <3>2. PICK p \in Push : Deserialize(payload) = <<p>>
      BY <1>4, <3>1, DeserializeType
    <3> QED BY <2>1, <3>1, <3>2
  <2>2. CASE type # MessageType.Push
    <3> HIDE DEF payload, type
    <3> QED BY <2>2
  <2> QED BY <2>1, <2>2
<1> HIDE DEF push, type
<1>6. d \in Decoded
  BY <1>1, <1>3, <1>5 DEF Decoded
<1> HIDE DEF d
<1> QED BY <1>1, <1>6

-----------------------------------------------------------------------------
(* Frames. *)

\* What is so of a good frame and of a bad one.
IsFrame(f) ==
  /\ f.bytes \in Seq(Byte) /\ f.message \in Seq(Decoded)
  /\ HasPrefix(f.bytes)
  /\ Oversized(f.bytes) => f.message = <<>>
  /\ ~Oversized(f.bytes) => /\ Len(f.bytes) = IntSize + PayloadSize(f.bytes)
                            /\ DecodeMessage(FrameData(f.bytes)) = f.message

LEMMA GoodFrame ==
  ASSUME NEW m \in Messages
  PROVE  /\ IsFrame(Frame(SerializeToFrame(m), <<AsDecoded(m)>>))
         /\ AsDecoded(m) \in Decoded
<1> DEFINE data == EncodeMessage(m, Serialize(m.push))
           size == htonl(Len(data))
           bytes == size \o data
<1>0. /\ m \in [id : Uint32, type : Types, push : Push]
      /\ Len(data) <= MaxSize
  BY MessageAssumption
<1>1. Len(m.push.text) \in Uint32
  <2>1. m.push.text \in Seq(Byte)
    BY <1>0 DEF Push
  <2>2. Len(m.push.text) \in Nat
    BY <2>1, LenProperties
  <2>3. Len(m.push.text) <= Len(data)
    <3>1. Len(data) = (IntSize + 1) + (3 + IntSize + Len(m.push.text))
      BY <1>0, MessageRoundTrip
    <3> DEFINE n == Len(m.push.text)
               l == Len(data)
    <3>2. l = (IntSize + 1) + (3 + IntSize + n) /\ n \in Nat /\ IntSize \in Nat
      BY <3>1, <2>2, Sizes
    <3> HIDE DEF n, l
    <3>3. n <= l
      BY <3>2
    <3> QED BY <3>3 DEF n, l
  <2> QED BY <2>2, <2>3, <1>0, Sizes
<1>2. /\ data \in Seq(Byte) /\ DecodeMessage(data) = <<AsDecoded(m)>>
  BY <1>0, <1>1, MessageRoundTrip
<1>3. AsDecoded(m) \in Decoded
  BY <1>0, AsDecodedType
<1> HIDE DEF data
<1>4. Len(data) \in Nat /\ Len(data) \in Uint32
  BY <1>0, <1>2, Sizes, LenProperties
<1>5. size \in Seq(Byte) /\ Len(size) = IntSize /\ ntohl(size) = Len(data)
  BY <1>4, htonlBytes, ntohlOfhtonl
<1> HIDE DEF size
<1>6. /\ bytes \in Seq(Byte) /\ Len(bytes) = IntSize + Len(data)
      /\ SubSeq(bytes, 1, IntSize) = size
      /\ SubSeq(bytes, IntSize + 1, IntSize + Len(data)) = data
  <2>1. /\ bytes \in Seq(Byte) /\ Len(bytes) = Len(size) + Len(data)
        /\ SubSeq(bytes, 1, Len(size)) = size
        /\ SubSeq(bytes, Len(size) + 1, Len(size) + Len(data)) = data
    <3>1. size \in Seq(Byte) /\ data \in Seq(Byte)
      BY <1>2, <1>5
    <3> QED BY <3>1, Slices, SMTT(30)
  <2> QED BY <2>1, <1>5
<1>7. bytes = SerializeToFrame(m)
  BY DEF SerializeToFrame, EncodeFrame, size, data
<1> HIDE DEF bytes
<1>8. PayloadSize(bytes) = Len(data)
  BY <1>5, <1>6 DEF PayloadSize
<1>9. HasPrefix(bytes) /\ ~Oversized(bytes)
  BY <1>0, <1>4, <1>6, <1>8, Sizes DEF HasPrefix, Oversized
<1>10. FrameData(bytes) = data
  BY <1>6, <1>8 DEF FrameData
<1>11. <<AsDecoded(m)>> \in Seq(Decoded)
  BY <1>3
<1> DEFINE f == Frame(bytes, <<AsDecoded(m)>>)
<1>12. f.bytes = bytes /\ f.message = <<AsDecoded(m)>>
  BY DEF Frame
<1> HIDE DEF f
<1>13. IsFrame(f)
  BY <1>2, <1>6, <1>8, <1>9, <1>10, <1>11, <1>12 DEF IsFrame
<1> QED BY <1>3, <1>7, <1>13 DEF f

LEMMA BadFrame ==
  ASSUME NEW bytes \in BadFrames
  PROVE  IsFrame(Frame(bytes, <<>>))
<1>1. bytes \in Seq(Byte) /\ Bad(bytes) /\ (Oversized(bytes) \/ AfterFrame(bytes) = <<>>)
  BY BadFrameAssumption
<1>2. HasPrefix(bytes)
  BY <1>1 DEF Bad, Oversized, HasFrame
<1>3. ASSUME ~Oversized(bytes)
      PROVE  /\ Len(bytes) = IntSize + PayloadSize(bytes)
             /\ DecodeMessage(FrameData(bytes)) = <<>>
  <2>1. HasFrame(bytes) /\ DecodeMessage(FrameData(bytes)) = <<>>
    BY <1>1, <1>3 DEF Bad, Thrown
  <2>2. Len(bytes) \in Nat /\ IntSize \in Nat \ {0}
    BY <1>1, LenProperties, Sizes
  <2>3. PayloadSize(bytes) \in Nat
    <3>1. SubSeq(bytes, 1, IntSize) \in Seq(Byte)
      <4>1. IntSize <= Len(bytes) /\ 1 \in Nat \ {0}
        BY <1>2 DEF HasPrefix
      <4> QED BY <1>1, <2>2, <4>1, SubSeqType
    <3> QED BY <3>1, ntohlBounded DEF PayloadSize
  <2> DEFINE n == IntSize + PayloadSize(bytes)
  <2>4. n <= Len(bytes) /\ n \in Nat
    BY <2>1, <2>2, <2>3 DEF HasFrame
  <2>5. AfterFrame(bytes) = SubSeq(bytes, n + 1, Len(bytes)) /\ AfterFrame(bytes) = <<>>
    BY <1>1, <1>3 DEF AfterFrame
  <2> HIDE DEF n
  <2>6. Len(SubSeq(bytes, n + 1, Len(bytes))) =
          IF n + 1 <= Len(bytes) THEN Len(bytes) - (n + 1) + 1 ELSE 0
    <3>1. n + 1 \in Nat \ {0} /\ Len(bytes) <= Len(bytes)
      BY <2>2, <2>4
    <3> QED BY <1>1, <2>2, <3>1, SubSeqType
  <2>7. Len(<<>>) = 0
    OBVIOUS
  <2>8. ~(n + 1 <= Len(bytes))
    <3>1. Len(SubSeq(bytes, n + 1, Len(bytes))) = 0
      BY <2>5, <2>7
    <3> QED BY <2>2, <2>4, <2>6, <3>1
  <2>9. Len(bytes) = n
    BY <2>2, <2>4, <2>8
  <2> QED BY <2>1, <2>9 DEF n
<1> DEFINE f == Frame(bytes, <<>>)
<1>4. f.bytes = bytes /\ f.message = <<>>
  BY DEF Frame
<1>5. <<>> \in Seq(Decoded)
  OBVIOUS
<1> HIDE DEF f
<1> QED BY <1>1, <1>2, <1>3, <1>4, <1>5 DEF IsFrame, f

\* Two ways to cut a stream that begins with a frame: of a frame f at its beginning, and of
\* what has been read of it, b.
Cuts(f, more, b, rest) ==
  /\ IsFrame(f) /\ more \in Seq(Byte) /\ b \in Seq(Byte) /\ rest \in Seq(Byte)
  /\ f.bytes \o more = b \o rest

LEMMA SameBeginning ==
  ASSUME NEW f, NEW more, NEW b, NEW rest, Cuts(f, more, b, rest),
         NEW m \in Nat \ {0}, NEW n \in Nat, n <= Len(f.bytes), n <= Len(b)
  PROVE  SubSeq(f.bytes, m, n) = SubSeq(b, m, n)
<1> DEFINE h == f.bytes
<1>1. h \in Seq(Byte) /\ more \in Seq(Byte) /\ b \in Seq(Byte) /\ rest \in Seq(Byte)
      /\ h \o more = b \o rest
  BY DEF Cuts, IsFrame
<1>2. n <= Len(h) /\ Len(h) \in Nat /\ Len(b) \in Nat
  BY <1>1, LenProperties
<1> HIDE DEF h
<1>3. CASE m <= n
  <2>1. m \in 1 .. Len(h) /\ n \in 1 .. Len(h) /\ m \in 1 .. Len(b) /\ n \in 1 .. Len(b)
    BY <1>2, <1>3
  <2>2. SubSeq(h \o more, m, n) = SubSeq(h, m, n)
    BY <1>1, <2>1, SubSeqOfConcat1
  <2>3. SubSeq(b \o rest, m, n) = SubSeq(b, m, n)
    BY <1>1, <2>1, SubSeqOfConcat1
  <2> QED BY <1>1, <2>2, <2>3 DEF h
<1>4. CASE n < m
  <2>1. SubSeq(h, m, n) = <<>> /\ SubSeq(b, m, n) = <<>>
    BY <1>4, SubSeqEmpty
  <2> QED BY <2>1 DEF h
<1> QED BY <1>3, <1>4

\* The length of the frame is known when its prefix has been read.
LEMMA SamePrefix ==
  ASSUME NEW f, NEW more, NEW b, NEW rest, Cuts(f, more, b, rest), HasPrefix(b)
  PROVE  PayloadSize(b) = PayloadSize(f.bytes) /\ PayloadSize(b) \in Nat
<1>1. /\ f.bytes \in Seq(Byte) /\ HasPrefix(f.bytes)
  BY DEF Cuts, IsFrame
<1>2. IntSize \in Nat /\ IntSize <= Len(f.bytes) /\ IntSize <= Len(b) /\ 1 \in Nat \ {0}
  BY <1>1, Sizes DEF HasPrefix
<1>3. SubSeq(f.bytes, 1, IntSize) = SubSeq(b, 1, IntSize)
  BY <1>2, SameBeginning
<1>4. SubSeq(f.bytes, 1, IntSize) \in Seq(Byte)
  BY <1>1, <1>2, SubSeqType
<1> QED BY <1>3, <1>4, ntohlBounded DEF PayloadSize

\* When TryDecodeFrame finds a frame in what was read, it is f, and what it leaves is
\* what follows f.
LEMMA FoundIsFirst ==
  ASSUME NEW f, NEW more, NEW b, NEW rest, Cuts(f, more, b, rest), HasFrame(b)
  PROVE  /\ Len(f.bytes) <= Len(b)
         /\ DecodeMessage(FrameData(b)) = f.message
         /\ AfterFrame(b) \in Seq(Byte) /\ AfterFrame(b) \o rest = more
         /\ Len(AfterFrame(b)) = Len(b) - Len(f.bytes)
<1> DEFINE h == f.bytes
           n == Len(h)
<1>1. h \in Seq(Byte) /\ more \in Seq(Byte) /\ b \in Seq(Byte) /\ rest \in Seq(Byte)
      /\ h \o more = b \o rest
  BY DEF Cuts, IsFrame
<1>2. n \in Nat /\ Len(b) \in Nat /\ IntSize \in Nat \ {0}
  BY <1>1, Sizes, LenProperties
<1>3. HasPrefix(b) /\ ~Oversized(b) /\ Len(b) >= IntSize + PayloadSize(b)
  BY DEF HasFrame
<1>4. PayloadSize(b) = PayloadSize(h) /\ PayloadSize(b) \in Nat
  BY <1>3, SamePrefix
<1>5. HasPrefix(h) /\ ~Oversized(h)
  BY <1>3, <1>4 DEF Cuts, IsFrame, Oversized
<1>6. n = IntSize + PayloadSize(b) /\ DecodeMessage(FrameData(h)) = f.message
  BY <1>4, <1>5 DEF Cuts, IsFrame
<1>7. n <= Len(b)
  BY <1>3, <1>6
<1>8. FrameData(b) = FrameData(h)
  <2>1. IntSize + 1 \in Nat \ {0} /\ n <= Len(h)
    BY <1>2
  <2>2. SubSeq(h, IntSize + 1, n) = SubSeq(b, IntSize + 1, n)
    <3> HIDE DEF n
    <3>1. n <= Len(f.bytes)
      BY <2>1
    <3> QED BY <1>2, <1>7, <2>1, <3>1, SameBeginning
  <2> QED BY <2>2, <1>4, <1>6 DEF FrameData
<1> DEFINE after == SubSeq(b, n + 1, Len(b))
<1>9. AfterFrame(b) = after
  BY <1>6 DEF AfterFrame
<1>10. SubSeq(b, 1, n) = h
  <2>1. SubSeq(h, 1, n) = SubSeq(b, 1, n)
    <3>1. 1 \in Nat \ {0} /\ n <= Len(f.bytes)
      BY <1>2
    <3> HIDE DEF n
    <3> QED BY <1>2, <1>7, <3>1, SameBeginning
  <2>2. SubSeq(h, 1, n) = h
    BY <1>1, SubSeqFull
  <2> QED BY <2>1, <2>2
<1>11. h \o after = b
  <2>1. 1 \in 1 .. Len(b) + 1 /\ n \in 1 - 1 .. Len(b) /\ Len(b) \in n .. Len(b)
    BY <1>2, <1>7
  <2> HIDE DEF n
  <2>2. SubSeq(b, 1, n) \o SubSeq(b, n + 1, Len(b)) = SubSeq(b, 1, Len(b))
    BY <1>1, <2>1, ConcatAdjacentSubSeq
  <2>3. SubSeq(b, 1, Len(b)) = b
    BY <1>1, SubSeqFull
  <2> QED BY <1>10, <2>2, <2>3
<1>12. after \in Seq(Byte) /\ Len(after) = Len(b) - n
  <2>1. n + 1 \in Nat \ {0} /\ Len(b) <= Len(b)
    BY <1>2
  <2>2. after \in Seq(Byte)
        /\ Len(after) = IF n + 1 <= Len(b) THEN Len(b) - (n + 1) + 1 ELSE 0
    <3> HIDE DEF n
    <3> QED BY <1>1, <1>2, <2>1, SubSeqType
  <2> HIDE DEF after, n
  <2> QED BY <1>2, <1>7, <2>2
<1> HIDE DEF after, n, h
<1>13. h \o (after \o rest) = h \o more
  <2>1. (h \o after) \o rest = h \o (after \o rest)
    BY <1>1, <1>12, ConcatAssociative, SMTT(30)
  <2> QED BY <2>1, <1>1, <1>11
<1>14. after \o rest \in Seq(Byte)
  BY <1>1, <1>12, ConcatProperties
<1>15. after \o rest = more
  BY <1>1, <1>13, <1>14, CancelLeft
<1> QED BY <1>6, <1>7, <1>8, <1>9, <1>12, <1>15 DEF n, h

\* TryDecodeFrame finds a frame, or a length too large, as soon as all of f is there.
LEMMA WholeIsFound ==
  ASSUME NEW f, NEW more, NEW b, NEW rest, Cuts(f, more, b, rest), Len(f.bytes) <= Len(b)
  PROVE  Oversized(b) \/ HasFrame(b)
<1>1. f.bytes \in Seq(Byte) /\ HasPrefix(f.bytes) /\ b \in Seq(Byte)
  BY DEF Cuts, IsFrame
<1>2. Len(f.bytes) \in Nat /\ Len(b) \in Nat /\ IntSize \in Nat
  BY <1>1, Sizes, LenProperties
<1>3. HasPrefix(b)
  BY <1>1, <1>2 DEF HasPrefix
<1>4. PayloadSize(b) = PayloadSize(f.bytes)
  BY <1>3, SamePrefix
<1> SUFFICES ASSUME ~Oversized(b) PROVE HasFrame(b)
  OBVIOUS
<1>5. ~Oversized(f.bytes)
  BY <1>1, <1>3, <1>4 DEF Oversized
<1>6. Len(f.bytes) = IntSize + PayloadSize(b)
  BY <1>4, <1>5 DEF Cuts, IsFrame
<1> QED BY <1>3, <1>6 DEF HasFrame

-----------------------------------------------------------------------------
(* Sequences of frames. *)

Frames ==
  {Frame(SerializeToFrame(m), <<AsDecoded(m)>>) : m \in Messages}
    \cup {Frame(bytes, <<>>) : bytes \in BadFrames}

LEMMA FramesAre == \A f \in Frames : IsFrame(f)
BY GoodFrame, BadFrame DEF Frames

BytesOf(fs) == [k \in 1 .. Len(fs) |-> fs[k].bytes]
MessagesOf(fs) == [k \in 1 .. Len(fs) |-> fs[k].message]

LEMMA PartsOf ==
  ASSUME NEW fs \in Seq(Frames)
  PROVE  /\ BytesOf(fs) \in Seq(Seq(Byte)) /\ Len(BytesOf(fs)) = Len(fs)
         /\ MessagesOf(fs) \in Seq(Seq(Decoded)) /\ Len(MessagesOf(fs)) = Len(fs)
<1>1. Len(fs) \in Nat /\ \A k \in 1 .. Len(fs) : fs[k] \in Frames
  BY LenProperties, ElementOfSeq
<1>2. \A k \in 1 .. Len(fs) : fs[k].bytes \in Seq(Byte) /\ fs[k].message \in Seq(Decoded)
  BY <1>1, FramesAre DEF IsFrame
<1>3. BytesOf(fs) \in [1 .. Len(fs) -> Seq(Byte)]
  BY <1>2 DEF BytesOf
<1>4. MessagesOf(fs) \in [1 .. Len(fs) -> Seq(Decoded)]
  BY <1>2 DEF MessagesOf
<1>5. BytesOf(fs) \in Seq(Seq(Byte)) /\ MessagesOf(fs) \in Seq(Seq(Decoded))
  <2>1. BytesOf(fs) \in Seq(Seq(Byte))
    BY <1>1, <1>3, SeqDef
  <2>2. MessagesOf(fs) \in Seq(Seq(Decoded))
    BY <1>1, <1>4, SeqDef
  <2> QED BY <2>1, <2>2
<1>6. Len(BytesOf(fs)) = Len(fs)
  BY <1>1, <1>3, <1>5, LenProperties
<1>7. Len(MessagesOf(fs)) = Len(fs)
  BY <1>1, <1>4, <1>5, LenProperties
<1> QED BY <1>5, <1>6, <1>7

LEMMA BytesType ==
  ASSUME NEW fs \in Seq(Frames)
  PROVE  Bytes(fs) \in Seq(Byte) /\ Decodable(fs) \in Seq(Decoded)
<1>1. Bytes(fs) = FlattenSeq(BytesOf(fs)) /\ Decodable(fs) = FlattenSeq(MessagesOf(fs))
  BY DEF Bytes, Decodable, BytesOf, MessagesOf
<1>2. BytesOf(fs) \in Seq(Seq(Byte)) /\ MessagesOf(fs) \in Seq(Seq(Decoded))
  BY PartsOf
<1>3. FlattenSeq(BytesOf(fs)) \in Seq(Byte)
  BY <1>2, FlattenType
<1>4. FlattenSeq(MessagesOf(fs)) \in Seq(Decoded)
  BY <1>2, FlattenType
<1> QED BY <1>1, <1>3, <1>4

LEMMA BytesEmpty == Bytes(<<>>) = <<>> /\ Decodable(<<>>) = <<>>
<1>1. BytesOf(<<>>) = <<>> /\ MessagesOf(<<>>) = <<>>
  BY DEF BytesOf, MessagesOf
<1> QED BY <1>1, FlattenEmpty DEF Bytes, Decodable, BytesOf, MessagesOf

LEMMA BytesAppend ==
  ASSUME NEW fs \in Seq(Frames), NEW f \in Frames
  PROVE  /\ Bytes(Append(fs, f)) = Bytes(fs) \o f.bytes
         /\ Decodable(Append(fs, f)) = Decodable(fs) \o f.message
<1> DEFINE gs == Append(fs, f)
           n == Len(fs)
<1>1. /\ gs \in Seq(Frames) /\ Len(gs) = n + 1 /\ n \in Nat
      /\ \A i \in 1 .. n : gs[i] = fs[i]
      /\ gs[n + 1] = f
  BY AppendProperties, LenProperties
<1>2. f.bytes \in Seq(Byte) /\ f.message \in Seq(Decoded)
  BY FramesAre DEF IsFrame
<1>3. /\ BytesOf(fs) \in Seq(Seq(Byte)) /\ Len(BytesOf(fs)) = n
      /\ MessagesOf(fs) \in Seq(Seq(Decoded)) /\ Len(MessagesOf(fs)) = n
  BY PartsOf
<1> HIDE DEF gs
<1>4. /\ BytesOf(gs) \in Seq(Seq(Byte)) /\ Len(BytesOf(gs)) = n + 1
      /\ MessagesOf(gs) \in Seq(Seq(Decoded)) /\ Len(MessagesOf(gs)) = n + 1
  BY <1>1, PartsOf
<1> HIDE DEF n
<1>5. BytesOf(gs) = Append(BytesOf(fs), f.bytes)
  <2> DEFINE a == Append(BytesOf(fs), f.bytes)
  <2>1. /\ a \in Seq(Seq(Byte)) /\ Len(a) = n + 1
        /\ \A i \in 1 .. n : a[i] = BytesOf(fs)[i]
        /\ a[n + 1] = f.bytes
    BY <1>2, <1>3, AppendProperties
  <2> HIDE DEF a
  <2>2. \A i \in 1 .. n + 1 : BytesOf(gs)[i] = gs[i].bytes
    BY <1>1 DEF BytesOf
  <2>3. \A i \in 1 .. n : BytesOf(fs)[i] = fs[i].bytes
    BY DEF BytesOf, n
  <2>4. ASSUME NEW i \in 1 .. n + 1 PROVE BytesOf(gs)[i] = a[i]
    <3>1. CASE i \in 1 .. n
      BY <3>1, <1>1, <2>1, <2>2, <2>3
    <3>2. CASE i = n + 1
      BY <3>2, <1>1, <2>1, <2>2
    <3> QED BY <3>1, <3>2, <1>1
  <2> QED BY <1>1, <1>4, <2>1, <2>4, SeqEqual DEF a
<1>6. MessagesOf(gs) = Append(MessagesOf(fs), f.message)
  <2> DEFINE a == Append(MessagesOf(fs), f.message)
  <2>1. /\ a \in Seq(Seq(Decoded)) /\ Len(a) = n + 1
        /\ \A i \in 1 .. n : a[i] = MessagesOf(fs)[i]
        /\ a[n + 1] = f.message
    BY <1>2, <1>3, AppendProperties
  <2> HIDE DEF a
  <2>2. \A i \in 1 .. n + 1 : MessagesOf(gs)[i] = gs[i].message
    BY <1>1 DEF MessagesOf
  <2>3. \A i \in 1 .. n : MessagesOf(fs)[i] = fs[i].message
    BY DEF MessagesOf, n
  <2>4. ASSUME NEW i \in 1 .. n + 1 PROVE MessagesOf(gs)[i] = a[i]
    <3>1. CASE i \in 1 .. n
      BY <3>1, <1>1, <2>1, <2>2, <2>3
    <3>2. CASE i = n + 1
      BY <3>2, <1>1, <2>1, <2>2
    <3> QED BY <3>1, <3>2, <1>1
  <2> QED BY <1>1, <1>4, <2>1, <2>4, SeqEqual DEF a
<1>7. /\ FlattenSeq(BytesOf(gs)) = FlattenSeq(BytesOf(fs)) \o f.bytes
  BY <1>2, <1>3, <1>5, FlattenAppend
<1>8. FlattenSeq(MessagesOf(gs)) = FlattenSeq(MessagesOf(fs)) \o f.message
  BY <1>2, <1>3, <1>6, FlattenAppend
<1> QED BY <1>7, <1>8 DEF Bytes, Decodable, BytesOf, MessagesOf, gs

\* A part of the frames is frames, and its bytes and messages are the parts' ones.
LEMMA PartOfFrames ==
  ASSUME NEW fs \in Seq(Frames), NEW i \in Nat \ {0}, NEW j \in Nat, j <= Len(fs)
  PROVE  /\ SubSeq(fs, i, j) \in Seq(Frames)
         /\ Len(SubSeq(fs, i, j)) = IF i <= j THEN j - i + 1 ELSE 0
         /\ BytesOf(SubSeq(fs, i, j)) = SubSeq(BytesOf(fs), i, j)
         /\ MessagesOf(SubSeq(fs, i, j)) = SubSeq(MessagesOf(fs), i, j)
<1> DEFINE gs == SubSeq(fs, i, j)
           n == Len(gs)
<1>0. Len(fs) \in Nat
  BY LenProperties
<1>1. /\ gs \in Seq(Frames) /\ n = IF i <= j THEN j - i + 1 ELSE 0
      /\ \A k \in 1 .. j - i + 1 : gs[k] = fs[i + k - 1]
  <2>1. \A k \in i .. j : fs[k] \in Frames
    BY <1>0, ElementOfSeq
  <2> QED BY <2>1, SubSeqProperties
<1>2. /\ BytesOf(fs) \in Seq(Seq(Byte)) /\ Len(BytesOf(fs)) = Len(fs)
      /\ MessagesOf(fs) \in Seq(Seq(Decoded)) /\ Len(MessagesOf(fs)) = Len(fs)
  BY PartsOf
<1> HIDE DEF gs
<1>3. /\ BytesOf(gs) \in Seq(Seq(Byte)) /\ Len(BytesOf(gs)) = n
      /\ MessagesOf(gs) \in Seq(Seq(Decoded)) /\ Len(MessagesOf(gs)) = n
  BY <1>1, PartsOf
<1> HIDE DEF n
<1>4. \A k \in 1 .. n : k \in 1 .. j - i + 1 /\ i + k - 1 \in 1 .. Len(fs)
  BY <1>0, <1>1
<1>5. BytesOf(gs) = SubSeq(BytesOf(fs), i, j)
  <2> DEFINE a == SubSeq(BytesOf(fs), i, j)
  <2>1. /\ a \in Seq(Seq(Byte)) /\ Len(a) = n
        /\ \A k \in 1 .. j - i + 1 : a[k] = BytesOf(fs)[i + k - 1]
    <3>1. \A k \in i .. j : BytesOf(fs)[k] \in Seq(Byte)
      BY <1>0, <1>2, ElementOfSeq
    <3>2. /\ a \in Seq(Seq(Byte)) /\ Len(a) = IF i <= j THEN j - i + 1 ELSE 0
          /\ \A k \in 1 .. j - i + 1 : a[k] = BytesOf(fs)[i + k - 1]
      BY <3>1, SubSeqProperties
    <3> QED BY <3>2, <1>1
  <2> HIDE DEF a
  <2>2. ASSUME NEW k \in 1 .. n PROVE BytesOf(gs)[k] = a[k]
    <3>1. BytesOf(gs)[k] = gs[k].bytes
      BY DEF BytesOf, n
    <3>2. BytesOf(fs)[i + k - 1] = fs[i + k - 1].bytes
      BY <1>4 DEF BytesOf
    <3> QED BY <3>1, <3>2, <1>1, <1>4, <2>1
  <2> QED BY <1>3, <2>1, <2>2, SeqEqual DEF a
<1>6. MessagesOf(gs) = SubSeq(MessagesOf(fs), i, j)
  <2> DEFINE a == SubSeq(MessagesOf(fs), i, j)
  <2>1. /\ a \in Seq(Seq(Decoded)) /\ Len(a) = n
        /\ \A k \in 1 .. j - i + 1 : a[k] = MessagesOf(fs)[i + k - 1]
    <3>1. \A k \in i .. j : MessagesOf(fs)[k] \in Seq(Decoded)
      BY <1>0, <1>2, ElementOfSeq
    <3>2. /\ a \in Seq(Seq(Decoded)) /\ Len(a) = IF i <= j THEN j - i + 1 ELSE 0
          /\ \A k \in 1 .. j - i + 1 : a[k] = MessagesOf(fs)[i + k - 1]
      BY <3>1, SubSeqProperties
    <3> QED BY <3>2, <1>1
  <2> HIDE DEF a
  <2>2. ASSUME NEW k \in 1 .. n PROVE MessagesOf(gs)[k] = a[k]
    <3>1. MessagesOf(gs)[k] = gs[k].message
      BY DEF MessagesOf, n
    <3>2. MessagesOf(fs)[i + k - 1] = fs[i + k - 1].message
      BY <1>4 DEF MessagesOf
    <3> QED BY <3>1, <3>2, <1>1, <1>4, <2>1
  <2> QED BY <1>3, <2>1, <2>2, SeqEqual DEF a
<1> QED BY <1>1, <1>5, <1>6 DEF gs, n

First(fs, k) == SubSeq(fs, 1, k)
Others(fs, k) == SubSeq(fs, k + 1, Len(fs))

LEMMA BytesSplit ==
  ASSUME NEW fs \in Seq(Frames), NEW k \in 0 .. Len(fs)
  PROVE  /\ First(fs, k) \in Seq(Frames) /\ Len(First(fs, k)) = k
         /\ Others(fs, k) \in Seq(Frames) /\ Len(Others(fs, k)) = Len(fs) - k
         /\ Bytes(fs) = Bytes(First(fs, k)) \o Bytes(Others(fs, k))
         /\ Decodable(fs) = Decodable(First(fs, k)) \o Decodable(Others(fs, k))
<1>0. /\ Len(fs) \in Nat /\ k \in Nat /\ k <= Len(fs) /\ Len(fs) <= Len(fs)
      /\ 1 \in Nat \ {0} /\ k + 1 \in Nat \ {0}
  BY LenProperties
<1>1. /\ First(fs, k) \in Seq(Frames)
      /\ Len(First(fs, k)) = IF 1 <= k THEN k - 1 + 1 ELSE 0
      /\ BytesOf(First(fs, k)) = SubSeq(BytesOf(fs), 1, k)
      /\ MessagesOf(First(fs, k)) = SubSeq(MessagesOf(fs), 1, k)
  BY <1>0, PartOfFrames DEF First
<1>2. /\ Others(fs, k) \in Seq(Frames)
      /\ Len(Others(fs, k)) = IF k + 1 <= Len(fs) THEN Len(fs) - (k + 1) + 1 ELSE 0
      /\ BytesOf(Others(fs, k)) = SubSeq(BytesOf(fs), k + 1, Len(fs))
      /\ MessagesOf(Others(fs, k)) = SubSeq(MessagesOf(fs), k + 1, Len(fs))
  BY <1>0, PartOfFrames DEF Others
<1>3. /\ BytesOf(fs) \in Seq(Seq(Byte)) /\ Len(BytesOf(fs)) = Len(fs)
      /\ MessagesOf(fs) \in Seq(Seq(Decoded)) /\ Len(MessagesOf(fs)) = Len(fs)
  BY PartsOf
<1>4. FlattenSeq(BytesOf(fs)) =
        FlattenSeq(BytesOf(First(fs, k))) \o FlattenSeq(BytesOf(Others(fs, k)))
  <2>1. k \in 0 .. Len(BytesOf(fs))
    BY <1>3
  <2>2. FlattenSeq(BytesOf(fs)) = FlattenSeq(SubSeq(BytesOf(fs), 1, k))
                          \o FlattenSeq(SubSeq(BytesOf(fs), k + 1, Len(BytesOf(fs))))
    BY <1>3, <2>1, FlattenSplit
  <2> QED BY <2>2, <1>1, <1>2, <1>3
<1>5. FlattenSeq(MessagesOf(fs)) =
        FlattenSeq(MessagesOf(First(fs, k))) \o FlattenSeq(MessagesOf(Others(fs, k)))
  <2>1. k \in 0 .. Len(MessagesOf(fs))
    BY <1>3
  <2>2. FlattenSeq(MessagesOf(fs)) = FlattenSeq(SubSeq(MessagesOf(fs), 1, k))
                          \o FlattenSeq(SubSeq(MessagesOf(fs), k + 1, Len(MessagesOf(fs))))
    BY <1>3, <2>1, FlattenSplit
  <2> QED BY <2>2, <1>1, <1>2, <1>3
<1>6. Len(First(fs, k)) = k /\ Len(Others(fs, k)) = Len(fs) - k
  BY <1>0, <1>1, <1>2
<1>7. \A gs : /\ Bytes(gs) = FlattenSeq(BytesOf(gs))
              /\ Decodable(gs) = FlattenSeq(MessagesOf(gs))
  BY DEF Bytes, Decodable, BytesOf, MessagesOf
<1> QED BY <1>1, <1>2, <1>4, <1>5, <1>6, <1>7

LEMMA BytesHead ==
  ASSUME NEW fs \in Seq(Frames), fs # <<>>
  PROVE  /\ Tail(fs) \in Seq(Frames) /\ Len(Tail(fs)) = Len(fs) - 1
         /\ Tail(fs) = Others(fs, 1) /\ fs[1] \in Frames
         /\ Bytes(fs) = fs[1].bytes \o Bytes(Tail(fs))
         /\ Decodable(fs) = fs[1].message \o Decodable(Tail(fs))
         /\ Bytes(First(fs, 1)) = fs[1].bytes
<1>0. Len(fs) \in Nat \ {0} /\ 1 \in 0 .. Len(fs) /\ 1 \in 1 .. Len(fs)
  BY EmptySeq
<1>1. Tail(fs) = Others(fs, 1)
  <2>1. Tail(fs) = SubSeq(fs, 2, Len(fs))
    BY TailIsSubSeq
  <2>2. 1 + 1 = 2
    OBVIOUS
  <2> QED BY <2>1, <2>2 DEF Others
<1>2. /\ First(fs, 1) \in Seq(Frames) /\ Len(First(fs, 1)) = 1
      /\ Others(fs, 1) \in Seq(Frames) /\ Len(Others(fs, 1)) = Len(fs) - 1
      /\ Bytes(fs) = Bytes(First(fs, 1)) \o Bytes(Others(fs, 1))
      /\ Decodable(fs) = Decodable(First(fs, 1)) \o Decodable(Others(fs, 1))
  BY <1>0, BytesSplit
<1>3. fs[1] \in Frames
  BY <1>0, ElementOfSeq
<1>4. First(fs, 1) = Append(<<>>, fs[1])
  <2>1. SubSeq(fs, 1, 0 + 1) = Append(SubSeq(fs, 1, 0), fs[0 + 1])
    <3>1. 0 \in 1 - 1 .. Len(fs) - 1
      BY <1>0
    <3> QED BY <1>0, <3>1, SubSeqGrows
  <2>2. SubSeq(fs, 1, 0) = <<>>
    BY SubSeqEmpty
  <2>3. 0 + 1 = 1
    OBVIOUS
  <2> QED BY <2>1, <2>2, <2>3 DEF First
<1>5. /\ Bytes(First(fs, 1)) = Bytes(<<>>) \o fs[1].bytes
      /\ Decodable(First(fs, 1)) = Decodable(<<>>) \o fs[1].message
  <2>1. <<>> \in Seq(Frames)
    BY EmptySeq
  <2> QED BY <1>3, <1>4, <2>1, BytesAppend
<1>6. fs[1].bytes \in Seq(Byte) /\ fs[1].message \in Seq(Decoded)
  BY <1>3, FramesAre DEF IsFrame
<1>7. Bytes(First(fs, 1)) = fs[1].bytes
  BY <1>5, <1>6, BytesEmpty, ConcatEmptySeq
<1>8. Decodable(First(fs, 1)) = fs[1].message
  BY <1>5, <1>6, BytesEmpty, ConcatEmptySeq
<1> QED BY <1>1, <1>2, <1>3, <1>7, <1>8

-----------------------------------------------------------------------------
(* How many frames end within the first bytes. *)

LEMMA Largest ==
  ASSUME NEW n \in Nat, NEW S \in SUBSET (0 .. n), S # {}
  PROVE  /\ Max(S) \in S
         /\ \A y \in S : Max(S) >= y
<1> DEFINE U == {m \in Nat : \A y \in S : m >= y}
<1>1. PICK u \in U : \A y \in U : u <= y
  <2>1. n \in U
    OBVIOUS
  <2>2. U \subseteq Nat /\ U # {}
    BY <2>1
  <2> HIDE DEF U
  <2> QED BY <2>2, Smallest
<1>2. u \in S
  <2> SUFFICES ASSUME u \notin S PROVE FALSE
    OBVIOUS
  <2>1. PICK y \in S : TRUE
    OBVIOUS
  <2>2. u >= y /\ u # y
    BY <1>1, <2>1
  <2>3. u - 1 \in Nat
    BY <1>1, <2>2
  <2>4. u - 1 \in U
    BY <1>1, <2>3
  <2> QED BY <1>1, <2>3, <2>4
<1>3. \E x \in S : \A y \in S : x >= y
  BY <1>1, <1>2
<1> HIDE DEF U
<1> QED BY <1>3 DEF Max

LEMMA EndWithinIs ==
  ASSUME NEW fs \in Seq(Frames), NEW n \in Nat
  PROVE  /\ EndWithin(fs, n) \in 0 .. Len(fs)
         /\ Len(Bytes(First(fs, EndWithin(fs, n)))) <= n
         /\ \A k \in 0 .. Len(fs) : Len(Bytes(First(fs, k))) <= n => k <= EndWithin(fs, n)
<1> DEFINE S == {k \in 0 .. Len(fs) : Len(Bytes(SubSeq(fs, 1, k))) <= n}
<1>1. Len(fs) \in Nat /\ S \in SUBSET (0 .. Len(fs))
  BY LenProperties
<1>2. 0 \in S
  <2>1. SubSeq(fs, 1, 0) = <<>>
    BY SubSeqEmpty
  <2>2. Len(<<>>) = 0
    OBVIOUS
  <2>3. Len(Bytes(SubSeq(fs, 1, 0))) = 0
    BY <2>1, <2>2, BytesEmpty
  <2> QED BY <1>1, <2>3
<1>3. EndWithin(fs, n) = Max(S)
  BY DEF EndWithin
<1>4. Max(S) \in S /\ \A y \in S : Max(S) >= y
  <2> HIDE DEF S
  <2> QED BY <1>1, <1>2, Largest
<1>5. ASSUME NEW k \in 0 .. Len(fs), Len(Bytes(First(fs, k))) <= n
      PROVE  k <= Max(S)
  <2>1. k \in S
    BY <1>5 DEF First
  <2> HIDE DEF S
  <2> QED BY <1>1, <1>4, <2>1
<1>6. Max(S) \in 0 .. Len(fs)
  <2> HIDE DEF S
  <2> QED BY <1>1, <1>4
<1>7. Len(Bytes(First(fs, Max(S)))) <= n
  <2>1. PICK k : k = Max(S)
    OBVIOUS
  <2>2. k \in S
    BY <1>4, <2>1
  <2>3. Len(Bytes(First(fs, k))) <= n
    BY <2>2 DEF First
  <2> HIDE DEF S
  <2> QED BY <2>1, <2>3
<1> HIDE DEF S
<1> QED BY <1>3, <1>5, <1>6, <1>7

\* Frames that end within the first bytes: none is shorter than the first of them alone.
LEMMA FirstIsLeast ==
  ASSUME NEW fs \in Seq(Frames), NEW k \in 1 .. Len(fs)
  PROVE  /\ Len(Bytes(First(fs, k))) >= Len(fs[1].bytes)
         /\ First(fs, k)[1] = fs[1]
<1> DEFINE gs == First(fs, k)
<1>1. Len(fs) \in Nat /\ k \in 0 .. Len(fs) /\ k \in Nat \ {0}
  BY LenProperties
<1>2. gs \in Seq(Frames) /\ Len(gs) = k
  BY <1>1, BytesSplit
<1>3. gs # <<>>
  BY <1>1, <1>2
<1>4. gs[1] = fs[1]
  <2>1. 1 \in 1 .. Len(fs) + 1 /\ k \in 1 - 1 .. Len(fs) /\ 1 \in 1 .. k - 1 + 1
    BY <1>1
  <2>2. \A i \in 1 .. k - 1 + 1 : SubSeq(fs, 1, k)[i] = fs[1 + i - 1]
    BY <2>1, SubSeqProperties
  <2>3. SubSeq(fs, 1, k)[1] = fs[1 + 1 - 1]
    BY <2>1, <2>2
  <2>4. 1 + 1 - 1 = 1
    OBVIOUS
  <2> QED BY <2>3, <2>4 DEF First
<1> HIDE DEF gs
<1>5. /\ Bytes(gs) = gs[1].bytes \o Bytes(Tail(gs))
      /\ gs[1] \in Frames /\ Tail(gs) \in Seq(Frames)
  BY <1>2, <1>3, BytesHead
<1>6. gs[1].bytes \in Seq(Byte) /\ Bytes(Tail(gs)) \in Seq(Byte)
  BY <1>5, FramesAre, BytesType DEF IsFrame
<1>7. Len(Bytes(gs)) = Len(gs[1].bytes) + Len(Bytes(Tail(gs)))
  BY <1>5, <1>6, ConcatProperties
<1>8. Len(gs[1].bytes) \in Nat /\ Len(Bytes(Tail(gs))) \in Nat
  BY <1>6, LenProperties
<1>9. Len(Bytes(gs)) >= Len(gs[1].bytes)
  BY <1>7, <1>8
<1> QED BY <1>4, <1>9 DEF gs

LEMMA FirstTwo ==
  ASSUME NEW fs \in Seq(Frames), Len(fs) >= 2
  PROVE  Len(Bytes(First(fs, 2))) = Len(fs[1].bytes) + Len(fs[2].bytes)
<1>1. Len(fs) \in Nat /\ 1 \in 0 .. Len(fs) /\ 2 \in 1 .. Len(fs) /\ fs # <<>>
  BY LenProperties
<1>2. /\ First(fs, 1) \in Seq(Frames) /\ fs[1] \in Frames
      /\ Bytes(First(fs, 1)) = fs[1].bytes
  BY <1>1, BytesHead, BytesSplit
<1>3. fs[2] \in Frames
  BY <1>1, ElementOfSeq
<1>4. First(fs, 2) = Append(First(fs, 1), fs[2])
  <2>1. SubSeq(fs, 1, 1 + 1) = Append(SubSeq(fs, 1, 1), fs[1 + 1])
    <3>1. 1 \in 1 - 1 .. Len(fs) - 1 /\ 1 \in 1 .. Len(fs)
      BY <1>1
    <3> QED BY <3>1, SubSeqGrows
  <2>2. 1 + 1 = 2
    OBVIOUS
  <2> QED BY <2>1, <2>2 DEF First
<1>5. Bytes(First(fs, 2)) = fs[1].bytes \o fs[2].bytes
  BY <1>2, <1>3, <1>4, BytesAppend
<1>6. fs[1].bytes \in Seq(Byte) /\ fs[2].bytes \in Seq(Byte)
  BY <1>2, <1>3, FramesAre DEF IsFrame
<1>7. Len(fs[1].bytes \o fs[2].bytes) = Len(fs[1].bytes) + Len(fs[2].bytes)
  BY <1>6, ConcatProperties
<1> QED BY <1>5, <1>7

-----------------------------------------------------------------------------
(* What Feed does with a stream of frames, fs: b has been read of it, the rest is still *)
(* on the way.                                                                          *)

Of(fs, b, rest) ==
  fs \in Seq(Frames) /\ b \in Seq(Byte) /\ rest \in Seq(Byte) /\ b \o rest = Bytes(fs)

\* The stream begins with the first frame.
LEMMA FirstCuts ==
  ASSUME NEW fs, NEW b, NEW rest, Of(fs, b, rest), fs # <<>>
  PROVE  Cuts(fs[1], Bytes(Tail(fs)), b, rest)
<1>1. /\ Tail(fs) \in Seq(Frames) /\ fs[1] \in Frames
      /\ Bytes(fs) = fs[1].bytes \o Bytes(Tail(fs))
  BY BytesHead DEF Of
<1>2. IsFrame(fs[1]) /\ Bytes(Tail(fs)) \in Seq(Byte)
  BY <1>1, FramesAre, BytesType
<1> QED BY <1>1, <1>2 DEF Cuts, Of

\* No bytes come of no frames.
LEMMA NothingPending ==
  ASSUME NEW fs, NEW b, NEW rest, Of(fs, b, rest), fs = <<>>
  PROVE  b = <<>> /\ rest = <<>>
<1>1. b \o rest = <<>>
  BY BytesEmpty DEF Of
<1> QED BY <1>1, ConcatEqualIffEmpty DEF Of

LEMMA FoundIsPending ==
  ASSUME NEW fs, NEW b, NEW rest, Of(fs, b, rest), HasFrame(b)
  PROVE  /\ fs # <<>>
         /\ DecodeMessage(FrameData(b)) = fs[1].message
         /\ Of(Tail(fs), AfterFrame(b), rest)
         /\ Len(AfterFrame(b)) = Len(b) - Len(fs[1].bytes)
<1>1. b # <<>>
  <2>1. Len(b) >= IntSize /\ IntSize \in Nat \ {0} /\ Len(<<>>) = 0
    BY Sizes DEF HasFrame, HasPrefix
  <2> QED BY <2>1
<1>2. fs # <<>>
  BY <1>1, NothingPending
<1>3. Cuts(fs[1], Bytes(Tail(fs)), b, rest)
  BY <1>2, FirstCuts
<1>4. /\ DecodeMessage(FrameData(b)) = fs[1].message
      /\ AfterFrame(b) \in Seq(Byte) /\ AfterFrame(b) \o rest = Bytes(Tail(fs))
      /\ Len(AfterFrame(b)) = Len(b) - Len(fs[1].bytes)
  BY <1>3, FoundIsFirst
<1>5. Tail(fs) \in Seq(Frames)
  BY <1>2, BytesHead DEF Of
<1> QED BY <1>2, <1>4, <1>5 DEF Of

\* Frames that end where the part that was read ends are just what was read.
LEMMA ReadIsWhole ==
  ASSUME NEW fs, NEW b, NEW rest, Of(fs, b, rest), EndAt(fs, Len(b))
  PROVE  LET k == EndWithin(fs, Len(b)) IN
           /\ Of(First(fs, k), b, <<>>) /\ Of(Others(fs, k), <<>>, rest)
           /\ Decodable(fs) = Decodable(First(fs, k)) \o Decodable(Others(fs, k))
<1> DEFINE k == EndWithin(fs, Len(b))
           p == Bytes(First(fs, k))
           q == Bytes(Others(fs, k))
<1>1. /\ fs \in Seq(Frames) /\ b \in Seq(Byte) /\ rest \in Seq(Byte)
      /\ b \o rest = Bytes(fs)
  BY DEF Of
<1>2. k \in 0 .. Len(fs)
  BY <1>1, LenProperties, EndWithinIs
<1>3. Len(p) = Len(b)
  BY DEF EndAt, First
<1> HIDE DEF k
<1>4. /\ First(fs, k) \in Seq(Frames) /\ Others(fs, k) \in Seq(Frames)
      /\ Bytes(fs) = p \o q
      /\ Decodable(fs) = Decodable(First(fs, k)) \o Decodable(Others(fs, k))
  BY <1>1, <1>2, BytesSplit
<1>5. p \in Seq(Byte) /\ q \in Seq(Byte)
  BY <1>4, BytesType
<1> HIDE DEF p, q
<1>6. p = b
  <2>1. SubSeq(p \o q, 1, Len(p)) = p
    BY <1>5, Slices, SMTT(30)
  <2>2. SubSeq(b \o rest, 1, Len(b)) = b
    BY <1>1, Slices, SMTT(30)
  <2> QED BY <2>1, <2>2, <1>1, <1>3, <1>4
<1>7. q = rest
  <2>1. b \o q = b \o rest
    BY <1>1, <1>4, <1>6
  <2> QED BY <2>1, <1>1, <1>5, CancelLeft
<1>8. <<>> \in Seq(Byte) /\ b \o <<>> = b /\ <<>> \o rest = rest
  BY <1>1, EmptySeq, ConcatEmptySeq
<1> QED BY <1>1, <1>4, <1>6, <1>7, <1>8 DEF Of, k, p, q

-----------------------------------------------------------------------------
(* The invariant. *)

Typed ==
  /\ wire \in Seq(Byte) /\ buffer \in Seq(Byte)
  /\ received \in Seq(Decoded) /\ sent \in Seq(Decoded)
  /\ pending \in Seq(Frames)

Flags == aligned \in BOOLEAN /\ dropped \in BOOLEAN /\ merged \in BOOLEAN

Counted ==
  /\ frames \in 0 .. MaxFrames /\ breaks \in 0 .. MaxBreaks

\* While the stream is in order and no chunk ended two frames, the first frame that is not
\* decoded is not complete.
FirstIncomplete ==
  aligned /\ ~merged /\ pending # <<>> => Len(buffer) < Len(pending[1].bytes)

Inv == Typed /\ Flags /\ Counted /\ StreamPreserved /\ FirstIncomplete

LEMMA InitInv == Init => Inv
<1> SUFFICES ASSUME Init PROVE Inv
  OBVIOUS
<1>1. Typed
  BY EmptySeq DEF Init, Typed
<1>2. Counted
  BY BoundAssumption DEF Init, Counted
<1>5. Flags
  BY Zenon DEF Init, Flags
<1>3. StreamPreserved
  <2>1. <<>> \o <<>> = <<>>
    BY EmptySeq, ConcatEmptySeq
  <2> QED BY <2>1, BytesEmpty DEF Init, StreamPreserved
<1>4. FirstIncomplete
  BY DEF Init, FirstIncomplete
<1> QED BY <1>1, <1>2, <1>3, <1>4, <1>5 DEF Inv

\* A chunk is taken from the wire to the end of the buffer.
LEMMA ChunkRead ==
  ASSUME Typed, NEW n \in 1 .. ChunkSize, n <= Len(wire)
  PROVE  LET bytes == buffer \o SubSeq(wire, 1, n)
             rest == SubSeq(wire, n + 1, Len(wire))
         IN  /\ bytes \in Seq(Byte) /\ rest \in Seq(Byte)
             /\ bytes \o rest = buffer \o wire
<1> DEFINE c == SubSeq(wire, 1, n)
           rest == SubSeq(wire, n + 1, Len(wire))
<1>1. wire \in Seq(Byte) /\ buffer \in Seq(Byte) /\ Len(wire) \in Nat
  BY LenProperties DEF Typed
<1>2. /\ n \in Nat /\ 1 \in Nat \ {0} /\ n + 1 \in Nat \ {0} /\ Len(wire) <= Len(wire)
      /\ 1 \in 1 .. Len(wire) + 1 /\ n \in 1 - 1 .. Len(wire) /\ Len(wire) \in n .. Len(wire)
  BY <1>1, SizeAssumption
<1>3. c \in Seq(Byte) /\ rest \in Seq(Byte)
  BY <1>1, <1>2, SubSeqType
<1>4. c \o rest = wire
  <2>1. c \o rest = SubSeq(wire, 1, Len(wire))
    BY <1>1, <1>2, ConcatAdjacentSubSeq
  <2> QED BY <2>1, <1>1, SubSeqFull
<1> HIDE DEF c, rest
<1>5. (buffer \o c) \o rest = buffer \o (c \o rest)
  <2>1. buffer \in Seq(Byte) /\ c \in Seq(Byte) /\ rest \in Seq(Byte)
    BY <1>1, <1>3
  <2> QED BY <2>1, ConcatAssociative, SMTT(30)
<1>6. buffer \o c \in Seq(Byte)
  BY <1>1, <1>3, ConcatProperties
<1> QED BY <1>3, <1>4, <1>5, <1>6 DEF c, rest

\* Feed returns nothing but well formed messages, and leaves bytes, whatever it reads.
LEMMA FoundType ==
  ASSUME NEW b \in Seq(Byte), HasFrame(b)
  PROVE  /\ AfterFrame(b) \in Seq(Byte)
         /\ ~Bad(b) => DecodeMessage(FrameData(b)) \in Seq(Decoded)
<1>1. /\ Len(b) \in Nat /\ IntSize \in Nat \ {0} /\ 1 \in Nat \ {0}
      /\ Len(b) >= IntSize /\ Len(b) >= IntSize + PayloadSize(b) /\ Len(b) <= Len(b)
  BY LenProperties, Sizes DEF HasFrame, HasPrefix
<1>2. PayloadSize(b) \in Nat
  <2>1. SubSeq(b, 1, IntSize) \in Seq(Byte)
    BY <1>1, SubSeqType
  <2> QED BY <2>1, ntohlBounded DEF PayloadSize
<1> DEFINE n == IntSize + PayloadSize(b)
<1>3. n \in Nat /\ n <= Len(b) /\ n + 1 \in Nat \ {0} /\ IntSize + 1 \in Nat \ {0}
  BY <1>1, <1>2
<1>4. AfterFrame(b) = SubSeq(b, n + 1, Len(b)) /\ FrameData(b) = SubSeq(b, IntSize + 1, n)
  BY DEF AfterFrame, FrameData
<1> HIDE DEF n
<1>5. AfterFrame(b) \in Seq(Byte)
  BY <1>1, <1>3, <1>4, SubSeqType
<1>6. FrameData(b) \in Seq(Byte)
  BY <1>1, <1>3, <1>4, SubSeqType
<1>7. ASSUME ~Bad(b) PROVE DecodeMessage(FrameData(b)) \in Seq(Decoded)
  <2>1. DecodeMessage(FrameData(b)) # Thrown
    BY <1>7 DEF Bad
  <2>2. PICK d \in Decoded : DecodeMessage(FrameData(b)) = <<d>>
    BY <1>6, <2>1, DecodeType
  <2>3. <<d>> \in Seq(Decoded)
    OBVIOUS
  <2> QED BY <2>2, <2>3
<1> QED BY <1>5, <1>7

\* The actions, in terms of frames and of what was read.
Sends(f) == f \in Frames /\ Transmit(f) /\ sent' = sent \o f.message

Reads(b) ==
  /\ b \in Seq(Byte) /\ wire' \in Seq(Byte) /\ b \o wire' = buffer \o wire
  /\ merged' = (merged \/ EndWithin(pending, Len(b)) > EndWithin(pending, Len(buffer)) + 1)
  /\ UNCHANGED <<sent, frames, breaks>>

LEMMA SendsAre ==
  ASSUME Typed, Send \/ SendBad
  PROVE  \E f : Sends(f)
<1>1. CASE Send
  <2>1. PICK m \in Messages : /\ Transmit(Frame(SerializeToFrame(m), <<AsDecoded(m)>>))
                              /\ sent' = Append(sent, AsDecoded(m))
    BY <1>1 DEF Send
  <2> DEFINE f == Frame(SerializeToFrame(m), <<AsDecoded(m)>>)
  <2>2. f \in Frames /\ f.message = <<AsDecoded(m)>>
    BY DEF Frames, Frame
  <2>3. AsDecoded(m) \in Decoded /\ sent \in Seq(Decoded)
    BY GoodFrame DEF Typed
  <2>4. Append(sent, AsDecoded(m)) = sent \o <<AsDecoded(m)>>
    BY <2>3, AppendIsConcat
  <2>5. Transmit(f)
    BY <2>1
  <2> HIDE DEF f
  <2>6. Sends(f)
    BY <2>1, <2>2, <2>4, <2>5 DEF Sends
  <2> QED BY <2>6
<1>2. CASE SendBad
  <2>1. PICK bytes \in BadFrames : Transmit(Frame(bytes, <<>>)) /\ sent' = sent
    BY <1>2 DEF SendBad
  <2> DEFINE f == Frame(bytes, <<>>)
  <2>2. f \in Frames /\ f.message = <<>>
    BY DEF Frames, Frame
  <2>3. sent \o <<>> = sent
    BY ConcatEmptySeq DEF Typed
  <2>4. Transmit(f)
    BY <2>1
  <2> HIDE DEF f
  <2>5. Sends(f)
    BY <2>1, <2>2, <2>3, <2>4 DEF Sends
  <2> QED BY <2>5
<1> QED BY <1>1, <1>2

LEMMA FeedReads ==
  ASSUME Typed, Feed
  PROVE  \E b : Reads(b) /\ (Wait(b) \/ Deliver(b) \/ Clear(b))
<1>1. PICK n \in 1 .. ChunkSize :
        LET b == buffer \o SubSeq(wire, 1, n)
        IN  /\ n <= Len(wire)
            /\ wire' = SubSeq(wire, n + 1, Len(wire))
            /\ merged' = (merged \/ EndWithin(pending, Len(b)) >
                                       EndWithin(pending, Len(buffer)) + 1)
            /\ Wait(b) \/ Deliver(b) \/ Clear(b)
            /\ UNCHANGED <<sent, frames, breaks>>
  BY DEF Feed
<1>2. PICK b : b = buffer \o SubSeq(wire, 1, n)
  OBVIOUS
<1>3. /\ b \in Seq(Byte) /\ SubSeq(wire, n + 1, Len(wire)) \in Seq(Byte)
      /\ b \o SubSeq(wire, n + 1, Len(wire)) = buffer \o wire
  BY <1>1, <1>2, ChunkRead
<1>4. wire' = SubSeq(wire, n + 1, Len(wire))
  BY <1>1
<1>5. merged' = (merged \/ EndWithin(pending, Len(b)) > EndWithin(pending, Len(buffer)) + 1)
  BY <1>1, <1>2, Zenon
<1>6. (Wait(b) \/ Deliver(b) \/ Clear(b)) /\ UNCHANGED <<sent, frames, breaks>>
  BY <1>1, <1>2, Zenon
<1>7. b \in Seq(Byte) /\ wire' \in Seq(Byte) /\ b \o wire' = buffer \o wire
  BY <1>3, <1>4
<1>8. Reads(b)
  BY <1>5, <1>6, <1>7, Zenon DEF Reads
<1> QED BY <1>6, <1>8

LEMMA Steps ==
  ASSUME Typed, [Next]_vars
  PROVE  \/ \E f : Sends(f)
         \/ \E b : Reads(b) /\ (Wait(b) \/ Deliver(b) \/ Clear(b))
         \/ Reconnect
         \/ UNCHANGED vars
BY SendsAre, FeedReads DEF Next

LEMMA StreamIs ==
  ASSUME Typed, StreamPreserved, aligned
  PROVE  /\ Of(pending, buffer, wire)
         /\ \A b : Reads(b) => Of(pending, b, wire')
BY DEF Typed, StreamPreserved, Of, Reads

\* Where frames end that are read, and those that are left.
LEMMA PartsAreFrames ==
  ASSUME Typed, NEW b \in Seq(Byte)
  PROVE  LET k == EndWithin(pending, Len(b))
         IN  First(pending, k) \in Seq(Frames) /\ Others(pending, k) \in Seq(Frames)
<1> DEFINE k == EndWithin(pending, Len(b))
<1>1. pending \in Seq(Frames) /\ Len(b) \in Nat
  BY LenProperties DEF Typed
<1>2. k \in 0 .. Len(pending)
  BY <1>1, EndWithinIs
<1> HIDE DEF k
<1>3. First(pending, k) \in Seq(Frames) /\ Others(pending, k) \in Seq(Frames)
  BY <1>1, <1>2, BytesSplit
<1> QED BY <1>3 DEF k

-----------------------------------------------------------------------------
(* Every step keeps the types. *)

LEMMA TypedNext ==
  ASSUME Typed, StreamPreserved, [Next]_vars
  PROVE  Typed'
<1>0. /\ wire \in Seq(Byte) /\ buffer \in Seq(Byte) /\ <<>> \in Seq(Byte)
      /\ received \in Seq(Decoded) /\ sent \in Seq(Decoded)
      /\ pending \in Seq(Frames) /\ <<>> \in Seq(Frames)
  BY EmptySeq DEF Typed
<1>1. ASSUME NEW f, Sends(f) PROVE Typed'
  <2>1. f \in Frames /\ f.bytes \in Seq(Byte) /\ f.message \in Seq(Decoded)
    BY <1>1, FramesAre DEF Sends, IsFrame
  <2>2. wire' \in Seq(Byte)
    BY <1>0, <1>1, <2>1, ConcatProperties DEF Sends, Transmit
  <2>3. sent' \in Seq(Decoded)
    BY <1>0, <1>1, <2>1, ConcatProperties DEF Sends
  <2>4. pending' \in Seq(Frames)
    <3>1. Append(pending, f) \in Seq(Frames)
      BY <1>0, <2>1, AppendProperties
    <3>2. pending' = IF aligned THEN Append(pending, f) ELSE pending
      BY <1>1 DEF Sends, Transmit
    <3> QED BY <1>0, <3>1, <3>2
  <2>5. buffer' = buffer /\ received' = received
    BY <1>1 DEF Sends, Transmit
  <2> QED BY <1>0, <2>2, <2>3, <2>4, <2>5 DEF Typed
<1>2. ASSUME NEW b, Reads(b), Wait(b) PROVE Typed'
  BY <1>0, <1>2 DEF Reads, Wait, Typed
<1>3. ASSUME NEW b, Reads(b), Deliver(b) PROVE Typed'
  <2>1. b \in Seq(Byte) /\ wire' \in Seq(Byte) /\ sent' = sent
    BY <1>3 DEF Reads
  <2>2. /\ HasFrame(b) /\ ~Bad(b) /\ buffer' = AfterFrame(b)
        /\ received' = received \o DecodeMessage(FrameData(b))
        /\ pending' = IF aligned THEN Tail(pending) ELSE pending
    BY <1>3 DEF Deliver
  <2>3. AfterFrame(b) \in Seq(Byte) /\ DecodeMessage(FrameData(b)) \in Seq(Decoded)
    BY <2>1, <2>2, FoundType
  <2>4. received' \in Seq(Decoded)
    BY <1>0, <2>2, <2>3, ConcatProperties
  <2>5. pending' \in Seq(Frames)
    <3>1. ASSUME aligned PROVE Tail(pending) \in Seq(Frames)
      <4>1. Of(pending, b, wire')
        BY <1>3, <3>1, StreamIs
      <4>2. pending # <<>>
        BY <2>2, <4>1, FoundIsPending
      <4> QED BY <1>0, <4>2, BytesHead
    <3> QED BY <1>0, <2>2, <3>1
  <2> QED BY <1>0, <2>1, <2>2, <2>3, <2>4, <2>5 DEF Typed
<1>4. ASSUME NEW b, Reads(b), Clear(b) PROVE Typed'
  <2>1. b \in Seq(Byte) /\ wire' \in Seq(Byte) /\ sent' = sent
    BY <1>4 DEF Reads
  <2>2. PICK k : k = EndWithin(pending, Len(b))
    OBVIOUS
  <2>3. /\ buffer' = <<>> /\ received' = received
        /\ pending' = IF aligned' THEN Others(pending, k) ELSE <<>>
    BY <1>4, <2>2 DEF Clear, Others
  <2>4. Others(pending, k) \in Seq(Frames)
    BY <2>1, <2>2, PartsAreFrames
  <2>5. pending' \in Seq(Frames)
    BY <1>0, <2>3, <2>4
  <2> QED BY <1>0, <2>1, <2>3, <2>5 DEF Typed
<1>5. CASE Reconnect
  <2>1. PICK k : k = EndWithin(pending, Len(buffer))
    OBVIOUS
  <2>2. /\ wire' = <<>> /\ buffer' = buffer /\ received' = received /\ sent' = sent
        /\ pending' = IF aligned' THEN First(pending, k) ELSE <<>>
    BY <1>5, <2>1 DEF Reconnect, First
  <2>3. First(pending, k) \in Seq(Frames)
    BY <1>0, <2>1, PartsAreFrames
  <2>4. pending' \in Seq(Frames)
    BY <1>0, <2>2, <2>3
  <2> QED BY <1>0, <2>2, <2>4 DEF Typed
<1>6. CASE UNCHANGED vars
  BY <1>0, <1>6 DEF vars, Typed
<1> QED BY <1>1, <1>2, <1>3, <1>4, <1>5, <1>6, Steps

LEMMA FlagsNext ==
  ASSUME Typed, Flags, [Next]_vars
  PROVE  Flags'
<1>1. ASSUME NEW f, Sends(f) PROVE Flags'
  BY <1>1, Zenon DEF Sends, Transmit, Flags
<1>2. ASSUME NEW b, Reads(b) PROVE merged' \in BOOLEAN
  BY <1>2, Zenon DEF Reads, Flags
<1>3. ASSUME NEW b, Reads(b), Wait(b) PROVE Flags'
  BY <1>2, <1>3, Zenon DEF Wait, Flags
<1>4. ASSUME NEW b, Reads(b), Deliver(b) PROVE Flags'
  BY <1>2, <1>4, Zenon DEF Deliver, Flags
<1>5. ASSUME NEW b, Reads(b), Clear(b) PROVE Flags'
  BY <1>2, <1>5, Zenon DEF Clear, Flags
<1>6. CASE Reconnect
  BY <1>6, Zenon DEF Reconnect, Flags
<1>7. CASE UNCHANGED vars
  BY <1>7, Zenon DEF vars, Flags
<1> QED BY <1>1, <1>3, <1>4, <1>5, <1>6, <1>7, Steps

LEMMA CountedNext ==
  ASSUME Typed, Counted, [Next]_vars
  PROVE  Counted'
<1> USE BoundAssumption DEF Counted
<1>1. ASSUME NEW f, Sends(f) PROVE Counted'
  BY <1>1 DEF Sends, Transmit
<1>2. ASSUME NEW b, Reads(b) PROVE Counted'
  BY <1>2 DEF Reads
<1>3. CASE Reconnect
  BY <1>3 DEF Reconnect
<1>4. CASE UNCHANGED vars
  BY <1>4 DEF vars
<1> QED BY <1>1, <1>2, <1>3, <1>4, Steps

-----------------------------------------------------------------------------
(* Every step keeps the stream, and the first frame incomplete. *)

\* The two parts of StreamPreserved.
StreamLeft == aligned => buffer \o wire = Bytes(pending)
AllAccounted == aligned /\ ~dropped => received \o Decodable(pending) = sent

LEMMA StreamLeftNext ==
  ASSUME Typed, StreamPreserved, [Next]_vars
  PROVE  StreamLeft'
<1> SUFFICES ASSUME aligned' PROVE (buffer \o wire = Bytes(pending))'
  BY DEF StreamLeft
<1>0. /\ wire \in Seq(Byte) /\ buffer \in Seq(Byte) /\ pending \in Seq(Frames)
  BY DEF Typed
<1>1. ASSUME NEW f, Sends(f) PROVE (buffer \o wire = Bytes(pending))'
  <2>1. /\ f \in Frames /\ aligned' = aligned /\ buffer' = buffer
        /\ wire' = wire \o f.bytes
        /\ pending' = IF aligned THEN Append(pending, f) ELSE pending
    BY <1>1 DEF Sends, Transmit
  <2>2. f.bytes \in Seq(Byte)
    BY <2>1, FramesAre DEF IsFrame
  <2>3. aligned /\ pending' = Append(pending, f)
    BY <2>1
  <2>4. buffer \o wire = Bytes(pending)
    BY <2>3 DEF StreamPreserved
  <2>5. Bytes(Append(pending, f)) = Bytes(pending) \o f.bytes
    BY <1>0, <2>1, BytesAppend
  <2>6. (buffer \o wire) \o f.bytes = buffer \o (wire \o f.bytes)
    <3> DEFINE x == f.bytes
    <3>1. buffer \in Seq(Byte) /\ wire \in Seq(Byte) /\ x \in Seq(Byte)
      BY <1>0, <2>2
    <3> HIDE DEF x
    <3>2. (buffer \o wire) \o x = buffer \o (wire \o x)
      BY <3>1, ConcatAssociative, SMTT(30)
    <3> QED BY <3>2 DEF x
  <2>7. buffer' \o wire' = Bytes(pending')
    BY <2>1, <2>3, <2>4, <2>5, <2>6
  <2> QED BY <2>7 DEF Bytes
<1>2. ASSUME NEW b, Reads(b), Wait(b) PROVE (buffer \o wire = Bytes(pending))'
  <2>1. /\ aligned /\ buffer' = b /\ pending' = pending /\ b \o wire' = buffer \o wire
    BY <1>2 DEF Wait, Reads
  <2>2. buffer \o wire = Bytes(pending)
    BY <2>1 DEF StreamPreserved
  <2>3. buffer' \o wire' = Bytes(pending')
    BY <2>1, <2>2
  <2> QED BY <2>3 DEF Bytes
<1>3. ASSUME NEW b, Reads(b), Deliver(b) PROVE (buffer \o wire = Bytes(pending))'
  <2>1. /\ aligned /\ buffer' = AfterFrame(b) /\ pending' = Tail(pending) /\ HasFrame(b)
    BY <1>3 DEF Deliver
  <2>2. Of(pending, b, wire')
    BY <1>3, <2>1, StreamIs
  <2>3. Of(Tail(pending), AfterFrame(b), wire')
    BY <2>1, <2>2, FoundIsPending
  <2>4. buffer' \o wire' = Bytes(pending')
    BY <2>1, <2>3 DEF Of
  <2> QED BY <2>4 DEF Bytes
<1>4. ASSUME NEW b, Reads(b), Clear(b) PROVE (buffer \o wire = Bytes(pending))'
  <2>1. PICK k : k = EndWithin(pending, Len(b))
    OBVIOUS
  <2>2. /\ aligned /\ EndAt(pending, Len(b)) /\ buffer' = <<>>
        /\ pending' = Others(pending, k)
    BY <1>4, <2>1 DEF Clear, Others
  <2>3. Of(pending, b, wire')
    BY <1>4, <2>2, StreamIs
  <2>4. Of(Others(pending, k), <<>>, wire')
    BY <2>1, <2>2, <2>3, ReadIsWhole
  <2>5. buffer' \o wire' = Bytes(pending')
    BY <2>2, <2>4 DEF Of
  <2> QED BY <2>5 DEF Bytes
<1>5. CASE Reconnect
  <2>1. PICK k : k = EndWithin(pending, Len(buffer))
    OBVIOUS
  <2>2. /\ aligned /\ EndAt(pending, Len(buffer)) /\ buffer' = buffer /\ wire' = <<>>
        /\ pending' = First(pending, k)
    BY <1>5, <2>1 DEF Reconnect, First
  <2>3. Of(pending, buffer, wire)
    BY <2>2, StreamIs
  <2>4. Of(First(pending, k), buffer, <<>>)
    BY <2>1, <2>2, <2>3, ReadIsWhole
  <2>5. buffer' \o wire' = Bytes(pending')
    BY <2>2, <2>4 DEF Of
  <2> QED BY <2>5 DEF Bytes
<1>6. CASE UNCHANGED vars
  <2>1. /\ aligned /\ buffer' = buffer /\ wire' = wire /\ pending' = pending
    BY <1>6 DEF vars
  <2>2. buffer \o wire = Bytes(pending)
    BY <2>1 DEF StreamPreserved
  <2>3. buffer' \o wire' = Bytes(pending')
    BY <2>1, <2>2
  <2> QED BY <2>3 DEF Bytes
<1> QED BY <1>1, <1>2, <1>3, <1>4, <1>5, <1>6, Steps

LEMMA AllAccountedNext ==
  ASSUME Typed, StreamPreserved, [Next]_vars
  PROVE  AllAccounted'
<1> SUFFICES ASSUME aligned', ~dropped' PROVE (received \o Decodable(pending) = sent)'
  BY DEF AllAccounted
<1>0. /\ received \in Seq(Decoded) /\ pending \in Seq(Frames)
      /\ Decodable(pending) \in Seq(Decoded)
  BY BytesType DEF Typed
<1>1. ASSUME NEW f, Sends(f) PROVE (received \o Decodable(pending) = sent)'
  <2>1. /\ f \in Frames /\ aligned' = aligned /\ dropped' = dropped /\ received' = received
        /\ sent' = sent \o f.message
        /\ pending' = IF aligned THEN Append(pending, f) ELSE pending
    BY <1>1 DEF Sends, Transmit
  <2>2. f.message \in Seq(Decoded)
    BY <2>1, FramesAre DEF IsFrame
  <2>3. aligned /\ ~dropped /\ pending' = Append(pending, f)
    BY <2>1
  <2>4. received \o Decodable(pending) = sent
    BY <2>3 DEF StreamPreserved
  <2>5. Decodable(Append(pending, f)) = Decodable(pending) \o f.message
    BY <1>0, <2>1, BytesAppend
  <2>6. (received \o Decodable(pending)) \o f.message
          = received \o (Decodable(pending) \o f.message)
    <3> DEFINE x == Decodable(pending)
               y == f.message
    <3>1. received \in Seq(Decoded) /\ x \in Seq(Decoded) /\ y \in Seq(Decoded)
      BY <1>0, <2>2
    <3> HIDE DEF x, y
    <3>2. (received \o x) \o y = received \o (x \o y)
      BY <3>1, ConcatAssociative, SMTT(30)
    <3> QED BY <3>2 DEF x, y
  <2>7. received' \o Decodable(pending') = sent'
    BY <2>1, <2>3, <2>4, <2>5, <2>6
  <2> QED BY <2>7 DEF Decodable
<1>2. ASSUME NEW b, Reads(b), Wait(b) PROVE (received \o Decodable(pending) = sent)'
  <2>1. /\ aligned /\ ~dropped /\ received' = received /\ pending' = pending /\ sent' = sent
    BY <1>2 DEF Wait, Reads
  <2>2. received \o Decodable(pending) = sent
    BY <2>1 DEF StreamPreserved
  <2>3. received' \o Decodable(pending') = sent'
    BY <2>1, <2>2
  <2> QED BY <2>3 DEF Decodable
<1>3. ASSUME NEW b, Reads(b), Deliver(b) PROVE (received \o Decodable(pending) = sent)'
  <2> DEFINE m == pending[1].message
             others == Decodable(Tail(pending))
  <2>1. /\ aligned /\ ~dropped /\ HasFrame(b) /\ sent' = sent
        /\ received' = received \o DecodeMessage(FrameData(b))
        /\ pending' = Tail(pending)
    BY <1>3 DEF Deliver, Reads
  <2>2. Of(pending, b, wire')
    BY <1>3, <2>1, StreamIs
  <2>3. pending # <<>> /\ DecodeMessage(FrameData(b)) = m
    BY <2>1, <2>2, FoundIsPending
  <2>4. /\ Tail(pending) \in Seq(Frames) /\ pending[1] \in Frames
        /\ Decodable(pending) = m \o others
    BY <1>0, <2>3, BytesHead
  <2>5. m \in Seq(Decoded) /\ others \in Seq(Decoded)
    BY <2>4, FramesAre, BytesType DEF IsFrame
  <2>6. received \o Decodable(pending) = sent
    BY <2>1 DEF StreamPreserved
  <2> HIDE DEF m, others
  <2>7. (received \o m) \o others = received \o (m \o others)
    <3>1. received \in Seq(Decoded) /\ m \in Seq(Decoded) /\ others \in Seq(Decoded)
      BY <1>0, <2>5
    <3> QED BY <3>1, ConcatAssociative, SMTT(30)
  <2>8. received' \o others = sent'
    BY <2>1, <2>3, <2>4, <2>6, <2>7
  <2>9. others = Decodable(pending')
    BY <2>1 DEF others
  <2> QED BY <2>8, <2>9 DEF Decodable
<1>4. ASSUME NEW b, Reads(b), Clear(b) PROVE (received \o Decodable(pending) = sent)'
  <2>1. PICK k : k = EndWithin(pending, Len(b))
    OBVIOUS
  <2>2. aligned /\ EndAt(pending, Len(b)) /\ pending' = Others(pending, k)
    BY <1>4, <2>1 DEF Clear, Others
  <2>3. ~dropped /\ Decodable(First(pending, k)) = <<>>
    BY <1>4, <2>1 DEF Clear, First
  <2>4. received' = received /\ sent' = sent
    BY <1>4 DEF Clear, Reads
  <2>5. Of(pending, b, wire')
    BY <1>4, <2>2, StreamIs
  <2>6. Decodable(pending) = Decodable(First(pending, k)) \o Decodable(Others(pending, k))
    BY <2>1, <2>2, <2>5, ReadIsWhole
  <2>7. Decodable(Others(pending, k)) \in Seq(Decoded)
    <3>1. Others(pending, k) \in Seq(Frames)
      BY <1>4, <2>1, PartsAreFrames DEF Reads
    <3> QED BY <3>1, BytesType
  <2>8. Decodable(pending) = Decodable(Others(pending, k))
    BY <2>3, <2>6, <2>7, ConcatEmptySeq
  <2>9. received \o Decodable(pending) = sent
    BY <2>2, <2>3 DEF StreamPreserved
  <2>10. received' \o Decodable(pending') = sent'
    BY <2>2, <2>4, <2>8, <2>9
  <2> QED BY <2>10 DEF Decodable
<1>5. CASE Reconnect
  <2>1. PICK k : k = EndWithin(pending, Len(buffer))
    OBVIOUS
  <2>2. aligned /\ EndAt(pending, Len(buffer)) /\ pending' = First(pending, k)
    BY <1>5, <2>1 DEF Reconnect, First
  <2>3. ~dropped /\ Decodable(Others(pending, k)) = <<>>
    BY <1>5, <2>1 DEF Reconnect, Others
  <2>4. received' = received /\ sent' = sent
    BY <1>5 DEF Reconnect
  <2>5. Of(pending, buffer, wire)
    BY <2>2, StreamIs
  <2>6. Decodable(pending) = Decodable(First(pending, k)) \o Decodable(Others(pending, k))
    BY <2>1, <2>2, <2>5, ReadIsWhole
  <2>7. Decodable(First(pending, k)) \in Seq(Decoded)
    <3>1. First(pending, k) \in Seq(Frames)
      BY <2>1, PartsAreFrames DEF Typed
    <3> QED BY <3>1, BytesType
  <2>8. Decodable(pending) = Decodable(First(pending, k))
    BY <2>3, <2>6, <2>7, ConcatEmptySeq
  <2>9. received \o Decodable(pending) = sent
    BY <2>2, <2>3 DEF StreamPreserved
  <2>10. received' \o Decodable(pending') = sent'
    BY <2>2, <2>4, <2>8, <2>9
  <2> QED BY <2>10 DEF Decodable
<1>6. CASE UNCHANGED vars
  <2>1. /\ aligned /\ ~dropped /\ received' = received /\ pending' = pending /\ sent' = sent
    BY <1>6 DEF vars
  <2>2. received \o Decodable(pending) = sent
    BY <2>1 DEF StreamPreserved
  <2>3. received' \o Decodable(pending') = sent'
    BY <2>1, <2>2
  <2> QED BY <2>3 DEF Decodable
<1> QED BY <1>1, <1>2, <1>3, <1>4, <1>5, <1>6, Steps

LEMMA FirstIncompleteNext ==
  ASSUME Typed, StreamPreserved, FirstIncomplete, [Next]_vars
  PROVE  FirstIncomplete'
<1> SUFFICES ASSUME aligned', ~merged', pending' # <<>>
             PROVE  (Len(buffer) < Len(pending[1].bytes))'
  BY DEF FirstIncomplete
<1>0. /\ pending \in Seq(Frames) /\ buffer \in Seq(Byte) /\ Len(buffer) \in Nat
      /\ Len(pending) \in Nat
  BY LenProperties DEF Typed
<1>1. \A f \in Frames : Len(f.bytes) \in Nat /\ Len(f.bytes) > 0
  <2> SUFFICES ASSUME NEW f \in Frames PROVE Len(f.bytes) \in Nat /\ Len(f.bytes) > 0
    OBVIOUS
  <2>1. f.bytes \in Seq(Byte) /\ HasPrefix(f.bytes)
    BY FramesAre DEF IsFrame
  <2> DEFINE h == f.bytes
  <2>2. h \in Seq(Byte) /\ Len(h) >= IntSize
    BY <2>1 DEF HasPrefix
  <2> HIDE DEF h
  <2>3. Len(h) \in Nat /\ Len(h) > 0
    BY <2>2, LenProperties, Sizes
  <2> QED BY <2>3 DEF h
<1>2. ASSUME NEW f, Sends(f) PROVE Len(buffer') < Len(pending'[1].bytes)
  <2>1. /\ f \in Frames /\ aligned /\ ~merged /\ buffer' = buffer
        /\ pending' = Append(pending, f)
    BY <1>2 DEF Sends, Transmit
  <2>2. CASE pending = <<>>
    <3>1. Of(pending, buffer, wire)
      BY <2>1, StreamIs
    <3>2. buffer = <<>>
      BY <2>2, <3>1, NothingPending
    <3>3. pending'[1] = f
      BY <2>1, <2>2
    <3>4. Len(<<>>) = 0
      OBVIOUS
    <3> QED BY <1>1, <2>1, <3>2, <3>3, <3>4
  <2>3. CASE pending # <<>>
    <3>1. Len(buffer) < Len(pending[1].bytes)
      BY <2>1, <2>3 DEF FirstIncomplete
    <3>2. 1 \in 1 .. Len(pending)
      BY <1>0, <2>3
    <3>3. Append(pending, f)[1] = pending[1]
      BY <1>0, <2>1, <3>2, AppendProperties
    <3> QED BY <2>1, <3>1, <3>3
  <2> QED BY <2>2, <2>3
<1>3. ASSUME NEW b, Reads(b), Wait(b) PROVE Len(buffer') < Len(pending'[1].bytes)
  <2>1. /\ b \in Seq(Byte) /\ aligned /\ buffer' = b /\ pending' = pending
        /\ ~Oversized(b) /\ ~HasFrame(b)
    BY <1>3 DEF Reads, Wait
  <2>2. Of(pending, b, wire')
    BY <1>3, <2>1, StreamIs
  <2>3. pending # <<>> /\ pending[1] \in Frames
    BY <1>0, <2>1, BytesHead
  <2>4. Cuts(pending[1], Bytes(Tail(pending)), b, wire')
    BY <2>2, <2>3, FirstCuts
  <2>5. ~(Len(pending[1].bytes) <= Len(b))
    BY <2>1, <2>4, WholeIsFound
  <2>6. Len(pending[1].bytes) \in Nat /\ Len(b) \in Nat
    BY <1>1, <2>1, <2>3, LenProperties
  <2> QED BY <2>1, <2>5, <2>6
<1>4. ASSUME NEW b, Reads(b), Deliver(b) PROVE Len(buffer') < Len(pending'[1].bytes)
  <2>1. /\ b \in Seq(Byte) /\ Len(b) \in Nat /\ aligned /\ HasFrame(b)
        /\ buffer' = AfterFrame(b) /\ pending' = Tail(pending)
    BY <1>4, LenProperties DEF Reads, Deliver
  <2>2. ~merged /\ ~(EndWithin(pending, Len(b)) > EndWithin(pending, Len(buffer)) + 1)
    BY <1>4, Zenon DEF Reads
  <2>3. Of(pending, b, wire')
    BY <1>4, <2>1, StreamIs
  <2>4. pending # <<>> /\ Len(AfterFrame(b)) = Len(b) - Len(pending[1].bytes)
    BY <2>1, <2>3, FoundIsPending
  <2>5. Len(buffer) < Len(pending[1].bytes)
    BY <2>1, <2>2, <2>4 DEF FirstIncomplete
  <2>6. Len(pending) \in Nat \ {0} /\ pending[1] \in Frames /\ Len(pending[1].bytes) \in Nat
    BY <1>0, <1>1, <2>4, BytesHead
  <2>7. EndWithin(pending, Len(buffer)) = 0
    <3>1. PICK k : k = EndWithin(pending, Len(buffer))
      OBVIOUS
    <3>2. k \in 0 .. Len(pending) /\ Len(Bytes(First(pending, k))) <= Len(buffer)
      BY <1>0, <3>1, EndWithinIs
    <3>3. ASSUME k # 0 PROVE FALSE
      <4>1. k \in 1 .. Len(pending)
        BY <3>2, <3>3
      <4>2. Len(Bytes(First(pending, k))) >= Len(pending[1].bytes)
        BY <1>0, <4>1, FirstIsLeast
      <4>3. Len(Bytes(First(pending, k))) \in Nat
        <5>1. First(pending, k) \in Seq(Frames)
          BY <1>0, <3>2, BytesSplit
        <5> QED BY <5>1, BytesType, LenProperties
      <4> QED BY <1>0, <2>5, <2>6, <3>2, <4>2, <4>3
    <3> QED BY <3>1, <3>3
  <2>8. Len(pending) >= 2 /\ pending'[1] = pending[2] /\ pending[2] \in Frames
    <3>1. Len(Tail(pending)) = Len(pending) - 1 /\ Tail(pending) \in Seq(Frames)
      BY <1>0, <2>4, BytesHead
    <3>2. Len(Tail(pending)) # 0
      BY <2>1, <3>1, EmptySeq
    <3>3. Len(pending) >= 2
      BY <1>0, <2>6, <3>1, <3>2
    <3>4. Tail(pending)[1] = pending[2]
      BY <1>0, <3>3
    <3>5. pending[2] \in Frames
      BY <1>0, <3>3, ElementOfSeq
    <3> QED BY <2>1, <3>3, <3>4, <3>5
  <2>9. ~(Len(Bytes(First(pending, 2))) <= Len(b))
    <3>1. EndWithin(pending, Len(b)) \in 0 .. Len(pending)
      BY <1>0, <2>1, EndWithinIs
    <3>2. EndWithin(pending, Len(b)) <= 1
      BY <2>2, <2>7, <3>1
    <3>3. 2 \in 0 .. Len(pending)
      BY <2>6, <2>8
    <3> SUFFICES ASSUME Len(Bytes(First(pending, 2))) <= Len(b) PROVE FALSE
      OBVIOUS
    <3>4. 2 <= EndWithin(pending, Len(b))
      BY <1>0, <2>1, <3>3, EndWithinIs
    <3> QED BY <3>1, <3>2, <3>4
  <2>10. Len(Bytes(First(pending, 2))) = Len(pending[1].bytes) + Len(pending[2].bytes)
    BY <1>0, <2>8, FirstTwo
  <2>11. Len(pending[2].bytes) \in Nat
    BY <1>1, <2>8
  <2>12. Len(AfterFrame(b)) < Len(pending[2].bytes)
    <3> DEFINE x == Len(pending[1].bytes)
               y == Len(pending[2].bytes)
               z == Len(b)
    <3>1. x \in Nat /\ y \in Nat /\ z \in Nat /\ ~(x + y <= z)
      BY <2>1, <2>6, <2>9, <2>10, <2>11
    <3> HIDE DEF x, y, z
    <3>2. z - x < y
      BY <3>1
    <3> QED BY <2>4, <3>2 DEF x, y, z
  <2> QED BY <2>1, <2>8, <2>12
<1>5. ASSUME NEW b, Reads(b), Clear(b) PROVE Len(buffer') < Len(pending'[1].bytes)
  <2>1. PICK k : k = EndWithin(pending, Len(b))
    OBVIOUS
  <2>2. buffer' = <<>> /\ pending' = Others(pending, k)
    BY <1>5, <2>1 DEF Clear, Others
  <2>3. pending' \in Seq(Frames)
    BY <1>5, <2>1, <2>2, PartsAreFrames DEF Reads
  <2>4. pending'[1] \in Frames
    BY <2>3, BytesHead
  <2>5. Len(<<>>) = 0
    OBVIOUS
  <2> QED BY <1>1, <2>2, <2>4, <2>5
<1>6. ASSUME Reconnect PROVE Len(buffer') < Len(pending'[1].bytes)
  <2>1. PICK k : k = EndWithin(pending, Len(buffer))
    OBVIOUS
  <2>2. aligned /\ ~merged /\ buffer' = buffer /\ pending' = First(pending, k)
    BY <1>6, <2>1 DEF Reconnect, First
  <2>3. k \in 0 .. Len(pending)
    BY <1>0, <2>1, EndWithinIs
  <2>4. Len(First(pending, k)) = k
    BY <1>0, <2>3, BytesSplit
  <2>5. First(pending, k) \in Seq(Frames) /\ First(pending, k) # <<>>
    BY <1>0, <2>2, <2>3, BytesSplit
  <2>6. k # 0
    BY <2>4, <2>5, EmptySeq
  <2>7. k \in 1 .. Len(pending)
    BY <1>0, <2>3, <2>6
  <2>8. First(pending, k)[1] = pending[1]
    BY <1>0, <2>7, FirstIsLeast
  <2>9. pending # <<>>
    BY <1>0, <2>7
  <2>10. Len(buffer) < Len(pending[1].bytes)
    BY <2>2, <2>9 DEF FirstIncomplete
  <2> QED BY <2>2, <2>8, <2>10
<1>7. ASSUME UNCHANGED vars PROVE Len(buffer') < Len(pending'[1].bytes)
  BY <1>7 DEF vars, FirstIncomplete
<1>8. Len(buffer') < Len(pending'[1].bytes)
  BY <1>2, <1>3, <1>4, <1>5, <1>6, <1>7, Steps
<1> QED BY <1>8

-----------------------------------------------------------------------------
(* The theorems. *)

LEMMA InvNext == Inv /\ [Next]_vars => Inv'
<1> SUFFICES ASSUME Inv, [Next]_vars PROVE Inv'
  OBVIOUS
<1>1. Typed /\ Flags /\ Counted /\ StreamPreserved /\ FirstIncomplete
  BY DEF Inv
<1>2. Typed' /\ FirstIncomplete' /\ Counted'
  BY <1>1, TypedNext, FirstIncompleteNext, CountedNext
<1>3. Flags'
  BY <1>1, FlagsNext
<1>4. StreamLeft' /\ AllAccounted'
  BY <1>1, StreamLeftNext, AllAccountedNext
<1>5. StreamPreserved'
  BY <1>4 DEF StreamLeft, AllAccounted, StreamPreserved
<1> QED BY <1>2, <1>3, <1>5 DEF Inv

LEMMA Invariant == Spec => []Inv
BY InitInv, InvNext, PTL DEF Spec

\* Feed (protocol.cpp:116-149) never leaves anything in the buffer but bytes, and returns
\* nothing but messages that DecodeMessage has accepted: a known type, and a push of
\* known priority, category and source exactly with the type Push.
THEOREM TypeCorrect == Spec => []TypeOK
<1>1. Inv => TypeOK
  BY Zenon DEF Inv, Typed, Flags, Counted, TypeOK
<1> QED BY <1>1, Invariant, PTL

\* Whatever the messages, however long, and however TCP cuts the stream, the frames that
\* protocol.cpp:41-149 has not decoded are exactly what is in buffer_ and on its way; if
\* nothing was thrown away, what Feed returned with what those frames hold is what
\* was sent.
THEOREM StreamIsPreserved == Spec => []StreamPreserved
<1>1. Inv => StreamPreserved
  BY DEF Inv
<1> QED BY <1>1, Invariant, PTL

\* Feed returns one message at most (protocol.cpp:133-146), and nobody calls it again
\* before the next chunk: a complete frame is left behind in buffer_ only after a chunk
\* that ended more than one frame.
THEOREM LagOnlyByMerging == Spec => []NoLag
<1>1. ASSUME Inv PROVE NoLag
  <2> SUFFICES ASSUME aligned, ~merged, HasFrame(buffer) PROVE FALSE
    BY DEF NoLag
  <2>0. Typed /\ StreamPreserved /\ FirstIncomplete
    BY <1>1 DEF Inv
  <2>1. Of(pending, buffer, wire)
    BY <2>0, StreamIs
  <2>2. pending # <<>> /\ Len(AfterFrame(buffer)) = Len(buffer) - Len(pending[1].bytes)
    BY <2>1, FoundIsPending
  <2>3. Len(buffer) < Len(pending[1].bytes)
    BY <2>0, <2>2 DEF FirstIncomplete
  <2>4. AfterFrame(buffer) \in Seq(Byte)
    BY <2>0, FoundType DEF Typed
  <2>5. pending[1] \in Frames
    BY <2>0, <2>2, BytesHead DEF Typed
  <2>6. pending[1].bytes \in Seq(Byte)
    BY <2>5, FramesAre DEF IsFrame
  <2>7. Len(AfterFrame(buffer)) \in Nat /\ Len(buffer) \in Nat /\ Len(pending[1].bytes) \in Nat
    <3>1. Len(AfterFrame(buffer)) \in Nat
      BY <2>4, LenProperties
    <3>2. Len(buffer) \in Nat
      BY <2>0, LenProperties DEF Typed
    <3>3. Len(pending[1].bytes) \in Nat
      BY <2>6, LenProperties
    <3> QED BY <3>1, <3>2, <3>3
  <2> QED BY <2>2, <2>3, <2>7
<1> QED BY <1>1, Invariant, PTL
=============================================================================
