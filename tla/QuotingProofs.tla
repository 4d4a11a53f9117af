---------------------------- MODULE QuotingProofs ----------------------------
(***************************************************************************)
(* That SQLite reads back what ScreenQuote wrote, whatever the text, and    *)
(* takes it for a literal unless the text holds a NUL.                      *)
(*                                                                          *)
(* The lemmas say where the characters of a text p go: character i to place *)
(* A[i] of the screened text, after an added quote if it is one itself      *)
(* (Places, Doubled).  The loop of ScreenQuote builds such a text: by the   *)
(* least quote for which it would not, there is none (WrittenSoFar).  And   *)
(* of each pair of quotes in such a text SQLite leaves out the first, for   *)
(* an even number of quotes is before it (OpeningIsAdded).                  *)
(***************************************************************************)
EXTENDS Quoting, FiniteSetTheorems, SequenceTheorems, WellFoundedInduction, TLAPS

-----------------------------------------------------------------------------
(* Induction and counting. *)

\* A set of numbers that is not empty has a least one.
LEMMA Smallest ==
  ASSUME NEW T, T \subseteq Nat, T # {}
  PROVE  \E x \in T : \A y \in T : x <= y
<1>1. PICK x \in T : \A y \in T : ~ (<<y, x>> \in OpToRel(<, Nat))
  BY NatLessThanWellFounded, WFMin
<1>2. \A y \in T : ~(y < x)
  BY <1>1 DEF OpToRel
<1> QED BY <1>2

\* Induction, over a set instead of an operator.
LEMMA ByInduction ==
  ASSUME NEW T, 0 \in T, \A n \in Nat : n \in T => n + 1 \in T
  PROVE  Nat \subseteq T
<1> SUFFICES ASSUME Nat \ T # {} PROVE FALSE
  OBVIOUS
<1>1. PICK x \in Nat \ T : \A y \in Nat \ T : x <= y
  BY Smallest
<1>2. x # 0 /\ x - 1 \in Nat /\ x - 1 \in T
  BY <1>1
<1>3. (x - 1) + 1 \in T
  BY <1>2
<1> QED BY <1>1, <1>3

\* The elements of S up to n.
UpTo(S, n) == Cardinality({j \in S : j <= n})

\* The count grows by one at an element of S and nowhere else.
LEMMA Counting ==
  ASSUME NEW S, S \subseteq Nat \ {0}
  PROVE  /\ UpTo(S, 0) = 0
         /\ \A n \in Nat : UpTo(S, n) \in Nat
         /\ \A n, k \in Nat : k = n + 1 =>
              /\ k \in S => UpTo(S, k) = UpTo(S, n) + 1
              /\ k \notin S => UpTo(S, k) = UpTo(S, n)
<1>0. \A j \in S : j \in Nat /\ j # 0
  OBVIOUS
<1>1. UpTo(S, 0) = 0
  <2>1. \A j \in S : ~(j <= 0)
    BY <1>0
  <2>2. {j \in S : j <= 0} = {}
    BY <2>1
  <2> QED BY <2>2, FS_EmptySet DEF UpTo
<1>2. ASSUME NEW n \in Nat
      PROVE  IsFiniteSet({j \in S : j <= n}) /\ UpTo(S, n) \in Nat
  <2> DEFINE E == {j \in S : j <= n}
  <2>1. E \in SUBSET Nat /\ \A j \in E : j <= n
    OBVIOUS
  <2> HIDE DEF E
  <2>2. IsFiniteSet(E)
    BY <2>1, FS_BoundedSetOfNaturals
  <2>3. Cardinality(E) \in Nat
    BY <2>2, FS_CardinalityType
  <2> QED BY <2>2, <2>3 DEF UpTo, E
<1>3. ASSUME NEW n \in Nat
      PROVE  /\ n + 1 \in S => UpTo(S, n + 1) = UpTo(S, n) + 1
             /\ n + 1 \notin S => UpTo(S, n + 1) = UpTo(S, n)
  <2> DEFINE E == {j \in S : j <= n}
             F == {j \in S : j <= n + 1}
  <2>0. \A j \in S : j <= n + 1 <=> j <= n \/ j = n + 1
    BY <1>0
  <2>1. n + 1 \notin E
    OBVIOUS
  <2>2. IsFiniteSet(E) /\ Cardinality(E) \in Nat
    BY <1>2 DEF UpTo
  <2>3. CASE n + 1 \in S
    <3>1. F = E \cup {n + 1}
      BY <2>0, <2>3
    <3> HIDE DEF E, F
    <3>2. Cardinality(F) = Cardinality(E) + 1
      BY <2>1, <2>2, <3>1, FS_AddElement
    <3> QED BY <2>3, <3>2 DEF E, F, UpTo
  <2>4. CASE n + 1 \notin S
    <3>1. F = E
      BY <2>0, <2>4
    <3> HIDE DEF E, F
    <3> QED BY <2>2, <2>4, <3>1 DEF E, F, UpTo
  <2> QED BY <2>3, <2>4
<1> QED BY <1>1, <1>2, <1>3

-----------------------------------------------------------------------------
(* Where the characters of a text go. *)

\* Character i of a text with n characters and quotes Q goes to place A[i] of the
\* screened text, after an added quote if it is a quote.
Places(A, Q, n) ==
  /\ A \in [0 .. n -> Nat] /\ A[0] = 0
  /\ \A i \in 1 .. n : A[i] = A[i - 1] + IF i \in Q THEN 2 ELSE 1

\* A character comes after all those before it, and after the quote added for it.
LEMMA PlacesRise ==
  ASSUME NEW n \in Nat, NEW Q, NEW A, Places(A, Q, n),
         NEW i \in 0 .. n, NEW j \in 1 .. n, i < j
  PROVE  A[i] + (IF j \in Q THEN 2 ELSE 1) <= A[j]
<1> DEFINE T == {m \in Nat : i + m <= n => A[i] + m <= A[i + m]}
<1>1. 0 \in T
  BY DEF Places
<1>2. ASSUME NEW m \in Nat, m \in T PROVE m + 1 \in T
  <2> SUFFICES ASSUME i + (m + 1) <= n PROVE A[i] + (m + 1) <= A[i + (m + 1)]
    OBVIOUS
  <2>1. i + m \in 0 .. n /\ i + (m + 1) \in 1 .. n /\ (i + (m + 1)) - 1 = i + m
    OBVIOUS
  <2>2. /\ A[i + m] \in Nat /\ A[i] \in Nat /\ A[i] + m <= A[i + m]
        /\ A[i + (m + 1)] = A[i + m] + IF i + (m + 1) \in Q THEN 2 ELSE 1
    BY <1>2, <2>1 DEF Places
  <2> QED BY <2>2
<1> HIDE DEF T
<1>3. (j - 1) - i \in T
  BY <1>1, <1>2, ByInduction
<1>4. /\ i + ((j - 1) - i) = j - 1 /\ j - 1 \in 0 .. n /\ (j - 1) - i \in Nat
      /\ A[j - 1] \in Nat /\ A[i] \in Nat
      /\ A[j] = A[j - 1] + IF j \in Q THEN 2 ELSE 1
  BY DEF Places
<1>5. A[i] <= A[j - 1]
  BY <1>3, <1>4 DEF T
<1> QED BY <1>4, <1>5

\* As long as there is no quote, the characters stay together.
LEMMA PlacesStraight ==
  ASSUME NEW n \in Nat, NEW Q, NEW A, Places(A, Q, n),
         NEW i \in 0 .. n, NEW j \in 0 .. n, i <= j, \A k \in i + 1 .. j : k \notin Q
  PROVE  A[j] = A[i] + (j - i)
<1> DEFINE T == {m \in Nat : i + m <= j => A[i + m] = A[i] + m}
<1>1. 0 \in T
  BY DEF Places
<1>2. ASSUME NEW m \in Nat, m \in T PROVE m + 1 \in T
  <2> SUFFICES ASSUME i + (m + 1) <= j PROVE A[i + (m + 1)] = A[i] + (m + 1)
    OBVIOUS
  <2>1. /\ i + m \in 0 .. n /\ i + (m + 1) \in 1 .. n /\ (i + (m + 1)) - 1 = i + m
        /\ i + (m + 1) \in i + 1 .. j
    OBVIOUS
  <2>2. /\ A[i + m] = A[i] + m /\ A[i] \in Nat
        /\ A[i + (m + 1)] = A[i + m] + 1
    BY <1>2, <2>1 DEF Places
  <2> QED BY <2>2
<1> HIDE DEF T
<1>3. j - i \in T
  BY <1>1, <1>2, ByInduction
<1>4. i + (j - i) = j /\ j - i \in Nat
  OBVIOUS
<1> QED BY <1>3, <1>4 DEF T

\* Every place is that of a character or of an added quote.
LEMMA PlacesCover ==
  ASSUME NEW n \in Nat, NEW Q, NEW A, Places(A, Q, n), NEW k \in 1 .. A[n]
  PROVE  \E i \in 1 .. n : k = A[i] \/ (i \in Q /\ k = A[i] - 1)
<1> DEFINE T == {m \in 0 .. n : k <= A[m]}
<1>1. n \in T /\ T \subseteq Nat
  OBVIOUS
<1>2. PICK m \in T : \A y \in T : m <= y
  <2> HIDE DEF T
  <2> QED BY <1>1, Smallest
<1>3. m # 0 /\ m \in 1 .. n /\ m - 1 \in 0 .. n
  BY <1>2 DEF Places
<1>4. k > A[m - 1]
  <2>1. m - 1 \notin T
    BY <1>2, <1>3
  <2>2. A[m - 1] \in Nat
    BY <1>3 DEF Places
  <2> QED BY <1>3, <2>1, <2>2 DEF Places
<1>5. /\ A[m - 1] \in Nat /\ A[m] \in Nat /\ k <= A[m]
      /\ A[m] = A[m - 1] + IF m \in Q THEN 2 ELSE 1
  BY <1>2, <1>3 DEF Places
<1> QED BY <1>3, <1>4, <1>5

-----------------------------------------------------------------------------
(* The screened text. *)

\* The provers do not know that a given character is in STRING.
Chars == STRING \cup {Quote}

\* The text t is p with its quotes doubled, its characters where A says.
Doubled(t, p, A) ==
  /\ t \in Seq(Chars) /\ Len(t) = A[Len(p)]
  /\ \A i \in 1 .. Len(p) : t[A[i]] = p[i]
  /\ \A i \in Quotes(p) : t[A[i] - 1] = Quote

PlacesOf(p) == [i \in 0 .. Len(p) |-> i + UpTo(Quotes(p), i)]

\* The places of a text, from the number of quotes up to each character.
LEMMA PlacesOfText ==
  ASSUME NEW p \in Seq(STRING)
  PROVE  /\ Places(PlacesOf(p), Quotes(p), Len(p))
         /\ Quotes(p) \subseteq 1 .. Len(p) /\ Len(p) \in Nat /\ DOMAIN p = 1 .. Len(p)
<1>1. Quotes(p) \subseteq 1 .. Len(p) /\ Len(p) \in Nat /\ DOMAIN p = 1 .. Len(p)
  BY LenProperties DEF Quotes
<1>2. Quotes(p) \subseteq Nat \ {0}
  BY <1>1
<1> DEFINE A == PlacesOf(p)
           Q == Quotes(p)
<1>6. /\ UpTo(Q, 0) = 0
      /\ \A n \in Nat : UpTo(Q, n) \in Nat
      /\ \A m, k \in Nat : k = m + 1 =>
           /\ k \in Q => UpTo(Q, k) = UpTo(Q, m) + 1
           /\ k \notin Q => UpTo(Q, k) = UpTo(Q, m)
  <2> HIDE DEF Q
  <2> QED BY <1>2, Counting DEF Q
<1>3. \A i \in 0 .. Len(p) : A[i] = i + UpTo(Quotes(p), i)
  BY DEF PlacesOf
<1>4. A \in [0 .. Len(p) -> Nat] /\ A[0] = 0
  <2>1. ASSUME NEW i \in 0 .. Len(p) PROVE i + UpTo(Q, i) \in Nat
    <3>1. i \in Nat
      BY <1>1
    <3>2. UpTo(Q, i) \in Nat
      BY <1>6, <3>1
    <3> QED BY <3>1, <3>2
  <2>2. 0 \in 0 .. Len(p) /\ 0 + UpTo(Q, 0) = 0
    BY <1>1, <1>6
  <2> QED BY <2>1, <2>2 DEF PlacesOf
<1>5. ASSUME NEW i \in 1 .. Len(p)
      PROVE  A[i] = A[i - 1] + IF i \in Quotes(p) THEN 2 ELSE 1
  <2>1. /\ i - 1 \in 0 .. Len(p) /\ i \in 0 .. Len(p)
        /\ i = (i - 1) + 1 /\ i - 1 \in Nat /\ i \in Nat
    BY <1>1
  <2>2. /\ UpTo(Q, i - 1) \in Nat
        /\ i \in Q => UpTo(Q, i) = UpTo(Q, i - 1) + 1
        /\ i \notin Q => UpTo(Q, i) = UpTo(Q, i - 1)
    <3> HIDE DEF Q
    <3> QED BY <1>6, <2>1
  <2> QED BY <1>3, <2>1, <2>2
<1> QED BY <1>1, <1>4, <1>5 DEF Places

\* There is such a text.
LEMMA DoubledExists ==
  ASSUME NEW p \in Seq(STRING), NEW A, Places(A, Quotes(p), Len(p))
  PROVE  \E t : Doubled(t, p, A)
<1> DEFINE n == Len(p)
           t == [k \in 1 .. A[n] |->
                   IF \E i \in 1 .. n : k = A[i]
                   THEN p[CHOOSE i \in 1 .. n : k = A[i]] ELSE Quote]
<1>1. /\ Quotes(p) \subseteq 1 .. n /\ n \in Nat /\ A[n] \in Nat
      /\ \A i \in 0 .. n : A[i] \in Nat
      /\ \A i \in 1 .. n : p[i] \in STRING
  BY PlacesOfText, LenProperties, ElementOfSeq DEF Places
<1>2. \A i \in 0 .. n : \A j \in 1 .. n :
        i < j => A[i] + (IF j \in Quotes(p) THEN 2 ELSE 1) <= A[j]
  BY <1>1, PlacesRise
<1> HIDE DEF n
<1>3. \A i \in 1 .. n : A[i] \in 1 .. A[n]
  <2> SUFFICES ASSUME NEW i \in 1 .. n PROVE A[i] \in 1 .. A[n]
    OBVIOUS
  <2>1. A[0] = 0 /\ 0 \in 0 .. n /\ 0 < i /\ i \in 0 .. n /\ n \in 1 .. n
    BY <1>1 DEF Places
  <2>2. A[i] >= 1
    BY <1>1, <1>2, <2>1
  <2>3. i = n \/ A[i] <= A[n]
    BY <1>1, <1>2, <2>1
  <2> QED BY <1>1, <2>1, <2>2, <2>3
<1>4. \A i, j \in 1 .. n : A[i] = A[j] => i = j
  <2> SUFFICES ASSUME NEW i \in 1 .. n, NEW j \in 1 .. n, i < j PROVE A[i] # A[j]
    BY <1>1
  <2> QED BY <1>1, <1>2
<1>5. ASSUME NEW i \in 1 .. n PROVE t[A[i]] = p[i]
  <2>1. (CHOOSE j \in 1 .. n : A[i] = A[j]) = i
    BY <1>4
  <2> QED BY <1>3, <2>1
<1>6. ASSUME NEW i \in Quotes(p) PROVE A[i] - 1 \in 1 .. A[n] /\ t[A[i] - 1] = Quote
  <2>1. i \in 1 .. n /\ 0 < i /\ 0 \in 0 .. n /\ A[0] = 0
    BY <1>1 DEF Places
  <2>2. A[i] >= 2 /\ A[i] - 1 \in 1 .. A[n]
    BY <1>1, <1>2, <1>3, <2>1
  <2>3. ASSUME NEW j \in 1 .. n PROVE A[i] - 1 # A[j]
    <3>1. CASE j < i
      BY <1>1, <1>2, <2>1, <3>1
    <3>2. CASE i < j
      BY <1>1, <1>2, <2>1, <3>2
    <3>3. CASE i = j
      BY <1>1, <2>1, <3>3
    <3> QED BY <1>1, <2>1, <3>1, <3>2, <3>3
  <2> QED BY <2>2, <2>3
<1>7. t \in Seq(Chars) /\ Len(t) = A[n]
  <2>0. Quote \in Chars /\ STRING \subseteq Chars
    BY DEF Chars
  <2>1. ASSUME NEW k \in 1 .. A[n] PROVE t[k] \in Chars
    <3>1. CASE \E i \in 1 .. n : k = A[i]
      BY <2>0, <1>1, <1>5, <3>1
    <3>2. CASE ~\E i \in 1 .. n : k = A[i]
      BY <2>0, <3>2
    <3> QED BY <3>1, <3>2
  <2>2. PICK m \in Nat : m = A[n]
    BY <1>1
  <2>3. t \in [1 .. m -> Chars]
    BY <2>1, <2>2
  <2> HIDE DEF t
  <2>4. t \in Seq(Chars) /\ Len(t) = m
    BY <2>3
  <2> QED BY <2>2, <2>4
<1> HIDE DEF t
<1>8. Doubled(t, p, A)
  BY <1>5, <1>6, <1>7 DEF Doubled, n
<1> QED BY <1>8

-----------------------------------------------------------------------------
(* What SQLite reads. *)

\* Of each pair of quotes SQLite takes the first for the one to leave out, for there
\* is an even number of quotes before it.
LEMMA OpeningIsAdded ==
  ASSUME NEW p \in Seq(STRING), NEW A, Places(A, Quotes(p), Len(p)),
         NEW t, Doubled(t, p, A)
  PROVE  /\ DOMAIN t = 1 .. A[Len(p)]
         /\ \A i \in 1 .. Len(p) : A[i] \in DOMAIN t \ Opening(t)
         /\ \A i \in Quotes(p) : A[i] - 1 \in Opening(t)
<1> DEFINE n == Len(p)
           Q == Quotes(p)
           R == Quotes(t)
<1>1. /\ Q \subseteq 1 .. n /\ n \in Nat /\ A[n] \in Nat
      /\ \A i \in 0 .. n : A[i] \in Nat
      /\ \A i \in 1 .. n : i \in Q <=> p[i] = Quote
  BY PlacesOfText DEF Places, Quotes
<1>2. /\ DOMAIN t = 1 .. A[n] /\ \A i \in 1 .. n : t[A[i]] = p[i]
      /\ \A i \in Q : t[A[i] - 1] = Quote
  BY LenProperties DEF Doubled
<1>3. \A i \in 0 .. n : \A j \in 1 .. n :
        i < j => A[i] + (IF j \in Q THEN 2 ELSE 1) <= A[j]
  BY <1>1, PlacesRise
<1>4. \A k \in DOMAIN t : k \in R <=> t[k] = Quote
  BY DEF Quotes
<1>5. R \subseteq Nat \ {0}
  BY <1>2 DEF Quotes
<1>6. /\ UpTo(R, 0) = 0
      /\ \A k \in Nat : UpTo(R, k) \in Nat
      /\ \A m, k \in Nat : k = m + 1 =>
           /\ k \in R => UpTo(R, k) = UpTo(R, m) + 1
           /\ k \notin R => UpTo(R, k) = UpTo(R, m)
  <2> HIDE DEF R
  <2> QED BY <1>5, Counting
<1>7. \A i \in 1 .. n : /\ A[i - 1] \in Nat /\ i - 1 \in 0 .. n
                       /\ A[i] = A[i - 1] + IF i \in Q THEN 2 ELSE 1
  BY <1>1 DEF Places
<1> HIDE DEF n, Q, R
<1>8. \A i \in 1 .. n : A[i] \in DOMAIN t /\ (i \in Q => A[i] - 1 \in DOMAIN t)
  <2> SUFFICES ASSUME NEW i \in 1 .. n
               PROVE  A[i] \in 1 .. A[n] /\ (i \in Q => A[i] - 1 \in 1 .. A[n])
    BY <1>2
  <2>1. i = n \/ A[i] <= A[n]
    <3>1. i \in 0 .. n /\ n \in 1 .. n
      BY <1>1
    <3>2. CASE i < n
      BY <1>1, <1>3, <3>1, <3>2
    <3> QED BY <1>1, <3>2
  <2>2. A[i] \in Nat /\ A[i - 1] \in Nat /\ A[i] <= A[n]
    BY <1>1, <2>1
  <2>3. A[i] >= 1 /\ (i \in Q => A[i] >= 2)
    BY <1>7, <2>2
  <2> QED BY <1>1, <2>2, <2>3
\* What pairs the quotes of t.
<1>9. ASSUME NEW i \in Q
      PROVE  /\ A[i] - 2 = A[i - 1] /\ A[i] - 2 \in Nat /\ i \in 1 .. n
             /\ UpTo(R, A[i] - 1) = UpTo(R, A[i] - 2) + 1
             /\ UpTo(R, A[i]) = UpTo(R, A[i] - 2) + 2
  <2>1. /\ i \in 1 .. n /\ A[i - 1] \in Nat /\ A[i] = A[i - 1] + 2
    BY <1>1, <1>7
  <2>2. A[i] \in R /\ A[i] - 1 \in R
    BY <1>1, <1>2, <1>4, <1>8, <2>1
  <2>3. /\ A[i] - 2 \in Nat /\ A[i] - 1 \in Nat /\ A[i] \in Nat
        /\ A[i] - 1 = (A[i] - 2) + 1 /\ A[i] = (A[i] - 1) + 1 /\ A[i] - 2 = A[i - 1]
    BY <2>1
  <2>4. UpTo(R, A[i] - 1) = UpTo(R, A[i] - 2) + 1
    BY <1>6, <2>2, <2>3
  <2>5. UpTo(R, A[i]) = UpTo(R, A[i] - 1) + 1
    BY <1>6, <2>2, <2>3
  <2>6. UpTo(R, A[i] - 2) \in Nat
    BY <1>6, <2>3
  <2>7. UpTo(R, A[i]) = UpTo(R, A[i] - 2) + 2
    BY <2>4, <2>5, <2>6
  <2> QED BY <2>1, <2>3, <2>4, <2>7
<1>10. \A i \in 0 .. n : UpTo(R, A[i]) % 2 = 0
  <2> DEFINE T == {m \in Nat : m <= n => UpTo(R, A[m]) % 2 = 0}
  <2>1. 0 \in T
    BY <1>6 DEF Places
  <2>2. ASSUME NEW m \in Nat, m \in T PROVE m + 1 \in T
    <3> SUFFICES ASSUME m + 1 <= n PROVE UpTo(R, A[m + 1]) % 2 = 0
      OBVIOUS
    <3>1. m + 1 \in 1 .. n /\ (m + 1) - 1 = m /\ m \in 0 .. n
      BY <1>1
    <3>0. m <= n => UpTo(R, A[m]) % 2 = 0
      BY <2>2
    <3>2. UpTo(R, A[m]) % 2 = 0
      BY <1>1, <3>0, <3>1
    <3>5. A[m] \in Nat
      BY <1>1, <3>1
    <3>6. UpTo(R, A[m]) \in Nat
      BY <1>6, <3>5
    <3>3. CASE m + 1 \in Q
      <4>1. UpTo(R, A[m + 1]) = UpTo(R, A[m]) + 2
        BY <1>9, <3>1, <3>3
      <4> QED BY <3>2, <3>6, <4>1
    <3>4. CASE m + 1 \notin Q
      <4>1. A[m + 1] = A[m] + 1 /\ A[m] \in Nat /\ A[m + 1] \in Nat
        BY <1>1, <1>7, <3>1, <3>4
      <4>2. A[m + 1] \notin R
        BY <1>1, <1>2, <1>4, <1>8, <3>1, <3>4
      <4>3. UpTo(R, A[m + 1]) = UpTo(R, A[m])
        BY <1>6, <3>6, <4>1, <4>2
      <4> QED BY <3>2, <4>3
    <3> QED BY <3>3, <3>4
  <2> HIDE DEF T
  <2>3. Nat \subseteq T
    BY <2>1, <2>2, ByInduction
  <2> QED BY <1>1, <2>3 DEF T
<1>11. ASSUME NEW k \in R, k \in Nat \ {0}
       PROVE  k \in Opening(t) <=> UpTo(R, k - 1) % 2 = 0
  <2>1. \A j \in R : j < k <=> j <= k - 1
    BY <1>5, <1>11
  <2>2. {j \in R : j < k} = {j \in R : j <= k - 1}
    BY <2>1
  <2> QED BY <2>2 DEF Opening, UpTo, R
<1>12. ASSUME NEW i \in Q PROVE A[i] - 1 \in Opening(t) /\ A[i] \notin Opening(t)
  <2>1. /\ i \in 1 .. n /\ i - 1 \in 0 .. n /\ A[i] \in Nat /\ A[i] - 2 \in Nat
        /\ A[i] - 1 \in R /\ A[i] \in R
    BY <1>1, <1>2, <1>4, <1>7, <1>8, <1>9
  <2>2. UpTo(R, A[i] - 2) % 2 = 0 /\ UpTo(R, A[i] - 2) \in Nat
    <3>1. A[i] - 2 = A[i - 1]
      BY <1>9
    <3>2. UpTo(R, A[i - 1]) % 2 = 0
      BY <1>10, <2>1
    <3>3. UpTo(R, A[i] - 2) \in Nat
      BY <1>6, <2>1
    <3> QED BY <3>1, <3>2, <3>3
  <2>3. UpTo(R, A[i] - 1) % 2 # 0
    BY <1>9, <2>2
  <2>4. (A[i] - 1) - 1 = A[i] - 2 /\ A[i] - 1 \in Nat \ {0} /\ A[i] \in Nat \ {0}
    BY <2>1
  <2> QED BY <1>11, <2>1, <2>2, <2>3, <2>4
<1>13. ASSUME NEW i \in 1 .. n PROVE A[i] \notin Opening(t)
  <2>1. CASE i \in Q
    BY <1>12, <2>1
  <2>2. CASE i \notin Q
    <3>1. A[i] \notin R
      BY <1>1, <1>2, <1>4, <1>8, <2>2
    <3> QED BY <3>1 DEF Opening, R
  <2> QED BY <2>1, <2>2
<1> QED BY <1>2, <1>8, <1>12, <1>13 DEF n, Q

\* So it reads the text that was screened.
LEMMA ReadsBack ==
  ASSUME NEW p \in Seq(STRING), NEW A, Places(A, Quotes(p), Len(p)),
         NEW t, Doubled(t, p, A)
  PROVE  Meaning(t) = p
<1> DEFINE n == Len(p)
           Q == Quotes(p)
           S == DOMAIN t \ Opening(t)
<1>1. /\ Q \subseteq 1 .. n /\ n \in Nat /\ A[n] \in Nat
      /\ \A i \in 0 .. n : A[i] \in Nat
      /\ \A i \in 1 .. n : /\ A[i - 1] \in Nat /\ i - 1 \in 0 .. n
                          /\ A[i] = A[i - 1] + IF i \in Q THEN 2 ELSE 1
  BY PlacesOfText DEF Places
<1>2. /\ DOMAIN t = 1 .. A[n]
      /\ \A i \in 1 .. n : A[i] \in S
      /\ \A i \in Q : A[i] - 1 \notin S
  BY OpeningIsAdded
<1>3. S \subseteq Nat \ {0}
  BY <1>2
<1>4. \A k \in S : \E i \in 1 .. n : k = A[i]
  BY <1>1, <1>2, PlacesCover
<1> HIDE DEF n, Q, S
<1>5. /\ UpTo(S, 0) = 0
      /\ \A k \in Nat : UpTo(S, k) \in Nat
      /\ \A m, k \in Nat : k = m + 1 =>
           /\ k \in S => UpTo(S, k) = UpTo(S, m) + 1
           /\ k \notin S => UpTo(S, k) = UpTo(S, m)
  BY <1>3, Counting
<1>6. \A i \in 0 .. n : UpTo(S, A[i]) = i
  <2> DEFINE T == {m \in Nat : m <= n => UpTo(S, A[m]) = m}
  <2>1. 0 \in T
    BY <1>5 DEF Places
  <2>2. ASSUME NEW m \in Nat, m \in T PROVE m + 1 \in T
    <3> SUFFICES ASSUME m + 1 <= n PROVE UpTo(S, A[m + 1]) = m + 1
      OBVIOUS
    <3>1. m + 1 \in 1 .. n /\ (m + 1) - 1 = m /\ m \in 0 .. n /\ A[m] \in Nat
      BY <1>1
    <3>0. m <= n => UpTo(S, A[m]) = m
      BY <2>2
    <3>2. UpTo(S, A[m]) = m /\ A[m + 1] \in S /\ A[m + 1] \in Nat
      BY <1>1, <1>2, <3>0, <3>1
    <3>3. CASE m + 1 \in Q
      <4>1. A[m + 1] = (A[m] + 1) + 1 /\ A[m] + 1 \notin S /\ A[m] + 1 \in Nat
        <5>1. A[m + 1] = A[m] + 2
          BY <1>1, <3>1, <3>3
        <5>2. A[m + 1] - 1 = A[m] + 1
          BY <3>1, <5>1
        <5> QED BY <1>2, <3>1, <3>3, <5>1, <5>2
      <4>2. UpTo(S, A[m] + 1) = m
        BY <1>5, <3>1, <3>2, <4>1
      <4>3. UpTo(S, A[m + 1]) = UpTo(S, A[m] + 1) + 1
        BY <1>5, <3>2, <4>1
      <4> QED BY <4>2, <4>3
    <3>4. CASE m + 1 \notin Q
      <4>1. A[m + 1] = A[m] + 1
        BY <1>1, <3>1, <3>4
      <4> QED BY <1>5, <3>1, <3>2, <4>1
    <3> QED BY <3>3, <3>4
  <2> HIDE DEF T
  <2>3. Nat \subseteq T
    BY <2>1, <2>2, ByInduction
  <2> QED BY <1>1, <2>3 DEF T
<1>7. Cardinality(S) = n
  <2>1. \A k \in S : k <= A[n]
    BY <1>2, <1>1 DEF S
  <2>2. {k \in S : k <= A[n]} = S
    BY <2>1
  <2>3. UpTo(S, A[n]) = n
    BY <1>1, <1>6
  <2> QED BY <2>2, <2>3 DEF UpTo
<1>8. ASSUME NEW k \in 1 .. n
      PROVE  (CHOOSE i \in S : Cardinality({j \in S : j <= i}) = k) = A[k]
  <2>1. \A i \in 1 .. n : Cardinality({j \in S : j <= A[i]}) = i
    BY <1>1, <1>6 DEF UpTo
  <2>2. A[k] \in S /\ Cardinality({j \in S : j <= A[k]}) = k
    BY <1>2, <2>1
  <2>3. \A i \in S : Cardinality({j \in S : j <= i}) = k => i = A[k]
    BY <1>4, <2>1
  <2> QED BY <2>2, <2>3
<1>9. \A k \in 1 .. n : t[A[k]] = p[k]
  BY DEF Doubled, n
<1>10. Meaning(t) = [k \in 1 .. n |-> p[k]]
  <2>1. Meaning(t) = [k \in 1 .. Cardinality(S) |->
                        t[CHOOSE i \in S : Cardinality({j \in S : j <= i}) = k]]
    BY DEF Meaning, S
  <2>2. ASSUME NEW k \in 1 .. n
        PROVE  t[CHOOSE i \in S : Cardinality({j \in S : j <= i}) = k] = p[k]
    BY <1>8, <1>9
  <2> QED BY <1>7, <2>1, <2>2
<1>11. p = [k \in 1 .. n |-> p[k]]
  BY LenProperties DEF n
<1> QED BY <1>10, <1>11

-----------------------------------------------------------------------------
(* What ScreenQuote writes. *)

\* One pass of its loop for each quote.
Written(str, res) ==
  [i \in Quotes(str) |->
     (IF Before(str, i) = {} THEN <<>> ELSE res[From(str, i)])
       \o SubSeq(str, From(str, i), i - 1) \o <<Quote>>]

\* Screened is what the definition of a recursive function stands for.
LEMMA ScreenedChoice ==
  ASSUME NEW str
  PROVE  Screened(str) = CHOOSE res : res = Written(str, res)
BY Zenon DEF Screened, Written

\* So it is the solution of its equation, if there is one only.
LEMMA ScreenedIs ==
  ASSUME NEW str, NEW g, g = Written(str, g), \A h : h = Written(str, h) => h = g
  PROVE  Screened(str) = g
<1> DEFINE Q(h) == h = Written(str, h)
<1>1. Screened(str) = CHOOSE h : Q(h)
  BY ScreenedChoice
<1>2. Q(g) /\ \A h : Q(h) => h = g
  OBVIOUS
<1> HIDE DEF Q
<1> QED BY <1>1, <1>2

\* Max is the greatest element of a set of numbers below a bound.
LEMMA Largest ==
  ASSUME NEW n \in Nat, NEW S \in SUBSET (0 .. n), S # {}
  PROVE  /\ Max(S) \in S
         /\ \A y \in S : Max(S) >= y
<1> DEFINE U == {m \in Nat : \A y \in S : m >= y}
<1>1. PICK u \in U : \A y \in U : u <= y
  <2>1. n \in U
    OBVIOUS
  <2>2. U \subseteq Nat /\ U # {}
    BY <2>1
  <2> HIDE DEF U
  <2> QED BY <2>2, Smallest
<1>2. u \in S
  <2> SUFFICES ASSUME u \notin S PROVE FALSE
    OBVIOUS
  <2>1. \A y \in S : y \in Nat /\ u >= y /\ u # y
    OBVIOUS
  <2>2. u # 0
    <3>1. PICK y \in S : TRUE
      OBVIOUS
    <3> QED BY <2>1, <3>1
  <2>3. u - 1 \in U
    BY <2>1, <2>2
  <2> QED BY <1>1, <2>3
<1>3. \E x \in S : \A y \in S : x >= y
  BY <1>2
<1> QED BY <1>3 DEF Max

\* s reads from m on as t from k on, for the first d + 1 characters.
Alike(s, m, t, k, d) == \A i \in Nat : i <= d => s[m + i] = t[k + i]

\* Two pieces that read alike are equal.
LEMMA SamePiece ==
  ASSUME NEW S, NEW s \in Seq(S), NEW t \in Seq(S),
         NEW m \in Nat \ {0}, NEW n \in Nat, n <= Len(s),
         NEW k \in Nat \ {0}, NEW l \in Nat, l <= Len(t), l - k = n - m,
         Alike(s, m, t, k, n - m)
  PROVE  SubSeq(s, m, n) = SubSeq(t, k, l)
<1>1. /\ \A i \in m .. n : s[i] \in S
      /\ \A i \in k .. l : t[i] \in S
  BY ElementOfSeq
<1>2. /\ SubSeq(s, m, n) \in Seq(S)
      /\ Len(SubSeq(s, m, n)) = IF m <= n THEN n - m + 1 ELSE 0
      /\ \A i \in 1 .. n - m + 1 : SubSeq(s, m, n)[i] = s[m + i - 1]
  BY <1>1, SubSeqProperties
<1>3. /\ SubSeq(t, k, l) \in Seq(S)
      /\ Len(SubSeq(t, k, l)) = IF k <= l THEN l - k + 1 ELSE 0
      /\ \A i \in 1 .. l - k + 1 : SubSeq(t, k, l)[i] = t[k + i - 1]
  BY <1>1, SubSeqProperties
<1>4. Len(SubSeq(s, m, n)) = Len(SubSeq(t, k, l))
  BY <1>2, <1>3
<1>5. ASSUME NEW i \in 1 .. Len(SubSeq(s, m, n))
      PROVE  SubSeq(s, m, n)[i] = SubSeq(t, k, l)[i]
  <2>1. i \in 1 .. n - m + 1 /\ i \in 1 .. l - k + 1
    BY <1>2
  <2>2. /\ i - 1 \in Nat /\ i - 1 <= n - m
        /\ m + i - 1 = m + (i - 1) /\ k + i - 1 = k + (i - 1)
    BY <2>1
  <2>3. s[m + (i - 1)] = t[k + (i - 1)]
    BY <2>2 DEF Alike
  <2> QED BY <1>2, <1>3, <2>1, <2>2, <2>3
<1> QED BY <1>2, <1>3, <1>4, <1>5, SeqEqual

-----------------------------------------------------------------------------

\* No quote after i up to j.
NoQuotes(p, i, j) == \A k \in i + 1 .. j : k \notin Quotes(p)

\* From a character up to before the next quote the text and the screened text agree.
LEMMA SamePieceOf ==
  ASSUME NEW p \in Seq(STRING), NEW A, Places(A, Quotes(p), Len(p)),
         NEW t, Doubled(t, p, A),
         NEW i \in 1 .. Len(p), NEW j \in i .. Len(p),
         NoQuotes(p, i, j)
  PROVE  SubSeq(p, i, j) = SubSeq(t, A[i], A[j])
<1>1. /\ Len(p) \in Nat /\ i \in Nat \ {0} /\ j \in Nat /\ j <= Len(p)
      /\ \A k \in 0 .. Len(p) : A[k] \in Nat
      /\ p \in Seq(Chars) /\ t \in Seq(Chars) /\ Len(t) = A[Len(p)]
  <2>1. p \in Seq(Chars)
    BY SeqMonotonic DEF Chars
  <2>2. t \in Seq(Chars) /\ Len(t) = A[Len(p)]
    BY DEF Doubled
  <2>3. /\ Len(p) \in Nat /\ i \in Nat \ {0} /\ j \in Nat /\ j <= Len(p)
    BY PlacesOfText
  <2> QED BY <2>1, <2>2, <2>3 DEF Places
<1>2. ASSUME NEW k \in i .. j PROVE A[k] = A[i] + (k - i)
  <2>1. /\ i \in 0 .. Len(p) /\ k \in 0 .. Len(p) /\ i <= k
        /\ \A l \in i + 1 .. k : l \notin Quotes(p)
    BY <1>1 DEF NoQuotes
  <2> QED BY <1>1, <2>1, PlacesStraight
<1>3. A[i] \in Nat \ {0} /\ A[j] \in Nat /\ A[j] - A[i] = j - i /\ A[j] <= Len(t)
  <2>1. A[i] \in DOMAIN t /\ A[j] \in DOMAIN t /\ DOMAIN t = 1 .. A[Len(p)]
    BY <1>1, OpeningIsAdded
  <2>2. A[j] = A[i] + (j - i) /\ A[i] \in Nat /\ A[j] \in Nat /\ A[Len(p)] \in Nat
    BY <1>1, <1>2
  <2> QED BY <1>1, <2>1, <2>2
<1>4. ASSUME NEW k \in Nat, k <= j - i PROVE p[i + k] = t[A[i] + k]
  <2>1. i + k \in i .. j /\ i + k \in 1 .. Len(p) /\ (i + k) - i = k
    BY <1>1, <1>4
  <2>2. A[i + k] = A[i] + k
    BY <1>2, <2>1
  <2>3. t[A[i + k]] = p[i + k]
    BY <2>1 DEF Doubled
  <2> QED BY <2>2, <2>3
<1>5. PICK a \in Nat \ {0}, b \in Nat : a = A[i] /\ b = A[j]
  BY <1>3
<1>6. b <= Len(t) /\ b - a = j - i /\ Alike(p, i, t, a, j - i)
  BY <1>3, <1>4, <1>5 DEF Alike
<1>8. SubSeq(p, i, j) = SubSeq(t, a, b)
  BY <1>1, <1>6, SamePiece
<1> QED BY <1>5, <1>8

\* Up to the first quote nothing is shifted.
LEMMA FirstPiece ==
  ASSUME NEW p \in Seq(STRING), NEW A, Places(A, Quotes(p), Len(p)),
         NEW t, Doubled(t, p, A),
         NEW j \in 0 .. Len(p), NoQuotes(p, 0, j)
  PROVE  SubSeq(p, 1, j) = SubSeq(t, 1, A[j])
<1>1. CASE j = 0
  <2>1. A[j] = 0
    BY <1>1 DEF Places
  <2> QED BY <1>1, <2>1, SubSeqEmpty
<1>2. CASE j # 0
  <2>1. Len(p) \in Nat /\ 1 \in 1 .. Len(p) /\ j \in 1 .. Len(p) /\ 0 \in 0 .. Len(p)
    BY <1>2, LenProperties
  <2>2. A[1] = 1
    <3>1. 1 \notin Quotes(p) /\ 1 - 1 = 0
      BY <2>1 DEF NoQuotes
    <3>2. A[0] = 0 /\ A[1] = A[1 - 1] + 1
      BY <2>1, <3>1 DEF Places
    <3> QED BY <3>1, <3>2
  <2>3. PICK i \in 1 .. Len(p) : i = 1
    BY <2>1
  <2>5. NoQuotes(p, i, j) /\ j \in i .. Len(p)
    BY <2>1, <2>3 DEF NoQuotes
  <2>6. SubSeq(p, i, j) = SubSeq(t, A[i], A[j])
    BY <2>5, SamePieceOf
  <2>4. SubSeq(p, 1, j) = SubSeq(t, A[1], A[j])
    BY <2>3, <2>6
  <2> QED BY <2>2, <2>4
<1> QED BY <1>1, <1>2

\* There is no quote between From(p, i) and the quote at i.
LEMMA FromProperties ==
  ASSUME NEW p \in Seq(STRING), NEW i \in Quotes(p)
  PROVE  /\ i \in 1 .. Len(p)
         /\ Before(p, i) = {} => From(p, i) = 1
         /\ Before(p, i) # {} => From(p, i) \in Quotes(p) /\ From(p, i) < i
         /\ \A k \in 1 .. i - 1 : k \in Quotes(p) => Before(p, i) # {} /\ k <= From(p, i)
<1>1. Quotes(p) \subseteq 1 .. Len(p) /\ Len(p) \in Nat
  BY PlacesOfText
<1>2. Before(p, i) \in SUBSET (0 .. Len(p))
  BY <1>1 DEF Before
<1>3. ASSUME Before(p, i) # {}
      PROVE  From(p, i) \in Before(p, i) /\ \A y \in Before(p, i) : From(p, i) >= y
  <2>1. From(p, i) = Max(Before(p, i))
    BY <1>3 DEF From
  <2> QED BY <1>1, <1>2, <1>3, <2>1, Largest
<1>4. ASSUME NEW k \in 1 .. i - 1, k \in Quotes(p) PROVE k \in Before(p, i)
  BY <1>1, <1>4 DEF Before
<1>5. Before(p, i) # {} => From(p, i) \in Quotes(p) /\ From(p, i) < i
  BY <1>3 DEF Before
<1>6. ASSUME NEW k \in 1 .. i - 1, k \in Quotes(p)
      PROVE  Before(p, i) # {} /\ k <= From(p, i)
  <2>1. k \in Before(p, i) /\ k \in Nat
    BY <1>1, <1>4, <1>6
  <2>2. From(p, i) \in Nat
    BY <1>1, <1>5, <2>1
  <2> QED BY <1>3, <2>1, <2>2
<1>7. Before(p, i) = {} => From(p, i) = 1
  BY DEF From
<1> QED BY <1>1, <1>5, <1>6, <1>7


\* When the loop has dealt with the quote at i, it has written the screened text up to
\* the quote it added.
LEMMA WrittenSoFar ==
  ASSUME NEW p \in Seq(STRING), NEW A, Places(A, Quotes(p), Len(p)),
         NEW t, Doubled(t, p, A)
  PROVE  Screened(p) = [i \in Quotes(p) |-> SubSeq(t, 1, A[i] - 1)]
<1> DEFINE n == Len(p)
           Q == Quotes(p)
           g == [i \in Q |-> SubSeq(t, 1, A[i] - 1)]
<1>1. /\ Q \subseteq 1 .. n /\ n \in Nat
      /\ \A i \in 0 .. n : A[i] \in Nat
      /\ \A i \in Q : A[i] = A[i - 1] + 2
      /\ p \in Seq(Chars) /\ t \in Seq(Chars)
      /\ \A i \in Q : t[A[i] - 1] = Quote
  <2>1. p \in Seq(Chars)
    BY SeqMonotonic DEF Chars
  <2> QED BY <2>1, PlacesOfText DEF Places, Doubled
<1>2. ASSUME NEW i \in 1 .. n PROVE A[i] \in 1 .. Len(t)
  BY <1>2, OpeningIsAdded, LenProperties DEF Doubled
<1>3. ASSUME NEW i \in Q
      PROVE  (IF Before(p, i) = {} THEN <<>> ELSE g[From(p, i)])
               \o SubSeq(p, From(p, i), i - 1) \o <<Quote>> = SubSeq(t, 1, A[i] - 1)
  <2> DEFINE f == From(p, i)
  <2>1. /\ i \in 1 .. n /\ i - 1 \in 0 .. n /\ A[i] \in Nat /\ A[i - 1] \in Nat
        /\ A[i] = A[i - 1] + 2 /\ A[i] \in 1 .. Len(t) /\ Len(t) \in Nat
    BY <1>1, <1>2, LenProperties
  <2>2. (IF Before(p, i) = {} THEN <<>> ELSE g[f]) \o SubSeq(p, f, i - 1)
          = SubSeq(t, 1, A[i - 1])
    <3>1. CASE Before(p, i) = {}
      <4>1. f = 1 /\ \A k \in 1 .. i - 1 : k \notin Q
        BY <3>1, FromProperties
      <4>5. NoQuotes(p, 0, i - 1)
        BY <2>1, <4>1 DEF NoQuotes
      <4>2. SubSeq(p, 1, i - 1) = SubSeq(t, 1, A[i - 1])
        BY <2>1, <4>5, FirstPiece
      <4>3. SubSeq(t, 1, A[i - 1]) \in Seq(Chars)
        BY <1>1, <2>1, SubSeqProperties, ElementOfSeq
      <4> QED BY <3>1, <4>1, <4>2, <4>3, ConcatEmptySeq
    <3>2. CASE Before(p, i) # {}
      <4>1. f \in Q /\ f < i /\ f \in 1 .. n
        BY <1>1, <3>2, FromProperties
      <4>2. i - 1 \in f .. n /\ NoQuotes(p, f, i - 1)
        BY <1>1, <2>1, <4>1, FromProperties DEF NoQuotes
      <4>3. SubSeq(p, f, i - 1) = SubSeq(t, A[f], A[i - 1])
        BY <4>1, <4>2, SamePieceOf
      <4>4. g[f] = SubSeq(t, 1, A[f] - 1)
        BY <4>1
      <4>5. A[f] \in 1 .. Len(t) /\ A[f] <= A[i - 1]
        <5>1. f = i - 1 \/ (f < i - 1 /\ f \in 0 .. n /\ i - 1 \in 1 .. n)
          <6> HIDE DEF f, n, Q
          <6> QED BY <1>1, <2>1, <4>1
        <5>2. A[f] <= A[i - 1]
          <6>1. CASE f = i - 1
            BY <2>1, <6>1
          <6>2. CASE f < i - 1 /\ f \in 0 .. n /\ i - 1 \in 1 .. n
            <7>1. A[f] + (IF i - 1 \in Q THEN 2 ELSE 1) <= A[i - 1]
              BY <1>1, <6>2, PlacesRise
            <7> QED BY <1>1, <6>2, <7>1
          <6> QED BY <5>1, <6>1, <6>2
        <5> QED BY <1>2, <4>1, <5>2
      <4>6. PICK a \in Nat, b \in Nat : a = A[f] - 1 /\ b = A[i - 1]
        BY <2>1, <4>5
      <4>7. a <= b /\ b <= Len(t) /\ a + 1 = A[f]
        BY <2>1, <4>5, <4>6
      <4>8. SubSeq(t, 1, a) \o SubSeq(t, a + 1, b) = SubSeq(t, 1, b)
        BY <1>1, <2>1, <4>7, ConcatAdjacentSubSeq
      <4> HIDE DEF g, f
      <4> QED BY <3>2, <4>3, <4>4, <4>6, <4>7, <4>8
    <3> QED BY <3>1, <3>2
  <2>3. PICK b \in Nat : b = A[i - 1]
    BY <2>1
  <2>4. A[i] - 1 = b + 1 /\ b + 1 <= Len(t)
    BY <2>1, <2>3
  <2>5. SubSeq(t, 1, b) \o <<t[b + 1]>> = SubSeq(t, 1, b + 1)
    <3>1. 1 \in 1 .. Len(t) /\ b + 1 \in 1 .. Len(t) /\ (b + 1) - 1 = b
      BY <2>1, <2>4
    <3> QED BY <1>1, <3>1, SubSeqRecursiveSecond
  <2>6. t[b + 1] = Quote
    BY <1>1, <2>4
  <2> HIDE DEF g
  <2> QED BY <2>2, <2>3, <2>4, <2>5, <2>6
<1>4. g = Written(p, g)
  BY <1>3 DEF Written
<1>5. ASSUME NEW h, h = Written(p, h) PROVE h = g
  <2> SUFFICES ASSUME NEW i \in Q, h[i] # g[i] PROVE FALSE
    <3>1. h = [i \in Q |-> h[i]] /\ g = [i \in Q |-> g[i]]
      BY <1>5 DEF Written
    <3> QED BY <3>1
  <2> DEFINE D == {j \in Q : h[j] # g[j]}
  <2>1. PICK x \in D : \A y \in D : x <= y
    <3>1. D \subseteq Nat /\ D # {}
      <4> HIDE DEF g, Q, n
      <4>1. i \in D /\ D \subseteq Q /\ Q \subseteq Nat
        BY <1>1
      <4> QED BY <4>1
    <3> HIDE DEF D
    <3> QED BY <3>1, Smallest
  <2>2. h[x] # g[x] /\ x \in Q /\ x \in Nat
    BY <1>1
  <2>3. /\ h[x] = (IF Before(p, x) = {} THEN <<>> ELSE h[From(p, x)])
                    \o SubSeq(p, From(p, x), x - 1) \o <<Quote>>
        /\ g[x] = (IF Before(p, x) = {} THEN <<>> ELSE g[From(p, x)])
                    \o SubSeq(p, From(p, x), x - 1) \o <<Quote>>
    <3> HIDE DEF g
    <3> QED BY <1>4, <1>5, <2>2 DEF Written
  <2>4. Before(p, x) # {} => From(p, x) \in Q /\ From(p, x) < x /\ From(p, x) \in Nat
    BY <1>1, <2>2, FromProperties
  <2>5. Before(p, x) # {} => h[From(p, x)] = g[From(p, x)]
    <3> HIDE DEF g
    <3> QED BY <2>1, <2>2, <2>4
  <2> HIDE DEF g
  <2> QED BY <2>2, <2>3, <2>5
<1> HIDE DEF g
<1>6. Screened(p) = g
  BY <1>4, <1>5, ScreenedIs
<1> QED BY <1>6 DEF g, Q

\* With the rest after the last quote, or without any quote, that is the whole.
LEMMA ScreenedDoubles ==
  ASSUME NEW p \in Seq(STRING), NEW A, Places(A, Quotes(p), Len(p)),
         NEW t, Doubled(t, p, A)
  PROVE  ScreenQuote(p) = t
<1> DEFINE n == Len(p)
           Q == Quotes(p)
           last == Max(Q)
<1>1. /\ Q \subseteq 1 .. n /\ n \in Nat
      /\ \A i \in 0 .. n : A[i] \in Nat
      /\ p \in Seq(STRING) /\ t \in Seq(Chars) /\ Len(t) = A[n] /\ n \in 0 .. n
  <2>1. Q \subseteq 1 .. n /\ n \in Nat /\ n \in 0 .. n
    BY PlacesOfText
  <2>2. t \in Seq(Chars) /\ Len(t) = A[n]
    BY DEF Doubled
  <2> QED BY <2>1, <2>2 DEF Places
<1>2. SubSeq(p, 1, n) = p /\ SubSeq(t, 1, A[n]) = t
  BY <1>1, SubSeqFull
<1>3. CASE Q = {}
  <2>2. NoQuotes(p, 0, n)
    BY <1>3 DEF NoQuotes
  <2>1. SubSeq(p, 1, n) = SubSeq(t, 1, A[n])
    BY <1>1, <2>2, FirstPiece
  <2> QED BY <1>2, <1>3, <2>1 DEF ScreenQuote
<1>4. CASE Q # {}
  <2>1. last \in Q /\ \A y \in Q : last >= y
    <3>1. Q \in SUBSET (0 .. n)
      BY <1>1
    <3> HIDE DEF Q, n
    <3> QED BY <1>1, <1>4, <3>1, Largest
  <2>2. last \in 1 .. n /\ n \in last .. n /\ NoQuotes(p, last, n)
    <3> HIDE DEF last
    <3> QED BY <1>1, <2>1 DEF NoQuotes
  <2> HIDE DEF last
  <2>3. SubSeq(p, last, n) = SubSeq(t, A[last], A[n])
    BY <2>2, SamePieceOf
  <2>4. Screened(p)[last] = SubSeq(t, 1, A[last] - 1)
    BY <2>1, WrittenSoFar
  <2>5. A[last] \in 1 .. A[n]
    BY <2>2, OpeningIsAdded
  <2>6. PICK a \in Nat, b \in Nat : a = A[last] - 1 /\ b = A[n]
    BY <1>1, <2>5
  <2>7. a <= b /\ b <= Len(t) /\ a + 1 = A[last]
    BY <1>1, <2>5, <2>6
  <2>8. SubSeq(t, 1, a) \o SubSeq(t, a + 1, b) = SubSeq(t, 1, b)
    BY <1>1, <2>7, ConcatAdjacentSubSeq
  <2>9. ScreenQuote(p) = Screened(p)[last] \o SubSeq(p, last, n)
    BY <1>4 DEF ScreenQuote, last
  <2> QED BY <1>2, <2>3, <2>4, <2>6, <2>7, <2>8, <2>9
<1> QED BY <1>3, <1>4

\* What ScreenQuote returns is the text with its quotes doubled.
LEMMA ScreenedText ==
  ASSUME NEW p \in Seq(STRING)
  PROVE  \E t : Doubled(t, p, PlacesOf(p)) /\ ScreenQuote(p) = t
<1>1. Places(PlacesOf(p), Quotes(p), Len(p))
  BY PlacesOfText
<1>2. PICK t : Doubled(t, p, PlacesOf(p))
  BY <1>1, DoubledExists
<1>3. ScreenQuote(p) = t
  BY <1>1, <1>2, ScreenedDoubles
<1> QED BY <1>2, <1>3

-----------------------------------------------------------------------------
(* The round trip. *)

\* Whatever the text, what SQLite reads back is the text InsertPush was given
\* (push_storage.cpp:122-146, 221), wherever its quotes stand.
THEOREM RoundTrip == \A p \in Seq(STRING) : Meaning(ScreenQuote(p)) = p
<1> SUFFICES ASSUME NEW p \in Seq(STRING) PROVE Meaning(ScreenQuote(p)) = p
  OBVIOUS
<1>1. PICK t : Doubled(t, p, PlacesOf(p)) /\ ScreenQuote(p) = t
  BY ScreenedText
<1>2. Places(PlacesOf(p), Quotes(p), Len(p))
  BY PlacesOfText
<1> QED BY <1>1, <1>2, ReadsBack

\* ScreenQuote makes a literal of every text but those with a NUL, so that InsertPush
\* refuses no other text for its form.
THEOREM LiteralUnlessNul ==
  \A p \in Seq(STRING) :
    IsLiteral(ScreenQuote(p)) <=> \A i \in DOMAIN p : p[i] # Nul
<1> SUFFICES ASSUME NEW p \in Seq(STRING)
             PROVE  IsLiteral(ScreenQuote(p)) <=> \A i \in DOMAIN p : p[i] # Nul
  OBVIOUS
<1> DEFINE A == PlacesOf(p)
           n == Len(p)
<1>1. PICK t : Doubled(t, p, A) /\ ScreenQuote(p) = t
  BY ScreenedText
<1>2. Places(A, Quotes(p), n) /\ n \in Nat /\ DOMAIN p = 1 .. n
  BY PlacesOfText
<1>3. /\ DOMAIN t = 1 .. A[n]
      /\ \A i \in 1 .. n : A[i] \in DOMAIN t \ Opening(t)
      /\ \A i \in Quotes(p) : A[i] - 1 \in Opening(t)
  BY <1>1, <1>2, OpeningIsAdded
<1>4. /\ \A i \in 1 .. n : t[A[i]] = p[i] /\ A[i] \in Nat
      /\ \A i \in Quotes(p) : t[A[i] - 1] = Quote
  BY <1>1, <1>2 DEF Doubled, Places
<1>5. \A k \in DOMAIN t : \E i \in 1 .. n : k = A[i] \/ (i \in Quotes(p) /\ k = A[i] - 1)
  BY <1>2, <1>3, PlacesCover
<1> HIDE DEF A, n
<1>6. (\A k \in DOMAIN t : t[k] # Nul) <=> \A i \in 1 .. n : p[i] # Nul
  <2>1. Quote # Nul
    BY DEF Quote, Nul
  <2> QED BY <1>3, <1>4, <1>5, <2>1
<1>7. ASSUME NEW k \in Opening(t) PROVE k + 1 \in Quotes(t)
  <2>1. k \in DOMAIN t
    BY DEF Opening, Quotes
  <2>2. PICK i \in 1 .. n : i \in Quotes(p) /\ k = A[i] - 1
    BY <1>3, <1>5, <1>7, <2>1
  <2>3. k + 1 = A[i]
    BY <1>4, <2>2
  <2>4. p[i] = Quote
    BY <2>2 DEF Quotes
  <2> QED BY <1>3, <1>4, <2>3, <2>4 DEF Quotes
<1> QED BY <1>1, <1>2, <1>6, <1>7 DEF IsLiteral

=============================================================================
