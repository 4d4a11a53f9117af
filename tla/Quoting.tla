------------------------------- MODULE Quoting -------------------------------
(***************************************************************************)
(* How a text gets into a SQL statement: ScreenQuote of                    *)
(* database/src/push_storage.cpp doubles its quotes, SQLite reads it back. *)
(*                                                                         *)
(* A text is a sequence of characters; only the quote and the NUL differ   *)
(* from the others.                                                        *)
(***************************************************************************)
EXTENDS Naturals, Sequences, FiniteSets, FiniteSetsExt

Quote == "'"
Nul == "NUL"

Quotes(str) == {i \in DOMAIN str : str[i] = Quote}

\* The quotes before quote_pos, and prev_quote_pos: where the last of them is, or the
\* text begins.
Before(str, i) == {j \in Quotes(str) : j < i}
From(str, i) == IF Before(str, i) = {} THEN 1 ELSE Max(Before(str, i))

\* Mutant: quotes are not screened.
ScreenQuote_Variant(str) == str

\* What the loop has written when it has found the quote at i and added one: each time
\* it copies the text from the last quote, that quote included, up to the next.
Screened(str) ==
  LET res[i \in Quotes(str)] ==
        (IF Before(str, i) = {} THEN <<>> ELSE res[From(str, i)])
          \o SubSeq(str, From(str, i), i - 1) \o <<Quote>>
  IN  res

\* The rest is copied after the loop.
ScreenQuote(str) ==
  LET last == Max(Quotes(str))
  IN  IF Quotes(str) = {} THEN str
      ELSE Screened(str)[last] \o SubSeq(str, last, Len(str))

-----------------------------------------------------------------------------
(* SQLite. *)

\* What SQLite makes of a text between quotes in a statement passed as a C
\* string: a NUL ends the statement inside the literal, a quote must be doubled,
\* and the literal means the text with each pair read as one quote.
Opening(text) ==
  {i \in Quotes(text) : Cardinality({j \in Quotes(text) : j < i}) % 2 = 0}
IsLiteral(text) ==
  /\ \A i \in DOMAIN text : text[i] # Nul
  /\ \A i \in Opening(text) : i + 1 \in Quotes(text)
Meaning(text) ==
  LET read == DOMAIN text \ Opening(text)
      Place(i) == Cardinality({j \in read : j <= i})
  IN  [k \in 1 .. Cardinality(read) |-> text[CHOOSE i \in read : Place(i) = k]]

=============================================================================
