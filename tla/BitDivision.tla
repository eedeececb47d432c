---------------------------- MODULE BitDivision ----------------------------
(***************************************************************************)
(* bit::division (division.hpp): schoolbook division of the number in      *)
(* [first, last) by a word, the quotient written at d_first and the        *)
(* remainder returned.  It is transform_accumulate_backward                *)
(* (transform_accumulate.hpp) with a function object that divides the      *)
(* remainder so far and the next word down by the operand: a partial last  *)
(* word of the destination, whole words, and what is left.  One behaviour  *)
(* is one call, one step one word.                                         *)
(***************************************************************************)
EXTENDS BitWord, FiniteSetsExt

VARIABLES
  mem,                     \* the words, as one array of bits, each 0 or 1
  orig,                    \* history: mem when division was called
  first, last, d_first,    \* the call
  operand,                 \* integral_operand
  top,                     \* the local last: the bits below it are still to divide
  d_it,                    \* the local d_it
  whole_words, remaining,  \* whole_words_to_op still to do, remaining_bits_to_op
  acc,                     \* the remainder so far
  pc,                      \* what the code does next
  used, d_used             \* history: the words read and written by the last step

vars == <<mem, orig, first, last, d_first, operand, top, d_it, whole_words,
          remaining, acc, pc, used, d_used>>

Call == <<orig, first, last, d_first, operand>>

Limit  == 2 ^ W
Bits   == last - first
d_last == d_first + Bits

\* The number the n bits at f hold, least significant first.
Number(m, f, n) == MapThenSumSet(LAMBDA i : m[f + i] * 2 ^ i, 0 .. (n - 1))
ToWord(v)       == [i \in BitPos |-> (v \div 2 ^ i) % 2]

\* The destination is apart from the source, or ends at or after it.
NotBehind == first <= d_first \/ d_last <= first

Init ==
  /\ orig \in [Addr -> {0, 1}]
  /\ mem = orig
  /\ first \in 0 .. MemBits /\ last \in 0 .. MemBits /\ first <= last
  /\ d_first \in 0 .. (MemBits - (last - first))
  /\ NotBehind
  /\ operand \in 1 .. (Limit - 1)
  /\ top = last /\ d_it = Base(d_last)
  /\ whole_words = 0 /\ remaining = 0
  /\ acc = 0
  /\ pc = "start"
  /\ used = {} /\ d_used = {}

\* A faulty LongDivision: the remainder of the word above is not brought down.
LongDivisionPerWord(word) ==
  LET numerator == Number(word, 0, W)
  IN  [word |-> ToWord(numerator \div operand), acc |-> numerator % operand]

\* A faulty LongDivision: the pair is made the wrong way round.
LongDivisionSwapped(word) ==
  LET numerator == acc * Limit + Number(word, 0, W)
  IN  [word |-> ToWord(numerator % operand), acc |-> (numerator \div operand) % Limit]

\* long_div, by way of _divx: the quotient's low word and the next remainder.
LongDivision(word) ==
  LET numerator == acc * Limit + Number(word, 0, W)
  IN  [word |-> ToWord((numerator \div operand) % Limit), acc |-> numerator % operand]

\* The n bits below top are divided, and the n bits of the word at b from
\* position on become those of the quotient.
Divide(b, position, n) ==
  LET word == IF n = W THEN GetWord(mem, top - n, W) ELSE MaskLow(GetWord(mem, top - n, n), n)
      r    == LongDivision(word)
  IN  /\ mem' = Store(mem, b, BitBlend(Load(mem, b), r.word, position, n))
      /\ acc' = r.acc
      /\ top' = top - n
      /\ used' = GetWordLoads(top - n, n) /\ d_used' = {b}

DivideNothing == used' = {} /\ d_used' = {} /\ UNCHANGED <<mem, acc, top>>

\* The bits in the word of an unaligned d_last, written from the position of
\* d_first on (transform_accumulate.hpp:77-81).
Head ==
  LET n == Least(Bits, Pos(d_last))
  IN  /\ pc = "start"
      /\ IF n # 0 THEN Divide(d_it, Pos(d_first), n) ELSE DivideNothing
      /\ whole_words' = (Bits - n) \div W /\ remaining' = (Bits - n) % W
      /\ pc' = "words"
      /\ UNCHANGED <<Call, d_it>>

\* A faulty WholeWord: the word is written before d_it is moved to it.
WholeWordLate ==
  /\ pc = "words"
  /\ whole_words > 0
  /\ Divide(d_it, 0, W)
  /\ d_it' = d_it - W
  /\ whole_words' = whole_words - 1
  /\ UNCHANGED <<Call, remaining, pc>>

WholeWord ==
  /\ pc = "words"
  /\ whole_words > 0
  /\ d_it' = d_it - W
  /\ Divide(d_it', 0, W)
  /\ whole_words' = whole_words - 1
  /\ UNCHANGED <<Call, remaining, pc>>

\* The bits that are left, written from position 0 on.
Rest ==
  /\ pc = "words"
  /\ whole_words = 0
  /\ IF remaining > 0
       THEN d_it' = d_it - W /\ Divide(d_it', 0, remaining)
       ELSE DivideNothing /\ UNCHANGED d_it
  /\ pc' = "done"
  /\ UNCHANGED <<Call, whole_words, remaining>>

Finished ==
  /\ pc = "done"
  /\ UNCHANGED vars

Next == Head \/ WholeWord \/ Rest \/ Finished

Spec == Init /\ [][Next]_vars

\* The destination begins with a word.
BeginsWithWord == Pos(d_first) = 0

----------------------------------------------------------------------------
(* Properties                                                              *)

\* Types; and the remainder is one: _divx is never called with a high word that
\* is not below the denominator, for which its quotient does not fit.
TypeOK ==
  /\ orig \in [Addr -> {0, 1}] /\ mem \in [Addr -> {0, 1}]
  /\ first \in Nat /\ last \in Nat /\ first <= last /\ last <= MemBits
  /\ d_first \in Nat /\ d_last <= MemBits
  /\ operand \in 1 .. (Limit - 1) /\ acc \in 0 .. (operand - 1)
  /\ top \in first .. last /\ d_it \in -W .. MemBits
  /\ whole_words \in 0 .. NumWords /\ remaining \in 0 .. (W - 1)
  /\ pc \in {"start", "words", "done"}
  /\ used \in SUBSET Int /\ d_used \in SUBSET Int

\* At every word the quotient written so far times the operand, plus the
\* remainder so far, is the part of the number read so far: the invariant of
\* long division.
LongDivisionInvariant ==
  LET n == last - top
  IN  acc + operand * Number(mem, d_last - n, n) = Number(orig, top, n)

\* division leaves the quotient and returns the remainder ('Schoolbook'
\* division by scalar, division.hpp:23).
DivisionCorrect ==
  pc = "done" =>
    /\ Number(mem, d_first, Bits) = Number(orig, first, Bits) \div operand
    /\ acc = Number(orig, first, Bits) % operand

\* No bit outside the destination changes, also not in the words it shares.
OutsideIntact ==
  \A a \in Addr : a < d_first \/ d_last <= a => mem[a] = orig[a]

\* Every word read holds a bit of the source, every word written one of the
\* destination.
AccessInRange ==
  /\ \A b \in used : Holds(b, first, last)
  /\ \A b \in d_used : Holds(b, d_first, d_last)
=============================================================================
