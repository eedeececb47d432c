---------------------------- MODULE WordPointer ----------------------------
(***************************************************************************)
(* bit_word_pointer_adapter (bit_word_pointer_adapter.hpp): an iterator    *)
(* over words of one size that walks an array of words of another.  When   *)
(* the words wanted are smaller (big to small) it is a source word and the *)
(* index of a piece of it; when they are bigger (small to big) it is the   *)
(* first of Ratio source words, and the index is neither initialised nor   *)
(* used -- except by the comparison operators, which compare every member. *)
(* An action is one call on the adapter `it', the copy of `it' to a second *)
(* one, other, or the construction of other.                               *)
(*                                                                         *)
(* The second half is a bit_iterator over an adapter: what copy and equal  *)
(* walk through the words of one range when they are bigger than those of  *)
(* the other.                                                              *)
(***************************************************************************)
EXTENDS Integers

CONSTANTS
  SizeMod,     \* 2 to the number of bits of size_t
  Reach,       \* bound, in source words, on how far an adapter goes
  Ratio,       \* the sizes' quotient, at least 2, a divisor of SizeMod
  SmallToBig,  \* is_small_to_big, a Boolean; its negation is is_big_to_small
  Digits       \* bits in one of the smaller words, a divisor of SizeMod

VARIABLES
  source, index,      \* it._source, in source words, and it._index
  osource, oindex,    \* other's
  address,            \* history: what `it' should designate, by the calls made,
  oaddress,           \* and other, in words of the smaller size
  position,           \* of an iterator over it: its _position
  oposition,          \* that of an iterator over other
  bit, obit           \* history: the bits these iterators should designate

vars == <<source, index, osource, oindex, address, oaddress>>

Other == <<osource, oindex, oaddress>>

\* C++ integer division truncates to zero; static_cast<size_type> wraps round.
Quotient(a, b) == IF a >= 0 THEN a \div b ELSE -((-a) \div b)
Unsigned(a)    == a % SizeMod

\* The indices a new adapter may have.  Small to big leaves the member
\* uninitialised: any value would do, two stand for all of them.
FreshIndex == IF SmallToBig THEN {0, 1} ELSE 0 .. (Ratio - 1)

\* Smaller words from one designated word to the next, and in a source word.
Step     == IF SmallToBig THEN Ratio ELSE 1
InSource == IF SmallToBig THEN 1 ELSE Ratio

InReach(a) == a \in (-Reach * InSource) .. (Reach * InSource)

Init ==
  /\ source = 0 /\ index \in FreshIndex
  /\ osource = source /\ oindex = index
  /\ address = IF SmallToBig THEN 0 ELSE index
  /\ oaddress = address

\* A faulty SourceMoved: the quotient is not corrected for a step back.
SourceUncorrected(sum, back) == Quotient(sum, Ratio)

\* The source words an adapter moves by when its index would become sum.
SourceMoved(sum, back) == Quotient(sum - (IF back THEN Ratio - 1 ELSE 0), Ratio)

\* ++it
Increment ==
  /\ InReach(address + Step)
  /\ IF SmallToBig THEN source' = source + Ratio /\ UNCHANGED index
     ELSE IF index + 1 >= Ratio THEN source' = source + 1 /\ index' = index + 1 - Ratio
     ELSE index' = index + 1 /\ UNCHANGED source
  /\ address' = address + Step
  /\ UNCHANGED Other

\* A faulty Decrement: the index is not wrapped round.
DecrementUnwrapped ==
  /\ InReach(address - Step)
  /\ IF SmallToBig THEN source' = source - 1 /\ UNCHANGED index
     ELSE /\ source' = IF index = 0 THEN source - 1 ELSE source
          /\ index' = Unsigned(index - 1)
  /\ address' = address - Step
  /\ UNCHANGED Other

\* --it: the index is decremented, and wraps round, before Ratio is added to it.
Decrement ==
  /\ InReach(address - Step)
  /\ IF SmallToBig THEN source' = source - Ratio /\ UNCHANGED index
     ELSE IF index = 0 THEN source' = source - 1 /\ index' = Unsigned(Unsigned(index - 1) + Ratio)
     ELSE index' = index - 1 /\ UNCHANGED source
  /\ address' = address - Step
  /\ UNCHANGED Other

\* it += n; it + n and it[n] designate the same word.
Add(n) ==
  /\ IF SmallToBig THEN source' = source + n * Ratio /\ UNCHANGED index
     ELSE /\ source' = source + SourceMoved(index + n, n < 0)
          /\ index' = Unsigned(index + n) % Ratio
  /\ address' = address + n * Step
  /\ UNCHANGED Other

\* it -= n; it - n designates the same word.
Subtract(n) ==
  /\ IF SmallToBig THEN source' = source - n * Ratio /\ UNCHANGED index
     ELSE /\ source' = source + SourceMoved(index - n, n > 0)
          /\ index' = Unsigned(index - n) % Ratio
  /\ address' = address - n * Step
  /\ UNCHANGED Other

\* other = it
Assign ==
  /\ osource' = source /\ oindex' = index /\ oaddress' = address
  /\ UNCHANGED <<source, index, address>>

\* other = bit_word_pointer_adapter(s), of a source word
Construct(s) ==
  /\ osource' = s
  /\ oindex' \in FreshIndex
  /\ oaddress' = IF SmallToBig THEN s ELSE s * Ratio + oindex'
  /\ InReach(oaddress')
  /\ UNCHANGED <<source, index, address>>

Next ==
  \/ Increment \/ Decrement \/ Assign
  \/ \E n \in -2 * Reach .. 2 * Reach :
       \/ InReach(address + n * Step) /\ Add(n)
       \/ InReach(address - n * Step) /\ Subtract(n)
  \/ \E s \in -Reach .. Reach : Construct(s)

Spec == Init /\ [][Next]_vars

\* A faulty Difference: of source words.
DifferenceOfSources(s, i, os, oi) == s - os

\* it - other
Difference(s, i, os, oi) ==
  IF SmallToBig THEN Quotient(s - os, Ratio) ELSE (s - os) * Ratio + (i - oi)

\* The defaulted comparisons: of the source, then of the index.
Equal(s, i, os, oi)  == s = os /\ i = oi
Before(s, i, os, oi) == s < os \/ (s = os /\ i < oi)

----------------------------------------------------------------------------
(* Properties of an adapter                                                *)

\* Types; and the index is one of a piece of a source word.
TypeOK ==
  /\ source \in Int /\ osource \in Int
  /\ index \in 0 .. (Ratio - 1) /\ oindex \in 0 .. (Ratio - 1)
  /\ address \in Int /\ oaddress \in Int

Place(s, i) == IF SmallToBig THEN s ELSE s * Ratio + i

\* After any calls the adapter designates the word the calls add up to, also
\* when they cross source words backwards.
Designates ==
  Place(source, index) = address /\ Place(osource, oindex) = oaddress

\* it - other is the number of words from other to it, when there is one: the
\* distance is a multiple of the words' size.
Distance ==
  (address - oaddress) % Step = 0 =>
    Difference(source, index, osource, oindex) * Step = address - oaddress

\* Two adapters are equal, or ordered, as the words they designate are.  A test
\* says "same as (it0 + 2)" of an adapter built from the source word two words
\* on (test-iterator_adapter.cpp:317).
Compares ==
  /\ Equal(source, index, osource, oindex) <=> address = oaddress
  /\ Before(source, index, osource, oindex) <=> address < oaddress

----------------------------------------------------------------------------
(***************************************************************************)
(* A bit_iterator over an adapter to smaller words.  The function          *)
(* with_bit_iterator_adapter (bit_details.hpp) makes it from a             *)
(* bit_iterator, the operators of bit_iterator move it (their arithmetic   *)
(* is that of module BitIterator, over an adapter instead of a pointer),   *)
(* and the converting constructor (bit_iterator.hpp) turns the result back *)
(* into an iterator over the words there are.                              *)
(***************************************************************************)

avars == <<vars, position, oposition, bit, obit>>

SourceDigits == Ratio * Digits

\* A faulty Adapted: the index is forgotten, as of a pointer's first piece.
AdaptedAtWord(s, p) == [source |-> s, index |-> 0, position |-> p % Digits]

\* with_bit_iterator_adapter of the bit p of source word s.
Adapted(s, p) == [source |-> s, index |-> p \div Digits, position |-> p % Digits]

AdaptedInit ==
  /\ \E p \in 0 .. (SourceDigits - 1) :
       LET a == Adapted(0, p)
       IN  /\ source = a.source /\ index = a.index /\ position = a.position
           /\ bit = p
  /\ osource = source /\ oindex = index /\ oposition = position /\ obit = bit
  /\ address = source * Ratio + index /\ oaddress = address

\* The smaller words it moves by when its position would become sum.
PiecesMoved(sum, back) == Quotient(sum - (IF back THEN Digits - 1 ELSE 0), Digits)

\* it += n, by way of the adapter's.
Advance(n) ==
  LET pieces == PiecesMoved(position + n, n < 0)
  IN  /\ InReach(address + pieces)
      /\ Add(pieces)
      /\ position' = Unsigned(position + n) % Digits
      /\ bit' = bit + n
      /\ UNCHANGED <<oposition, obit>>

\* A faulty BitIncrement: the adapter moves on with every bit.
BitIncrementAlways ==
  /\ Increment
  /\ position' = Unsigned(position + 1) % Digits
  /\ bit' = bit + 1
  /\ UNCHANGED <<oposition, obit>>

\* ++it
BitIncrement ==
  /\ position' = Unsigned(position + 1) % Digits
  /\ IF position' = 0 THEN Increment ELSE UNCHANGED vars
  /\ bit' = bit + 1
  /\ UNCHANGED <<oposition, obit>>

\* --it
BitDecrement ==
  /\ IF position = 0 THEN Decrement ELSE UNCHANGED vars
  /\ position' = Unsigned(position - 1) % Digits
  /\ bit' = bit - 1
  /\ UNCHANGED <<oposition, obit>>

\* other = it
BitAssign ==
  /\ Assign
  /\ oposition' = position /\ obit' = bit
  /\ UNCHANGED <<position, bit>>

AdaptedNext ==
  \/ BitIncrement \/ BitDecrement \/ BitAssign
  \/ \E n \in (-2 * Reach * SourceDigits) .. (2 * Reach * SourceDigits) : Advance(n)

AdaptedSpec == AdaptedInit /\ [][AdaptedNext]_avars

\* A faulty Converted: the position in the piece is not added.
ConvertedToPiece(s, i, p) == [source |-> s, position |-> i * Digits]

\* The converting constructor of bit_iterator.
Converted(s, i, p) == [source |-> s, position |-> i * Digits + p]

----------------------------------------------------------------------------
(* Properties of an iterator over an adapter                               *)

\* Types; and the position is one of the smaller word.
AdaptedTypeOK ==
  /\ TypeOK
  /\ position \in 0 .. (Digits - 1) /\ oposition \in 0 .. (Digits - 1)
  /\ bit \in Int /\ obit \in Int

\* However the adapted iterator was moved, converting it back gives the word
\* and the position, inside the word, of the bit the calls add up to: what copy
\* returns for a range of bigger words is the end of what it wrote.
ConvertsBack ==
  LET c == Converted(source, index, position)
  IN  /\ c.position \in 0 .. (SourceDigits - 1)
      /\ c.source * SourceDigits + c.position = bit

\* The distance of two adapted iterators is the number of bits between them:
\* what copy and equal take for the length of a range of bigger words.
BitDistance ==
  Difference(source, index, osource, oindex) * Digits + (position - oposition)
    = bit - obit
=============================================================================
