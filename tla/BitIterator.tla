---------------------------- MODULE BitIterator ----------------------------
(***************************************************************************)
(* bit_iterator's arithmetic (bit_iterator.hpp): a bit is designated by    *)
(* the pair of a word iterator and a position in the word.  The operators  *)
(* compute the pair with C++'s integers: a quotient that truncates to      *)
(* zero, and a sum that is cast to an unsigned type before the remainder   *)
(* is taken.  An action is one call on the iterator `it', or the           *)
(* assignment of `it' to a second one, other.                              *)
(*                                                                         *)
(* The other modules take an iterator for the number W * word + position;  *)
(* this one shows that the pairs compute with these numbers, as long as    *)
(* the sum of a position and a distance fits difference_type.              *)
(***************************************************************************)
EXTENDS Integers

CONSTANTS
  W,        \* digits: bits in a word
  SizeMod,  \* 2 to the number of bits of size_t
  Reach     \* bound on how far an iterator is from where it began

ASSUME WAssumption       == W \in Nat \ {0}
ASSUME SizeModAssumption == SizeMod \in Nat \ {0}
ASSUME ReachAssumption   == Reach \in Nat

\* digits divides the range of size_t: both are powers of 2.
ASSUME SizeAssumption == SizeMod % W = 0

VARIABLES
  current,    \* it._current, counted from the word it began in
  position,   \* it._position
  ocurrent,   \* other._current
  oposition,  \* other._position
  address,    \* history: the bit `it' should designate, by the calls made
  oaddress    \* history: the one other should

vars == <<current, position, ocurrent, oposition, address, oaddress>>

Other == <<ocurrent, oposition, oaddress>>

\* C++ integer division truncates to zero; static_cast<size_type> wraps round.
Quotient(a, b) == IF a >= 0 THEN a \div b ELSE -((-a) \div b)
Unsigned(a)    == a % SizeMod

\* A faulty WordsMoved: the quotient is not corrected for a step back.
WordsUncorrected(sum, back) == Quotient(sum, W)

\* The words an iterator moves by when its position would become sum:
\* (sum - back * (digits - 1)) / digits.
WordsMoved(sum, back) == Quotient(sum - (IF back THEN W - 1 ELSE 0), W)

Init ==
  /\ current = 0 /\ ocurrent = 0
  /\ position \in 0 .. (W - 1) /\ oposition = position
  /\ address = position /\ oaddress = position

Designated(a) == a \in -Reach .. Reach

\* ++it
Increment ==
  /\ Designated(address + 1)
  /\ position' = Unsigned(position + 1) % W
  /\ current' = IF position' = 0 THEN current + 1 ELSE current
  /\ address' = address + 1
  /\ UNCHANGED Other

\* A faulty Decrement: the position is tested after it was moved.
DecrementLate ==
  /\ Designated(address - 1)
  /\ position' = Unsigned(position - 1) % W
  /\ current' = IF position' = 0 THEN current - 1 ELSE current
  /\ address' = address - 1
  /\ UNCHANGED Other

\* --it: the position is unsigned and wraps round at 0.
Decrement ==
  /\ Designated(address - 1)
  /\ current' = IF position = 0 THEN current - 1 ELSE current
  /\ position' = Unsigned(position - 1) % W
  /\ address' = address - 1
  /\ UNCHANGED Other

\* A faulty Add: the sum is not reduced.
AddUnreduced(n) ==
  /\ current' = current + WordsMoved(position + n, n < 0)
  /\ position' = Unsigned(position + n)
  /\ address' = address + n
  /\ UNCHANGED Other

\* it += n; it + n and it[n] compute the same pair.
Add(n) ==
  /\ current' = current + WordsMoved(position + n, n < 0)
  /\ position' = Unsigned(position + n) % W
  /\ address' = address + n
  /\ UNCHANGED Other

\* it -= n; it - n computes the same pair.
Subtract(n) ==
  /\ current' = current + WordsMoved(position - n, n > 0)
  /\ position' = Unsigned(position - n) % W
  /\ address' = address - n
  /\ UNCHANGED Other

\* other = it
Assign ==
  /\ ocurrent' = current /\ oposition' = position /\ oaddress' = address
  /\ UNCHANGED <<current, position, address>>

Next ==
  \/ Increment \/ Decrement \/ Assign
  \/ \E n \in -2 * Reach .. 2 * Reach :
       \/ Designated(address + n) /\ Add(n)
       \/ Designated(address - n) /\ Subtract(n)

Spec == Init /\ [][Next]_vars

\* A faulty Difference: the positions are not looked at.
DifferenceInWords(c, p, oc, op) == (c - oc) * W

\* it - other and distance(other, it)
Difference(c, p, oc, op) == (c - oc) * W + (p - op)

\* operator<=>: the word first, then the position.
Before(c, p, oc, op) == c < oc \/ (c = oc /\ p < op)

----------------------------------------------------------------------------
(* Properties                                                              *)

\* Types; and the position is one of the word, as the constructors assert
\* (bit_iterator.hpp:141 and 154).
TypeOK ==
  /\ current \in Int /\ ocurrent \in Int
  /\ position \in 0 .. (W - 1) /\ oposition \in 0 .. (W - 1)
  /\ address \in Int /\ oaddress \in Int

\* After any calls the pair designates the bit the calls add up to: no step
\* across a word's boundary, forwards or backwards, is off by a word.
Designates ==
  /\ W * current + position = address
  /\ W * ocurrent + oposition = oaddress

\* The difference of two iterators is the number of bits between them, and
\* comparing the pairs compares the bits.
Ordered ==
  /\ Difference(current, position, ocurrent, oposition) = address - oaddress
  /\ Before(current, position, ocurrent, oposition) <=> address < oaddress
=============================================================================
