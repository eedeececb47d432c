------------------------------ MODULE BitWord ------------------------------
(***************************************************************************)
(* The word-level instructions of bit_details.hpp and the two memory       *)
(* accessors every algorithm is written with, get_word and write_word of   *)
(* bit_algorithm_details.hpp.                                              *)
(*                                                                         *)
(* A bit sequence lives in an array of words of W bits.  The address of a  *)
(* bit is the number W * word + position, so that a bit_iterator is one    *)
(* number a: position() is Pos(a), and base() the address Base(a) of the   *)
(* first bit of its word (module BitIterator shows that the (word,         *)
(* position) pairs of the code compute with these numbers).                *)
(*                                                                         *)
(* Bit is the set of values a bit may have, Zero the one shifts let in.    *)
(* No instruction below looks at a bit's value, so besides {0, 1} Bit may  *)
(* be a set of names, a different one in every cell of the memory: one     *)
(* run then stands for all the contents the memory could have, and a bit   *)
(* that ends up in the wrong place is seen whatever the contents are.      *)
(***************************************************************************)
EXTENDS Integers

CONSTANTS
  W,         \* digits: bits in a word, binary_digits<word_type>::value
  Bit,       \* the values of a bit
  Zero,      \* the value a logical shift lets in
  NumWords   \* words in the memory an algorithm's ranges lie in

ASSUME WAssumption        == W \in Nat \ {0}
ASSUME BitAssumption      == Zero \in Bit
ASSUME NumWordsAssumption == NumWords \in Nat

MemBits == NumWords * W
Addr    == 0 .. (MemBits - 1)

BitPos == 0 .. (W - 1)
Word   == [BitPos -> Bit]

Pos(a)  == a % W
Base(a) == a - Pos(a)

Least(a, b) == IF a <= b THEN a ELSE b

----------------------------------------------------------------------------
(* Instructions on one or two words.                                       *)

\* The shift counts C++ defines; lsr and lsl assert this when the library is
\* built with BITLIB_DETECT_UNDEFINED_SHIFT.
ShiftDefined(k) == k \in 0 .. (W - 1)

Lsr(w, k) == [i \in BitPos |-> IF i + k < W THEN w[i + k] ELSE Zero]

Lsl(w, k) == [i \in BitPos |-> IF k <= i THEN w[i - k] ELSE Zero]

\* Bitwise or; the code only joins words whose non-zero bits are disjoint.
BitOr(v, w) == [i \in BitPos |-> IF v[i] = Zero THEN w[i] ELSE v[i]]

\* A faulty BitBlend: the mask starts at bit 0 whatever start is.
BitBlendFromZero(src0, src1, start, len) ==
  [i \in BitPos |-> IF i < start + len THEN src1[i] ELSE src0[i]]

\* src0 with the len bits that begin at start taken from src1.
BitBlend(src0, src1, start, len) ==
  [i \in BitPos |-> IF start <= i /\ i < start + len THEN src1[i] ELSE src0[i]]

\* src with every bit outside the len low ones cleared.
MaskLow(w, len) == [i \in BitPos |-> IF i < len THEN w[i] ELSE Zero]

\* Double precision shift right: lo >> cnt, filled from the low end of hi.
Shrd(lo, hi, cnt) == BitOr(Lsr(lo, cnt), Lsl(hi, W - cnt))

----------------------------------------------------------------------------
(* Whole-word loads and stores; b is the address of the word's first bit.  *)

Load(m, b) == [i \in BitPos |-> m[b + i]]

Store(m, b, w) ==
  [a \in DOMAIN m |-> IF b <= a /\ a < b + W THEN w[a - b] ELSE m[a]]

\* Some bit of the word at b is in the range [first, last).
Holds(b, first, last) == first < b + W /\ b < last

----------------------------------------------------------------------------
(* is_within<digits>: the range fits in a word's worth of bits, told from  *)
(* bases and positions. The last disjunct is is_within<0>(first + digits,  *)
(* last), whose own second disjunct asks a position for >= digits.         *)

IsWithin0(first, last) ==
  \/ Base(first) = Base(last) /\ Pos(first) >= Pos(last)
  \/ Base(first) + W = Base(last) /\ Pos(first) - W >= Pos(last)

\* A faulty IsWithin: neighbouring words are enough.
IsWithinByBase(first, last) == Base(last) <= Base(first) + W

IsWithin(first, last) ==
  \/ Base(first) = Base(last)
  \/ Base(first) + W = Base(last) /\ Pos(first) >= Pos(last)
  \/ IsWithin0(first + W, last)

----------------------------------------------------------------------------
(* get_word: the bits [first, first + len), in the low end of a word, with *)
(* whatever the word held above them.  The second word is loaded only when *)
(* the bits go past the first.                                             *)

\* A faulty Spans: off by one when the bits end with the word.
SpansAtEnd(first, len) == len >= W - Pos(first)

\* The len bits at first go past the end of its word.
Spans(first, len) == len > W - Pos(first)

GetWord(m, first, len) ==
  LET offset == W - Pos(first)
      low    == Lsr(Load(m, Base(first)), Pos(first))
  IN  IF Spans(first, len)
        THEN BitBlend(low, Lsl(Load(m, Base(first) + W), offset), offset, len - offset)
        ELSE low

\* The words get_word dereferences, and the shift counts it uses.
GetWordLoads(first, len) ==
  IF Spans(first, len) THEN {Base(first), Base(first) + W} ELSE {Base(first)}

GetWordShifts(first, len) ==
  IF Spans(first, len) THEN {Pos(first), W - Pos(first)} ELSE {Pos(first)}

(* write_word: stores the len low bits of src at dst, in one word or two.  *)

WriteWord(m, src, dst, len) ==
  LET b    == Base(dst)
      room == W - Pos(dst)
      m1   == Store(m, b, BitBlend(Load(m, b), Lsl(src, Pos(dst)), Pos(dst), Least(room, len)))
  IN  IF Pos(dst) = 0 /\ len = W THEN Store(m, b, src)
      ELSE IF Spans(dst, len)
        THEN Store(m1, b + W, BitBlend(Load(m1, b + W), Lsr(src, room), 0, len - room))
        ELSE m1

\* The words write_word dereferences and the shift counts it uses.
WriteWordWords(dst, len) ==
  IF Spans(dst, len) THEN {Base(dst), Base(dst) + W} ELSE {Base(dst)}

WriteWordShifts(dst, len) ==
  IF Pos(dst) = 0 /\ len = W THEN {}
  ELSE IF Spans(dst, len) THEN {Pos(dst), W - Pos(dst)} ELSE {Pos(dst)}
=============================================================================
