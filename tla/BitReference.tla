---------------------------- MODULE BitReference ----------------------------
(***************************************************************************)
(* bit_reference (bit_reference.hpp): the proxy dereferencing a            *)
(* bit_iterator gives, a reference to a word and a mask with one bit.      *)
(* Everything done through it is an operation on the whole word, so what   *)
(* is at stake is the word's other bits, and the bit itself when two       *)
(* references are to the same word or to the same bit.                     *)
(*                                                                         *)
(* The state is an array of words, two references into it, lhs and rhs,    *)
(* and a bit_value (bit_value.hpp), a Boolean of its own.  An action is    *)
(* one call, on lhs, with rhs or the value as its argument, or on value.   *)
(***************************************************************************)
EXTENDS Integers

CONSTANTS
  W,         \* binary_digits<word_type>::value, at least 1
  NumWords   \* words in the memory, at least 1

BitPos == 0 .. (W - 1)
Words  == 0 .. (NumWords - 1)
Addr   == 0 .. (NumWords * W - 1)
Bit    == {0, 1}
Word   == [BitPos -> Bit]

VARIABLES
  words,      \* the memory
  lhs, rhs,   \* the references: [word |-> _ref, mask |-> _mask]
  value,      \* a bit_value
  bits,       \* history: what each bit should be, and
  lbit, rbit, \*   the bits lhs and rhs should designate, by the calls made, and
  bvalue      \*   what value should be

vars == <<words, lhs, rhs, value, bits, lbit, rbit, bvalue>>

References == <<lhs, rhs, lbit, rbit>>

\* The masks, words with one bit, and the words of zeros and of ones.
Mask(pos) == [i \in BitPos |-> IF i = pos THEN 1 ELSE 0]
Masks     == {Mask(pos) : pos \in BitPos}
NoBit     == [i \in BitPos |-> 0]

Not(v)    == [i \in BitPos |-> 1 - v[i]]
And(v, w) == [i \in BitPos |-> v[i] * w[i]]
Or(v, w)  == [i \in BitPos |-> IF v[i] + w[i] > 0 THEN 1 ELSE 0]
Xor(v, w) == [i \in BitPos |-> (v[i] + w[i]) % 2]

\* A faulty Reference: the word is the array's first, wherever the bit is.
ReferenceInFirst(a) == [word |-> 0, mask |-> Mask(a)]

\* bit_reference(ref, pos), the reference to bit a of the memory.
Reference(a) == [word |-> a \div W, mask |-> Mask(a % W)]

\* A faulty CountrZero: as if masks had their bits in the other order.
CountlZero(mask) == W - 1 - (CHOOSE pos \in BitPos : mask[pos] = 1)

\* std::countr_zero of a mask.
CountrZero(mask) == CHOOSE pos \in BitPos : mask[pos] = 1

\* operator bool
Test(ref) == And(words[ref.word], ref.mask) # NoBit

\* bit_value(ref), and bit_value(val, pos), the low bit of val >> pos.
ValueOf(ref)     == IF Test(ref) THEN 1 ELSE 0
Shifted(val, pos) == [i \in BitPos |-> IF i + pos < W THEN val[i + pos] ELSE 0]
ValueAt(val, pos) == IF And(Shifted(val, pos), Mask(0)) # NoBit THEN 1 ELSE 0

\* What the six comparisons of two bit_values tell; a reference becomes a
\* bit_value first.
Compare(b, c) ==
  [eq |-> b = c, ne |-> b # c, lt |-> b < c, le |-> b <= c, gt |-> b > c, ge |-> b >= c]

----------------------------------------------------------------------------
(* The operations on a word, and what they make of a memory.               *)

Set(m, ref)   == [m EXCEPT ![ref.word] = Or(@, ref.mask)]
Reset(m, ref) == [m EXCEPT ![ref.word] = And(@, Not(ref.mask))]
Flip(m, ref)  == [m EXCEPT ![ref.word] = Xor(@, ref.mask)]

Put(m, ref, b) == IF b THEN Set(m, ref) ELSE Reset(m, ref)

\* The mask where b is 1, and nothing where it is 0: _mask * b.
MaskTimes(mask, b) == IF b = 1 THEN mask ELSE NoBit

----------------------------------------------------------------------------
(* The calls.                                                              *)

Init ==
  /\ words \in [Words -> Word]
  /\ bits = [a \in Addr |-> words[a \div W][a % W]]
  /\ lbit \in Addr /\ lhs = Reference(lbit)
  /\ rbit \in Addr /\ rhs = Reference(rbit)
  /\ value \in Bit /\ bvalue = value

Wrote(b) == bits' = [bits EXCEPT ![lbit] = b] /\ UNCHANGED <<References, value, bvalue>>

\* lhs.set(b), lhs.set(), lhs.reset(), lhs = b
Assign(b) == words' = Put(words, lhs, b = 1) /\ Wrote(b)

\* lhs.assign(val, pos), lhs.assign(val)
AssignBitOf(val, pos) ==
  words' = Put(words, lhs, ValueAt(val, pos) = 1) /\ Wrote(val[pos])

\* lhs = rhs: the bit referred to is assigned, the reference is not rebound
AssignReference == words' = Put(words, lhs, Test(rhs)) /\ Wrote(bits[rbit])

\* lhs.flip()
FlipBit == words' = Flip(words, lhs) /\ Wrote(1 - bits[lbit])

\* lhs &= b, lhs |= b, lhs ^= b
AndAssign(b) ==
  /\ words' = [words EXCEPT ![lhs.word] = And(@, Not(MaskTimes(lhs.mask, 1 - b)))]
  /\ Wrote(bits[lbit] * b)
OrAssign(b) ==
  /\ words' = [words EXCEPT ![lhs.word] = Or(@, MaskTimes(lhs.mask, b))]
  /\ Wrote(IF b = 1 THEN 1 ELSE bits[lbit])
XorAssign(b) ==
  /\ words' = [words EXCEPT ![lhs.word] = Xor(@, MaskTimes(lhs.mask, b))]
  /\ Wrote((bits[lbit] + b) % 2)

\* A faulty SwapReferences: the bits are flipped whether or not they differ.
SwapReferencesAlways ==
  /\ words' = Flip(Flip(words, lhs), rhs)
  /\ bits' = [bits EXCEPT ![lbit] = bits[rbit], ![rbit] = bits[lbit]]
  /\ UNCHANGED <<References, value, bvalue>>

\* swap(lhs, rhs), lhs.swap(rhs): both bits are flipped if they differ.
SwapReferences ==
  /\ words' = IF Test(lhs) # Test(rhs) THEN Flip(Flip(words, lhs), rhs) ELSE words
  /\ bits' = [bits EXCEPT ![lbit] = bits[rbit], ![rbit] = bits[lbit]]
  /\ UNCHANGED <<References, value, bvalue>>

\* swap(lhs, value), swap(value, lhs), lhs.swap(value)
SwapValue ==
  /\ IF Test(lhs) # (value = 1)
       THEN words' = Flip(words, lhs) /\ value' = 1 - value
       ELSE UNCHANGED <<words, value>>
  /\ bits' = [bits EXCEPT ![lbit] = bvalue] /\ bvalue' = bits[lbit]
  /\ UNCHANGED References

\* is >> lhs, where c is the stream's next character, or its end: a copy of the
\* bit is set or reset, and assigned if a digit was read.
Extract(c) ==
  /\ words' = IF c \in {"0", "1"} THEN Put(words, lhs, c = "1") ELSE words
  /\ bits' = IF c \in {"0", "1"} THEN [bits EXCEPT ![lbit] = IF c = "1" THEN 1 ELSE 0] ELSE bits
  /\ UNCHANGED <<References, value, bvalue>>

ValueBecomes(b, should) ==
  value' = b /\ bvalue' = should /\ UNCHANGED <<References, words, bits>>

\* value = bit_value(val, pos), value.assign(val, pos), value.set(b), value.reset()
ValueAssign(val, pos) == ValueBecomes(ValueAt(val, pos), val[pos])

\* value.flip(), value = ~value
ValueFlip == ValueBecomes(1 - value, 1 - bvalue)

\* A faulty ValueOrAssign: of the words, not of the bits the references are to.
ValueOrWord ==
  ValueBecomes(IF value = 1 \/ words[rhs.word] # NoBit THEN 1 ELSE 0,
               IF bvalue = 1 \/ bits[rbit] = 1 THEN 1 ELSE 0)

\* value = rhs; value &= rhs, value |= rhs, value ^= rhs, and value & rhs and so
\* on: rhs becomes a bit_value first.
ValueFromReference == ValueBecomes(ValueOf(rhs), bits[rbit])
ValueAndAssign == ValueBecomes(value * ValueOf(rhs), IF bits[rbit] = 1 THEN bvalue ELSE 0)
ValueOrAssign  == ValueBecomes(IF value + ValueOf(rhs) > 0 THEN 1 ELSE 0,
                               IF bits[rbit] = 1 THEN 1 ELSE bvalue)
ValueXorAssign == ValueBecomes((value + ValueOf(rhs)) % 2,
                               IF bits[rbit] = 1 THEN 1 - bvalue ELSE bvalue)

\* is >> value, as for a reference.
ValueExtract(c) ==
  LET next(b) == IF c = "1" THEN 1 ELSE IF c = "0" THEN 0 ELSE b
  IN  ValueBecomes(next(value), next(bvalue))

\* A new rhs, *(&lhs + n): by way of the pointer to another reference's bit.
Dereference(n) ==
  /\ lbit + n \in Addr
  /\ rbit' = lbit + n
  /\ rhs' = Reference(lhs.word * W + CountrZero(lhs.mask) + n)
  /\ UNCHANGED <<words, lhs, lbit, value, bits, bvalue>>

Next ==
  \/ \E b \in Bit : Assign(b) \/ AndAssign(b) \/ OrAssign(b) \/ XorAssign(b)
  \/ \E val \in Word, pos \in BitPos : AssignBitOf(val, pos)
  \/ AssignReference \/ FlipBit \/ SwapReferences \/ SwapValue
  \/ \E val \in Word, pos \in BitPos : ValueAssign(val, pos)
  \/ ValueFromReference \/ ValueFlip
  \/ ValueAndAssign \/ ValueOrAssign \/ ValueXorAssign
  \/ \E c \in {"0", "1", "other", "eof"} : Extract(c) \/ ValueExtract(c)
  \/ \E n \in -(NumWords * W) .. NumWords * W : Dereference(n)

Spec == Init /\ [][Next]_vars

----------------------------------------------------------------------------
(* Properties                                                              *)

\* Types; and a reference's mask has one bit.
TypeOK ==
  /\ words \in [Words -> Word]
  /\ lhs \in [word : Words, mask : Masks] /\ rhs \in [word : Words, mask : Masks]
  /\ value \in Bit /\ bvalue \in Bit
  /\ bits \in [Addr -> Bit] /\ lbit \in Addr /\ rbit \in Addr

\* After any sequence of calls the words hold the bits the calls wrote, and no
\* other bit of a word has changed, also when two references share a word or a
\* bit and are assigned to each other or swapped; and a bit_value holds what was
\* written to it, and compares with the bit a reference is to.
ProxiesExact ==
  /\ \A a \in Addr : words[a \div W][a % W] = bits[a]
  /\ value = bvalue
  /\ Compare(value, ValueOf(rhs)) = Compare(bvalue, bits[rbit])

\* A reference taken by way of a pointer is to the bit that many bits away.
PointersExact == lhs = Reference(lbit) /\ rhs = Reference(rbit)
=============================================================================
