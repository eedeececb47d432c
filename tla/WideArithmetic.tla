--------------------------- MODULE WideArithmetic ---------------------------
(***************************************************************************)
(* The arithmetic on pairs of words of bit_details.hpp, in the versions    *)
(* written out for compilers without a type twice as wide: _divx, the      *)
(* long division in half words by estimated quotient digits, _mulx, and    *)
(* add_carry and sub_borrow.  A word has 2 * H bits (64 in the code, so    *)
(* that H is 32) and a half word H.  Every operation wraps round at the    *)
(* width of its type.  One behaviour is one choice of operands; each       *)
(* partial quotient is a step.                                             *)
(***************************************************************************)
EXTENDS Integers

CONSTANT H    \* bits in a half word, at least 1

Half  == 2 ^ H
Limit == Half * Half          \* 2 to the number of bits of a word

Wrap(a)     == a % Limit      \* uint64_t
WrapHalf(a) == a % Half       \* static_cast<uint32_t>

Words == 0 .. (Limit - 1)

VARIABLES
  hi, lo, d,            \* numerator_hi, numerator_lo, denominator
  shift,                \* the normalization factor
  numhi, numlo, den,    \* the locals, normalized
  q1, q0,               \* the digits of the quotient
  rem,                  \* the partial remainder
  pc

vars == <<hi, lo, d, shift, numhi, numlo, den, q1, q0, rem, pc>>

Call == <<hi, lo, d>>

Init ==
  /\ hi \in Words /\ lo \in Words /\ d \in Words \ {0}
  /\ shift = 0 /\ numhi = hi /\ numlo = lo /\ den = d
  /\ q1 = 0 /\ q0 = 0 /\ rem = 0
  /\ pc = "start"

\* The numerator's high word is not below the denominator: the quotient does not
\* fit a word, and both results are all ones.
Overflow ==
  /\ pc = "start"
  /\ hi >= d
  /\ q1' = Half - 1 /\ q0' = Half - 1 /\ rem' = Limit - 1
  /\ pc' = "overflow"
  /\ UNCHANGED <<Call, shift, numhi, numlo, den>>

\* A faulty LeadingZeros: the number of bits below the leading one.
BitsBelowLeading(a) == CHOOSE n \in 0 .. (2 * H) : 2 ^ n <= a /\ a < 2 ^ (n + 1)

\* std::countl_zero
LeadingZeros(a) == CHOOSE n \in 0 .. (2 * H) : a * 2 ^ n < Limit /\ (a = 0 \/ 2 * a * 2 ^ n >= Limit)

\* den is shifted until its leading bit is set, the numerator along with it;
\* with no shift no bit of numlo may come into numhi.
Normalize ==
  /\ pc = "start"
  /\ hi < d
  /\ shift' = LeadingZeros(d)
  /\ den' = Wrap(d * 2 ^ shift')
  /\ numhi' = Wrap(hi * 2 ^ shift') + (IF shift' = 0 THEN 0 ELSE lo \div 2 ^ (2 * H - shift'))
  /\ numlo' = Wrap(lo * 2 ^ shift')
  /\ pc' = "q1"
  /\ UNCHANGED <<Call, q1, q0, rem>>

\* A faulty Digit: the estimate is lowered once at most.
DigitOneCorrection(a, num) ==
  LET den1 == den \div Half
      den0 == den % Half
      qhat == a \div den1
      c1   == Wrap(qhat * den0)
      c2   == Wrap((a % den1) * Half + num)
  IN  WrapHalf(IF c1 > c2 THEN qhat - 1 ELSE qhat)

\* One digit of the quotient of <<a, num>> by den: estimated from den's high
\* digit, and lowered by one or two when the estimate is too large.
Digit(a, num) ==
  LET den1 == den \div Half
      den0 == den % Half
      qhat == a \div den1
      c1   == Wrap(qhat * den0)
      c2   == Wrap((a % den1) * Half + num)
  IN  WrapHalf(IF c1 > c2 THEN qhat - (IF c1 - c2 > den THEN 2 ELSE 1) ELSE qhat)

\* The high digit, and the partial remainder it leaves.
HighDigit ==
  /\ pc = "q1"
  /\ q1' = Digit(numhi, numlo \div Half)
  /\ rem' = Wrap(numhi * Half + numlo \div Half - q1' * den)
  /\ pc' = "q0"
  /\ UNCHANGED <<Call, shift, numhi, numlo, den, q0>>

\* A faulty LowDigit: the remainder is left normalized.
LowDigitNormalized ==
  /\ pc = "q0"
  /\ q0' = Digit(rem, numlo % Half)
  /\ rem' = Wrap(rem * Half + (numlo % Half) - q0' * den)
  /\ pc' = "done"
  /\ UNCHANGED <<Call, shift, numhi, numlo, den, q1>>

\* The low digit, and the remainder, shifted back.
LowDigit ==
  /\ pc = "q0"
  /\ q0' = Digit(rem, numlo % Half)
  /\ rem' = Wrap(rem * Half + (numlo % Half) - q0' * den) \div 2 ^ shift
  /\ pc' = "done"
  /\ UNCHANGED <<Call, shift, numhi, numlo, den, q1>>

Finished ==
  /\ pc \in {"done", "overflow"}
  /\ UNCHANGED vars

Next == Overflow \/ Normalize \/ HighDigit \/ LowDigit \/ Finished

Spec == Init /\ [][Next]_vars

----------------------------------------------------------------------------
(* _mulx, add_carry and sub_borrow: functions of their operands.           *)

\* A faulty Mulx: the carry of the sum of the middle products is lost.
MulxMiddleLost(src0, src1) ==
  LET llsbs  == (src0 % Half) * (src1 % Half)
      mlsbs  == (src0 \div Half) * (src1 % Half)
      lmsbs  == (src0 % Half) * (src1 \div Half)
      mi     == Wrap(mlsbs + lmsbs)
      low    == Wrap(llsbs + Wrap(mi * Half))
      lcarry == IF low < llsbs \/ low < Wrap(mi * Half) THEN 1 ELSE 0
  IN  [lo |-> low,
       hi |-> Wrap(mi \div Half + (src0 \div Half) * (src1 \div Half) + lcarry)]

\* The product of two words as two words, from the four products of half words.
Mulx(src0, src1) ==
  LET llsbs  == (src0 % Half) * (src1 % Half)
      mlsbs  == (src0 \div Half) * (src1 % Half)
      lmsbs  == (src0 % Half) * (src1 \div Half)
      mi     == Wrap(mlsbs + lmsbs)
      low    == Wrap(llsbs + Wrap(mi * Half))
      lcarry == IF low < llsbs \/ low < Wrap(mi * Half) THEN 1 ELSE 0
      mcarry == IF mi < mlsbs \/ mi < lmsbs THEN Half ELSE 0
  IN  [lo |-> low,
       hi |-> Wrap(mi \div Half + (src0 \div Half) * (src1 \div Half) + mcarry + lcarry)]

\* A faulty AddCarry: the carry coming in is left out of the carry going out.
AddCarryOfSum(c, a, b) ==
  [out |-> Wrap(Wrap(a + b) + c), carry |-> IF Wrap(a + b) < a THEN 1 ELSE 0]

\* The version without intrinsics: a carry of either of two sums.
AddCarry(c, a, b) ==
  LET sum1 == Wrap(a + b)
      sum2 == Wrap(sum1 + c)
  IN  [out |-> sum2, carry |-> IF sum1 < a \/ sum2 < sum1 THEN 1 ELSE 0]

SubBorrow(c, a, b) ==
  LET diff1 == Wrap(a - b)
  IN  [out |-> Wrap(diff1 - c), carry |-> IF a < b \/ diff1 < c THEN 1 ELSE 0]

\* A faulty Intrinsic: the low bits are not set, so the carry coming in is lost.
IntrinsicGap(add, shl, c, a, b) ==
  LET wide == Limit * 2 ^ shl
      tmp  == IF add THEN a * 2 ^ shl + b * 2 ^ shl + c ELSE a * 2 ^ shl - b * 2 ^ shl - c
  IN  [out |-> (tmp % wide) \div 2 ^ shl, carry |-> IF tmp \in 0 .. (wide - 1) THEN 0 ELSE 1]

\* The version for x86 of words narrower than the instruction's: the operands
\* shl bits up, and, for an addition, ones below the first so that a carry
\* coming in goes up to them.
Intrinsic(add, shl, c, a, b) ==
  LET wide == Limit * 2 ^ shl
      tmp  == IF add THEN a * 2 ^ shl + (2 ^ shl - 1) + b * 2 ^ shl + c
                     ELSE a * 2 ^ shl - b * 2 ^ shl - c
  IN  [out |-> (tmp % wide) \div 2 ^ shl, carry |-> IF tmp \in 0 .. (wide - 1) THEN 0 ELSE 1]

----------------------------------------------------------------------------
(* Properties                                                              *)

\* Types; and once normalized den's leading bit is set and the numerator's high
\* word is still below it.
TypeOK ==
  /\ hi \in Words /\ lo \in Words /\ d \in Words
  /\ shift \in 0 .. (2 * H - 1)
  /\ numhi \in Words /\ numlo \in Words /\ den \in Words
  /\ q1 \in 0 .. (Half - 1) /\ q0 \in 0 .. (Half - 1) /\ rem \in Words
  /\ pc \in {"start", "q1", "q0", "overflow", "done"}
  /\ pc \in {"q1", "q0", "done"} => 2 * den >= Limit /\ numhi < den

\* A partial remainder is below the normalized denominator: the next digit fits
\* a half word, so that the casts to uint32_t lose nothing.
RemainderReduced == pc = "q0" => rem < den

\* _divx gives the quotient and the remainder of the double word.
DivxCorrect ==
  pc = "done" =>
    /\ hi * Limit + lo = (q1 * Half + q0) * d + rem
    /\ rem < d

\* _mulx gives the product of two words exactly (of hi and lo here, as any two).
MulxCorrect ==
  LET p == Mulx(hi, lo)
  IN  p.lo \in Words /\ p.hi \in Words /\ p.hi * Limit + p.lo = hi * lo

\* add_carry and sub_borrow give the exact sum and difference with their carry,
\* and the version for x86 the same as the one without intrinsics, although the
\* bit the carry comes in at is then not the lowest of the operands.
CarryExact ==
  \A c \in {0, 1} :
    LET sum == AddCarry(c, hi, lo)  difference == SubBorrow(c, hi, lo)
    IN  /\ sum.out + sum.carry * Limit = hi + lo + c
        /\ difference.out - difference.carry * Limit = hi - lo - c
        /\ \A shl \in 0 .. 3 : /\ Intrinsic(TRUE, shl, c, hi, lo) = sum
                               /\ Intrinsic(FALSE, shl, c, hi, lo) = difference
=============================================================================
