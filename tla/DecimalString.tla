---------------------------- MODULE DecimalString ----------------------------
(***************************************************************************)
(* bit::to_string and bit::from_string (to_from_string.hpp) for base 10,   *)
(* which they do by arithmetic on the range: to_string divides a copy of   *)
(* it by the base until nothing is left, from_string multiplies the range  *)
(* by the base and adds a digit for every character.                       *)
(*                                                                         *)
(* division, count_msb, multiplication and addition are taken by what      *)
(* modules BitDivision, BitCountMsb and BitTransform check of them, as     *)
(* numbers; ranges begin with a word.  A character is the digit it stands  *)
(* for.  One behaviour is one call, one step one digit.                    *)
(***************************************************************************)
EXTENDS Integers, SequencesExt

CONSTANTS
  W,           \* digits: bits in a word
  DecimalBase, \* meta.base, below 2 ^ W and not a power of two
  MaxBits,     \* bound on the range's bits
  MaxChars     \* bound on the caller's buffer and on the characters

VARIABLES
  range,      \* the bits of [bit_first, bit_last), by their distance from bit_first
  cursor,     \* characters before the last one written, or those read
  pc,         \* what the code does next
  version,    \* who made the buffer: "caller", or the std::string version, which
              \* sizes it with the range's zeros ("zeros") or without ("short")
  buffer,     \* the characters [str_first, str_last) of to_string
  room,       \* history: the characters it had at the call
  vec,        \* the number in the words of vec
  store_bits, \* how many bits of them are still to divide
  str         \* the characters [str_first, str_last) of from_string

vars == <<range, cursor, pc, version, buffer, room, vec, store_bits, str>>

Digit == 0 .. (DecimalBase - 1)
Fill  == -1    \* a character of the buffer that has not been written
Skip  == -1    \* a character of str that is not a digit
Old   == -1    \* a bit of the range from_string has not written

Length    == Cardinality(DOMAIN range)
Number    == MapThenSumSet(LAMBDA i : range[i] * 2 ^ i, DOMAIN range)
ToBits(v) == [i \in DOMAIN range |-> (v \div 2 ^ i) % 2]

\* The bits a number takes.
BitLength(v) == CHOOSE n \in 0 .. MaxBits : v < 2 ^ n /\ (n = 0 \/ v >= 2 ^ (n - 1))

\* count_msb(first, first + n, bit0) of a number below 2 ^ n: with two words or
\* more the partial last word is counted in the bits at first (BitCountMsb).
CountMsb(v, n) ==
  LET part == n % W
      low  == v % 2 ^ part
  IN  IF n < 2 * W \/ part = 0 THEN n - BitLength(v)
      ELSE IF low # 0 THEN part - BitLength(low)
      ELSE n - BitLength(v % 2 ^ (n - part))

\* A faulty Estimate: the fraction of a character is dropped.
EstimateDown(n, zeros) ==
  LET log2base    == (65536 + BitLength(DecimalBase) - 2) \div (BitLength(DecimalBase) - 1)
      fixed_point == (n - (IF zeros THEN 0 ELSE CountMsb(Number, n))) * log2base
  IN  Max({1, fixed_point \div 65536})

\* estimate_length: a fixed point product with 2 ^ 16 / logb(base).
Estimate(n, zeros) ==
  LET log2base    == (65536 + BitLength(DecimalBase) - 2) \div (BitLength(DecimalBase) - 1)
      fixed_point == (n - (IF zeros THEN 0 ELSE CountMsb(Number, n))) * log2base
  IN  Max({1, fixed_point \div 65536 + (IF fixed_point % 65536 # 0 THEN 1 ELSE 0)})

----------------------------------------------------------------------------
(* to_string.  The range is not empty (vec.back() is the last of its       *)
(* words), and the buffer has room for a character, as the first is        *)
(* written before the code looks for the beginning of the buffer.          *)

ToInit ==
  /\ \E n \in 1 .. MaxBits : range \in [0 .. (n - 1) -> {0, 1}]
  /\ \/ version = "caller" /\ room \in 1 .. MaxChars
     \/ version = "zeros" /\ room = Estimate(Length, TRUE)
     \/ version = "short" /\ room = Estimate(Length, FALSE)
  /\ buffer = [i \in 1 .. room |-> Fill] /\ cursor = room
  /\ vec = 0 /\ store_bits = Length
  /\ str = <<>>
  /\ pc = "first"

\* *(--cursor) = remainder + '0'
Put(digit) == cursor' = cursor - 1 /\ buffer' = [buffer EXCEPT ![cursor] = digit]

\* The range is divided into vec.
FirstDigit ==
  /\ pc = "first"
  /\ vec' = Number \div DecimalBase
  /\ Put(Number % DecimalBase)
  /\ pc' = "more"
  /\ UNCHANGED <<range, version, room, store_bits, str>>

\* A faulty NextDigit: one bit too many is given up.
NextDigitShort ==
  /\ pc = "more" /\ cursor # 0
  /\ store_bits' = Max({0, store_bits - CountMsb(vec % 2 ^ store_bits, store_bits) - 1})
  /\ IF store_bits' = 0
       THEN pc' = "move" /\ UNCHANGED <<vec, cursor, buffer>>
       ELSE LET high == vec \div 2 ^ store_bits'
                low  == vec % 2 ^ store_bits'
            IN  /\ vec' = high * 2 ^ store_bits' + low \div DecimalBase
                /\ Put(low % DecimalBase)
                /\ UNCHANGED pc
  /\ UNCHANGED <<range, version, room, str>>

\* A faulty NextDigit: the buffer is not asked for room.
NextDigitNoRoom ==
  /\ pc = "more"
  /\ store_bits' = store_bits - CountMsb(vec % 2 ^ store_bits, store_bits)
  /\ IF store_bits' = 0
       THEN pc' = "move" /\ UNCHANGED <<vec, cursor, buffer>>
       ELSE LET high == vec \div 2 ^ store_bits'
                low  == vec % 2 ^ store_bits'
            IN  /\ vec' = high * 2 ^ store_bits' + low \div DecimalBase
                /\ Put(low % DecimalBase)
                /\ UNCHANGED pc
  /\ UNCHANGED <<range, version, room, str>>

\* The leading zeros are given up, and if bits are left they are divided in place;
\* the bits above them stay.
NextDigit ==
  /\ pc = "more" /\ cursor # 0
  /\ store_bits' = store_bits - CountMsb(vec % 2 ^ store_bits, store_bits)
  /\ IF store_bits' = 0
       THEN pc' = "move" /\ UNCHANGED <<vec, cursor, buffer>>
       ELSE LET high == vec \div 2 ^ store_bits'
                low  == vec % 2 ^ store_bits'
            IN  /\ vec' = high * 2 ^ store_bits' + low \div DecimalBase
                /\ Put(low % DecimalBase)
                /\ UNCHANGED pc
  /\ UNCHANGED <<range, version, room, str>>

NoRoom == pc = "more" /\ cursor = 0 /\ pc' = "move" /\
          UNCHANGED <<range, cursor, version, buffer, room, vec, store_bits, str>>

\* std::copy to the beginning of the buffer, whose rest is not the result; a
\* std::string is cut there.
Move ==
  /\ pc = "move"
  /\ buffer' = SubSeq(buffer, cursor + 1, Len(buffer)) /\ cursor' = 0
  /\ pc' = "written"
  /\ UNCHANGED <<range, version, room, vec, store_bits, str>>

----------------------------------------------------------------------------
(* from_string, into at most a word: of longer ranges addition adds its    *)
(* operand to every word (BitTransform).  Without a character it returns   *)
(* before the range is filled with zeros.                                  *)

FromInit ==
  /\ str \in UNION {[1 .. n -> Digit \cup {Skip}] : n \in 0 .. MaxChars}
  /\ \E n \in 1 .. W : range = [i \in 0 .. (n - 1) |-> IF str = <<>> THEN Old ELSE 0]
  /\ cursor = 0
  /\ version = "none" /\ buffer = <<>> /\ room = 0 /\ vec = 0 /\ store_bits = 0
  /\ pc = IF str = <<>> THEN "done" ELSE "read"

\* What multiplication may leave of a product: the carry, its high word, is added
\* to the low one if it is read after it is stored.
Products(product) == {product % 2 ^ Length, (product + product \div 2 ^ W) % 2 ^ Length}

\* A faulty ReadDigit: the carry of the addition is not looked at.
ReadDigitCarry ==
  /\ pc = "read" /\ cursor < Len(str) /\ str[cursor + 1] # Skip
  /\ cursor' = cursor + 1
  /\ \E product \in Products(Number * DecimalBase) :
       range' = ToBits(product + str[cursor + 1])
  /\ pc' = IF Number * DecimalBase >= 2 ^ Length THEN "overflow" ELSE "read"
  /\ UNCHANGED <<version, buffer, room, vec, store_bits, str>>

\* A digit.  Both are done before either carry is looked at; the call returns with
\* whatever they left if there is one.
ReadDigit ==
  /\ pc = "read" /\ cursor < Len(str) /\ str[cursor + 1] # Skip
  /\ cursor' = cursor + 1
  /\ \E product \in Products(Number * DecimalBase) :
       LET sum == product + str[cursor + 1]
       IN  /\ range' = ToBits(sum)
           /\ pc' = IF Number * DecimalBase >= 2 ^ Length \/ sum >= 2 ^ Length
                      THEN "overflow" ELSE "read"
  /\ UNCHANGED <<version, buffer, room, vec, store_bits, str>>

\* Another character, '-' too, is passed over.
ReadOther ==
  /\ pc = "read" /\ cursor < Len(str) /\ str[cursor + 1] = Skip
  /\ cursor' = cursor + 1
  /\ UNCHANGED <<range, pc, version, buffer, room, vec, store_bits, str>>

ReadAll ==
  /\ pc = "read" /\ cursor = Len(str)
  /\ pc' = "done"
  /\ UNCHANGED <<range, cursor, version, buffer, room, vec, store_bits, str>>

Finished == pc \in {"written", "overflow", "done"} /\ UNCHANGED vars

ToNext   == FirstDigit \/ NextDigit \/ NoRoom \/ Move \/ Finished
FromNext == ReadDigit \/ ReadOther \/ ReadAll \/ Finished

----------------------------------------------------------------------------
(* Properties                                                              *)

\* The number v with the digits among the characters written after it.
Value(v, chars) == FoldLeft(LAMBDA n, c : IF c = Skip THEN n ELSE n * DecimalBase + c, v, chars)

\* Types; and no digit is written before the buffer.
TypeOK ==
  /\ \E n \in 1 .. MaxBits : range \in [0 .. (n - 1) -> {0, 1, Old}]
  /\ version \in {"caller", "zeros", "short", "none"}
  /\ buffer \in Seq(Digit \cup {Fill}) /\ room \in Nat
  /\ cursor \in 0 .. Max({room, Len(str)})
  /\ vec \in 0 .. (2 ^ MaxBits - 1) /\ store_bits \in 0 .. MaxBits
  /\ str \in Seq(Digit \cup {Skip})
  /\ pc \in {"first", "more", "move", "written", "read", "done", "overflow"}

\* count_msb is exact for the ranges it is called with: the range itself and its
\* quotients, which have less than two words, or two, when they are this small.
CountsExactly ==
  /\ Length < 2 * W \/ Length % W = 0
  /\ Number \div DecimalBase < 2 ^ (2 * W)

\* to_string writes the digits of the number, without leading zeros (to_string of
\* 10'123_b is "123", test-to_from_string.cpp:35), or the last of them if the
\* caller's buffer is too short; the one it allocates itself never is.  No character
\* of the result is left unwritten.
DecimalWritten ==
  LET cut == version = "caller" /\ Len(buffer) = room
  IN  pc = "written" /\ CountsExactly =>
        /\ \A i \in DOMAIN buffer : buffer[i] # Fill
        /\ IF cut THEN \E v \in 0 .. Number : Number = Value(v, buffer)
                  ELSE Number = Value(0, buffer)
        /\ buffer[1] # 0 \/ Len(buffer) = 1 \/ cut

\* While digits are written, what is left of the number with the digits written
\* after it is the number, and the bits given up are zeros.
DividedSoFar ==
  LET digits == SubSeq(buffer, cursor + 1, Len(buffer))
  IN  pc \in {"more", "move"} /\ CountsExactly =>
        /\ Number = Value(vec, digits)
        /\ vec < 2 ^ store_bits

\* The number the first i characters write.
NumberTo(i) == Value(0, SubSeq(str, 1, i))

\* from_string leaves the number the digits write if the range can hold it, and
\* otherwise stops at the first digit with which it cannot; no characters leave the
\* range as it was.
DecimalRead ==
  /\ pc = "done" => IF str = <<>> THEN \A i \in DOMAIN range : range[i] = Old
                     ELSE Number = NumberTo(cursor) /\ cursor = Len(str)
  /\ pc = "overflow" => NumberTo(cursor) >= 2 ^ Length /\ NumberTo(cursor - 1) < 2 ^ Length

\* Between characters the range holds the number of the digits read so far.
ReadSoFar == pc = "read" => Number = NumberTo(cursor)
=============================================================================
