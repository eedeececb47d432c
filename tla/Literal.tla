------------------------------- MODULE Literal -------------------------------
(***************************************************************************)
(* The literals, operator""_b (bit_literal.hpp): 0x1F'1E240_b is the array *)
(* of 31 bits that holds the number 1E240 in base 16; without a size and   *)
(* an apostrophe the array is as wide as the digits.  The compiler hands   *)
(* the template the characters one by one, without underscore and suffix.  *)
(* One behaviour is one literal; a step reads a character.                 *)
(*                                                                         *)
(* A character is the digit it stands for, letters those above 9, or X or  *)
(* Apostrophe.  The letter b is B, a digit or a part of the prefix.        *)
(***************************************************************************)
EXTENDS Integers, SequencesExt

CONSTANTS
  NumBits,        \* bits in the number read, 64
  LiteralDigits,  \* the digits literals are made of, a part of 0 .. 15
  LiteralChars    \* bound on the characters after the prefix

B == 11
X == 16
Apostrophe == 17

Limit == 2 ^ NumBits

VARIABLES
  str,         \* the characters
  cursor,      \* how many of them have been read
  base,        \* 0 until it is known
  bits,        \* the array's size, 0 until it is known
  prefix_len,  \* characters that are not of the number
  num,         \* the number
  pc           \* what the compiler does next

vars == <<str, cursor, base, bits, prefix_len, num, pc>>

\* The prefixes, and the base each stands for.  A literal in base 8 begins with
\* the prefix 0, which this code has no case for.
BasePrefixes == {<<>>, <<0, B>>, <<0, X>>}
BaseOf(prefix) == CASE prefix = <<>>     -> 10
                    [] prefix = <<0, B>> -> 2
                    [] prefix = <<0, X>> -> 16

\* What the language allows after a prefix: digits of the base, with single
\* apostrophes between them.  In base 10 a 0 to begin with is the only character.
Allowed(prefix) ==
  {s \in UNION {[1 .. n -> LiteralDigits \cup {Apostrophe}] : n \in 1 .. LiteralChars} :
     /\ s[1] # Apostrophe /\ s[Len(s)] # Apostrophe
     /\ \A i \in DOMAIN s : s[i] = Apostrophe \/ s[i] < BaseOf(prefix)
     /\ \A i \in 1 .. (Len(s) - 1) : s[i] # Apostrophe \/ s[i + 1] # Apostrophe
     /\ prefix = <<>> => s = <<0>> \/ s[1] # 0}

Init ==
  /\ \E prefix \in BasePrefixes : \E s \in Allowed(prefix) : str = prefix \o s
  /\ cursor = 0
  /\ base = 0 /\ bits = 0 /\ prefix_len = 0 /\ num = 0
  /\ pc = "read"

----------------------------------------------------------------------------
(* _parameter_pack_base_bits_prefix_len, for each character.               *)

IsNext(c) == pc = "read" /\ cursor < Len(str) /\ str[cursor + 1] = c
Passed     == cursor' = cursor + 1 /\ UNCHANGED <<str, pc>>

\* A faulty Separator: every apostrophe ends a size.
SeparatorSizes ==
  /\ IsNext(Apostrophe) /\ bits # 0
  /\ bits' = num /\ num' = 0 /\ prefix_len' = prefix_len + 1
  /\ UNCHANGED base
  /\ Passed

\* An apostrophe after the one that ended the size.
Separator == IsNext(Apostrophe) /\ bits # 0 /\ UNCHANGED <<base, bits, prefix_len, num>> /\ Passed

\* The apostrophe that ends the size.
SizeEnd ==
  /\ IsNext(Apostrophe) /\ bits = 0
  /\ bits' = num /\ num' = 0
  /\ prefix_len' = prefix_len + 1
  /\ base' = IF base = 0 THEN 10 ELSE base
  /\ Passed

\* A faulty PrefixEnd: the letter is not counted.
PrefixEndUncounted(c, b) ==
  /\ IsNext(c) /\ base = 0
  /\ base' = b /\ num' = 0
  /\ UNCHANGED <<bits, prefix_len>>
  /\ Passed

\* The letter of the prefix.
PrefixEnd(c, b) ==
  /\ IsNext(c) /\ base = 0
  /\ base' = b /\ num' = 0
  /\ prefix_len' = prefix_len + 1
  /\ UNCHANGED bits
  /\ Passed

\* A digit before the base is known: of the prefix, or of base 10.
FirstDigit(c) ==
  /\ IsNext(c) /\ base = 0
  /\ num' = (num * 10 + c) % Limit
  /\ prefix_len' = prefix_len + 1
  /\ UNCHANGED <<base, bits>>
  /\ Passed

Digit(c) ==
  /\ IsNext(c) /\ base # 0
  /\ num' = (num * base + c) % Limit
  /\ UNCHANGED <<base, bits, prefix_len>>
  /\ Passed

----------------------------------------------------------------------------
(* _parameter_pack_decode_prefixed_num, and the operator.                  *)

BitWidth(n) == CHOOSE w \in 0 .. NumBits : n < 2 ^ w /\ (w = 0 \/ n >= 2 ^ (w - 1))

\* Digits are what is left without the prefix; a literal that never named a base
\* has none.
NaturalBits ==
  LET digits == Len(str) - prefix_len
  IN  CASE base = 2        -> digits
        [] base \in {0, 10} -> BitWidth(num)
        [] base = 16       -> 4 * digits

\* A faulty Decode: a number needs a bit less than it has.
DecodeNarrow ==
  /\ pc = "read" /\ cursor = Len(str)
  /\ bits' = IF bits # 0 THEN bits ELSE NaturalBits
  /\ pc' = IF bits' < NumBits /\ num <= 2 ^ bits' THEN "array" ELSE "refused"
  /\ UNCHANGED <<str, cursor, base, prefix_len, num>>

\* The array of as many bits is made from num.  The static assertion refuses a
\* number that does not fit, and does not compile from NumBits bits on, where the
\* shift in it is undefined.
Decode ==
  /\ pc = "read" /\ cursor = Len(str)
  /\ bits' = IF bits # 0 THEN bits ELSE NaturalBits
  /\ pc' = IF bits' < NumBits /\ num <= 2 ^ bits' - 1 THEN "array" ELSE "refused"
  /\ UNCHANGED <<str, cursor, base, prefix_len, num>>

Finished == pc # "read" /\ UNCHANGED vars

Next ==
  \/ Separator \/ SizeEnd
  \/ PrefixEnd(B, 2) \/ PrefixEnd(X, 16)
  \/ \E c \in (LiteralDigits \cup {0}) \ {B} : FirstDigit(c)
  \/ \E c \in LiteralDigits : Digit(c)
  \/ Decode \/ Finished

Spec == Init /\ [][Next]_vars

----------------------------------------------------------------------------
(* Properties, by the literal's parts: [base_prefix][size']data            *)
(* (README.md:136).                                                        *)

\* The base of the prefix and the characters it takes.
WrittenBase ==
  IF Len(str) > 1 /\ str[1] = 0 /\ str[2] = B THEN 2
  ELSE IF Len(str) > 1 /\ str[1] = 0 /\ str[2] = X THEN 16 ELSE 10
PrefixChars == IF WrittenBase = 10 THEN 0 ELSE 2

\* The first apostrophe, or 0.
SizeMark == SelectInSeq(str, LAMBDA c : c = Apostrophe)

\* The number that characters write in that base.
NumberOf(s) ==
  FoldLeft(LAMBDA n, c : IF c = Apostrophe THEN n ELSE n * WrittenBase + c, 0, s)

SizePart == SubSeq(str, PrefixChars + 1, SizeMark - 1)
DataPart == SubSeq(str, IF SizeMark = 0 THEN PrefixChars + 1 ELSE SizeMark + 1, Len(str))

\* The size given, or that of the digits, in base 10 of the number.
Width ==
  IF SizeMark # 0 THEN NumberOf(SizePart)
  ELSE CASE WrittenBase = 2  -> Len(DataPart)
         [] WrittenBase = 16 -> 4 * Len(DataPart)
         [] WrittenBase = 10 -> BitWidth(NumberOf(DataPart))

\* No literal above 64 bits (README.md:169), nor of a size that is written as 0.
Supported ==
  /\ NumberOf(DataPart) < Limit
  /\ SizeMark # 0 => NumberOf(SizePart) \in 1 .. (Limit - 1)

TypeOK ==
  /\ cursor \in 0 .. Len(str) /\ base \in {0, 2, 10, 16}
  /\ bits \in Nat /\ num \in 0 .. (Limit - 1) /\ prefix_len \in 0 .. cursor
  /\ pc \in {"read", "array", "refused"}

\* A supported literal is the array of the size and with the number written, and
\* is refused if and only if the number does not fit it, or it is too wide.
LiteralCorrect ==
  Supported =>
    /\ pc = "array" => bits = Width /\ num = NumberOf(DataPart)
    /\ pc # "read" => (pc = "array" <=> /\ Width < NumBits
                                        /\ NumberOf(DataPart) < 2 ^ Width)

\* Between two characters num is the number of the part that is being read, and
\* the size is that of the part before, once it has been read.
ReadSoFar ==
  LET read  == SubSeq(str, 1, cursor)
      sized == SizeMark # 0 /\ SizeMark <= cursor
  IN  pc = "read" /\ cursor >= PrefixChars /\ Supported =>
        /\ num = NumberOf(SubSeq(str, IF sized THEN SizeMark + 1 ELSE PrefixChars + 1, cursor))
        /\ bits = IF sized THEN NumberOf(SizePart) ELSE 0
=============================================================================
