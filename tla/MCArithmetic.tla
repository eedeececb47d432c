---------------------------- MODULE MCArithmetic ----------------------------
(***************************************************************************)
(* What computes on numbers in binary.  One call of transform with         *)
(* std::bit_not, addition, multiplication or division, on every memory of  *)
(* zeros and ones, one double-word division, one call of to_string or      *)
(* from_string in a base that is a power of two or in another, one literal *)
(* or any sequence of conversions between integrals and a bit array of     *)
(* dynamic or static extent.  The initial state picks which; they share    *)
(* the variables below, and one the picked one has no use for stays 0.     *)
(***************************************************************************)
EXTENDS BitWord

CONSTANTS
  FewWords,     \* words the ranges of addition and multiplication lie in
  H,            \* bits in a half word of the double-word division
  CharWord,     \* bits in a word of the range to_string reads
  BaseBits,     \* bits in a digit
  WorkBits,     \* bits in the integer from_string packs digits into
  StringDigits, \* the digits its characters stand for, below the base or not
  MaxBits, MaxChars,   \* bounds on the range's bits and on the characters
  DecimalBase,         \* the base that is not a power of two
  DecimalBits, DecimalChars,              \* the bounds, in that base
  NumBits, LiteralDigits, LiteralChars,   \* of the literals: see Literal
  ArraySizes, IntegralWidths   \* sizes of the arrays, widths of the integral types

ASSUME FewWordsAssumption == FewWords \in Nat
ASSUME HAssumption        == H \in Nat \ {0}

\* The bits are the digits of numbers here, and a shift lets in zeros.
ASSUME DigitsAssumption   == Bit = {0, 1} /\ Zero = 0

\* The digits of the base divide the words.
ASSUME StringsAssumption  ==
  /\ BaseBits \in Nat \ {0} /\ MaxBits \in Nat /\ MaxChars \in Nat
  /\ CharWord \in Nat \ {0} /\ CharWord % BaseBits = 0
  /\ WorkBits \in Nat \ {0} /\ WorkBits % BaseBits = 0
  /\ StringDigits \subseteq 0 .. 35

ASSUME DecimalAssumption ==
  /\ DecimalBase \in 3 .. (2 ^ CharWord - 1) /\ \A e \in 1 .. CharWord : DecimalBase # 2 ^ e
  /\ DecimalBits \in Nat /\ DecimalBits >= CharWord /\ DecimalChars \in Nat

ASSUME LiteralsAssumption ==
  /\ NumBits \in Nat \ {0} /\ LiteralDigits \subseteq 0 .. 15 /\ LiteralChars \in Nat

ASSUME IntegralsAssumption ==
  ArraySizes \subseteq Nat \ {0} /\ IntegralWidths \subseteq Nat \ {0}

VARIABLES
  algorithm,                \* the function called
  mem, orig,                \* the memory, and what it was when the call was made
  first, last, d_first,     \* source and destination
  operand,                  \* integral_operand
  src, it,                  \* the bits read next, the word written next
  remaining, whole_words,   \* bits left, whole words left
  carry,                    \* the captured carry, or the remainder so far
  pc,                       \* what the code does next
  used, d_used,             \* the words read and written by the last step
  hi, lo, d, shift,         \* of the double-word division
  numhi, numlo, den, q1, q0, rem,
  range, cursor,            \* of the string functions
  position,                 \* of to_string
  version, buffer, room,
  str, is_signed, work, bits, bit_it,         \* of from_string
  vec, store_bits,          \* of to_string in another base
  base, prefix_len, number,    \* of a literal
  array, size, given, gtype, value, vtype     \* of the integrals

call_vars     == <<orig, first, last, d_first, operand>>
local_vars    == <<it, remaining, whole_words, carry, used, d_used>>
word_vars     == <<hi, lo, d, shift, numhi, numlo, den, q1, q0, rem>>
string_vars   == <<range, cursor>>
to_vars       == <<position, version, buffer, room>>
from_vars     == <<str, is_signed, work, bits, bit_it>>
decimal_vars  == <<vec, store_bits>>
literal_vars  == <<base, prefix_len, number>>
integral_vars == <<array, size, given, gtype, value, vtype>>

vars == <<algorithm, mem, call_vars, src, local_vars, pc, word_vars,
          string_vars, to_vars, from_vars, decimal_vars, literal_vars, integral_vars>>

\* A static array is no wider than the integral it is made from: the bits above
\* it would never be written.
StaticSizes == {s \in ArraySizes : \A w \in IntegralWidths : s <= w}

Not      == INSTANCE BitTransform WITH Operation <- "bit_not"
Add      == INSTANCE BitTransform WITH Operation <- "addition"
Multiply == INSTANCE BitTransform WITH Operation <- "multiplication"
Divide   == INSTANCE BitDivision WITH top <- src, d_it <- it, acc <- carry
Wide     == INSTANCE WideArithmetic
Digits   == INSTANCE DigitString WITH W <- CharWord, first <- src
Decimal  == INSTANCE DecimalString
              WITH W <- CharWord, MaxBits <- DecimalBits, MaxChars <- DecimalChars
Lit      == INSTANCE Literal WITH num <- number
Dynamic  == INSTANCE IntegralConversion
              WITH Extent <- "dynamic", Sizes <- ArraySizes, Widths <- IntegralWidths
Static   == INSTANCE IntegralConversion
              WITH Extent <- "static", Sizes <- StaticSizes, Widths <- IntegralWidths

NoMemory ==
  /\ mem = 0 /\ orig = 0 /\ first = 0 /\ last = 0 /\ d_first = 0 /\ operand = 0
  /\ it = 0 /\ remaining = 0 /\ whole_words = 0 /\ carry = 0 /\ used = {} /\ d_used = {}
NoWide ==
  /\ hi = 0 /\ lo = 0 /\ d = 0 /\ shift = 0 /\ numhi = 0 /\ numlo = 0 /\ den = 0
  /\ q1 = 0 /\ q0 = 0 /\ rem = 0
NoTo       == position = 0 /\ version = 0 /\ buffer = 0 /\ room = 0
NoFrom     == str = 0 /\ is_signed = 0 /\ work = 0 /\ bits = 0 /\ bit_it = 0
NoDecimal  == vec = 0 /\ store_bits = 0
NoLiteral  == base = 0 /\ prefix_len = 0 /\ number = 0
NoString   == range = 0 /\ cursor = 0 /\ NoTo /\ NoFrom /\ NoDecimal /\ NoLiteral
NoIntegral == array = 0 /\ size = 0 /\ given = 0 /\ gtype = 0 /\ value = 0 /\ vtype = 0

\* A bound: the ranges lie in the first FewWords words, the others hold zeros.
InFewWords ==
  /\ last <= FewWords * W /\ d_first + (last - first) <= FewWords * W
  /\ \A a \in Addr : a >= FewWords * W => orig[a] = Zero

\* addition and multiplication are called for a destination that begins with a
\* word and ends in it, multiplication with a product that fits a word, and
\* division for a destination that begins with a word.
ArithmeticInit ==
  \/ algorithm = "bit_not"  /\ Not!Init /\ whole_words = 0
  \/ algorithm = "addition" /\ Add!Init /\ InFewWords /\ Add!InFirstWord /\ whole_words = 0
  \/ /\ algorithm = "multiplication"
     /\ Multiply!Init /\ InFewWords /\ Multiply!InFirstWord /\ Multiply!FitsWord
     /\ whole_words = 0
  \/ algorithm = "division" /\ Divide!Init /\ Divide!BeginsWithWord

StringInit ==
  \/ algorithm = "to_string"   /\ Digits!ToInit   /\ NoFrom /\ NoDecimal /\ NoLiteral
  \/ algorithm = "from_string" /\ Digits!FromInit /\ NoTo   /\ NoDecimal /\ NoLiteral /\ src = 0
  \/ /\ algorithm = "to_decimal"   /\ Decimal!ToInit /\ position = 0
     /\ is_signed = 0 /\ work = 0 /\ bits = 0 /\ bit_it = 0 /\ NoLiteral /\ src = 0
  \/ /\ algorithm = "from_decimal" /\ Decimal!FromInit /\ position = 0
     /\ is_signed = 0 /\ work = 0 /\ bits = 0 /\ bit_it = 0 /\ NoLiteral /\ src = 0
  \/ /\ algorithm = "literal" /\ Lit!Init
     /\ range = 0 /\ is_signed = 0 /\ work = 0 /\ bit_it = 0 /\ NoTo /\ NoDecimal /\ src = 0

IntegralInit ==
  \/ algorithm = "dynamic" /\ Dynamic!Init
  \/ algorithm = "static"  /\ Static!Init

Init ==
  \/ ArithmeticInit /\ NoWide /\ NoString /\ NoIntegral
  \/ algorithm = "_divx" /\ Wide!Init /\ NoMemory /\ src = 0 /\ NoString /\ NoIntegral
  \/ StringInit   /\ NoMemory /\ NoWide /\ NoIntegral
  \/ IntegralInit /\ NoMemory /\ src = 0 /\ NoWide /\ NoString /\ pc = "none"

ArithmeticNext ==
  \/ algorithm = "bit_not"        /\ Not!Next      /\ UNCHANGED whole_words
  \/ algorithm = "addition"       /\ Add!Next      /\ UNCHANGED whole_words
  \/ algorithm = "multiplication" /\ Multiply!Next /\ UNCHANGED whole_words
  \/ algorithm = "division"       /\ Divide!Next

StringNext ==
  \/ /\ algorithm = "to_string" /\ Digits!ToNext
     /\ UNCHANGED <<from_vars, decimal_vars, literal_vars>>
  \/ /\ algorithm = "from_string" /\ Digits!FromNext
     /\ UNCHANGED <<to_vars, decimal_vars, literal_vars, src>>
  \/ /\ algorithm \in {"to_decimal", "from_decimal"}
     /\ IF algorithm = "to_decimal" THEN Decimal!ToNext ELSE Decimal!FromNext
     /\ UNCHANGED <<position, is_signed, work, bits, bit_it, literal_vars, src>>
  \/ /\ algorithm = "literal" /\ Lit!Next
     /\ UNCHANGED <<range, is_signed, work, bit_it, to_vars, decimal_vars, src>>

IntegralNext ==
  \/ algorithm = "dynamic" /\ Dynamic!Next
  \/ algorithm = "static"  /\ Static!Next

MemoryStays  == UNCHANGED <<mem, call_vars, local_vars>>
StringsStay  == UNCHANGED <<string_vars, to_vars, from_vars, decimal_vars, literal_vars>>

Next ==
  /\ UNCHANGED algorithm
  /\ \/ ArithmeticNext /\ UNCHANGED <<word_vars, integral_vars>> /\ StringsStay
     \/ /\ algorithm = "_divx" /\ Wide!Next
        /\ MemoryStays /\ StringsStay /\ UNCHANGED <<src, integral_vars>>
     \/ StringNext   /\ MemoryStays /\ UNCHANGED <<word_vars, integral_vars>>
     \/ IntegralNext /\ MemoryStays /\ StringsStay /\ UNCHANGED <<src, word_vars, pc>>

Spec == Init /\ [][Next]_vars

----------------------------------------------------------------------------
(* Properties                                                              *)

\* The types of each algorithm's variables; the remainder of a division so far
\* is below the operand, so that _divx never gets a numerator whose quotient
\* does not fit, normalizing a denominator sets its leading bit, and the string
\* functions' cursors stay in their ranges.
TypeOK ==
  /\ algorithm = "bit_not"        => Not!TypeOK
  /\ algorithm = "addition"       => Add!TypeOK
  /\ algorithm = "multiplication" => Multiply!TypeOK
  /\ algorithm = "division"       => Divide!TypeOK
  /\ algorithm = "_divx"          => Wide!TypeOK
  /\ algorithm = "to_string"      => Digits!ToTypeOK
  /\ algorithm = "from_string"    => Digits!FromTypeOK
  /\ algorithm \in {"to_decimal", "from_decimal"} => Decimal!TypeOK
  /\ algorithm = "literal"        => Lit!TypeOK
  /\ algorithm = "dynamic"        => Dynamic!TypeOK
  /\ algorithm = "static"         => Static!TypeOK

\* The range left and the value returned are the complement, sum, product,
\* quotient and remainder of the numbers the ranges held, and _divx, _mulx,
\* add_carry and sub_borrow compute what their double words say.
ArithmeticCorrect ==
  /\ algorithm = "bit_not"        => Not!NotCorrect
  /\ algorithm = "addition"       => Add!AdditionCorrect
  /\ algorithm = "multiplication" => Multiply!MultiplicationCorrect
  /\ algorithm = "division"       => Divide!DivisionCorrect
  /\ algorithm = "_divx"          => Wide!DivxCorrect /\ Wide!MulxCorrect /\ Wide!CarryExact

\* to_string leaves the digits of the range's number, wherever in a word the range
\* begins: all of them, or as many as the buffer has room for.  A string without
\* the number's zeros is exact where count_msb is, for less than two words' bits or
\* a range that ends with a word; elsewhere it may lack digits.  from_string leaves
\* the number the characters write, truncated or extended as the metadata asks,
\* and an empty string leaves the range as it was.  In base 10 a range to write
\* begins with a word, and its quotients too are to be counted right; a range to
\* read into lies in one word, and reading stops at the first digit it has no room
\* for.  A literal is the array of the size and the number written, and is refused
\* if the number does not fit.
StringsCorrect ==
  /\ algorithm = "to_string"    => Digits!ToStringCorrect
  /\ algorithm = "from_string"  => Digits!FromStringCorrect
  /\ algorithm = "to_decimal"   => Decimal!DecimalWritten
  /\ algorithm = "from_decimal" => Decimal!DecimalRead
  /\ algorithm = "literal"      => Lit!LiteralCorrect

\* Between two steps what has been done is accounted for.  In a long division, by
\* words and by half words, at every digit the quotient so far times the operand
\* plus the remainder so far is the part of the number read, and the remainder is
\* small enough for the next digit to fit.  Of a string, what has been converted
\* is in its place, at the end of the buffer or spread over the range and the
\* integer not yet written, and nothing else is; in base 10 what is left to divide
\* and the digits written are the number, and the range holds the number read.  Of
\* a literal the size and the number are those of the characters read.
AccountedFor ==
  /\ algorithm = "division"     => Divide!LongDivisionInvariant
  /\ algorithm = "_divx"        => Wide!RemainderReduced
  /\ algorithm = "to_string"    => Digits!WrittenSoFar
  /\ algorithm = "from_string"  => Digits!ReadSoFar
  /\ algorithm = "to_decimal"   => Decimal!DividedSoFar
  /\ algorithm = "from_decimal" => Decimal!ReadSoFar
  /\ algorithm = "literal"      => Lit!ReadSoFar

\* No bit outside the destination changes, also not in the words it shares, and
\* no word outside the ranges is dereferenced.
RangesRespected ==
  /\ algorithm = "bit_not"        => Not!OutsideIntact      /\ Not!AccessInRange
  /\ algorithm = "addition"       => Add!OutsideIntact      /\ Add!AccessInRange
  /\ algorithm = "multiplication" => Multiply!OutsideIntact /\ Multiply!AccessInRange
  /\ algorithm = "division"       => Divide!OutsideIntact   /\ Divide!AccessInRange

\* An array made from an integral holds its value, sign extended or truncated to
\* the array's size (README.md:235); converting it gives the number its bits
\* stand for truncated to the type asked for; and the two together are a cast of
\* the language when the array has room for it.
IntegralsExact ==
  [][/\ algorithm = "dynamic" => /\ Dynamic!ArrayHoldsValue' /\ Dynamic!CastAgrees'
                                 /\ Dynamic!ConversionExact
     /\ algorithm = "static"  => /\ Static!ArrayHoldsValue' /\ Static!CastAgrees'
                                 /\ Static!ConversionExact]_vars
=============================================================================
