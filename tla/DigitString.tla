---------------------------- MODULE DigitString ----------------------------
(***************************************************************************)
(* bit::to_string and bit::from_string (to_from_string.hpp) for bases that *)
(* are powers of two, where a digit is a group of bits.  A character is    *)
(* the digit it stands for, which from_string does not ask to be below the *)
(* base.  One behaviour is one call of either; the variables of the other  *)
(* are not used.                                                           *)
(***************************************************************************)
EXTENDS Integers, SequencesExt

CONSTANTS
  W,          \* digits: bits in a word of the range to_string reads, at least 1
  BaseBits,   \* base_bits, std::bit_width(meta.base - 1), at most W and WorkBits
  WorkBits,   \* bits in from_string's integer, bitsof<word_type>(), 64
  StringDigits,  \* digits characters stand for to from_string, whatever the base:
              \* its map has all of 0 to 9, a to z and A to Z, that is 0 to 35
  MaxBits,    \* bound on the range's bits
  MaxChars    \* bound on the caller's buffer and on the characters

ZeroOne == {0, 1}
Digit == 0 .. (2 ^ BaseBits - 1)
Fill  == -1    \* a character of the buffer that has not been written
Skip  == -1    \* a character of str that is not a digit
Old   == -1    \* a bit of the range from_string has not written; it reads none
Word  == [0 .. (W - 1) -> ZeroOne]
Work  == [0 .. (WorkBits - 1) -> ZeroOne]

VARIABLES
  range,      \* the bits of [bit_first, bit_last), by their distance from bit_first
  position,   \* bit_first.position(): where in its word the range begins
  cursor,     \* characters before the last one written, or still to read
  pc,         \* what the code does next
  version,    \* who made the buffer: "caller", or the std::string version, which
              \* keeps zeros ("zeros", str_sign_extend_zeros) or does not ("short")
  buffer,     \* the characters [str_first, str_last) of to_string
  room,       \* history: the characters it had at the call
  first,      \* the first bit not handed over
  str,        \* the characters [str_first, str_last) of from_string
  is_signed,  \* meta.is_signed
  work, bits, \* the integer, and how many bits of it are digits
  bit_it      \* where its bits go in the range

string_vars == <<range, cursor, pc>>
to_vars     == <<position, version, buffer, room, first>>
from_vars   == <<str, is_signed, work, bits, bit_it>>
vars        == <<string_vars, to_vars, from_vars>>

ToCall   == <<range, position, version, room>>
FromCall == <<str, is_signed>>

Length == Cardinality(DOMAIN range)

\* The number that n bits stand for, the least significant first.
Value(bit, n) == MapThenSumSet(LAMBDA i : bit[i] * 2 ^ i, 0 .. (n - 1))

Left   == Length - first          \* of the range to_string reads
store_bits == Length - bit_it     \* of the range from_string writes

----------------------------------------------------------------------------
(* to_string: accumulate_while (accumulate.hpp) hands an operation the     *)
(* range's words from the first on, which writes their digits from the end *)
(* of the buffer towards its beginning and says to stop when it is full;   *)
(* what was written is then moved to the beginning.  The buffer is the     *)
(* caller's or, in the version that returns a std::string, as long as      *)
(* estimate_length says, with no fill character (meta.fill 0, as typical() *)
(* makes it).  One step is one call of the operation.                      *)

\* Rounded up.
DigitsFor(n) == (n + BaseBits - 1) \div BaseBits

Greater(a, b) == IF a >= b THEN a ELSE b

\* The zeros above the last bit that is 1, added up from word to word.
LeadingZeros(bit) ==
  Cardinality(DOMAIN bit) - Max({i + 1 : i \in {j \in DOMAIN bit : bit[j] = 1}} \cup {0})

\* The first n of the bits.
FirstBits(whole, n) == [i \in 0 .. (n - 1) |-> whole[i]]

\* A faulty CountMsb: the range is taken to begin with a word.
CountMsbAligned(whole) ==
  LET n    == Cardinality(DOMAIN whole)
      part == n % W
  IN  IF n < 2 * W \/ part = 0 THEN LeadingZeros(whole)
      ELSE IF \E i \in 0 .. (part - 1) : whole[i] = 1 THEN LeadingZeros(FirstBits(whole, part))
      ELSE part + LeadingZeros(FirstBits(whole, n - part))

\* count_msb(first, last, bit0).  Of two words' bits or more that end inside a word,
\* the operation is first handed as many bits at first as last's word has, and goes
\* on with the words below that one if they are zeros (module BitCountMsb).
CountMsb(whole) ==
  LET n    == Cardinality(DOMAIN whole)
      part == (position + n) % W
  IN  IF n < 2 * W \/ part = 0 THEN LeadingZeros(whole)
      ELSE IF \E i \in 0 .. (part - 1) : whole[i] = 1 THEN LeadingZeros(FirstBits(whole, part))
      ELSE part + LeadingZeros(FirstBits(whole, n - part))

\* A faulty Estimate: rounded down.
EstimateDown(whole, zeros) ==
  Greater(1, (Cardinality(DOMAIN whole) - (IF zeros THEN 0 ELSE CountMsb(whole))) \div BaseBits)

\* estimate_length
Estimate(whole, zeros) ==
  Greater(1, DigitsFor(Cardinality(DOMAIN whole) - (IF zeros THEN 0 ELSE CountMsb(whole))))

ToInit ==
  /\ \E n \in 0 .. MaxBits : range \in [0 .. (n - 1) -> ZeroOne]
  /\ position \in 0 .. (W - 1)
  /\ \/ /\ version = "caller"
        /\ \E l \in 0 .. MaxChars : buffer = [i \in 1 .. l |-> Fill]
     \/ /\ version = "zeros"
        /\ buffer = [i \in 1 .. Estimate(range, TRUE) |-> Fill]
     \/ /\ version = "short"
        /\ buffer = [i \in 1 .. Estimate(range, FALSE) |-> Fill]
  /\ room = Len(buffer) /\ cursor = room
  /\ first = 0
  /\ pc = "words"

\* The word at bit a, with zeros above the bits of the range.
WordAt(a) == [i \in 0 .. (W - 1) |-> IF a + i < Length THEN range[a + i] ELSE 0]

\* A faulty DigitOf: the word is shifted by a bit for every digit.
DigitOfNextBit(word, i) ==
  Value([j \in 0 .. (BaseBits - 1) |-> IF i + j < W THEN word[i + j] ELSE 0], BaseBits)

\* word >> (i * base_bits) & (base - 1)
DigitOf(word, i) ==
  Value([j \in 0 .. (BaseBits - 1) |->
           IF i * BaseBits + j < W THEN word[i * BaseBits + j] ELSE 0], BaseBits)

\* How many of the word's digits the buffer has room for.
Written(n) == IF DigitsFor(n) <= cursor THEN DigitsFor(n) ELSE cursor

\* The operation, handed a word that holds n bits of the range.  Its digits go
\* before the cursor, the lowest last; it says to go on unless it has reached the
\* beginning of the buffer.
Operate(n, next) ==
  /\ buffer' = [p \in DOMAIN buffer |->
                  IF cursor - Written(n) < p /\ p <= cursor
                  THEN DigitOf(WordAt(first), cursor - p) ELSE buffer[p]]
  /\ cursor' = cursor - Written(n)
  /\ first' = first + n
  /\ pc' = IF cursor' # 0 THEN next ELSE "move"
  /\ UNCHANGED ToCall

\* A faulty WholeWord: whatever is left is taken for a word.
WholeWordPastEnd == pc = "words" /\ Left > 0 /\ Operate(W, "words")

\* accumulate_while: a whole word
WholeWord == pc = "words" /\ Left >= W /\ Operate(W, "words")

\* and the bits after the last of them.
Rest == pc = "words" /\ Left \in 1 .. (W - 1) /\ Operate(Left, "move")

NothingLeft ==
  /\ pc = "words" /\ Left = 0
  /\ pc' = "move"
  /\ UNCHANGED <<ToCall, buffer, cursor, first>>

\* std::copy to the beginning of the buffer; the std::string then ends where it
\* does, and the caller's buffer keeps what is after that, which is not the result.
Move ==
  /\ pc = "move"
  /\ buffer' = SubSeq(buffer, cursor + 1, Len(buffer))
  /\ cursor' = 0
  /\ pc' = "done"
  /\ UNCHANGED <<ToCall, first>>

Finished == pc = "done" /\ UNCHANGED vars

ToNext == WholeWord \/ Rest \/ NothingLeft \/ Move \/ Finished

----------------------------------------------------------------------------
(* from_string: the characters are read from the last one to the first,    *)
(* their digits packed into a 64-bit integer, and the integer's bits       *)
(* copied to the range when it is full or the characters are used up.  A   *)
(* letter or a figure stands for its digit also when that is not below the *)
(* base, and is then or-ed over the next digit's bits; every other         *)
(* character is skipped, where char is signed.  One step reads a character *)
(* or writes the integer.                                                  *)

NoWork == [i \in 0 .. (WorkBits - 1) |-> 0]

FromInit ==
  /\ str \in UNION {[1 .. n -> StringDigits \cup {Skip}] : n \in 0 .. MaxChars}
  /\ is_signed \in BOOLEAN
  /\ \E n \in 0 .. MaxBits : range = [i \in 0 .. (n - 1) |-> Old]
  /\ cursor = Len(str) /\ bit_it = 0
  /\ work = NoWork /\ bits = 0
  /\ pc = IF str = <<>> \/ Length = 0 THEN "done" ELSE "read"

BitOfDigit(d, i) == (d \div 2 ^ i) % 2

\* work | digit << at: all the digit's bits, but for what is shifted out.
Packed(w, d, at) ==
  [i \in DOMAIN w |-> IF at <= i /\ w[i] = 0 THEN BitOfDigit(d, i - at) ELSE w[i]]

\* A faulty Read: also when the integer is full.
ReadOn ==
  /\ pc = "read"
  /\ cursor > 0
  /\ cursor' = cursor - 1
  /\ IF str[cursor] = Skip
       THEN UNCHANGED <<work, bits>>
       ELSE work' = Packed(work, str[cursor], bits) /\ bits' = bits + BaseBits
  /\ UNCHANGED <<FromCall, range, bit_it, pc>>

\* The inner loop: a character.
Read ==
  /\ pc = "read"
  /\ bits < WorkBits /\ cursor > 0
  /\ cursor' = cursor - 1
  /\ IF str[cursor] = Skip
       THEN UNCHANGED <<work, bits>>
       ELSE work' = Packed(work, str[cursor], bits) /\ bits' = bits + BaseBits
  /\ UNCHANGED <<FromCall, range, bit_it, pc>>

\* The inner loop has ended.
IsRead == pc = "read" /\ (bits >= WorkBits \/ cursor = 0)

\* The range with the first len bits of work copied to bit_it.  Bits read past
\* the integer are whatever follows it in memory.
Copied(len, past) ==
  [i \in DOMAIN range |->
     IF i \notin bit_it .. (bit_it + len - 1) THEN range[i]
     ELSE IF i - bit_it < WorkBits THEN work[i - bit_it] ELSE past]

\* What is left of the range is shorter than the integer, which is truncated.
WriteTruncated ==
  /\ IsRead /\ store_bits < bits
  /\ \E past \in ZeroOne : range' = Copied(store_bits, past)
  /\ pc' = "done"
  /\ UNCHANGED <<FromCall, cursor, work, bits, bit_it>>

\* The characters are used up: the rest of the range is filled, with the last
\* bit written if the number is signed.  If none was, the bit before the range
\* is read.
WriteLast ==
  /\ IsRead /\ store_bits > bits /\ cursor = 0
  /\ bit_it' = bit_it + bits
  /\ \E past \in ZeroOne, before \in ZeroOne :
       LET copied == Copied(bits, past)
           sign   == IF ~is_signed THEN 0
                     ELSE IF bit_it' = 0 THEN before ELSE copied[bit_it' - 1]
       IN  range' = [i \in DOMAIN range |-> IF i < bit_it' THEN copied[i] ELSE sign]
  /\ pc' = "done"
  /\ UNCHANGED <<FromCall, cursor, work, bits>>

\* A faulty WriteFull: the integer keeps its digits, and the next are or-ed in.
WriteFullKept ==
  /\ IsRead /\ store_bits >= bits /\ ~(store_bits > bits /\ cursor = 0)
  /\ \E past \in ZeroOne : range' = Copied(bits, past)
  /\ bit_it' = bit_it + bits
  /\ bits' = 0
  /\ pc' = IF cursor > 0 /\ store_bits > bits THEN "read" ELSE "done"
  /\ UNCHANGED <<FromCall, cursor, work>>

\* A full integer, and the next one if there is room and a character left.
WriteFull ==
  /\ IsRead /\ store_bits >= bits /\ ~(store_bits > bits /\ cursor = 0)
  /\ \E past \in ZeroOne : range' = Copied(bits, past)
  /\ bit_it' = bit_it + bits
  /\ work' = NoWork /\ bits' = 0
  /\ pc' = IF cursor > 0 /\ store_bits > bits THEN "read" ELSE "done"
  /\ UNCHANGED <<FromCall, cursor>>

FromNext == Read \/ WriteTruncated \/ WriteLast \/ WriteFull \/ Finished

----------------------------------------------------------------------------
(* Properties                                                              *)

\* Digit i of the range read as a number, and the characters for all of them.
RangeDigit(i) ==
  Value([j \in 0 .. (BaseBits - 1) |->
           IF i * BaseBits + j < Length THEN range[i * BaseBits + j] ELSE 0], BaseBits)
AllDigits == [p \in 1 .. DigitsFor(Length) |-> RangeDigit(DigitsFor(Length) - p)]

\* Types; and no more words are handed over than the range has.
ToTypeOK ==
  /\ \E n \in 0 .. MaxBits : range \in [0 .. (n - 1) -> ZeroOne]
  /\ position \in 0 .. (W - 1) /\ version \in {"caller", "zeros", "short"}
  /\ buffer \in Seq(Digit \cup {Fill}) /\ room \in Nat /\ cursor \in 0 .. room
  /\ first \in 0 .. Length
  /\ pc \in {"words", "move", "done"}

\* The range's zeros are counted right: it has less than two words' bits, or ends
\* with a word.
CountsExactly == Length < 2 * W \/ (position + Length) % W = 0

\* The digits of the range, the most significant first, or the least significant
\* of them if the buffer is too short (test-to_from_string.cpp:17-28).  Without
\* zeros, where they are counted right, only zeros are missing and the string
\* begins with a digit that is not 0, or is 0.
ToStringCorrect ==
  pc = "done" =>
    /\ IsSuffix(buffer, AllDigits) /\ (buffer = AllDigits \/ Len(buffer) = room)
    /\ version = "zeros" => buffer = AllDigits
    /\ version = "short" /\ CountsExactly /\ Length > 0 =>
         /\ \A p \in DOMAIN AllDigits :
              p <= Len(AllDigits) - Len(buffer) => AllDigits[p] = 0
         /\ buffer[1] # 0 \/ buffer = <<0>>

\* While words are handed over, the characters after the cursor are the digits
\* of the bits before first.
WrittenSoFar ==
  LET written == SubSeq(buffer, cursor + 1, Len(buffer))
  IN  pc = "words" =>
        /\ Len(written) * BaseBits = first
        /\ \A p \in DOMAIN written : written[p] = RangeDigit(Len(written) - p)
        /\ \A p \in 1 .. cursor : buffer[p] = Fill

\* The characters from the i-th on that are digits, and the bits all of them take.
DigitsFrom(i) == {p \in i .. Len(str) : str[p] # Skip}
DigitBits     == BaseBits * Cardinality(DigitsFrom(1))

\* The digits are all below the base.
OfBase == \A p \in DOMAIN str : str[p] < 2 ^ BaseBits

\* Bit i of the number digits of the base write: that of the character after which
\* there are as many digits as precede bit i.
BitOfNumber(i) ==
  LET p == CHOOSE p \in DigitsFrom(1) : Cardinality(DigitsFrom(p + 1)) = i \div BaseBits
  IN  BitOfDigit(str[p], i % BaseBits)

\* Bit i of the digits from the c-th character on, whatever they are: each lies from
\* its place on, as far as the integer it is packed into goes, and they are or-ed.
BitOred(c, i) ==
  IF \E p \in DigitsFrom(c) :
       LET at == BaseBits * Cardinality(DigitsFrom(p + 1))
       IN  at <= i /\ at \div WorkBits = i \div WorkBits /\ BitOfDigit(str[p], i - at) = 1
  THEN 1 ELSE 0

\* Types; and the integer is never given more digits than the range, or it, has
\* room for, but for the last.
FromTypeOK ==
  /\ str \in Seq(StringDigits \cup {Skip}) /\ is_signed \in BOOLEAN
  /\ \E n \in 0 .. MaxBits : range \in [0 .. (n - 1) -> ZeroOne \cup {Old}]
  /\ cursor \in 0 .. Len(str) /\ bit_it \in 0 .. Length
  /\ work \in Work /\ bits \in 0 .. (WorkBits + BaseBits - 1)
  /\ pc \in {"read", "done"}

\* The range holds the number the characters write, truncated to the range or
\* extended by zeros, or by its sign (test-to_from_string.cpp:44-53), and if some
\* are not digits of the base, what or-ing them makes; no characters leave it as
\* it was.
FromStringCorrect ==
  pc = "done" =>
    \/ str = <<>> /\ \A i \in DOMAIN range : range[i] = Old
    \/ /\ str # <<>>
       /\ \A i \in DOMAIN range :
            IF i < DigitBits
            THEN range[i] = BitOred(1, i) /\ (OfBase => range[i] = BitOfNumber(i))
            ELSE IF ~is_signed THEN range[i] = 0
            ELSE DigitBits > 0 => range[i] = BitOred(1, DigitBits - 1)

\* Between characters, what was read is in the range up to bit_it, then in work,
\* and the rest of the range is still as it was.
ReadSoFar ==
  pc = "read" =>
    /\ bit_it + bits = BaseBits * Cardinality(DigitsFrom(cursor + 1))
    /\ \A i \in 0 .. (bit_it + bits - 1) :
         LET read == IF i < bit_it THEN range[i] ELSE work[i - bit_it]
         IN  read = BitOred(1, i) /\ (OfBase => read = BitOfNumber(i))
    /\ \A i \in DOMAIN range : i >= bit_it => range[i] = Old
=============================================================================
