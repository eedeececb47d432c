---------------------------- MODULE BitCountMsb ----------------------------
(***************************************************************************)
(* bit::count_msb (count.hpp): how many of the most significant bits of    *)
(* [first, last) are value, by the reduction accumulate_backward_while     *)
(* (accumulate.hpp), which hands its operation the words of the range from *)
(* the last one down and stops when the operation says so.  One behaviour  *)
(* is one call, one step one call of the operation.                        *)
(***************************************************************************)
EXTENDS BitWord, FiniteSetsExt

CONSTANT One    \* the value of bit1; Zero is that of bit0

VARIABLES
  mem,              \* the words, as one array of bits; they are only read
  first, end,       \* the range
  value,            \* the value counted
  last,             \* the local last: it moves down to first
  acc,              \* the reduction's accumulator
  left,             \* bits left: total_bits_to_op
  pc,               \* what the code does next
  top, got          \* history: where the bits of the last operation's word end,
                    \* and the word

vars == <<mem, first, end, value, last, acc, left, pc, top, got>>

Call == <<mem, first, end, value>>

NoWord == [i \in BitPos |-> Zero]

Init ==
  /\ mem \in [Addr -> Bit]
  /\ first \in 0 .. MemBits /\ end \in 0 .. MemBits /\ first <= end
  /\ value \in Bit
  /\ last = end
  /\ acc = 0 /\ left = end - first
  /\ pc = "start"
  /\ top = end /\ got = NoWord

----------------------------------------------------------------------------
(* The operation: its word holds bits bits of the range, zeros above them. *)

\* std::countl_one or std::countl_zero.
CountLeading(w) == W - Max({i + 1 : i \in {j \in BitPos : w[j] # value}} \cup {0})

\* A faulty Added: the zeros above the bits of a partial word are counted.
AddedWhole(w, bits) == CountLeading(w)

\* What the operation adds.
Added(w, bits) == CountLeading(w) - (W - bits)

\* A faulty KeepGoing: the condition is the wrong way round.
KeepGoingNot(w) == \E i \in BitPos : w[i] # Zero

\* word == 0, for both values.
KeepGoing(w) == \A i \in BitPos : w[i] = Zero

Operate(w, bits, next) ==
  /\ acc' = acc + Added(w, bits)
  /\ top' = last /\ got' = w
  /\ pc' = IF KeepGoing(w) THEN next ELSE "done"

----------------------------------------------------------------------------
(* accumulate_while<false, true>                                           *)

\* get_masked_word
MaskedWord(a, len) == MaskLow(GetWord(mem, a, len), len)

SubDigits == Least(Pos(end), left)

\* A range of two words' worth of bits or more is first brought to a word's
\* boundary; the word handed over is the one at first, not the one at last.
SubWord ==
  /\ pc = "start"
  /\ left \div W > 1
  /\ IF SubDigits # 0
       THEN /\ last' = last - SubDigits
            /\ left' = left - SubDigits
            /\ Operate(MaskedWord(first, SubDigits), SubDigits, "words")
       ELSE pc' = "words" /\ UNCHANGED <<last, acc, left, top, got>>
  /\ UNCHANGED Call

\* A shorter one is not.
Short ==
  /\ pc = "start"
  /\ left \div W <= 1
  /\ pc' = "words"
  /\ UNCHANGED <<Call, last, acc, left, top, got>>

\* A faulty WholeWord: the word is read before last is moved down to it.
WholeWordAtLast ==
  /\ pc = "words"
  /\ left >= W
  /\ last' = last - W
  /\ left' = left - W
  /\ Operate(GetWord(mem, last - 1, 1), W, "words")
  /\ UNCHANGED Call

\* One of the whole words.
WholeWord ==
  /\ pc = "words"
  /\ left >= W
  /\ last' = last - W
  /\ left' = left - W
  /\ Operate(GetWord(mem, last - W, W), W, "words")
  /\ UNCHANGED Call

\* A faulty Rest: the bits above the remaining ones are not masked off.
RestUnmasked ==
  /\ pc = "words"
  /\ left < W
  /\ IF left > 0
       THEN /\ last' = last - left
            /\ left' = 0
            /\ Operate(GetWord(mem, last - left, left), left, "done")
       ELSE pc' = "done" /\ UNCHANGED <<last, acc, left, top, got>>
  /\ UNCHANGED Call

\* The remaining bits.
Rest ==
  /\ pc = "words"
  /\ left < W
  /\ IF left > 0
       THEN /\ last' = last - left
            /\ left' = 0
            /\ Operate(MaskedWord(last - left, left), left, "done")
       ELSE pc' = "done" /\ UNCHANGED <<last, acc, left, top, got>>
  /\ UNCHANGED Call

Finished ==
  /\ pc = "done"
  /\ UNCHANGED vars

Next == SubWord \/ Short \/ WholeWord \/ Rest \/ Finished

Spec == Init /\ [][Next]_vars

----------------------------------------------------------------------------
(* Properties                                                              *)

\* The most significant bits of [a, end) that are v.
Leading(a, v) == end - Max({i + 1 : i \in {j \in a .. (end - 1) : mem[j] # v}} \cup {a})

\* Types; and the accumulator never goes below zero nor past the range.
TypeOK ==
  /\ mem \in [Addr -> Bit]
  /\ first \in Nat /\ end \in Nat /\ first <= end /\ end <= MemBits
  /\ value \in Bit
  /\ last \in first .. end
  /\ acc \in 0 .. (end - first)
  /\ left = last - first
  /\ pc \in {"start", "words", "done"}
  /\ top \in first .. end /\ got \in Word

\* count_msb returns the number of most significant bits of the range that are
\* value: no bit outside the range, nor a zero masked in above a partial word,
\* is counted.
CountMsbCorrect == pc = "done" => acc = Leading(first, value)

\* As long as the reduction goes on, every bit it has passed is value.
AllCounted == pc = "words" => acc = end - last /\ acc = Leading(last, value)

\* The reduction is order sensitive (README.md:393): the operation is handed the
\* bits of the range from the end down, each of them once and in its place.
HandedInOrder ==
  \A i \in 0 .. (top - last - 1) : got[i] = mem[last + i]
=============================================================================
