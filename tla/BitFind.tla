------------------------------ MODULE BitFind ------------------------------
(***************************************************************************)
(* bit::find (find.hpp): the first bit of [first, last) that is bv.  The   *)
(* bits are looked at a word at a time; one behaviour is one call, one     *)
(* step one word.  The Highway path (BITLIB_HWY) only batches the steps of *)
(* SkipWord and is left out.                                               *)
(***************************************************************************)
EXTENDS BitWord, FiniteSetsExt

CONSTANT One    \* the value of bit1; Zero is that of bit0

VARIABLES
  mem,            \* the words, as one array of bits; find never writes them
  first, last,    \* the range
  bv,             \* the value looked for
  it,             \* the local it: the word looked at next
  result,         \* the iterator returned
  pc,             \* what the code does next
  used            \* history: the words the last step dereferenced

vars == <<mem, first, last, bv, it, result, pc, used>>

Call == <<mem, first, last, bv>>

Init ==
  /\ mem \in [Addr -> Bit]
  /\ first \in 0 .. MemBits /\ last \in 0 .. MemBits /\ first <= last
  /\ bv \in Bit
  /\ it = Base(first) /\ result = last
  /\ pc = "start"
  /\ used = {}

Return(a) == result' = a /\ pc' = "done"

\* num_trailing_complementary_bits: std::countr_zero of the word, or of its
\* complement when bit0 is looked for; W when no bit of the word is bv.
NumTrailingComplementary(w) == Min({i \in BitPos : w[i] = bv} \cup {W})

\* lsr lets zeros in above the bits of the first word: looking for bit0, they
\* count as found, beyond the word's end.
FirstWord == NumTrailingComplementary(Lsr(Load(mem, Base(first)), Pos(first)))

\* The range ends with the word of first, or inside it.
OneWord == Base(first) + (IF Pos(last) = 0 THEN W ELSE 0) = Base(last)

\* first is not aligned, and its word is the only one ...
FindInOnly ==
  /\ pc = "start" /\ Pos(first) # 0
  /\ OneWord
  /\ used' = {Base(first)}
  /\ Return(first + Least(FirstWord, last - first))
  /\ UNCHANGED <<Call, it>>

\* A faulty FindInFirst: what lsr let in counts.
FindInFirstShifted ==
  /\ pc = "start" /\ Pos(first) # 0
  /\ ~OneWord
  /\ used' = {Base(first)}
  /\ IF FirstWord < W
       THEN Return(first + FirstWord) /\ UNCHANGED it
       ELSE it' = it + W /\ pc' = "words" /\ UNCHANGED result
  /\ UNCHANGED Call

\* ... or not: bv is in it, or the search goes on with the next word.
FindInFirst ==
  /\ pc = "start" /\ Pos(first) # 0
  /\ ~OneWord
  /\ used' = {Base(first)}
  /\ IF FirstWord + Pos(first) < W
       THEN Return(first + FirstWord) /\ UNCHANGED it
       ELSE it' = it + W /\ pc' = "words" /\ UNCHANGED result
  /\ UNCHANGED Call

AlignedFirst ==
  /\ pc = "start" /\ Pos(first) = 0
  /\ used' = {}
  /\ pc' = "words"
  /\ UNCHANGED <<Call, it, result>>

\* A faulty HasNone: the predicate of bit1 is used for bit0 as well.
HasNoneAsZero(w) == \A i \in BitPos : w[i] = Zero

\* a == 0 when bit1 is looked for, a == -1 when bit0 is.
HasNone(w) == \A i \in BitPos : w[i] # bv

\* std::find_if: a word without bv ...
SkipWord ==
  /\ pc = "words" /\ it # Base(last)
  /\ HasNone(Load(mem, it))
  /\ it' = it + W
  /\ used' = {it}
  /\ UNCHANGED <<Call, result, pc>>

\* ... and the first word with one.
FindInWord ==
  /\ pc = "words" /\ it # Base(last)
  /\ ~HasNone(Load(mem, it))
  /\ used' = {it}
  /\ Return(it + NumTrailingComplementary(Load(mem, it)))
  /\ UNCHANGED <<Call, it>>

\* A faulty FindInLast: the word of last is looked at even when last is aligned.
FindInLastAlways ==
  /\ pc = "words" /\ it = Base(last)
  /\ used' = {it}
  /\ Return(it + (IF Pos(last) = 0 THEN 0
                  ELSE Least(NumTrailingComplementary(Load(mem, it)), Pos(last))))
  /\ UNCHANGED <<Call, it>>

\* A faulty FindInLast: the bits of last's word from last on are searched too.
FindInLastUncut ==
  /\ pc = "words" /\ it = Base(last)
  /\ IF Pos(last) # 0
       THEN used' = {it} /\ Return(it + NumTrailingComplementary(Load(mem, it)))
       ELSE used' = {} /\ Return(last)
  /\ UNCHANGED <<Call, it>>

\* The bits of last's word, when last is not aligned.
FindInLast ==
  /\ pc = "words" /\ it = Base(last)
  /\ IF Pos(last) # 0
       THEN /\ used' = {it}
            /\ Return(it + Least(NumTrailingComplementary(Load(mem, it)), Pos(last)))
       ELSE /\ used' = {}
            /\ Return(last)
  /\ UNCHANGED <<Call, it>>

Finished ==
  /\ pc = "done"
  /\ UNCHANGED vars

Next ==
  \/ FindInOnly \/ FindInFirst \/ AlignedFirst \/ SkipWord \/ FindInWord \/ FindInLast
  \/ Finished

Spec == Init /\ [][Next]_vars

----------------------------------------------------------------------------
(* Properties                                                              *)

\* Types; and the search never goes past the word of last.
TypeOK ==
  /\ mem \in [Addr -> Bit]
  /\ first \in Nat /\ last \in Nat /\ first <= last /\ last <= MemBits
  /\ bv \in Bit
  /\ it \in Base(first) .. Base(last) /\ Pos(it) = 0
  /\ result \in first .. last
  /\ pc \in {"start", "words", "done"}
  /\ used \in SUBSET Int

\* find returns the first bit of the range that is bv, and last when there is
\* none: bits of the words before first or from last on are never taken for it.
FindCorrect ==
  pc = "done" => result = Min({a \in first .. (last - 1) : mem[a] = bv} \cup {last})

\* The words left behind hold no bv of the range.
NothingMissed ==
  pc = "words" => \A a \in first .. (it - 1) : mem[a] # bv

\* A word the search dereferences holds a bit of the range: the word an aligned
\* last points to, one past the end, is not read.
AccessInRange == \A b \in used : Holds(b, first, last)
=============================================================================
