------------------------------ MODULE BitCount ------------------------------
(***************************************************************************)
(* bit::count (count.hpp): the number of bits of [first, last) that are    *)
(* value.  One behaviour is one call: the bits of first's word, the whole  *)
(* words (libpopcnt's popcnt over their bytes), the bits of last's word;   *)
(* or the field of one word.                                               *)
(***************************************************************************)
EXTENDS BitWord, FiniteSets

CONSTANT One    \* the value of bit1; Zero is that of bit0

VARIABLES
  mem,            \* the words, as one array of bits; count never writes them
  first, last,    \* the range
  value,          \* the value counted
  it,             \* the local it: the first word not counted yet
  result,         \* the local result, then the number returned
  pc,             \* what the code does next
  used            \* history: the words the last step dereferenced

vars == <<mem, first, last, value, it, result, pc, used>>

Call == <<mem, first, last, value>>

Init ==
  /\ mem \in [Addr -> Bit]
  /\ first \in 0 .. MemBits /\ last \in 0 .. MemBits /\ first <= last
  /\ value \in Bit
  /\ it = Base(first) /\ result = 0
  /\ pc = "start"
  /\ used = {}

PopCount(w) == Cardinality({i \in BitPos : w[i] = One})

\* popcnt over the words from b to e - 1.
PopCountWords(b, e) == Cardinality({a \in b .. (e - 1) : mem[a] = One})

\* std::popcount(_bextr(*first.base(), position, len)): of the word only the
\* len bits at position are looked at.
PopCountField(a, len) == Cardinality({i \in a .. (a + len - 1) : mem[i] = One})

\* A faulty Several: an aligned first word is left out.
SeveralSkipping ==
  /\ pc = "start"
  /\ Base(first) # Base(last)
  /\ result' = IF Pos(first) = 0 THEN 0 ELSE PopCount(Lsr(Load(mem, it), Pos(first)))
  /\ it' = it + W
  /\ used' = {it}
  /\ pc' = "words"
  /\ UNCHANGED Call

\* The range lies in several words: those of first's that are in it.
Several ==
  /\ pc = "start"
  /\ Base(first) # Base(last)
  /\ IF Pos(first) # 0
       THEN /\ result' = PopCount(Lsr(Load(mem, it), Pos(first)))
            /\ it' = it + W
            /\ used' = {it}
       ELSE used' = {} /\ UNCHANGED <<result, it>>
  /\ pc' = "words"
  /\ UNCHANGED Call

Words ==
  /\ pc = "words"
  /\ result' = result + PopCountWords(it, Base(last))
  /\ used' = {b \in it .. (Base(last) - 1) : Pos(b) = 0}
  /\ it' = Base(last)
  /\ pc' = "last"
  /\ UNCHANGED Call

\* A faulty LastWord: the word of an aligned last is counted as well.
LastWordAlways ==
  /\ pc = "last"
  /\ result' = IF Pos(last) = 0 THEN result
               ELSE result + PopCount(Lsl(Load(mem, it), W - Pos(last)))
  /\ used' = {it}
  /\ pc' = "value"
  /\ UNCHANGED <<Call, it>>

\* A faulty LastWord: shifted by the position instead of what is above it.
LastWordUnshifted ==
  /\ pc = "last"
  /\ result' = IF Pos(last) = 0 THEN result
               ELSE result + PopCount(Lsl(Load(mem, it), Pos(last)))
  /\ used' = IF Pos(last) = 0 THEN {} ELSE {it}
  /\ pc' = "value"
  /\ UNCHANGED <<Call, it>>

\* The bits of last's word below last, when last is not aligned.
LastWord ==
  /\ pc = "last"
  /\ IF Pos(last) # 0
       THEN /\ result' = result + PopCount(Lsl(Load(mem, it), W - Pos(last)))
            /\ used' = {it}
       ELSE used' = {} /\ UNCHANGED result
  /\ pc' = "value"
  /\ UNCHANGED <<Call, it>>

\* The range lies in one word; it is read even when the range is empty.
InWord ==
  /\ pc = "start"
  /\ Base(first) = Base(last)
  /\ result' = PopCountField(first, Pos(last) - Pos(first))
  /\ used' = {Base(first)}
  /\ pc' = "value"
  /\ UNCHANGED <<Call, it>>

\* The zero bits are those that are not one.
Negate ==
  /\ pc = "value"
  /\ result' = IF value = Zero THEN (last - first) - result ELSE result
  /\ used' = {}
  /\ pc' = "done"
  /\ UNCHANGED <<Call, it>>

Finished ==
  /\ pc = "done"
  /\ UNCHANGED vars

Next == Several \/ Words \/ LastWord \/ InWord \/ Negate \/ Finished

Spec == Init /\ [][Next]_vars

----------------------------------------------------------------------------
(* Properties                                                              *)

\* Types; and there are never more ones than bits.
TypeOK ==
  /\ mem \in [Addr -> Bit]
  /\ first \in Nat /\ last \in Nat /\ first <= last /\ last <= MemBits
  /\ value \in Bit
  /\ it \in Base(first) .. Base(last)
  /\ result \in 0 .. (last - first)
  /\ pc \in {"start", "words", "last", "value", "done"}
  /\ used \in SUBSET Int

\* count returns the number of bits of the range that are value: no bit of a
\* partly covered first or last word outside the range is counted.
CountCorrect ==
  pc = "done" => result = Cardinality({a \in first .. (last - 1) : mem[a] = value})

\* Between the passes the ones of the range below it have been counted, each once.
PartialCount ==
  pc \in {"words", "last"} =>
    result = Cardinality({a \in first .. (it - 1) : mem[a] = One})

\* A word count dereferences holds a bit of the range, unless the range is empty.
AccessInRange == \A b \in used : first # last => Holds(b, first, last)

\* A word count dereferences is one of the memory the range lies in, as for
\* std::count, which dereferences nothing of an empty range (README.md:364).
AccessInMemory == \A b \in used : b \in Addr
=============================================================================
