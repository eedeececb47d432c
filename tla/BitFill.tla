------------------------------ MODULE BitFill ------------------------------
(***************************************************************************)
(* bit::fill (fill.hpp): sets every bit of [first, last) to bv.  One       *)
(* behaviour is one call, one step one word written.  The Highway path     *)
(* (BITLIB_HWY) only batches the stores of FillWord and is left out.       *)
(***************************************************************************)
EXTENDS BitWord

CONSTANT One    \* the value of bit1, a member of Bit; Zero is that of bit0

VARIABLES
  mem,            \* the words, as one array of bits
  orig,           \* history: mem when fill was called
  first, last,    \* the range
  bv,             \* the value it is filled with
  it,             \* the local it: the word written next
  pc,             \* what the code does next
  used,           \* history: the words the last step dereferenced
  shifts          \* history: the shift counts the last step used

vars == <<mem, orig, first, last, bv, it, pc, used, shifts>>

Call == <<orig, first, last, bv>>

fill_word == [i \in BitPos |-> bv]

Init ==
  /\ orig \in [Addr -> Bit]
  /\ mem = orig
  /\ first \in 0 .. MemBits /\ last \in 0 .. MemBits /\ first <= last
  /\ bv \in {Zero, One}
  /\ it = Base(first)
  /\ pc = "start"
  /\ used = {} /\ shifts = {}

\* write_word<word_type>(fill_word, dst, n)
WriteFill(dst, n) ==
  /\ mem' = WriteWord(mem, fill_word, dst, n)
  /\ used' = WriteWordWords(dst, n)
  /\ shifts' = WriteWordShifts(dst, n)

\* Nothing to fill, or a word's worth of bits at most.
Empty ==
  /\ pc = "start"
  /\ last - first = 0
  /\ used' = {} /\ shifts' = {}
  /\ pc' = "done"
  /\ UNCHANGED <<Call, mem, it>>

OneWrite ==
  /\ pc = "start"
  /\ last - first # 0
  /\ IsWithin(first, last)
  /\ WriteFill(first, last - first)
  /\ pc' = "done"
  /\ UNCHANGED <<Call, it>>

\* The bits of first's word, when first is not aligned.
Head ==
  /\ pc = "start"
  /\ ~IsWithin(first, last)
  /\ IF Pos(first) # 0
       THEN WriteFill(first, W - Pos(first)) /\ it' = it + W
       ELSE used' = {} /\ shifts' = {} /\ UNCHANGED <<mem, it>>
  /\ pc' = "words"
  /\ UNCHANGED Call

\* One word of std::fill(it, last.base(), fill_word).
FillWord ==
  /\ pc = "words"
  /\ it # Base(last)
  /\ mem' = Store(mem, it, fill_word)
  /\ used' = {it} /\ shifts' = {}
  /\ it' = it + W
  /\ UNCHANGED <<Call, pc>>

\* A faulty Tail: the word of an aligned last is written as well.
TailAlways ==
  /\ pc = "words"
  /\ it = Base(last)
  /\ WriteFill(it, IF Pos(last) = 0 THEN W ELSE Pos(last))
  /\ pc' = "done"
  /\ UNCHANGED <<Call, it>>

\* The bits of last's word, when last is not aligned.
Tail ==
  /\ pc = "words"
  /\ it = Base(last)
  /\ IF Pos(last) # 0
       THEN WriteFill(it, Pos(last))
       ELSE used' = {} /\ shifts' = {} /\ UNCHANGED mem
  /\ pc' = "done"
  /\ UNCHANGED <<Call, it>>

Finished ==
  /\ pc = "done"
  /\ UNCHANGED vars

Next == Empty \/ OneWrite \/ Head \/ FillWord \/ Tail \/ Finished

Spec == Init /\ [][Next]_vars

----------------------------------------------------------------------------
(* Properties                                                              *)

TypeOK ==
  /\ orig \in [Addr -> Bit] /\ mem \in [Addr -> Bit]
  /\ first \in Nat /\ last \in Nat /\ first <= last /\ last <= MemBits
  /\ bv \in Bit /\ it \in 0 .. MemBits
  /\ pc \in {"start", "words", "done"}
  /\ used \in SUBSET Int /\ shifts \in SUBSET Int

Filled(a) == first <= a /\ a < last

\* When fill returns, every bit of the range is bv.
FillCorrect == pc = "done" => \A a \in Addr : Filled(a) => mem[a] = bv

\* At no moment has a bit outside the range changed, in particular not the
\* neighbours in a partly covered first or last word.
OutsideIntact == \A a \in Addr : ~Filled(a) => mem[a] = orig[a]

\* A word the fill dereferences holds a bit of the range: an aligned last, one
\* past the end, is not written.
AccessInRange == \A b \in used : Holds(b, first, last)

\* Every shift count is one C++ defines (assertion of lsr, bit_details.hpp:253).
ShiftsDefined == \A k \in shifts : ShiftDefined(k)
=============================================================================
