--------------------------- MODULE BitShiftRight ---------------------------
(***************************************************************************)
(* bit::shift_right (shift.hpp): moves the bits [first, last - n) up so    *)
(* that they end at last.  One behaviour is one call, one step one store   *)
(* or one write_word.  The Highway path (BITLIB_HWY) only batches ShrdWord *)
(* and is left out.                                                        *)
(***************************************************************************)
EXTENDS BitWord

VARIABLES
  mem,              \* the words, as one array of bits
  orig,             \* history: mem when shift_right was called
  begin, end, n,    \* the call: first, last and n
  middle, last,     \* the locals middle and last, moved back as bits are moved
  ret,              \* the iterator returned
  pc,               \* what the code does next
  used,             \* history: the words the last step dereferenced
  shifts            \* history: the shift counts the last step used

vars == <<mem, orig, begin, end, n, middle, last, ret, pc, used, shifts>>

Call  == <<orig, begin, end, n>>
first == begin
d     == end - begin

Init ==
  /\ orig \in [Addr -> Bit]
  /\ mem = orig
  /\ begin \in 0 .. MemBits /\ end \in 0 .. MemBits /\ begin <= end
  /\ n \in -1 .. (MemBits + 1)
  /\ middle = end - n /\ last = end
  /\ ret = begin
  /\ pc = "start"
  /\ used = {} /\ shifts = {}

Return(r) ==
  /\ pc' = "done"
  /\ ret' = r
  /\ UNCHANGED Call

\* A step that writes no memory.
NoAccess == used' = {} /\ shifts' = {} /\ UNCHANGED mem

\* Out of range cases.
OutOfRange ==
  /\ pc = "start"
  /\ n <= 0 \/ n >= d
  /\ Return(IF n <= 0 THEN first ELSE last)
  /\ NoAccess
  /\ UNCHANGED <<middle, last>>

\* std::next(first.base(), is_last_aligned) == last.base()
SingleWord == Base(first) + (IF Pos(end) = 0 THEN W ELSE 0) = Base(end)

\* src with the bits below start cleared.
MaskFrom(w, start) == [i \in BitPos |-> IF start <= i THEN w[i] ELSE Zero]

\* All the bits are in first's word: shift it, without the bits before first,
\* and blend the result in.
ShiftInWord ==
  LET b       == Base(first)
      LastPos == IF Pos(end) = 0 THEN W ELSE Pos(end)
  IN  /\ pc = "start"
      /\ 0 < n /\ n < d
      /\ SingleWord
      /\ mem' = Store(mem, b, BitBlend(Load(mem, b), Lsl(MaskFrom(Load(mem, b), Pos(first)), n),
                                       Pos(first), LastPos - Pos(first)))
      /\ used' = {b} /\ shifts' = {Pos(first), n}
      /\ Return(first + n)
      /\ UNCHANGED <<middle, last>>

\* write_word(get_word(src, len), dst, len)
MoveBits(src, dst, len) ==
  /\ mem' = WriteWord(mem, GetWord(mem, src, len), dst, len)
  /\ used' = GetWordLoads(src, len) \cup WriteWordWords(dst, len)
  /\ shifts' = GetWordShifts(src, len) \cup WriteWordShifts(dst, len)

\* bits_to_align: the bits of last's word, or all there are.
AlignBits == Least(Pos(last), middle - first)

\* Align last.
AlignLast ==
  LET bits == AlignBits
  IN  /\ pc = "start"
      /\ 0 < n /\ n < d
      /\ ~SingleWord
      /\ Pos(last) # 0
      /\ MoveBits(middle - bits, last - bits, bits)
      /\ middle' = middle - bits
      /\ last' = last - bits
      /\ IF middle' = first
           THEN Return(first + n)
           ELSE pc' = "aligned" /\ UNCHANGED <<Call, ret>>

LastAligned ==
  /\ pc = "start"
  /\ 0 < n /\ n < d
  /\ ~SingleWord
  /\ Pos(last) = 0
  /\ pc' = "aligned"
  /\ NoAccess
  /\ UNCHANGED <<Call, middle, last, ret>>

\* word_shifts
word_shifts == n \div W

\* STD_SHIFT_RIGHT(first.base(), last.base(), word_shifts): the words are moved
\* up, those vacated keep what they held. The bits before first that move with
\* first's word land among the vacated bits.
ShiftWords ==
  /\ pc = "aligned"
  /\ Pos(middle) = 0
  /\ mem' = [a \in Addr |-> IF Base(first) + word_shifts * W <= a /\ a < Base(last)
                              THEN mem[a - word_shifts * W] ELSE mem[a]]
  /\ used' = {Base(first) + k * W : k \in 0 .. ((Base(last) - Base(first)) \div W - 1)}
  /\ shifts' = {}
  /\ Return(first + n)
  /\ UNCHANGED <<middle, last>>

\* if (bit::distance(first, middle) >= digits), when the words do not line up.
WordsOrTail ==
  /\ pc = "aligned"
  /\ Pos(middle) # 0
  /\ pc' = IF middle - first >= W THEN "words" ELSE "tail"
  /\ NoAccess
  /\ UNCHANGED <<Call, middle, last, ret>>

\* Two neighbouring words are joined into the word before last.
JoinWord ==
  LET prev == Base(middle) - W
  IN  /\ mem' = Store(mem, Base(last) - W,
                  Shrd(Load(mem, prev), Load(mem, Base(middle)), Pos(middle)))
      /\ used' = {Base(last) - W, prev, Base(middle)}
      /\ shifts' = {Pos(middle), W - Pos(middle)}
      /\ middle' = middle - W
      /\ last' = last - W

\* while (middle_base_prev > first.base())
ShrdWord ==
  /\ pc = "words"
  /\ Base(middle) - W > Base(first)
  /\ JoinWord
  /\ UNCHANGED <<Call, ret, pc>>

\* A faulty JoinFirst: the bits before first are not looked out for.
JoinFirstAlways == TRUE

\* first.position() <= middle.position(): a whole word of the range is left in
\* the two last words.
JoinFirst == Pos(first) <= Pos(middle)

WordsDone ==
  /\ pc = "words"
  /\ ~(Base(middle) - W > Base(first))
  /\ IF JoinFirst THEN JoinWord ELSE NoAccess /\ UNCHANGED <<middle, last>>
  /\ pc' = "tail"
  /\ UNCHANGED <<Call, ret>>

\* The bits left at the beginning of the range.
Tail ==
  LET bits == middle - first
  IN  /\ pc = "tail"
      /\ IF Pos(first) # Pos(middle)
           THEN MoveBits(first, last - bits, bits)
           ELSE NoAccess
      /\ Return(first + n)
      /\ UNCHANGED <<middle, last>>

Finished ==
  /\ pc = "done"
  /\ UNCHANGED vars

Next ==
  \/ OutOfRange \/ ShiftInWord \/ AlignLast \/ LastAligned \/ ShiftWords
  \/ WordsOrTail \/ ShrdWord \/ WordsDone \/ Tail \/ Finished

Spec == Init /\ [][Next]_vars

----------------------------------------------------------------------------
(* Properties                                                              *)

TypeOK ==
  /\ orig \in [Addr -> Bit] /\ mem \in [Addr -> Bit]
  /\ begin \in 0 .. MemBits /\ end \in 0 .. MemBits /\ begin <= end /\ n \in Int
  /\ middle \in Int /\ (0 < n /\ n < d => middle \in begin .. end)
  /\ last \in begin .. end /\ ret \in begin .. end
  /\ pc \in {"start", "aligned", "words", "tail", "done"}
  /\ used \in SUBSET Int /\ shifts \in SUBSET Int

\* Bits the shift really moves.
Kept == IF 0 < n /\ n < d THEN d - n ELSE 0

\* When shift_right returns, the bits from first on are at first + n, and the
\* iterator returned is where they now begin: first for n <= 0 and last, nothing
\* having moved, for n >= d.
ShiftCorrect ==
  pc = "done" =>
    /\ \A i \in 0 .. (Kept - 1) : mem[begin + n + i] = orig[begin + i]
    /\ ret = IF n <= 0 THEN begin ELSE end - Kept
    /\ Kept = 0 => mem = orig

\* No bit outside [first, last) changes at any moment, those that share the
\* first or the last word of the range included.
OutsideIntact == \A a \in Addr : ~(begin <= a /\ a < end) => mem[a] = orig[a]

\* The bits still to be moved, those before middle, are those of the call.
SourceIntact ==
  pc # "done" /\ n > 0 => \A a \in begin .. (middle - 1) : mem[a] = orig[a]

\* A word dereferenced holds a bit of the range: the word of an aligned last,
\* one past the end, is neither read nor written.
AccessInRange == \A b \in used : Holds(b, begin, end)

\* Every shift count is one C++ defines (assertion of lsr and lsl,
\* bit_details.hpp:253 and 277).
ShiftsDefined == \A k \in shifts : ShiftDefined(k)

\* The word-level algorithm implements the bit-level promise: the kept bits
\* arrive from the end, the vacated ones are free, nothing else is written.
Move ==
  INSTANCE SequenceMove WITH
    src   <- begin,
    dst   <- begin + n,
    len   <- Kept,
    free  <- IF Kept = 0 THEN {} ELSE begin .. (begin + n - 1),
    moved <- IF pc = "done" THEN 0 .. (Kept - 1)
             ELSE (Kept - (end - last)) .. (Kept - 1)

MoveSpec == Move!Spec
=============================================================================
