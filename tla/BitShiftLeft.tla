---------------------------- MODULE BitShiftLeft ----------------------------
(***************************************************************************)
(* bit::shift_left (shift.hpp): moves the bits [first + n, last) down to   *)
(* first.  One behaviour is one call; a step is one store, or the two that *)
(* join a word from two neighbours.  The Highway path (BITLIB_HWY) only    *)
(* batches ShrdWord and is left out.                                       *)
(***************************************************************************)
EXTENDS BitWord

VARIABLES
  mem,              \* the words, as one array of bits
  orig,             \* history: mem when shift_left was called
  begin, end, n,    \* the call: first, last and n
  first, middle,    \* the locals first and middle, moved on as bits are moved
  ret,              \* the iterator returned
  pc,               \* what the code does next
  used,             \* history: the words the last step dereferenced
  shifts            \* history: the shift counts the last step used

vars == <<mem, orig, begin, end, n, first, middle, ret, pc, used, shifts>>

Call == <<orig, begin, end, n>>
last == end
d    == end - begin

is_last_aligned == Pos(last) = 0

\* One past the position of the range's last bit in its word.
LastPos == IF is_last_aligned THEN W ELSE Pos(last)

\* Init lets n be out of range on both sides.
Init ==
  /\ orig \in [Addr -> Bit]
  /\ mem = orig
  /\ begin \in 0 .. MemBits /\ end \in 0 .. MemBits /\ begin <= end
  /\ n \in -1 .. (MemBits + 1)
  /\ first = begin /\ middle = begin + n
  /\ ret = begin
  /\ pc = "start"
  /\ used = {} /\ shifts = {}

\* What a step that stops here does to the rest of the state.
Return(r) ==
  /\ pc' = "done"
  /\ ret' = r
  /\ UNCHANGED <<Call, middle>>

\* Out of range cases.
OutOfRange ==
  /\ pc = "start"
  /\ n <= 0 \/ n >= d
  /\ Return(IF n <= 0 THEN last ELSE first)
  /\ used' = {} /\ shifts' = {}
  /\ UNCHANGED <<mem, first>>

\* std::next(first.base(), is_last_aligned) == last.base()
SingleWord == Base(first) + (IF is_last_aligned THEN W ELSE 0) = Base(last)

\* All the bits are in first's word: shift it, without the bits from last on,
\* and blend the result in.
ShiftInWord ==
  LET b == Base(first)
  IN  /\ pc = "start"
      /\ 0 < n /\ n < d
      /\ SingleWord
      /\ mem' = Store(mem, b, BitBlend(Load(mem, b), Lsr(MaskLow(Load(mem, b), LastPos), n),
                                       Pos(first), LastPos - Pos(first)))
      /\ used' = {b} /\ shifts' = {W - LastPos, n}
      /\ Return(first + d - n)
      /\ UNCHANGED first

\* All remaining bits fit in a word.
MoveOneWord ==
  LET len == d - n
  IN  /\ pc = "start"
      /\ 0 < n /\ n < d
      /\ ~SingleWord
      /\ len <= W
      /\ mem' = WriteWord(mem, GetWord(mem, middle, len), first, len)
      /\ used' = GetWordLoads(middle, len) \cup WriteWordWords(first, len)
      /\ shifts' = GetWordShifts(middle, len) \cup WriteWordShifts(first, len)
      /\ Return(first + d - n)
      /\ UNCHANGED first

\* The bits of first's word from first on come from middle's word alone ...
AlignFromOne ==
  LET b == Base(first)
  IN  /\ Pos(first) >= Pos(middle)
      /\ mem' = Store(mem, b, BitBlend(Load(mem, b),
                                Lsl(Load(mem, Base(middle)), Pos(first) - Pos(middle)),
                                Pos(first), W - Pos(first)))
      /\ used' = {b, Base(middle)} /\ shifts' = {Pos(first) - Pos(middle)}

\* ... or the n1 first ones from middle's word and the n2 others from the next.
AlignFromTwo ==
  LET b    == Base(first)
      next == Base(middle) + W
      n1   == W - Pos(middle)
      n2   == W - Pos(first) - n1
      m1   == Store(mem, b, BitBlend(Load(mem, b),
                              Lsr(Load(mem, Base(middle)), Pos(middle) - Pos(first)),
                              Pos(first), n1))
  IN  /\ Pos(first) < Pos(middle)
      /\ mem' = Store(m1, b, BitBlend(Load(m1, b), Lsl(Load(m1, next), W - n2),
                                      Pos(first) + n1, n2))
      /\ used' = {b, Base(middle), next}
      /\ shifts' = {Pos(middle) - Pos(first), W - n2}

\* Align first.
AlignFirst ==
  LET shifted == Least(d - n, W - Pos(first))
  IN  /\ pc = "start"
      /\ 0 < n /\ n < d
      /\ ~SingleWord
      /\ d - n > W
      /\ IF Pos(first) # 0
           THEN /\ AlignFromOne \/ AlignFromTwo
                /\ first' = first + shifted
                /\ middle' = middle + shifted
           ELSE used' = {} /\ shifts' = {} /\ UNCHANGED <<mem, first, middle>>
      /\ pc' = "aligned"
      /\ UNCHANGED <<Call, ret>>

\* The bits left are in one word: if (middle.base() == last.base()).
LastWordOnly ==
  LET left == Pos(last) - Pos(middle)
      b    == Base(first)
  IN  /\ pc = "aligned"
      /\ Base(middle) = Base(last)
      /\ IF left > 0
           THEN /\ mem' = Store(mem, b, BitBlend(Load(mem, b),
                                          Lsr(Load(mem, Base(middle)), Pos(middle)), 0, left))
                /\ used' = {b, Base(middle)} /\ shifts' = {Pos(middle)}
                /\ first' = first + left
           ELSE used' = {} /\ shifts' = {} /\ UNCHANGED <<mem, first>>
      /\ Return(first')

\* word_shifts
word_shifts == n \div W

\* STD_SHIFT_LEFT(first.base(), last.base(), word_shifts): the words are moved
\* down, those vacated keep what they held.
WordShiftLeft(m) ==
  [a \in Addr |-> IF Base(first) <= a /\ a < Base(last) - word_shifts * W
                    THEN m[a + word_shifts * W] ELSE m[a]]

\* middle is aligned too: shift words, then the bits of a partial last word.
ShiftWords ==
  LET moved == {Base(first) + k * W : k \in 0 .. ((Base(last) - Base(first)) \div W - 1)}
      m1    == WordShiftLeft(mem)
      f     == Base(last) - word_shifts * W
  IN  /\ pc = "aligned"
      /\ Base(middle) # Base(last)
      /\ Pos(middle) = 0
      /\ IF is_last_aligned
           THEN /\ mem' = m1
                /\ used' = moved /\ shifts' = {}
                /\ first' = f
           ELSE /\ mem' = WriteWord(m1, Load(m1, Base(last)), f, Pos(last))
                /\ used' = moved \cup {Base(last)} \cup WriteWordWords(f, Pos(last))
                /\ shifts' = WriteWordShifts(f, Pos(last))
                /\ first' = f + Pos(last)
      /\ Return(first')

\* A faulty ShrdLeft: the words are joined up to last's, also when last is
\* aligned and its word outside the range.
ShrdToLast == Base(middle) + W <= Base(last)

\* while (std::next(middle_base) < last.base())
ShrdLeft == Base(middle) + W < Base(last)

\* A faulty ShrdWord: middle does not move on with first.
ShrdWordStuck ==
  /\ pc = "aligned"
  /\ Base(middle) # Base(last)
  /\ Pos(middle) # 0
  /\ ShrdLeft
  /\ mem' = Store(mem, Base(first),
              Shrd(Load(mem, Base(middle)), Load(mem, Base(middle) + W), Pos(middle)))
  /\ used' = {Base(first), Base(middle), Base(middle) + W}
  /\ shifts' = {Pos(middle), W - Pos(middle)}
  /\ first' = first + W
  /\ UNCHANGED <<Call, middle, ret, pc>>

\* A faulty ShrdWord: first does not move on with middle.
ShrdWordInPlace ==
  /\ pc = "aligned"
  /\ Base(middle) # Base(last)
  /\ Pos(middle) # 0
  /\ ShrdLeft
  /\ mem' = Store(mem, Base(first),
              Shrd(Load(mem, Base(middle)), Load(mem, Base(middle) + W), Pos(middle)))
  /\ used' = {Base(first), Base(middle), Base(middle) + W}
  /\ shifts' = {Pos(middle), W - Pos(middle)}
  /\ middle' = middle + W
  /\ UNCHANGED <<Call, first, ret, pc>>

\* One iteration: two neighbouring words are joined into one.
ShrdWord ==
  /\ pc = "aligned"
  /\ Base(middle) # Base(last)
  /\ Pos(middle) # 0
  /\ ShrdLeft
  /\ mem' = Store(mem, Base(first),
              Shrd(Load(mem, Base(middle)), Load(mem, Base(middle) + W), Pos(middle)))
  /\ used' = {Base(first), Base(middle), Base(middle) + W}
  /\ shifts' = {Pos(middle), W - Pos(middle)}
  /\ first' = first + W
  /\ middle' = middle + W
  /\ UNCHANGED <<Call, ret, pc>>

\* middle is in the last word but one: the rest of it goes to the low bits of
\* first's word.
Penultimate ==
  LET left == W - Pos(middle)
      b    == Base(first)
  IN  /\ pc = "aligned"
      /\ Base(middle) # Base(last)
      /\ Pos(middle) # 0
      /\ ~ShrdLeft
      /\ Base(middle) + W = Base(last)
      /\ mem' = Store(mem, b, BitBlend(Load(mem, b),
                                Lsr(Load(mem, Base(middle)), Pos(middle)), 0, left))
      /\ used' = {b, Base(middle)} /\ shifts' = {Pos(middle)}
      /\ first' = first + left
      /\ middle' = middle + left
      /\ pc' = "tail"
      /\ UNCHANGED <<Call, ret>>

\* The bits of a partial last word.
Tail ==
  LET left == Pos(last) - Pos(middle)
  IN  /\ pc = "tail"
      /\ IF is_last_aligned
           THEN used' = {} /\ shifts' = {} /\ UNCHANGED <<mem, first>>
           ELSE /\ mem' = WriteWord(mem, GetWord(mem, middle, left), first, left)
                /\ used' = GetWordLoads(middle, left) \cup WriteWordWords(first, left)
                /\ shifts' = GetWordShifts(middle, left) \cup WriteWordShifts(first, left)
                /\ first' = first + left
      /\ Return(first')

Finished ==
  /\ pc = "done"
  /\ UNCHANGED vars

Next ==
  \/ OutOfRange \/ ShiftInWord \/ MoveOneWord \/ AlignFirst \/ LastWordOnly
  \/ ShiftWords \/ ShrdWord \/ Penultimate \/ Tail \/ Finished

Spec == Init /\ [][Next]_vars

----------------------------------------------------------------------------
(* Properties                                                              *)

TypeOK ==
  /\ orig \in [Addr -> Bit] /\ mem \in [Addr -> Bit]
  /\ begin \in 0 .. MemBits /\ end \in 0 .. MemBits /\ begin <= end /\ n \in Int
  /\ first \in begin .. end /\ ret \in begin .. end
  /\ middle \in Int /\ (0 < n /\ n < d => middle \in begin .. end)
  /\ pc \in {"start", "aligned", "tail", "done"}
  /\ used \in SUBSET Int /\ shifts \in SUBSET Int

\* Bits the shift really moves.
Kept == IF 0 < n /\ n < d THEN d - n ELSE 0

\* When shift_left returns, the bits from first + n on are at first, and the
\* iterator returned is the end of the range they now occupy: last for n <= 0
\* and first, nothing having moved, for n >= d.
ShiftCorrect ==
  pc = "done" =>
    /\ \A i \in 0 .. (Kept - 1) : mem[begin + i] = orig[begin + n + i]
    /\ ret = IF n <= 0 THEN end ELSE begin + Kept
    /\ Kept = 0 => mem = orig

\* No bit outside [first, last) changes at any moment: the neighbours that share
\* the first or the last word of the range keep their values.
OutsideIntact == \A a \in Addr : ~(begin <= a /\ a < end) => mem[a] = orig[a]

\* The bits still to be moved, from middle on, are those of the call: the
\* shift never overwrites a bit it has not read.
SourceIntact ==
  pc \in {"start", "aligned", "tail"} /\ n > 0 =>
    \A a \in middle .. (end - 1) : mem[a] = orig[a]

\* A word dereferenced holds a bit of the range: the word of an aligned last,
\* one past the end, is never read.
AccessInRange == \A b \in used : Holds(b, begin, end)

\* Every shift count is one C++ defines (assertion of lsr and lsl,
\* bit_details.hpp:253 and 277); it matters where a position is 0.
ShiftsDefined == \A k \in shifts : ShiftDefined(k)

\* The word-level algorithm implements the bit-level promise: the kept bits
\* arrive, the vacated ones are free, nothing else is written.
Move ==
  INSTANCE SequenceMove WITH
    src   <- begin + n,
    dst   <- begin,
    len   <- Kept,
    free  <- IF Kept = 0 THEN {} ELSE (begin + Kept) .. (end - 1),
    moved <- IF pc = "done" THEN 0 .. (Kept - 1) ELSE 0 .. (first - begin - 1)

MoveSpec == Move!Spec
=============================================================================
