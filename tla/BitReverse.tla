----------------------------- MODULE BitReverse -----------------------------
(***************************************************************************)
(* bit::reverse (reverse.hpp): reverses the bits [first, last).  The words *)
(* that hold the range are reversed as a whole, bits before first and      *)
(* after last included; then the range is shifted back into place and the  *)
(* bits around it, saved before, are blended back into the first and the   *)
(* last word.  A step is one of these passes.                              *)
(*                                                                         *)
(* shift_left and shift_right are taken by their contracts, which          *)
(* BitShiftLeft and BitShiftRight check of the code: the bits they vacate  *)
(* get the name Zero, which no bit has in the instances checked.           *)
(***************************************************************************)
EXTENDS BitWord

VARIABLES
  mem,                      \* the words, as one array of bits
  orig,                     \* history: mem when reverse was called
  first, last,              \* the call
  first_value, last_value,  \* the words saved
  pc,                       \* what the code does next
  used,                     \* history: the words the last step dereferenced
  shifts                    \* history: the shift counts the last step used

vars == <<mem, orig, first, last, first_value, last_value, pc, used, shifts>>

Call  == <<orig, first, last>>
Saved == <<first_value, last_value>>

is_first_aligned == Pos(first) = 0
is_last_aligned  == Pos(last) = 0

\* A faulty gap: an aligned last leaves a whole word.
GapOfWord == W - Pos(last)

\* The bits of the last word from last on.
gap == IF is_last_aligned THEN 0 ELSE W - Pos(last)

\* The end of the words that hold the range:
\* std::next(last.base(), !is_last_aligned).
WordsEnd == Base(last) + (IF is_last_aligned THEN 0 ELSE W)

Words == {b \in Addr : Base(first) <= b /\ b < WordsEnd /\ Pos(b) = 0}

NoWord == [i \in BitPos |-> Zero]

Init ==
  /\ orig \in [Addr -> Bit]
  /\ mem = orig
  /\ first \in 0 .. MemBits /\ last \in 0 .. MemBits /\ first <= last
  /\ first_value = NoWord /\ last_value = NoWord
  /\ pc = "start"
  /\ used = {} /\ shifts = {}

BitSwap(w) == [i \in BitPos |-> w[W - 1 - i]]

\* std::reverse and std::transform with _bitswap, over the words at Words.
ReverseWords(m) ==
  [a \in Addr |->
     IF Base(a) \in Words
       THEN BitSwap(Load(m, WordsEnd - W - (Base(a) - Base(first))))[Pos(a)]
       ELSE m[a]]

Accessed(words, counts) == used' = words /\ shifts' = counts

\* Both iterators are aligned.
Aligned ==
  /\ pc = "start"
  /\ is_first_aligned /\ is_last_aligned
  /\ mem' = ReverseWords(mem)
  /\ Accessed(Words, {})
  /\ pc' = "done"
  /\ UNCHANGED <<Call, Saved>>

\* A faulty InWord: the reversed bits are brought down to the bottom of the word.
InWordToBottom ==
  LET b == Base(first)
      w == Lsr(BitSwap(Lsr(Load(mem, b), Pos(first))), W - (last - first))
  IN  /\ pc = "start"
      /\ ~(is_first_aligned /\ is_last_aligned)
      /\ Base(first) = Base(last)
      /\ mem' = Store(mem, b, BitBlend(Load(mem, b), w, Pos(first), last - first))
      /\ Accessed({b}, {Pos(first), W - (last - first)})
      /\ pc' = "done"
      /\ UNCHANGED <<Call, Saved>>

\* They belong to one word.
InWord ==
  LET b == Base(first)
      w == Lsr(BitSwap(Lsr(Load(mem, b), Pos(first))), gap)
  IN  /\ pc = "start"
      /\ ~(is_first_aligned /\ is_last_aligned)
      /\ Base(first) = Base(last)
      /\ mem' = Store(mem, b, BitBlend(Load(mem, b), w, Pos(first), last - first))
      /\ Accessed({b}, {Pos(first), gap})
      /\ pc' = "done"
      /\ UNCHANGED <<Call, Saved>>

\* A faulty SaveAndReverse: the range in one word is reversed this way too.
SaveAndReverseAlways ==
  /\ pc = "start"
  /\ ~(is_first_aligned /\ is_last_aligned)
  /\ first_value' = Load(mem, Base(first))
  /\ last_value' = Load(mem, WordsEnd - W)
  /\ mem' = ReverseWords(mem)
  /\ Accessed(Words, {})
  /\ pc' = "shift"
  /\ UNCHANGED Call

\* They do not: the first and the last word are saved, all of them reversed.
SaveAndReverse ==
  /\ pc = "start"
  /\ ~(is_first_aligned /\ is_last_aligned)
  /\ Base(first) # Base(last)
  /\ first_value' = Load(mem, Base(first))
  /\ last_value' = Load(mem, WordsEnd - W)
  /\ mem' = ReverseWords(mem)
  /\ Accessed(Words, {})
  /\ pc' = "shift"
  /\ UNCHANGED Call

\* The words shifted down by n bits, or up by -n.
ShiftedWords(m, n) ==
  [a \in Addr |-> IF ~(Base(a) \in Words) THEN m[a]
                  ELSE IF Base(first) <= a + n /\ a + n < WordsEnd THEN m[a + n]
                  ELSE Zero]

\* A faulty ShiftBack: the shift does not see the bits before first.
ShiftBackByGap ==
  /\ pc = "shift"
  /\ mem' = ShiftedWords(mem, gap)
  /\ Accessed(Words, {})
  /\ pc' = "first"
  /\ UNCHANGED <<Call, Saved>>

\* shift_left or shift_right brings the reversed range back to first.
ShiftBack ==
  /\ pc = "shift"
  /\ mem' = ShiftedWords(mem, gap - Pos(first))
  /\ Accessed(IF gap = Pos(first) THEN {} ELSE Words, {})
  /\ pc' = "first"
  /\ UNCHANGED <<Call, Saved>>

\* The bits before first are blended back ...
BlendFirst ==
  LET b == Base(first)
  IN  /\ pc = "first"
      /\ IF is_first_aligned
           THEN Accessed({}, {}) /\ UNCHANGED mem
           ELSE /\ mem' = Store(mem, b, BitBlend(first_value, Load(mem, b), Pos(first), W - Pos(first)))
                /\ Accessed({b}, {Pos(first)})
      /\ pc' = "last"
      /\ UNCHANGED <<Call, Saved>>

\* A faulty BlendLast: the word of an aligned last is blended too.
BlendLastAlways ==
  LET b == Base(last)
  IN  /\ pc = "last"
      /\ mem' = Store(mem, b, BitBlend(Load(mem, b), last_value, Pos(last), W - Pos(last)))
      /\ Accessed({b}, {Pos(last)})
      /\ pc' = "done"
      /\ UNCHANGED <<Call, Saved>>

\* ... and those from last on.
BlendLast ==
  LET b == Base(last)
  IN  /\ pc = "last"
      /\ IF is_last_aligned
           THEN Accessed({}, {}) /\ UNCHANGED mem
           ELSE /\ mem' = Store(mem, b, BitBlend(Load(mem, b), last_value, Pos(last), W - Pos(last)))
                /\ Accessed({b}, {Pos(last)})
      /\ pc' = "done"
      /\ UNCHANGED <<Call, Saved>>

Finished == pc = "done" /\ UNCHANGED vars

Next ==
  \/ Aligned \/ InWord \/ SaveAndReverse \/ ShiftBack \/ BlendFirst \/ BlendLast \/ Finished

Spec == Init /\ [][Next]_vars

----------------------------------------------------------------------------
(* Properties                                                              *)

\* Types; and the passes over several words are made of several words.
TypeOK ==
  /\ orig \in [Addr -> Bit] /\ mem \in [Addr -> Bit]
  /\ first \in Nat /\ last \in Nat /\ first <= last /\ last <= MemBits
  /\ first_value \in Word /\ last_value \in Word
  /\ pc \in {"start", "shift", "first", "last", "done"}
  /\ pc \in {"shift", "first", "last"} => Base(first) # Base(last)
  /\ used \in SUBSET Int /\ shifts \in SUBSET Int

\* When reverse returns, the range is reversed and no other bit has changed: the
\* bits around it, which were reversed and shifted with it, are back.
ReverseCorrect ==
  pc = "done" =>
    mem = [a \in Addr |-> IF first <= a /\ a < last
                            THEN orig[first + last - 1 - a] ELSE orig[a]]

\* Once shifted back, every bit of the range is in its place: what the shift
\* vacates lies outside the range, where the saved words are blended in.
RangeInPlace ==
  pc \in {"first", "last"} =>
    \A a \in first .. (last - 1) : mem[a] = orig[first + last - 1 - a]

\* A word dereferenced holds a bit of the range, unless the range is empty.
AccessInRange == \A b \in used : first # last => Holds(b, first, last)

\* Every shift count is one C++ defines.
ShiftsDefined == \A k \in shifts : ShiftDefined(k)
=============================================================================
