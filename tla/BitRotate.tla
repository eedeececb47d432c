----------------------------- MODULE BitRotate -----------------------------
(***************************************************************************)
(* bit::rotate (rotate.hpp): rotates [first, last) so that n_first's bit   *)
(* becomes first's.  One word is rotated in a register; a left or a right  *)
(* part that fits in a word is kept in one while the others are shifted;   *)
(* otherwise _rotate_via_raw exchanges blocks and is left, as in Euclid's  *)
(* algorithm, with a smaller range to rotate, until a part fits in a word. *)
(*                                                                         *)
(* swap_ranges, shift_left and shift_right are taken by their contracts,   *)
(* which BitSwapRanges, BitShiftLeft and BitShiftRight check of the code.  *)
(* A bit a shift vacates gets the name Zero, which no bit of the range has *)
(* in the instances checked: where it stays, it is seen.                   *)
(***************************************************************************)
EXTENDS BitWord

VARIABLES
  mem,                   \* the words, as one array of bits
  orig,                  \* history: mem when rotate was called
  first, n_first, last,  \* the call
  p, n, k,               \* locals of _rotate_via_raw: [p, p + n) is left to
                         \* be rotated by k
  q, full_swaps, remainder,
  ret,                   \* the iterator returned
  pc,                    \* what the code does next
  used,                  \* history: the words the last step dereferenced
  shifts                 \* history: the shift counts the last step used

vars == <<mem, orig, first, n_first, last, p, n, k, q, full_swaps, remainder,
          ret, pc, used, shifts>>

Call  == <<orig, first, n_first, last>>
Round == <<p, n, k, q, full_swaps, remainder>>

\* The memory has a word after those of the range, so that a read past an
\* aligned last is a step the properties see.
Init ==
  /\ orig \in [Addr -> Bit]
  /\ mem = orig
  /\ first \in 0 .. (MemBits - W) /\ last \in first .. (MemBits - W)
  /\ n_first \in first .. last
  /\ p = first /\ n = last - first /\ k = n_first - first
  /\ q = first /\ full_swaps = 0 /\ remainder = 0
  /\ ret = first
  /\ pc = "start"
  /\ used = {} /\ shifts = {}

----------------------------------------------------------------------------
(* The algorithms called, by contract.                                     *)

SwapRanges(m, a, b, len) ==
  [x \in Addr |-> IF a <= x /\ x < a + len THEN m[b + (x - a)]
                  ELSE IF b <= x /\ x < b + len THEN m[a + (x - b)]
                  ELSE m[x]]

ShiftLeft(m, a, b, len) ==
  [x \in Addr |-> IF ~(a <= x /\ x < b /\ 0 < len /\ len < b - a) THEN m[x]
                  ELSE IF x + len < b THEN m[x + len] ELSE Zero]

ShiftRight(m, a, b, len) ==
  [x \in Addr |-> IF ~(a <= x /\ x < b /\ 0 < len /\ len < b - a) THEN m[x]
                  ELSE IF a <= x - len THEN m[x - len] ELSE Zero]

\* The len bits at src are saved in a word, mem becomes m, and the word is
\* written at dst.
SaveAround(src, m, dst, len) ==
  /\ mem' = WriteWord(m, GetWord(mem, src, len), dst, len)
  /\ used' = GetWordLoads(src, len) \cup WriteWordWords(dst, len)
  /\ shifts' = GetWordShifts(src, len) \cup WriteWordShifts(dst, len)

NoAccess == used' = {} /\ shifts' = {} /\ UNCHANGED mem

Return(r) == pc' = "done" /\ ret' = r /\ UNCHANGED Call

----------------------------------------------------------------------------
(* rotate                                                                  *)

\* if (first == n_first) return last
Nothing ==
  /\ pc = "start"
  /\ first = n_first
  /\ NoAccess
  /\ Return(last)
  /\ UNCHANGED Round

\* std::next(first.base(), is_last_aligned) == last.base()
SingleWord == Base(first) + (IF Pos(last) = 0 THEN W ELSE 0) = Base(last)

\* What the machine may shift by, for a count C++ does not define.
Shifts(count) == IF ShiftDefined(count) THEN {count} ELSE 0 .. W

\* The whole word.
RotateWord ==
  LET b == Base(first)
      w == Load(mem, b)
  IN  /\ pc = "start" /\ first # n_first /\ SingleWord
      /\ Pos(first) = 0 /\ Pos(last) = 0
      /\ \E s \in Shifts(W - Pos(n_first)) :
           mem' = Store(mem, b, BitOr(Lsr(w, Pos(n_first)), Lsl(w, s)))
      /\ used' = {b} /\ shifts' = {Pos(n_first), W - Pos(n_first)}
      /\ Return(first + (W - Pos(n_first)))
      /\ UNCHANGED Round

\* A part of a word: it is cut out, rotated and blended in. The unsigned
\* difference n_first.position() - first.position() wraps when n_first is the
\* end of the word.
RotateInWord ==
  LET b      == Base(first)
      pos    == Pos(first)
      lastp  == IF Pos(last) = 0 THEN W ELSE Pos(last)
      cut    == [i \in BitPos |-> IF pos <= i /\ i < lastp THEN Load(mem, b)[i] ELSE Zero]
      right  == Pos(n_first) - pos
      left   == lastp - Pos(n_first)
  IN  /\ pc = "start" /\ first # n_first /\ SingleWord
      /\ Pos(first) # 0 \/ Pos(last) # 0
      /\ \E r \in Shifts(right), l \in Shifts(left) :
           mem' = Store(mem, b, BitBlend(Load(mem, b), BitOr(Lsr(cut, r), Lsl(cut, l)),
                                         pos, lastp - pos))
      /\ used' = {b} /\ shifts' = {right, left, lastp - pos, pos}
      /\ Return(first + left)
      /\ UNCHANGED Round

\* A faulty KeepLeft: the word is written back where the left part was.
KeepLeftInPlace ==
  LET len == n_first - first
  IN  /\ pc = "start" /\ first # n_first /\ ~SingleWord
      /\ IsWithin(first, n_first)
      /\ SaveAround(first, ShiftLeft(mem, first, last, len), first, len)
      /\ Return(IF len < last - first THEN last - len ELSE first)
      /\ UNCHANGED Round

\* The left part fits in a word.
KeepLeft ==
  LET len      == n_first - first
      new_last == IF len < last - first THEN last - len ELSE first
  IN  /\ pc = "start" /\ first # n_first /\ ~SingleWord
      /\ IsWithin(first, n_first)
      /\ SaveAround(first, ShiftLeft(mem, first, last, len), new_last, len)
      /\ Return(new_last)
      /\ UNCHANGED Round

\* The right part does.
KeepRight ==
  LET len == last - n_first
  IN  /\ pc = "start" /\ first # n_first /\ ~SingleWord
      /\ ~IsWithin(first, n_first) /\ IsWithin(n_first, last)
      /\ SaveAround(n_first, ShiftRight(mem, first, last, len), first, len)
      /\ Return(first + len)
      /\ UNCHANGED Round

----------------------------------------------------------------------------
(* _rotate_via_raw                                                         *)

\* A faulty Raw: n_first is returned as when the halves are equal.
RawReturnsMiddle ==
  /\ pc = "start" /\ first # n_first /\ ~SingleWord
  /\ ~IsWithin(first, n_first) /\ ~IsWithin(n_first, last)
  /\ used' = {} /\ shifts' = {}
  /\ IF k = n - k
       THEN mem' = SwapRanges(mem, first, n_first, k) /\ Return(n_first)
       ELSE /\ ret' = n_first
            /\ pc' = "loop"
            /\ UNCHANGED <<mem, Call>>
  /\ UNCHANGED Round

\* Two halves are exchanged; otherwise the loop begins.
Raw ==
  /\ pc = "start" /\ first # n_first /\ ~SingleWord
  /\ ~IsWithin(first, n_first) /\ ~IsWithin(n_first, last)
  /\ used' = {} /\ shifts' = {}
  /\ IF k = n - k
       THEN mem' = SwapRanges(mem, first, n_first, k) /\ Return(n_first)
       ELSE /\ ret' = first + (last - n_first)
            /\ pc' = "loop"
            /\ UNCHANGED <<mem, Call>>
  /\ UNCHANGED Round

\* The part to the left is the smaller and fits in a word.
LoopLeft ==
  /\ pc = "loop"
  /\ k < n - k /\ k <= W
  /\ SaveAround(p, ShiftLeft(mem, p, p + n, k), p + n - k, k)
  /\ Return(ret)
  /\ UNCHANGED Round

\* A faulty LoopUp: the block itself is counted among those that follow it.
LoopUpAll ==
  /\ pc = "loop"
  /\ k < n - k /\ k > W
  /\ q' = p + k
  /\ full_swaps' = n \div k
  /\ remainder' = n - full_swaps' * k
  /\ pc' = "up"
  /\ NoAccess
  /\ UNCHANGED <<Call, p, n, k, ret>>

\* It does not: it will be exchanged with the blocks that follow it.
LoopUp ==
  /\ pc = "loop"
  /\ k < n - k /\ k > W
  /\ q' = p + k
  /\ full_swaps' = (n - k) \div k
  /\ remainder' = (n - k) - full_swaps' * k
  /\ pc' = "up"
  /\ NoAccess
  /\ UNCHANGED <<Call, p, n, k, ret>>

SwapUp ==
  /\ pc = "up"
  /\ full_swaps > 0
  /\ mem' = SwapRanges(mem, p, q, k)
  /\ p' = p + k /\ q' = q + k
  /\ full_swaps' = full_swaps - 1
  /\ used' = {} /\ shifts' = {}
  /\ UNCHANGED <<Call, n, k, remainder, ret, pc>>

\* A faulty RestUp: k is not made the distance to the left of the new middle.
RestUpSwapped ==
  /\ pc = "up"
  /\ full_swaps = 0
  /\ mem' = SwapRanges(mem, p, q, remainder)
  /\ p' = p + remainder /\ q' = q + remainder
  /\ IF n % k = 0
       THEN pc' = "done" /\ n' = 0 /\ k' = k
       ELSE pc' = "loop" /\ n' = k /\ k' = n % k
  /\ used' = {} /\ shifts' = {}
  /\ UNCHANGED <<Call, full_swaps, remainder, ret>>

\* The rest, and what is left to be rotated.
RestUp ==
  /\ pc = "up"
  /\ full_swaps = 0
  /\ mem' = SwapRanges(mem, p, q, remainder)
  /\ p' = p + remainder /\ q' = q + remainder
  /\ IF n % k = 0
       THEN pc' = "done" /\ n' = 0 /\ k' = k
       ELSE pc' = "loop" /\ n' = k /\ k' = k - (n % k)
  /\ used' = {} /\ shifts' = {}
  /\ UNCHANGED <<Call, full_swaps, remainder, ret>>

\* The part to the right is the smaller (or both are equal) and fits in a word.
LoopRight ==
  /\ pc = "loop"
  /\ k >= n - k /\ n - k <= W
  /\ k' = n - k
  /\ SaveAround(p + n - k', ShiftRight(mem, p, p + n, k'), p, k')
  /\ Return(ret)
  /\ UNCHANGED <<p, n, q, full_swaps, remainder>>

\* It does not: it will be exchanged with the blocks before it.
LoopDown ==
  /\ pc = "loop"
  /\ k >= n - k /\ n - k > W
  /\ k' = n - k
  /\ q' = p + n
  /\ p' = q' - k'
  /\ full_swaps' = (n - k') \div k'
  /\ remainder' = (n - k') - full_swaps' * k'
  /\ pc' = "down"
  /\ NoAccess
  /\ UNCHANGED <<Call, n, ret>>

SwapDown ==
  /\ pc = "down"
  /\ full_swaps > 0
  /\ p' = p - k /\ q' = q - k
  /\ mem' = SwapRanges(mem, p', q', k)
  /\ full_swaps' = full_swaps - 1
  /\ used' = {} /\ shifts' = {}
  /\ UNCHANGED <<Call, n, k, remainder, ret, pc>>

\* A faulty RestDown: what is left to be rotated does not get smaller.
RestDownStuck ==
  /\ pc = "down"
  /\ full_swaps = 0
  /\ p' = p - remainder /\ q' = q - remainder
  /\ mem' = SwapRanges(mem, p', q', remainder)
  /\ pc' = "loop" /\ n' = n /\ k' = n - k
  /\ used' = {} /\ shifts' = {}
  /\ UNCHANGED <<Call, full_swaps, remainder, ret>>

RestDown ==
  /\ pc = "down"
  /\ full_swaps = 0
  /\ p' = p - remainder /\ q' = q - remainder
  /\ mem' = SwapRanges(mem, p', q', remainder)
  /\ IF n % k = 0
       THEN pc' = "done" /\ n' = 0 /\ k' = k
       ELSE pc' = "loop" /\ n' = k /\ k' = n % k
  /\ used' = {} /\ shifts' = {}
  /\ UNCHANGED <<Call, full_swaps, remainder, ret>>

Finished == pc = "done" /\ UNCHANGED vars

Next ==
  \/ Nothing \/ RotateWord \/ RotateInWord \/ KeepLeft \/ KeepRight \/ Raw
  \/ LoopLeft \/ LoopUp \/ SwapUp \/ RestUp
  \/ LoopRight \/ LoopDown \/ SwapDown \/ RestDown \/ Finished

Spec     == Init /\ [][Next]_vars
FairSpec == Spec /\ WF_vars(Next)

----------------------------------------------------------------------------
(* Properties                                                              *)

TypeOK ==
  /\ orig \in [Addr -> Bit] /\ mem \in [Addr -> Bit]
  /\ first \in Nat /\ n_first \in first .. last /\ last \in first .. MemBits
  /\ p \in first .. last /\ q \in first .. last
  /\ n \in 0 .. (last - first) /\ k \in 0 .. (last - first)
  /\ full_swaps \in Nat /\ remainder \in Nat
  /\ ret \in first .. last
  /\ pc \in {"start", "loop", "up", "down", "done"}
  /\ used \in SUBSET Int /\ shifts \in SUBSET Int

In(a, b, e) == b <= a /\ a < e

\* The bits [b, b + len) of m rotated by r.
Rotated(m, b, len, r) ==
  [a \in Addr |-> IF In(a, b, b + len) THEN m[b + (((a - b) + r) % len)] ELSE m[a]]

Final == Rotated(orig, first, last - first, n_first - first)

\* When rotate returns, the range is rotated and no other bit has changed.
RotateCorrect == pc = "done" => mem = Final

\* At the head of the loop, rotating what is left by k gives the final memory:
\* every round puts the blocks it passed in their places for good.
RoundsConverge == pc = "loop" => 0 < k /\ k < n /\ Rotated(mem, p, n, k) = Final

\* The iterator returned designates the bit that was first's, for every middle in
\* [first, last] ("The algorithms again work in the same manner as the STL.",
\* README.md:364).
ReturnsMiddle == pc = "done" => ret = first + (last - n_first)

\* Every block exchange is of two ranges that do not overlap, inside the range
\* rotated, as swap_ranges requires.
BlocksApart ==
  /\ pc = "up" => q = p + k /\ q + full_swaps * k + remainder <= last
  /\ pc = "down" => q = p + k /\ first + full_swaps * k + remainder <= p
  /\ pc \in {"up", "down"} => remainder < k

\* A word dereferenced holds a bit of the range.
AccessInRange == \A b \in used : Holds(b, first, last)

\* Every shift count is one C++ defines.
ShiftsDefined == \A s \in shifts : ShiftDefined(s)

\* The call returns: the range left to be rotated gets smaller with every round.
Termination == <>(pc = "done")
=============================================================================
