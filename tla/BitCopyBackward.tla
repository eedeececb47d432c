-------------------------- MODULE BitCopyBackward --------------------------
(***************************************************************************)
(* bit::copy_backward (copy_backward.hpp): copies the bits [first, last)   *)
(* to the range that ends at d_last, from the end, a destination word at a *)
(* time.  One behaviour is one call, one step one word written.            *)
(*                                                                         *)
(* std::copy_backward's precondition is assumed: d_last is not in          *)
(* (first, last).  Overlap with d_last > last is allowed, and so is        *)
(* copying a range onto itself.                                            *)
(***************************************************************************)
EXTENDS BitWord

VARIABLES
  mem,            \* the words, as one array of bits
  orig,           \* history: mem when copy_backward was called
  src, dst, len,  \* the call: first, d_last - distance(first, last), the distance
  last,           \* the local last, moved back as bits are read
  it,             \* the local it: the word the next bits end in, or end before
  remaining,      \* remaining_bits_to_copy
  pc,             \* what the code does next
  used,           \* history: the words the last step dereferenced
  shifts          \* history: the shift counts the last step used

vars == <<mem, orig, src, dst, len, last, it, remaining, pc, used, shifts>>

Call   == <<orig, src, dst, len>>
d_last == dst + len

Init ==
  /\ orig \in [Addr -> Bit]
  /\ mem = orig
  /\ src \in 0 .. MemBits /\ dst \in 0 .. MemBits /\ len \in 0 .. MemBits
  /\ src + len <= MemBits /\ dst + len <= MemBits
  /\ src <= dst \/ dst + len <= src
  /\ last = src + len
  /\ it = Base(dst + len)
  /\ remaining = len
  /\ pc = "start"
  /\ used = {} /\ shifts = {}

\* if (first == last) return d_last; then the two tests of d_last.
Start ==
  /\ pc = "start"
  /\ pc' = IF len = 0 THEN "done" ELSE IF Pos(d_last) # 0 THEN "align" ELSE "body"
  /\ used' = {} /\ shifts' = {}
  /\ UNCHANGED <<mem, Call, last, it, remaining>>

\* partial_bits_to_copy
PartialBits == Least(remaining, Pos(d_last))

\* d_last is not aligned. Copy partial word to align it.
Align ==
  LET partial == PartialBits
      start   == Pos(d_last) - partial
      word    == Lsl(GetWord(mem, last - partial, partial), start)
  IN  /\ pc = "align"
      /\ mem' = Store(mem, it, BitBlend(Load(mem, it), word, start, partial))
      /\ used' = GetWordLoads(last - partial, partial) \cup {it}
      /\ shifts' = GetWordShifts(last - partial, partial) \cup {start}
      /\ remaining' = remaining - partial
      /\ last' = last - partial
      /\ pc' = "body"
      /\ UNCHANGED <<Call, it>>

\* if (remaining_bits_to_copy > 0): whole words, by std::copy_backward or one
\* by one.
Body ==
  /\ pc = "body"
  /\ pc' = IF remaining = 0 THEN "done"
           ELSE IF Pos(last) = 0 /\ remaining >= W THEN "bulk" ELSE "loop"
  /\ used' = {} /\ shifts' = {}
  /\ UNCHANGED <<mem, Call, last, it, remaining>>

\* A faulty FirstWhole: copies from the word of first on, all of it.
WordOfFirst == Base(src)

\* The first word std::copy_backward(first.base() + 1, last.base(), it) copies:
\* first's own word is left to the tail even when first is aligned.
FirstWhole == Base(src) + W

\* One word of that copy.
BulkWord ==
  /\ pc = "bulk"
  /\ last # FirstWhole
  /\ mem' = Store(mem, it - W, Load(mem, last - W))
  /\ used' = {last - W, it - W} /\ shifts' = {}
  /\ last' = last - W
  /\ it' = it - W
  /\ remaining' = remaining - W
  /\ UNCHANGED <<Call, pc>>

\* One iteration of the while loop.
LoopWord ==
  /\ pc = "loop"
  /\ remaining >= W
  /\ mem' = Store(mem, it - W, GetWord(mem, last - W, W))
  /\ used' = GetWordLoads(last - W, W) \cup {it - W}
  /\ shifts' = GetWordShifts(last - W, W)
  /\ last' = last - W
  /\ it' = it - W
  /\ remaining' = remaining - W
  /\ UNCHANGED <<Call, pc>>

\* The whole words are done.
WordsDone ==
  /\ \/ pc = "bulk" /\ last = FirstWhole
     \/ pc = "loop" /\ remaining < W
  /\ pc' = IF remaining > 0 THEN "tail" ELSE "done"
  /\ used' = {} /\ shifts' = {}
  /\ UNCHANGED <<mem, Call, last, it, remaining>>

\* The bits at the beginning of the range, into the high end of their word.
Tail ==
  LET b    == it - W
      word == Lsl(GetWord(mem, last - remaining, remaining), W - remaining)
  IN  /\ pc = "tail"
      /\ mem' = Store(mem, b, BitBlend(Load(mem, b), word, W - remaining, remaining))
      /\ used' = GetWordLoads(last - remaining, remaining) \cup {b}
      /\ shifts' = GetWordShifts(last - remaining, remaining) \cup {W - remaining}
      /\ it' = b
      /\ remaining' = 0
      /\ pc' = "done"
      /\ UNCHANGED <<Call, last>>

Finished ==
  /\ pc = "done"
  /\ UNCHANGED vars

Next == Start \/ Align \/ Body \/ BulkWord \/ LoopWord \/ WordsDone \/ Tail \/ Finished

Spec == Init /\ [][Next]_vars

----------------------------------------------------------------------------
(* Properties                                                              *)

TypeOK ==
  /\ orig \in [Addr -> Bit] /\ mem \in [Addr -> Bit]
  /\ src \in Nat /\ dst \in Nat /\ len \in Nat
  /\ src + len <= MemBits /\ dst + len <= MemBits
  /\ last \in Nat /\ it \in Int /\ remaining \in 0 .. len
  /\ pc \in {"start", "align", "body", "bulk", "loop", "tail", "done"}
  /\ used \in SUBSET Int /\ shifts \in SUBSET Int

\* When copy_backward returns, the destination holds the bits the source range
\* held when it was called, and no other bit of the memory has changed.
CopyCorrect ==
  pc = "done" =>
    mem = [a \in Addr |-> IF dst <= a /\ a < d_last
                            THEN orig[src + (a - dst)] ELSE orig[a]]

\* A source bit is overwritten only after it was read: the bits still to be
\* copied, the low ones here, are those of the call.
SourceIntact == \A i \in 0 .. (remaining - 1) : mem[src + i] = orig[src + i]

\* A word the copy dereferences holds at least one bit of one of its two
\* ranges: in particular the word at an aligned d_last or last, one past the
\* end, is neither read nor written.
AccessInRange ==
  \A b \in used : Holds(b, src, src + len) \/ Holds(b, dst, d_last)

\* Every shift count is one C++ defines (assertion of lsr and lsl,
\* bit_details.hpp:253 and 277).
ShiftsDefined == \A k \in shifts : ShiftDefined(k)

\* The word-level algorithm implements the bit-level promise, the last bits
\* arriving first.
Move == INSTANCE SequenceMove WITH moved <- remaining .. (len - 1), free <- {}

MoveSpec == Move!Spec
=============================================================================
