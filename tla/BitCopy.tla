------------------------------ MODULE BitCopy ------------------------------
(***************************************************************************)
(* bit::copy (copy.hpp, copy_impl::operator()): copies the bits            *)
(* [first, last) to d_first, a destination word at a time.  One behaviour  *)
(* is one call; every word the code writes is one step, so the states in   *)
(* between are those another reader of the memory, or the copy itself when *)
(* source and destination overlap, may see.                                *)
(*                                                                         *)
(* std::copy's precondition is assumed: d_first is not in (first, last).   *)
(* Everything else is allowed, overlap with d_first < first and ranges     *)
(* that only share a word included.                                        *)
(***************************************************************************)
EXTENDS BitWord

VARIABLES
  mem,            \* the words, as one array of bits
  orig,           \* history: mem when copy was called
  src, dst, len,  \* the call: first, d_first and distance(first, last)
  first,          \* the local first, moved on as bits are read
  it,             \* the local it: the destination word
  remaining,      \* remaining_bits_to_copy
  pc,             \* what the code does next
  used,           \* history: the words the last step dereferenced
  shifts          \* history: the shift counts the last step used

vars == <<mem, orig, src, dst, len, first, it, remaining, pc, used, shifts>>

last == src + len

Call == <<orig, src, dst, len>>

Init ==
  /\ orig \in [Addr -> Bit]
  /\ mem = orig
  /\ src \in 0 .. MemBits /\ dst \in 0 .. MemBits /\ len \in 0 .. MemBits
  /\ src + len <= MemBits /\ dst + len <= MemBits
  /\ dst <= src \/ src + len <= dst
  /\ first = src
  /\ it = Base(dst)
  /\ remaining = len
  /\ pc = "start"
  /\ used = {} /\ shifts = {}

\* if (first == last) return d_first; then the two tests of d_first.
Start ==
  /\ pc = "start"
  /\ pc' = IF len = 0 THEN "done" ELSE IF Pos(dst) # 0 THEN "align" ELSE "body"
  /\ used' = {} /\ shifts' = {}
  /\ UNCHANGED <<mem, Call, first, it, remaining>>

\* A faulty PartialBits: a range that ends inside the word is not considered.
PartialToWordEnd == W - Pos(dst)

\* partial_bits_to_copy
PartialBits == Least(remaining, W - Pos(dst))

\* d_first is not aligned. Copy partial word to align it.
Align ==
  LET partial == PartialBits
      word    == Lsl(GetWord(mem, first, partial), Pos(dst))
  IN  /\ pc = "align"
      /\ mem' = Store(mem, it, BitBlend(Load(mem, it), word, Pos(dst), partial))
      /\ used' = GetWordLoads(first, partial) \cup {it}
      /\ shifts' = GetWordShifts(first, partial) \cup {Pos(dst)}
      /\ remaining' = remaining - partial
      /\ first' = first + partial
      /\ it' = it + W
      /\ pc' = "body"
      /\ UNCHANGED Call

\* if (remaining_bits_to_copy > 0): whole words, by std::copy or one by one.
Body ==
  /\ pc = "body"
  /\ pc' = IF remaining = 0 THEN "done"
           ELSE IF Pos(first) = 0 /\ remaining > W THEN "bulk" ELSE "loop"
  /\ used' = {} /\ shifts' = {}
  /\ UNCHANGED <<mem, Call, first, it, remaining>>

\* One word of std::copy(first.base(), last.base(), it).
BulkWord ==
  /\ pc = "bulk"
  /\ first # Base(last)
  /\ mem' = Store(mem, it, Load(mem, first))
  /\ used' = {first, it} /\ shifts' = {}
  /\ first' = first + W
  /\ it' = it + W
  /\ remaining' = remaining - W
  /\ UNCHANGED <<Call, pc>>

\* A faulty LoopWord: the iteration does not move on.
LoopWordStuck ==
  /\ pc = "loop"
  /\ remaining >= W
  /\ mem' = Store(mem, it, GetWord(mem, first, W))
  /\ used' = GetWordLoads(first, W) \cup {it}
  /\ shifts' = GetWordShifts(first, W)
  /\ UNCHANGED <<Call, pc, first, it, remaining>>

\* One iteration of the while loop.
LoopWord ==
  /\ pc = "loop"
  /\ remaining >= W
  /\ mem' = Store(mem, it, GetWord(mem, first, W))
  /\ used' = GetWordLoads(first, W) \cup {it}
  /\ shifts' = GetWordShifts(first, W)
  /\ first' = first + W
  /\ it' = it + W
  /\ remaining' = remaining - W
  /\ UNCHANGED <<Call, pc>>

\* The whole words are done.
WordsDone ==
  /\ \/ pc = "bulk" /\ first = Base(last)
     \/ pc = "loop" /\ remaining < W
  /\ pc' = IF remaining > 0 THEN "tail" ELSE "done"
  /\ used' = {} /\ shifts' = {}
  /\ UNCHANGED <<mem, Call, first, it, remaining>>

\* The bits of the last word. The code leaves its locals as they are, since it
\* returns next; here remaining goes to 0 with the bits it counts.
TailWord ==
  /\ pc = "tail"
  /\ mem' = Store(mem, it,
              BitBlend(Load(mem, it), GetWord(mem, first, remaining), 0, remaining))
  /\ used' = GetWordLoads(first, remaining) \cup {it}
  /\ shifts' = GetWordShifts(first, remaining) \cup {remaining}
  /\ remaining' = 0
  /\ pc' = "done"
  /\ UNCHANGED <<Call, first, it>>

Finished ==
  /\ pc = "done"
  /\ UNCHANGED vars

Next == Start \/ Align \/ Body \/ BulkWord \/ LoopWord \/ WordsDone \/ TailWord \/ Finished

Spec     == Init /\ [][Next]_vars
FairSpec == Spec /\ WF_vars(Next)

----------------------------------------------------------------------------
(* Properties                                                              *)

Copied == len - remaining

TypeOK ==
  /\ orig \in [Addr -> Bit] /\ mem \in [Addr -> Bit]
  /\ src \in Nat /\ dst \in Nat /\ len \in Nat
  /\ src + len <= MemBits /\ dst + len <= MemBits
  /\ first \in Nat /\ it \in Int /\ remaining \in 0 .. len
  /\ pc \in {"start", "align", "body", "bulk", "loop", "tail", "done"}
  /\ used \in SUBSET Int /\ shifts \in SUBSET Int

\* When copy returns, the destination holds the bits the source range held when
\* copy was called, and no other bit of the memory has changed: not the
\* neighbours in a partly covered first or last word, not the source.
CopyCorrect ==
  pc = "done" =>
    mem = [a \in Addr |-> IF dst <= a /\ a < dst + len
                            THEN orig[src + (a - dst)] ELSE orig[a]]

\* A source bit is overwritten only after it was read: while the copy runs, the
\* bits still to be copied are those of the call, however the ranges overlap.
SourceIntact ==
  \A i \in Copied .. (len - 1) : mem[src + i] = orig[src + i]

\* A word the copy dereferences holds at least one bit of one of its two
\* ranges: it neither reads the word after an aligned last nor writes the word
\* after an aligned destination end, which may not exist.
AccessInRange ==
  \A b \in used : Holds(b, src, src + len) \/ Holds(b, dst, dst + len)

\* Every shift count is one C++ defines (assertion of lsr, lsl and _mask,
\* bit_details.hpp:253, 277 and 310).
ShiftsDefined == \A k \in shifts : ShiftDefined(k)

\* A step of the copy neither dereferences a word outside its ranges nor shifts
\* by a count C++ leaves undefined.
InstructionsSafe == AccessInRange /\ ShiftsDefined

\* The call returns.
Termination == <>(pc = "done")

\* The word-level algorithm implements the bit-level promise.
Move == INSTANCE SequenceMove WITH moved <- 0 .. (Copied - 1), free <- {}

MoveSpec == Move!Spec

----------------------------------------------------------------------------
(* Model checking: a name of its own in every bit of the memory.           *)

\* One initial memory: bit a holds the name a + 1, the shifted-in zero is 0.
NamedMemory == [a \in Addr |-> a + 1]
NamedBits   == 0 .. (NumWords * W)

MCInit == orig = NamedMemory /\ Init
MCSpec == MCInit /\ [][Next]_vars /\ WF_vars(Next)
=============================================================================
