------------------------- MODULE BitTransformBinary -------------------------
(***************************************************************************)
(* The binary bit::transform (transform.hpp): the bits of [first1, last1)  *)
(* and those at first2 joined by a bitwise operation, into d_first.  The   *)
(* words are those of the destination, as in BitTransform; std::transform  *)
(* takes over when both sources are aligned with it.  One behaviour is one *)
(* call, one step one word.                                                *)
(***************************************************************************)
EXTENDS BitWord

CONSTANT Combine    \* what the operation makes of a pair of bits, in [Bit \X Bit -> Bit]

VARIABLES
  mem,                             \* the words, as one array of bits
  orig,                            \* history: mem when transform was called
  first1, last1, first2, d_first,  \* the call
  src1, src2,                      \* the locals first1, first2: the bits read next
  it,                              \* the local it: the word written next
  remaining,                       \* remaining_bits_to_op
  pc,                              \* what the code does next
  used1, used2, d_used             \* history: the words the last step dereferenced

vars == <<mem, orig, first1, last1, first2, d_first, src1, src2, it, remaining,
          pc, used1, used2, d_used>>

Call == <<orig, first1, last1, first2, d_first>>

\* The destination is apart from a source that begins at f, or begins at or
\* before it.
NotAhead(f) == d_first <= f \/ f + (last1 - first1) <= d_first

Init ==
  /\ orig \in [Addr -> Bit]
  /\ mem = orig
  /\ first1 \in 0 .. MemBits /\ last1 \in 0 .. MemBits /\ first1 <= last1
  /\ first2 \in 0 .. (MemBits - (last1 - first1))
  /\ d_first \in 0 .. (MemBits - (last1 - first1))
  /\ NotAhead(first1) /\ NotAhead(first2)
  /\ src1 = first1 /\ src2 = first2 /\ it = Base(d_first)
  /\ remaining = last1 - first1
  /\ pc = "start"
  /\ used1 = {} /\ used2 = {} /\ d_used = {}

binary_op(v, w) == [i \in BitPos |-> Combine[<<v[i], w[i]>>]]

\* The n bits at the two sources, shifted to position, joined; the n bits at
\* position of the word at it become those of the result.
Put(position, n) ==
  LET word(s) == Lsl(MaskLow(GetWord(mem, s, n), n), position)
      result  == binary_op(word(src1), word(src2))
  IN  /\ mem' = Store(mem, it, BitBlend(Load(mem, it), result, position, n))
      /\ used1' = GetWordLoads(src1, n) /\ used2' = GetWordLoads(src2, n)
      /\ d_used' = {it}
      /\ src1' = src1 + n /\ src2' = src2 + n /\ it' = it + W
      /\ remaining' = remaining - n

PutNothing ==
  /\ used1' = {} /\ used2' = {} /\ d_used' = {}
  /\ UNCHANGED <<mem, src1, src2, it, remaining>>

Empty ==
  /\ pc = "start"
  /\ first1 = last1
  /\ PutNothing
  /\ pc' = "done"
  /\ UNCHANGED Call

\* A faulty Proceed: the second source is taken to be aligned when the first is.
ProceedByFirst(a1, a2, left) ==
  pc' = IF Pos(a1) = 0 /\ left > W THEN "bulk" ELSE "shifted"

\* After the head: std::transform over whole words, when both sources are
\* aligned and more than one word is left, or words put together from two.
Proceed(a1, a2, left) ==
  pc' = IF Pos(a1) = 0 /\ Pos(a2) = 0 /\ left > W THEN "bulk" ELSE "shifted"

\* A faulty Head: the partial word is taken to reach its end.
HeadToEnd ==
  /\ pc = "start"
  /\ first1 # last1
  /\ LET n == IF Pos(d_first) = 0 THEN 0 ELSE W - Pos(d_first)
     IN  /\ IF n = 0 THEN PutNothing ELSE Put(Pos(d_first), n)
         /\ Proceed(src1 + n, src2 + n, remaining - n)
  /\ UNCHANGED Call

\* The bits that share the word of an unaligned d_first.
Head ==
  /\ pc = "start"
  /\ first1 # last1
  /\ LET n == IF Pos(d_first) = 0 THEN 0 ELSE Least(remaining, W - Pos(d_first))
     IN  /\ IF n = 0 THEN PutNothing ELSE Put(Pos(d_first), n)
         /\ Proceed(src1 + n, src2 + n, remaining - n)
  /\ UNCHANGED Call

\* One word of std::transform up to last1.base(), in order as the standard
\* libraries go: it reads the words the iterators are in, whatever their positions.
BulkWord ==
  /\ pc = "bulk"
  /\ src1 # Base(last1)
  /\ mem' = Store(mem, it, binary_op(Load(mem, Base(src1)), Load(mem, Base(src2))))
  /\ used1' = {Base(src1)} /\ used2' = {Base(src2)} /\ d_used' = {it}
  /\ src1' = src1 + W /\ src2' = src2 + W /\ it' = it + W
  /\ remaining' = remaining - W
  /\ UNCHANGED <<Call, pc>>

ShiftedWord ==
  /\ pc = "shifted"
  /\ remaining >= W
  /\ Put(0, W)
  /\ UNCHANGED <<Call, pc>>

\* A faulty Tail: the whole last word is written.
TailWholeWord ==
  /\ \/ pc = "bulk" /\ src1 = Base(last1)
     \/ pc = "shifted" /\ remaining < W
  /\ IF remaining > 0 THEN Put(0, W) ELSE PutNothing
  /\ pc' = "done"
  /\ UNCHANGED Call

\* The bits that are left.
Tail ==
  /\ \/ pc = "bulk" /\ src1 = Base(last1)
     \/ pc = "shifted" /\ remaining < W
  /\ IF remaining > 0 THEN Put(0, remaining) ELSE PutNothing
  /\ pc' = "done"
  /\ UNCHANGED Call

Finished ==
  /\ pc = "done"
  /\ UNCHANGED vars

Next == Empty \/ Head \/ BulkWord \/ ShiftedWord \/ Tail \/ Finished

Spec == Init /\ [][Next]_vars

----------------------------------------------------------------------------
(* Properties                                                              *)

\* Types; and what is left is the rest of both ranges.
TypeOK ==
  /\ orig \in [Addr -> Bit] /\ mem \in [Addr -> Bit]
  /\ first1 \in Nat /\ last1 \in Nat /\ first1 <= last1 /\ last1 <= MemBits
  /\ src1 \in first1 .. last1 /\ src2 = first2 + (src1 - first1)
  /\ remaining = last1 - src1
  /\ it \in 0 .. (MemBits + W)
  /\ pc \in {"start", "bulk", "shifted", "done"}
  /\ used1 \in SUBSET Int /\ used2 \in SUBSET Int /\ d_used \in SUBSET Int

Result(i) == Combine[<<orig[first1 + i], orig[first2 + i]>>]

\* Each bit of the destination passed so far joins the two source bits of its
\* place as they were when transform was called, at any three alignments, and
\* also when the destination is a source (doc: the intersection of two vectors);
\* when transform returns that is every bit.
TransformCorrect ==
  /\ \A i \in 0 .. (src1 - first1 - 1) : mem[d_first + i] = Result(i)
  /\ pc = "done" => src1 = last1

\* No bit outside the destination changes, also not in the words it shares.
OutsideIntact ==
  \A a \in Addr :
    a < d_first \/ d_first + (last1 - first1) <= a => mem[a] = orig[a]

\* Every word dereferenced holds a bit of its range.
AccessInRange ==
  /\ \A b \in used1 : Holds(b, first1, last1)
  /\ \A b \in used2 : Holds(b, first2, first2 + (last1 - first1))
  /\ \A b \in d_used : Holds(b, d_first, d_first + (last1 - first1))
=============================================================================
