---------------------------- MODULE BitTransform ----------------------------
(***************************************************************************)
(* The unary bit::transform (transform.hpp), and the function objects the  *)
(* library hands it: std::bit_not, the lambda of bit::addition             *)
(* (addition.hpp) and that of bit::multiplication (multiplication.hpp).    *)
(* The words are those of the destination: a partial first one, whole      *)
(* words (copied straight from the source's words when it is aligned too), *)
(* and a partial last one.  The lambdas capture a carry by reference and   *)
(* the operand, so they see the words in order.  One behaviour is one      *)
(* call, one step one word.  The Highway path (BITLIB_HWY) only batches    *)
(* the steps of BulkWord and is left out.                                  *)
(***************************************************************************)
EXTENDS BitWord, FiniteSetsExt

CONSTANT Operation    \* "bit_not", "addition" or "multiplication"

VARIABLES
  mem,                     \* the words, as one array of bits, each 0 or 1
  orig,                    \* history: mem when transform was called
  first, last, d_first,    \* the call
  operand,                 \* integral_operand, of addition and multiplication
  src,                     \* the local first: the bit read next
  it,                      \* the local it: the word written next
  remaining,               \* remaining_bits_to_op
  carry,                   \* the captured carry
  pc,                      \* what the code does next
  used, d_used             \* history: the words read and written by the last step

vars == <<mem, orig, first, last, d_first, operand, src, it, remaining, carry,
          pc, used, d_used>>

Call == <<orig, first, last, d_first, operand>>

Limit == 2 ^ W

\* The number the n bits at f hold, least significant first, and a word's.
Number(m, f, n) == MapThenSumSet(LAMBDA i : m[f + i] * 2 ^ i, 0 .. (n - 1))
Value(w)        == Number(w, 0, W)
ToWord(v)       == [i \in BitPos |-> (v \div 2 ^ i) % 2]

----------------------------------------------------------------------------
(* The function objects: what they may return for a word w of which n bits *)
(* are the range's, and the carry they leave.                              *)

BitNot(w, n) == {[word |-> [i \in BitPos |-> 1 - w[i]], carry |-> carry]}

\* A faulty AddWord: what a partial word carries out is lost.
AddWordPartialLost(w, n) ==
  LET sum == carry + operand + Value(w)
  IN  {[word |-> ToWord(sum % Limit), carry |-> sum \div Limit]}

\* add_carry(carry, operand, word, &result), and for a partial word a carry when
\* the sum has a bit above its n bits.
AddWord(w, n) ==
  LET sum    == carry + operand + Value(w)
      result == ToWord(sum % Limit)
      over   == sum >= Limit \/ (n < W /\ Value(Lsr(result, n)) # 0)
  IN  {[word |-> result, carry |-> IF over THEN 1 ELSE 0]}

\* A faulty MultiplyWord: what a partial word carries out is lost.
MultiplyWordPartialLost(w, n) ==
  LET product == operand * Value(w)
      high    == product \div Limit
  IN  {[word |-> ToWord((read + product) % Limit), carry |-> high] : read \in {carry, high}}

\* carry + _mulx(operand, word, &carry): C++ does not say whether the left
\* operand is read before or after the call has stored the high word there.
MultiplyWord(w, n) ==
  LET product   == operand * Value(w)
      high      == product \div Limit
      result(c) == ToWord((c + product) % Limit)
      left(r)   == IF n < W
                     THEN ((high * 2 ^ (W - n)) % Limit) + Value(Lsr(r, n))
                     ELSE high
  IN  {[word |-> result(read), carry |-> left(result(read))] : read \in {carry, high}}

Apply(w, n) ==
  CASE Operation = "bit_not"        -> BitNot(w, n)
    [] Operation = "addition"       -> AddWord(w, n)
    [] Operation = "multiplication" -> MultiplyWord(w, n)

----------------------------------------------------------------------------
(* transform                                                               *)

\* The destination is apart from the source, or begins at or before it.
NotAhead == d_first <= first \/ last <= d_first

Init ==
  /\ orig \in [Addr -> {0, 1}]
  /\ mem = orig
  /\ first \in 0 .. MemBits /\ last \in 0 .. MemBits /\ first <= last
  /\ d_first \in 0 .. (MemBits - (last - first))
  /\ NotAhead
  /\ operand \in 0 .. (IF Operation = "bit_not" THEN 0 ELSE Limit - 1)
  /\ src = first /\ it = Base(d_first)
  /\ remaining = last - first
  /\ carry = 0
  /\ pc = "start"
  /\ used = {} /\ d_used = {}

\* The function applied to w, of which n bits are src's; the n bits at position
\* of the word at it become those of the result.
Put(w, position, n) ==
  /\ \E r \in Apply(w, n) :
       /\ mem' = Store(mem, it, BitBlend(Load(mem, it), r.word, position, n))
       /\ carry' = r.carry
  /\ used' = GetWordLoads(src, n) /\ d_used' = {it}
  /\ src' = src + n /\ it' = it + W
  /\ remaining' = remaining - n

PutNothing ==
  /\ used' = {} /\ d_used' = {}
  /\ UNCHANGED <<mem, carry, src, it, remaining>>

Empty ==
  /\ pc = "start"
  /\ first = last
  /\ PutNothing
  /\ pc' = "done"
  /\ UNCHANGED Call

\* What follows the head: the words of an aligned source, when more than one is
\* left, or words put together from two.
Proceed(a, left) == pc' = IF Pos(a) = 0 /\ left > W THEN "bulk" ELSE "shifted"

\* A faulty Head: the source bits are not shifted to the position of d_first.
HeadUnshifted ==
  /\ pc = "start"
  /\ first # last
  /\ LET n == IF Pos(d_first) = 0 THEN 0 ELSE Least(remaining, W - Pos(d_first))
     IN  /\ IF n = 0 THEN PutNothing
                     ELSE Put(MaskLow(GetWord(mem, src, n), n), Pos(d_first), n)
         /\ Proceed(src + n, remaining - n)
  /\ UNCHANGED Call

\* The bits that share the word of an unaligned d_first, shifted to its position.
Head ==
  /\ pc = "start"
  /\ first # last
  /\ LET n == IF Pos(d_first) = 0 THEN 0 ELSE Least(remaining, W - Pos(d_first))
     IN  /\ IF n = 0 THEN PutNothing
                     ELSE Put(Lsl(MaskLow(GetWord(mem, src, n), n), Pos(d_first)), Pos(d_first), n)
         /\ Proceed(src + n, remaining - n)
  /\ UNCHANGED Call

\* A faulty BulkWord: the loop runs to the end of last's own word.
BulkWordPastLast ==
  /\ pc = "bulk"
  /\ src < last
  /\ Put(Load(mem, src), 0, W)
  /\ UNCHANGED <<Call, pc>>

\* One word of the loop up to last.base() (the code subtracts the words from
\* remaining_bits_to_op once, after the loop).
BulkWord ==
  /\ pc = "bulk"
  /\ src # Base(last)
  /\ Put(Load(mem, src), 0, W)
  /\ UNCHANGED <<Call, pc>>

ShiftedWord ==
  /\ pc = "shifted"
  /\ remaining >= W
  /\ Put(GetWord(mem, src, W), 0, W)
  /\ UNCHANGED <<Call, pc>>

\* A faulty Tail: the whole last word is written.
TailWholeWord ==
  /\ \/ pc = "bulk" /\ src = Base(last)
     \/ pc = "shifted" /\ remaining < W
  /\ IF remaining > 0 THEN Put(MaskLow(GetWord(mem, src, remaining), remaining), 0, W)
                      ELSE PutNothing
  /\ pc' = "done"
  /\ UNCHANGED Call

\* The bits that are left.
Tail ==
  /\ \/ pc = "bulk" /\ src = Base(last)
     \/ pc = "shifted" /\ remaining < W
  /\ IF remaining > 0 THEN Put(MaskLow(GetWord(mem, src, remaining), remaining), 0, remaining)
                      ELSE PutNothing
  /\ pc' = "done"
  /\ UNCHANGED Call

Finished ==
  /\ pc = "done"
  /\ UNCHANGED vars

Next == Empty \/ Head \/ BulkWord \/ ShiftedWord \/ Tail \/ Finished

Spec == Init /\ [][Next]_vars

----------------------------------------------------------------------------
(* Properties                                                              *)

\* Types; and what is left is the rest of the range.
TypeOK ==
  /\ orig \in [Addr -> {0, 1}] /\ mem \in [Addr -> {0, 1}]
  /\ first \in Nat /\ last \in Nat /\ first <= last /\ last <= MemBits
  /\ d_first \in Nat /\ d_first + (last - first) <= MemBits
  /\ operand \in 0 .. (Limit - 1) /\ carry \in 0 .. (Limit - 1)
  /\ src \in first .. last /\ it \in 0 .. (MemBits + W)
  /\ remaining = last - src
  /\ pc \in {"start", "bulk", "shifted", "done"}
  /\ used \in SUBSET Int /\ d_used \in SUBSET Int

\* a is a bit of the destination that has been passed.
Written(a) == d_first <= a /\ a < d_first + (src - first)

\* transform with bit_not: each bit of the destination passed so far is the
\* complement of the source bit it had when transform was called, whatever the
\* two alignments, and also when the destination overlaps the source from below.
NotCorrect ==
  \A a \in Addr : Written(a) => mem[a] = 1 - orig[first + (a - d_first)]

\* No bit outside the destination changes, also not in the words it shares.
OutsideIntact ==
  \A a \in Addr :
    a < d_first \/ d_first + (last - first) <= a => mem[a] = orig[a]

\* Every word read holds a bit of the source, every word written one of the
\* destination.
AccessInRange ==
  /\ \A b \in used : Holds(b, first, last)
  /\ \A b \in d_used : Holds(b, d_first, d_first + (last - first))

----------------------------------------------------------------------------
(* bit::addition and bit::multiplication as the numbers they compute:      *)
(* [first, last) and the range written at d_first are read as binary       *)
(* numbers, least significant bit first.  What they return is the carry    *)
(* the last word leaves.                                                   *)

Bits == last - first

\* The destination begins with a word and ends in it.
InFirstWord == Pos(d_first) = 0 /\ Bits <= W

\* What multiplication computes fits in a word.
FitsWord == operand * Number(orig, first, Bits) < Limit

\* addition leaves the sum of the range and the operand, modulo what the range
\* can hold, and returns whether it did not fit (test-addition.cpp:8, :9).
AdditionCorrect ==
  LET sum == Number(orig, first, Bits) + operand
  IN  pc = "done" /\ Bits > 0 =>
        /\ Number(mem, d_first, Bits) = sum % 2 ^ Bits
        /\ carry = 1 <=> sum >= 2 ^ Bits

\* multiplication leaves the low bits of the product of the range and the
\* operand and returns the high ones (test-multiplication.cpp:14, :15).
MultiplicationCorrect ==
  pc = "done" =>
    Number(mem, d_first, Bits) + carry * 2 ^ Bits
      = Number(orig, first, Bits) * operand
=============================================================================
