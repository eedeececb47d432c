------------------------------ MODULE BitEqual ------------------------------
(***************************************************************************)
(* bit::equal (equal.hpp): whether [first, last) and the range of the same *)
(* length at d_first hold the same bits, in words of one width.  As in     *)
(* bit::copy the words are those of the second range: a partial first one, *)
(* whole words (compared directly when the first range is aligned too),    *)
(* and a partial last one.  One behaviour is one call, one step one word,  *)
(* or all the words std::equal compares.                                   *)
(*                                                                         *)
(* Both ranges lie in one memory, apart or not: equal writes nothing.      *)
(***************************************************************************)
EXTENDS BitWord

VARIABLES
  mem,                     \* the words, as one array of bits
  first, last, d_first,    \* the call
  src,                     \* the local first: the bit compared next
  it,                      \* the local it: the word it is compared with
  remaining,               \* remaining_bits_to_check
  result,                  \* the value returned
  pc,                      \* what the code does next
  used, d_used             \* history: the words of each range the last step read

vars == <<mem, first, last, d_first, src, it, remaining, result, pc, used, d_used>>

Call == <<mem, first, last, d_first>>

Init ==
  /\ mem \in [Addr -> Bit]
  /\ first \in 0 .. MemBits /\ last \in 0 .. MemBits /\ first <= last
  /\ d_first \in 0 .. (MemBits - (last - first))
  /\ src = first /\ it = Base(d_first)
  /\ remaining = last - first
  /\ result = TRUE
  /\ pc = "start"
  /\ used = {} /\ d_used = {}

\* *it and get_word(src, len) agree in the len bits at position.
SameBits(position, len) ==
  LET comp == Lsl(GetWord(mem, src, len), position)
  IN  \A i \in position .. (position + len - 1) : Load(mem, it)[i] = comp[i]

\* What follows a comparison of len bits with the word at it.
Proceed(same, len, next) ==
  /\ used' = GetWordLoads(src, len) /\ d_used' = {it}
  /\ IF same
       THEN /\ src' = src + len /\ it' = it + W
            /\ remaining' = remaining - len
            /\ pc' = next /\ UNCHANGED result
       ELSE /\ result' = FALSE /\ pc' = "done"
            /\ UNCHANGED <<src, it, remaining>>

ReadNothing == used' = {} /\ d_used' = {}

Empty ==
  /\ pc = "start"
  /\ first = last
  /\ ReadNothing
  /\ pc' = "done"
  /\ UNCHANGED <<Call, src, it, remaining, result>>

\* A faulty Head: the partial word is taken to reach its end.
HeadToEnd ==
  /\ pc = "start"
  /\ first # last
  /\ IF Pos(d_first) # 0
       THEN Proceed(SameBits(Pos(d_first), Least(remaining, W - Pos(d_first))),
                    W - Pos(d_first), "words")
       ELSE ReadNothing /\ pc' = "words" /\ UNCHANGED <<src, it, remaining, result>>
  /\ UNCHANGED Call

\* A faulty Head: the source bits are not shifted to the position of d_first.
HeadUnshifted ==
  /\ pc = "start"
  /\ first # last
  /\ IF Pos(d_first) # 0
       THEN LET len == Least(remaining, W - Pos(d_first))
            IN  Proceed(SameBits(0, len), len, "words")
       ELSE ReadNothing /\ pc' = "words" /\ UNCHANGED <<src, it, remaining, result>>
  /\ UNCHANGED Call

\* The bits that share the word of an unaligned d_first.
Head ==
  /\ pc = "start"
  /\ first # last
  /\ IF Pos(d_first) # 0
       THEN LET len == Least(remaining, W - Pos(d_first))
            IN  Proceed(SameBits(Pos(d_first), len), len, "words")
       ELSE ReadNothing /\ pc' = "words" /\ UNCHANGED <<src, it, remaining, result>>
  /\ UNCHANGED Call

\* first is aligned too: std::equal over the whole words up to last.base().
WholeWords ==
  LET N == Base(last) - src
      starts(b) == {a \in b .. (b + N - 1) : Pos(a) = 0}
  IN  /\ pc = "words"
      /\ Pos(src) = 0 /\ remaining >= W
      /\ used' = starts(src) /\ d_used' = starts(it)
      /\ IF \A i \in 0 .. (N - 1) : mem[src + i] = mem[it + i]
           THEN /\ src' = src + N /\ it' = it + N
                /\ remaining' = remaining - N
                /\ pc' = "tail" /\ UNCHANGED result
           ELSE /\ result' = FALSE /\ pc' = "done"
                /\ UNCHANGED <<src, it, remaining>>
      /\ UNCHANGED Call

\* It is not, and never will be: one word of the loop over shifted words.
ShiftedWord ==
  /\ pc = "words"
  /\ Pos(src) # 0 /\ remaining >= W
  /\ Proceed(SameBits(0, W), W, "words")
  /\ UNCHANGED Call

ToTail ==
  /\ pc = "words"
  /\ remaining < W
  /\ ReadNothing
  /\ pc' = "tail"
  /\ UNCHANGED <<Call, src, it, remaining, result>>

\* A faulty Tail: a word is compared when nothing is left.
TailAlways ==
  /\ pc = "tail"
  /\ Proceed(SameBits(0, remaining), remaining, "done")
  /\ UNCHANGED Call

\* The bits that are left.
Tail ==
  /\ pc = "tail"
  /\ IF remaining > 0
       THEN Proceed(SameBits(0, remaining), remaining, "done")
       ELSE ReadNothing /\ pc' = "done" /\ UNCHANGED <<src, it, remaining, result>>
  /\ UNCHANGED Call

Finished ==
  /\ pc = "done"
  /\ UNCHANGED vars

Next ==
  \/ Empty \/ Head \/ WholeWords \/ ShiftedWord \/ ToTail \/ Tail
  \/ Finished

Spec == Init /\ [][Next]_vars

----------------------------------------------------------------------------
(* Properties                                                              *)

\* Types; and what is left is the rest of the range.
TypeOK ==
  /\ mem \in [Addr -> Bit]
  /\ first \in Nat /\ last \in Nat /\ first <= last /\ last <= MemBits
  /\ d_first \in Nat /\ d_first + (last - first) <= MemBits
  /\ src \in first .. last /\ it \in 0 .. (MemBits + W)
  /\ remaining = last - src
  /\ result \in BOOLEAN
  /\ pc \in {"start", "words", "tail", "done"}
  /\ used \in SUBSET Int /\ d_used \in SUBSET Int

\* The n bits at first and those at d_first are equal.
Agree(n) == \A i \in 0 .. (n - 1) : mem[first + i] = mem[d_first + i]

\* equal returns whether the ranges agree in every bit, and does not look at
\* the bits that share a word with them.
EqualCorrect == pc = "done" => (result <=> Agree(last - first))

\* What has been passed agrees, and the next bit of the first range is compared
\* with its counterpart: the words of the second range begin where src stands.
InStep ==
  pc = "words" =>
    /\ Agree(src - first)
    /\ remaining > 0 => it - d_first = src - first

\* Every word dereferenced holds a bit of the range it belongs to.
AccessInRange ==
  /\ \A b \in used : Holds(b, first, last)
  /\ \A b \in d_used : Holds(b, d_first, d_first + (last - first))
=============================================================================
