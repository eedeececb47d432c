--------------------------- MODULE BitSwapRanges ---------------------------
(***************************************************************************)
(* bit::swap_ranges (swap_ranges.hpp): exchanges the bits [first1, last1)  *)
(* with those from first2 on.  Fields of two words are exchanged in place  *)
(* by three exclusive ors; the two ranges may lie in the same word, and do *)
(* when rotate calls it, so that a word is exchanged with itself.  A step  *)
(* exchanges the fields of one word of the first range.                    *)
(*                                                                         *)
(* std::swap_ranges's precondition is assumed: the ranges do not overlap.  *)
(* A bit is here a set of names and exclusive or the symmetric difference, *)
(* so that a bit of one memory cell is told from any combination of bits.  *)
(***************************************************************************)
EXTENDS BitWord

VARIABLES
  mem,            \* the words, as one array of bits
  orig,           \* history: mem when swap_ranges was called
  begin1, len,    \* the call: first1 and distance(first1, last1)
  begin2,         \* the call: first2
  first2,         \* the local first2, moved on when first1 gets aligned
  it1, it2,       \* the words exchanged next
  ret,            \* the iterator returned
  pc,             \* what the code does next
  used,           \* history: the words the last step dereferenced
  shifts          \* history: the shift counts the last step used

vars == <<mem, orig, begin1, len, begin2, first2, it1, it2, ret, pc, used, shifts>>

Call  == <<orig, begin1, len, begin2>>
last1 == begin1 + len

Init ==
  /\ orig \in [Addr -> Bit]
  /\ mem = orig
  /\ begin1 \in 0 .. MemBits /\ begin2 \in 0 .. MemBits /\ len \in 0 .. MemBits
  /\ begin1 + len <= MemBits /\ begin2 + len <= MemBits
  /\ begin1 + len <= begin2 \/ begin2 + len <= begin1
  /\ first2 = begin2
  /\ it1 = Base(begin1) /\ it2 = Base(begin2)
  /\ ret = begin2
  /\ pc = "start"
  /\ used = {} /\ shifts = {}

----------------------------------------------------------------------------
(* _bitexch                                                                *)

BitXor(v, w) == [i \in BitPos |-> (v[i] \ w[i]) \cup (w[i] \ v[i])]

\* The word shifted up by k bits, or down when k is negative.
Shifted(w, k) == IF k >= 0 THEN Lsl(w, k) ELSE Lsr(w, -k)

Field(w, start, n) ==
  [i \in BitPos |-> IF start <= i /\ i < start + n THEN w[i] ELSE Zero]

\* The word at b0 ^= its field of n bits at s0, read from that at s1 of b1.
XorField(m, b0, b1, s0, s1, n) ==
  Store(m, b0, BitXor(Load(m, b0), Field(Shifted(Load(m, b1), s0 - s1), s0, n)))

\* A faulty Exchange: the third exclusive or is forgotten.
ExchangeTwice(m, b0, b1, s0, s1, n) ==
  XorField(XorField(m, b0, b1, s0, s1, n), b1, b0, s1, s0, n)

\* Exchanges the n bits at s0 of the word at b0 with those at s1 of that at b1;
\* each assignment is seen by the next, also when b0 = b1.
Exchange(m, b0, b1, s0, s1, n) ==
  LET m1 == XorField(m,  b0, b1, s0, s1, n)
      m2 == XorField(m1, b1, b0, s1, s0, n)
  IN  XorField(m2, b0, b1, s0, s1, n)

ExchangeShifts(s0, s1) == {s0, s1, IF s0 >= s1 THEN s0 - s1 ELSE s1 - s0}

\* One _bitexch.
OnePiece(s0, s1, n) ==
  /\ mem' = Exchange(mem, it1, it2, s0, s1, n)
  /\ used' = {it1, it2}
  /\ shifts' = ExchangeShifts(s0, s1)

\* Two of them: the n bits at s0 of *it1 with the last bits of *it2, from s1 on,
\* and then the first bits of the word after.
TwoPieces(s0, s1, n) ==
  LET n1 == W - s1
  IN  /\ mem' = Exchange(Exchange(mem, it1, it2, s0, s1, n1), it1, it2 + W, s0 + n1, 0, n - n1)
      /\ used' = {it1, it2, it2 + W}
      /\ shifts' = ExchangeShifts(s0, s1) \cup ExchangeShifts(s0 + n1, 0)

----------------------------------------------------------------------------

Return(r) == pc' = "done" /\ ret' = r /\ UNCHANGED <<Call, first2, it1, it2>>

\* if (first1 == last1) return first2
Empty ==
  /\ pc = "start"
  /\ len = 0
  /\ used' = {} /\ shifts' = {}
  /\ Return(begin2)
  /\ UNCHANGED mem

\* std::next(it1, is_last1_aligned) == last1.base()
SingleWord == it1 + (IF Pos(last1) = 0 THEN W ELSE 0) = Base(last1)

\* A faulty BothInOne: a second range that starts higher and crosses into the next
\* word is not looked out for.
BothInOneAlways == TRUE

\* The bits they are exchanged with are in one word too.
BothInOne == Pos(begin1) >= Pos(begin2) \/ len <= W - Pos(begin2)

\* All the bits of the first range are in one word.
InOneWord ==
  /\ pc = "start"
  /\ len # 0
  /\ SingleWord
  /\ IF BothInOne
       THEN OnePiece(Pos(begin1), Pos(begin2), len)
       ELSE TwoPieces(Pos(begin1), Pos(begin2), len)
  /\ Return(begin2 + len)

\* Several words, and both ranges have the same alignment: the first word, ...
SameHead ==
  /\ pc = "start"
  /\ len # 0
  /\ ~SingleWord
  /\ Pos(begin1) = Pos(begin2)
  /\ OnePiece(Pos(begin1), Pos(begin1), W - Pos(begin1))
  /\ it1' = it1 + W /\ it2' = it2 + W
  /\ pc' = "same"
  /\ UNCHANGED <<Call, first2, ret>>

\* ... a word of std::swap_ranges(it1, last1.base(), it2), ...
SameWord ==
  /\ pc = "same"
  /\ it1 # Base(last1)
  /\ mem' = Store(Store(mem, it1, Load(mem, it2)), it2, Load(mem, it1))
  /\ used' = {it1, it2} /\ shifts' = {}
  /\ it1' = it1 + W /\ it2' = it2 + W
  /\ UNCHANGED <<Call, first2, ret, pc>>

\* ... and the bits of a partial last word.
SameTail ==
  /\ pc = "same"
  /\ it1 = Base(last1)
  /\ IF Pos(last1) # 0 THEN OnePiece(0, 0, Pos(last1))
                       ELSE used' = {} /\ shifts' = {} /\ UNCHANGED mem
  /\ Return(it2 + Pos(last1))

\* A faulty Head: the bits exchanged always come from two words.
HeadFromTwo ==
  LET n == W - Pos(begin1)
  IN  /\ pc = "start"
      /\ len # 0
      /\ ~SingleWord
      /\ Pos(begin1) # Pos(begin2)
      /\ TwoPieces(Pos(begin1), Pos(begin2), n)
      /\ it2' = it2 + W
      /\ it1' = it1 + W
      /\ first2' = first2 + n
      /\ pc' = "words"
      /\ UNCHANGED <<Call, ret>>

\* Several words, differently aligned: the bits that align first1, ...
Head ==
  LET n == W - Pos(begin1)
  IN  /\ pc = "start"
      /\ len # 0
      /\ ~SingleWord
      /\ Pos(begin1) # Pos(begin2)
      /\ IF Pos(begin1) > Pos(begin2)
           THEN OnePiece(Pos(begin1), Pos(begin2), n) /\ it2' = it2
           ELSE TwoPieces(Pos(begin1), Pos(begin2), n) /\ it2' = it2 + W
      /\ it1' = it1 + W
      /\ first2' = first2 + n
      /\ pc' = "words"
      /\ UNCHANGED <<Call, ret>>

\* ... full words, each with the end of one word and the begin of the next, ...
FullWord ==
  /\ pc = "words"
  /\ it1 # Base(last1)
  /\ TwoPieces(0, Pos(first2), W)
  /\ it1' = it1 + W /\ it2' = it2 + W
  /\ UNCHANGED <<Call, first2, ret, pc>>

\* A faulty Tail: the bits exchanged always come from two words.
TailFromTwo ==
  /\ pc = "words"
  /\ it1 = Base(last1)
  /\ IF Pos(last1) = 0
       THEN used' = {} /\ shifts' = {} /\ UNCHANGED mem
       ELSE TwoPieces(0, Pos(first2), Pos(last1))
  /\ Return(it2 + Pos(first2) + Pos(last1))

\* ... and the bits of a partial last word.
Tail ==
  /\ pc = "words"
  /\ it1 = Base(last1)
  /\ IF Pos(last1) = 0
       THEN used' = {} /\ shifts' = {} /\ UNCHANGED mem
     ELSE IF Pos(last1) <= W - Pos(first2)
       THEN OnePiece(0, Pos(first2), Pos(last1))
       ELSE TwoPieces(0, Pos(first2), Pos(last1))
  /\ Return(it2 + Pos(first2) + Pos(last1))

Finished == pc = "done" /\ UNCHANGED vars

Next ==
  \/ Empty \/ InOneWord \/ SameHead \/ SameWord \/ SameTail
  \/ Head \/ FullWord \/ Tail \/ Finished

Spec == Init /\ [][Next]_vars

----------------------------------------------------------------------------
(* Properties                                                              *)

TypeOK ==
  /\ orig \in [Addr -> Bit] /\ mem \in [Addr -> Bit]
  /\ begin1 \in Nat /\ begin2 \in Nat /\ len \in Nat
  /\ first2 \in begin2 .. (begin2 + len) /\ ret \in begin2 .. (begin2 + len)
  /\ it1 \in 0 .. MemBits /\ it2 \in 0 .. MemBits
  /\ pc \in {"start", "same", "words", "done"}
  /\ used \in SUBSET Int /\ shifts \in SUBSET Int

In1(a) == begin1 <= a /\ a < begin1 + len
In2(a) == begin2 <= a /\ a < begin2 + len

\* When swap_ranges returns each bit of one range holds what its partner in the
\* other held, no other bit has changed, and the iterator is the end of the
\* second range.
SwapCorrect ==
  pc = "done" =>
    /\ mem = [a \in Addr |-> IF In1(a) THEN orig[begin2 + (a - begin1)]
                             ELSE IF In2(a) THEN orig[begin1 + (a - begin2)]
                             ELSE orig[a]]
    /\ ret = begin2 + len

\* Between two words nothing is lost or half exchanged: each pair of bits holds
\* its two original bits, in either order, and bits outside the ranges their
\* own, the neighbours in a shared word included.
PairsKept ==
  /\ \A i \in 0 .. (len - 1) :
       {mem[begin1 + i], mem[begin2 + i]} = {orig[begin1 + i], orig[begin2 + i]}
  /\ \A a \in Addr : ~In1(a) /\ ~In2(a) => mem[a] = orig[a]

\* A word dereferenced holds a bit of one of the ranges: it2 is not read when it
\* has passed the end of the second range.
AccessInRange ==
  \A b \in used : Holds(b, begin1, begin1 + len) \/ Holds(b, begin2, begin2 + len)

\* Every shift count is one C++ defines.
ShiftsDefined == \A k \in shifts : ShiftDefined(k)
=============================================================================
