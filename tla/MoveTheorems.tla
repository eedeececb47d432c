---------------------------- MODULE MoveTheorems ----------------------------
(***************************************************************************)
(* copy_backward, fill, the shifts and the binary transform are right for  *)
(* every width of a word, every memory and every range: what a word-wise   *)
(* loop leaves in the memory is what moving bit by bit would, and nothing  *)
(* outside the ranges is touched or written.  Each algorithm has an        *)
(* invariant of its own and a lemma per step, which says that the step     *)
(* keeps it.                                                               *)
(***************************************************************************)
EXTENDS MCMoveAlgorithms, BitWordTheorems

\* The memory with the bits at lo up to hi those that were delta further on.
Carried(lo, hi, delta) ==
  [a \in Addr |-> IF lo <= a /\ a < hi THEN orig[a + delta] ELSE orig[a]]

LEMMA CarriedNone ==
  ASSUME orig \in [Addr -> Bit], NEW lo \in Int, NEW hi \in Int, hi <= lo, NEW delta
  PROVE  Carried(lo, hi, delta) = orig
<1>1. \A a \in Addr : ~(lo <= a /\ a < hi)
  BY Widths
<1> QED BY <1>1 DEF Carried

LEMMA CarriedType ==
  ASSUME orig \in [Addr -> Bit], NEW lo \in Int, NEW hi \in Int, NEW delta \in Int,
         0 <= lo + delta, hi + delta <= MemBits
  PROVE  Carried(lo, hi, delta) \in [Addr -> Bit]
<1>1. ASSUME NEW a \in Addr, lo <= a, a < hi PROVE a + delta \in Addr
  BY <1>1, Widths
<1> QED BY <1>1 DEF Carried

\* A bit that has not been overwritten.
LEMMA CarriedSource ==
  ASSUME NEW lo \in Int, NEW hi \in Int, NEW delta, NEW a \in Addr, a < lo \/ hi <= a
  PROVE  Carried(lo, hi, delta)[a] = orig[a]
BY Widths DEF Carried

\* The k low bits of v are those that go to the address from.
Carries(v, k, from, delta) == \A i \in 0 .. (k - 1) : v[i] = orig[from + i + delta]

\* The bits carried next, at either end.
LEMMA CarriedGrows ==
  ASSUME NEW lo \in Int, NEW hi \in Int, NEW delta \in Int, lo <= hi,
         NEW from \in Int, NEW k \in Nat, NEW new, NEW v,
         Puts(Carried(lo, hi, delta), new, from, k, v),
         Carries(v, k, from, delta)
  PROVE  /\ from + k = lo => new = Carried(from, hi, delta)
         /\ from = hi => new = Carried(lo, from + k, delta)
<1>1. ASSUME NEW a \in Addr
      PROVE  /\ a \in Int
             /\ new[a] = IF from <= a /\ a < from + k THEN orig[a + delta]
                         ELSE IF lo <= a /\ a < hi THEN orig[a + delta] ELSE orig[a]
  <2>1. a \in Int
    BY Widths
  <2>2. new[a] = IF from <= a /\ a < from + k THEN v[a - from] ELSE Carried(lo, hi, delta)[a]
    BY DEF Puts
  <2>3. from <= a /\ a < from + k => v[a - from] = orig[a + delta]
    <3> HAVE from <= a /\ a < from + k
    <3>1. a - from \in 0 .. (k - 1) /\ from + (a - from) + delta = a + delta
      BY <2>1
    <3> QED BY <3>1 DEF Carries
  <2> QED BY <2>1, <2>2, <2>3 DEF Carried
<1>2. new = [a \in Addr |-> new[a]]
  BY DEF Puts
<1>3. ASSUME from + k = lo PROVE new = Carried(from, hi, delta)
  <2>1. \A a \in Addr : new[a] = IF from <= a /\ a < hi THEN orig[a + delta] ELSE orig[a]
    BY <1>1, <1>3
  <2> QED BY <1>2, <2>1 DEF Carried
<1>4. ASSUME from = hi PROVE new = Carried(lo, from + k, delta)
  <2>1. \A a \in Addr : new[a] = IF lo <= a /\ a < from + k THEN orig[a + delta] ELSE orig[a]
    BY <1>1, <1>4
  <2> QED BY <1>2, <2>1 DEF Carried
<1> QED BY <1>3, <1>4

----------------------------------------------------------------------------
(* fill                                                                    *)

LEMMA FillWords ==
  /\ Fill!BitPos = BitPos /\ Fill!MemBits = MemBits /\ Fill!Addr = Addr
  /\ \A a : Fill!Pos(a) = Pos(a) /\ Fill!Base(a) = Base(a)
  /\ \A m, b, w : Fill!Store(m, b, w) = Store(m, b, w)
  /\ \A m, w, a, k : Fill!WriteWord(m, w, a, k) = WriteWord(m, w, a, k)
  /\ \A a, k : /\ Fill!WriteWordWords(a, k) = WriteWordWords(a, k)
               /\ Fill!WriteWordShifts(a, k) = WriteWordShifts(a, k)
  /\ \A a, b : Fill!IsWithin(a, b) <=> IsWithin(a, b)
  /\ \A a, b, c : Fill!Holds(a, b, c) <=> Holds(a, b, c)
  /\ \A k : Fill!ShiftDefined(k) <=> ShiftDefined(k)
<1>1. /\ Fill!BitPos = BitPos /\ Fill!MemBits = MemBits /\ Fill!Addr = Addr
      /\ \A a : Fill!Pos(a) = Pos(a) /\ Fill!Base(a) = Base(a)
  BY DEF Fill!BitPos, Fill!MemBits, Fill!Addr, Fill!Pos, Fill!Base, BitPos, MemBits, Addr, Pos, Base
<1>2. /\ \A m, b, w : Fill!Store(m, b, w) = Store(m, b, w)
      /\ \A m, b : Fill!Load(m, b) = Load(m, b)
      /\ \A w, k : Fill!Lsr(w, k) = Lsr(w, k) /\ Fill!Lsl(w, k) = Lsl(w, k)
      /\ \A v, w, s, k : Fill!BitBlend(v, w, s, k) = BitBlend(v, w, s, k)
      /\ \A a, b : Fill!Least(a, b) = Least(a, b)
      /\ \A a, k : Fill!Spans(a, k) <=> Spans(a, k)
  BY <1>1 DEF Fill!Store, Fill!Load, Fill!Lsr, Fill!Lsl, Fill!BitBlend, Fill!Least, Fill!Spans,
              Store, Load, Lsr, Lsl, BitBlend, Least, Spans
<1>3. \A m, w, a, k : Fill!WriteWord(m, w, a, k) = WriteWord(m, w, a, k)
  BY <1>1, <1>2 DEF Fill!WriteWord, WriteWord
<1>4. \A a, k : /\ Fill!WriteWordWords(a, k) = WriteWordWords(a, k)
                /\ Fill!WriteWordShifts(a, k) = WriteWordShifts(a, k)
  BY <1>1, <1>2 DEF Fill!WriteWordWords, Fill!WriteWordShifts, WriteWordWords, WriteWordShifts
<1>5. \A a, b : Fill!IsWithin(a, b) <=> IsWithin(a, b)
  BY <1>1 DEF Fill!IsWithin, Fill!IsWithin0, IsWithin, IsWithin0
<1> QED BY <1>1, <1>2, <1>3, <1>4, <1>5 DEF Fill!Holds, Fill!ShiftDefined, Holds, ShiftDefined

\* The range is filled up to h.
FilledTo(h) == \A a \in Addr : begin <= a /\ a < h => mem[a] = bv

FillInv ==
  /\ Fill!TypeOK /\ Fill!OutsideIntact /\ Fill!AccessInRange /\ Fill!ShiftsDefined
  /\ pc = "start" => it = Base(begin)
  /\ pc = "words" => /\ begin < end /\ begin <= it /\ it <= Base(end) /\ Pos(it) = 0
                     /\ FilledTo(it)
  /\ pc = "done" => FilledTo(end)

LEMMA FillFacts ==
  ASSUME FillInv
  PROVE  /\ mem \in [Addr -> Bit] /\ orig \in [Addr -> Bit] /\ bv \in Bit
         /\ DOMAIN mem = Addr /\ mem = [a \in Addr |-> mem[a]]
         /\ begin \in Nat /\ end \in Nat /\ begin <= end /\ end <= MemBits
         /\ it \in Int /\ 0 <= it /\ it <= MemBits
         /\ W \in Nat /\ W > 0 /\ MemBits \in Nat
         /\ Pos(begin) \in 0 .. (W - 1) /\ Base(begin) \in Int /\ begin = Base(begin) + Pos(begin)
         /\ Pos(end) \in 0 .. (W - 1) /\ Base(end) \in Int /\ end = Base(end) + Pos(end)
<1>1. begin \in Nat /\ end \in Nat
  BY DEF FillInv, Fill!TypeOK
<1>2. /\ Pos(begin) \in 0 .. (W - 1) /\ Base(begin) \in Int /\ begin = Base(begin) + Pos(begin)
      /\ Pos(end) \in 0 .. (W - 1) /\ Base(end) \in Int /\ end = Base(end) + Pos(end)
  BY <1>1, RangeFacts
<1> QED BY <1>1, <1>2, Widths, FillWords DEF FillInv, Fill!TypeOK

\* What a step has to show: that it fills from where the range was filled to.
LEMMA FillKeeps ==
  ASSUME FillInv, orig' = orig, begin' = begin, end' = end, bv' = bv,
         NEW from \in Int, NEW k \in Nat, NEW v, begin <= from, from + k <= end,
         Puts(mem, mem', from, k, v), \A i \in 0 .. (k - 1) : v[i] = bv, FilledTo(from),
         it' \in 0 .. MemBits, pc' \in {"words", "done"},
         used' \in SUBSET Int, \A b \in used' : Holds(b, begin, end),
         shifts' \in SUBSET Int, \A i \in shifts' : ShiftDefined(i),
         pc' = "words" => /\ begin < end /\ it' = from + k
                          /\ it' <= Base(end) /\ Pos(it') = 0,
         pc' = "done" => end = from + k
  PROVE  FillInv'
<1>1. Fill!TypeOK'
  <2>1. mem' \in [Addr -> Bit]
    BY FillFacts, PutsType
  <2> QED BY <2>1, FillFacts, FillWords DEF Fill!TypeOK
<1>2. \A a \in Addr : begin <= a /\ a < from + k => mem'[a] = bv
  <2> SUFFICES ASSUME NEW a \in Addr, begin <= a, a < from + k PROVE mem'[a] = bv
    OBVIOUS
  <2>1. mem'[a] = IF from <= a /\ a < from + k THEN v[a - from] ELSE mem[a]
    BY DEF Puts
  <2>2. from <= a => a - from \in 0 .. (k - 1)
    BY Widths
  <2> QED BY <2>1, <2>2, Widths DEF FilledTo
<1>3. Fill!OutsideIntact'
  <2> SUFFICES ASSUME NEW a \in Addr, ~(begin <= a /\ a < end) PROVE mem'[a] = orig[a]
    BY FillWords DEF Fill!OutsideIntact, Fill!Filled
  <2>1. mem'[a] = mem[a]
    BY FillFacts, Widths DEF Puts
  <2>2. mem[a] = orig[a]
    BY FillWords DEF FillInv, Fill!OutsideIntact, Fill!Filled
  <2> QED BY <2>1, <2>2
<1>4. Fill!AccessInRange' /\ Fill!ShiftsDefined'
  BY FillWords DEF Fill!AccessInRange, Fill!ShiftsDefined
<1>5. /\ pc' = "words" => FilledTo(it)'
      /\ pc' = "done" => FilledTo(end)'
  BY <1>2 DEF FilledTo
<1>6. Pos(it)' = Pos(it') /\ Base(end)' = Base(end)
  BY DEF Pos, Base
<1>7. pc' = "words" => begin <= it'
  BY FillFacts
<1> QED BY <1>1, <1>3, <1>4, <1>5, <1>6, <1>7 DEF FillInv

LEMMA FilledNone == begin \in Int => FilledTo(begin)
BY Widths DEF FilledTo

LEMMA FillWordBits == \A i \in BitPos : Fill!fill_word[i] = bv
BY FillWords DEF Fill!fill_word

\* One call of write_word.
LEMMA WriteFillPuts ==
  ASSUME FillInv, NEW to \in Nat, NEW k \in 1 .. W, Fill!WriteFill(to, k), begin <= to, to + k <= end
  PROVE  /\ Puts(mem, mem', to, k, Fill!fill_word)
         /\ \A i \in 0 .. (k - 1) : Fill!fill_word[i] = bv
         /\ used' \in SUBSET Int /\ \A b \in used' : Holds(b, begin, end)
         /\ shifts' \in SUBSET Int /\ \A i \in shifts' : ShiftDefined(i)
<1>1. /\ mem' = WriteWord(mem, Fill!fill_word, to, k)
      /\ used' = WriteWordWords(to, k) /\ shifts' = WriteWordShifts(to, k)
  BY FillWords DEF Fill!WriteFill
<1>2. Puts(mem, mem', to, k, Fill!fill_word)
  BY <1>1, FillFacts, WriteWordPuts
<1>3. \A i \in 0 .. (k - 1) : Fill!fill_word[i] = bv
  BY FillWordBits, Widths DEF BitPos
<1>4. /\ \A b \in used' : b \in Int /\ b < to + k /\ to < b + W
      /\ \A i \in shifts' : i \in Int /\ ShiftDefined(i)
  BY <1>1, WriteWordAccess
<1>5. \A b \in used' : Holds(b, begin, end)
  BY <1>4, FillFacts, HoldsIs
<1> QED BY <1>2, <1>3, <1>4, <1>5

LEMMA FillEmptyStep ==
  ASSUME FillInv, Fill!Empty
  PROVE  FillInv'
<1>1. /\ end = begin /\ mem' = mem /\ it' = it /\ pc' = "done" /\ used' = {} /\ shifts' = {}
      /\ orig' = orig /\ begin' = begin /\ end' = end /\ bv' = bv
  BY FillFacts DEF Fill!Empty, Fill!Call
<1>2. Puts(mem, mem', begin, 0, <<>>) /\ FilledTo(begin)
  BY <1>1, FillFacts, PutsNothing, FilledNone
<1>3. begin \in Int /\ begin <= begin /\ begin + 0 = end /\ 0 \in Nat /\ begin + 0 <= end
      /\ it' \in 0 .. MemBits
  BY <1>1, FillFacts
<1> QED BY <1>1, <1>2, <1>3, FillKeeps

LEMMA OneWriteStep ==
  ASSUME FillInv, Fill!OneWrite
  PROVE  FillInv'
<1>1. /\ end - begin # 0 /\ IsWithin(begin, end) /\ Fill!WriteFill(begin, end - begin)
      /\ it' = it /\ pc' = "done"
      /\ orig' = orig /\ begin' = begin /\ end' = end /\ bv' = bv
  BY FillWords DEF Fill!OneWrite, Fill!Call
<1>2. end - begin \in 1 .. W
  <2>1. Pos(begin + W) = Pos(begin)
    BY FillFacts, AlignedStep
  <2>2. Base(begin + W) = Base(begin) + W
    BY <2>1, FillFacts DEF Base
  <2>3. /\ end - begin # 0
        /\ \/ Base(begin) = Base(end)
           \/ Base(begin) + W = Base(end) /\ Pos(begin) >= Pos(end)
           \/ Base(begin) + W + W = Base(end) /\ Pos(begin) - W >= Pos(end)
    BY <1>1, <2>1, <2>2 DEF IsWithin, IsWithin0
  <2> QED BY <2>3, FillFacts
<1>3. begin + (end - begin) = end /\ begin \in Int /\ begin <= begin /\ it' \in 0 .. MemBits
      /\ end - begin \in Nat /\ begin + (end - begin) <= end
  BY <1>1, <1>2, FillFacts
<1> DEFINE k == end - begin
<1> HIDE DEF k
<1>4. k \in 1 .. W /\ k \in Nat /\ begin + k = end /\ begin + k <= end /\ Fill!WriteFill(begin, k)
  BY <1>1, <1>2, <1>3 DEF k
<1>5. /\ Puts(mem, mem', begin, k, Fill!fill_word)
      /\ \A i \in 0 .. (k - 1) : Fill!fill_word[i] = bv
      /\ used' \in SUBSET Int /\ \A b \in used' : Holds(b, begin, end)
      /\ shifts' \in SUBSET Int /\ \A i \in shifts' : ShiftDefined(i)
  BY <1>3, <1>4, FillFacts, WriteFillPuts
<1> QED BY <1>1, <1>3, <1>4, <1>5, FilledNone, FillKeeps

LEMMA FillHeadStep ==
  ASSUME FillInv, Fill!Head
  PROVE  FillInv'
<1>1. /\ ~IsWithin(begin, end) /\ it = Base(begin) /\ pc' = "words"
      /\ IF Pos(begin) # 0 THEN Fill!WriteFill(begin, W - Pos(begin)) /\ it' = it + W
         ELSE used' = {} /\ shifts' = {} /\ mem' = mem /\ it' = it
      /\ orig' = orig /\ begin' = begin /\ end' = end /\ bv' = bv
  BY FillWords DEF Fill!Head, Fill!Call, FillInv
<1>2. Base(begin) + W <= Base(end) /\ Pos(Base(begin)) = 0 /\ begin < end
  <2>1. Base(begin) # Base(end)
    BY <1>1 DEF IsWithin
  <2>2. Base(begin) <= Base(end) /\ Pos(Base(begin)) = 0
    BY FillFacts, BaseMonotone, BaseAligned
  <2>3. Base(begin) + W <= Base(end)
    BY <2>1, <2>2, FillFacts, AlignedGap
  <2> QED BY <2>2, <2>3, FillFacts
<1>3. CASE Pos(begin) # 0
  <2> DEFINE k == W - Pos(begin)
  <2>1. k \in 1 .. W /\ k \in Nat /\ begin + k = Base(begin) + W /\ begin + k <= end
    BY <1>2, <1>3, FillFacts
  <2>2. Fill!WriteFill(begin, k) /\ it' = begin + k /\ Pos(it') = 0 /\ it' <= Base(end)
        /\ it' \in 0 .. MemBits
    <3>1. it' = Base(begin) + W /\ Fill!WriteFill(begin, k)
      BY <1>1, <1>3
    <3>2. Pos(it') = 0
      BY <1>2, <3>1, FillFacts, AlignedStep
    <3> QED BY <1>2, <2>1, <3>1, <3>2, FillFacts
  <2> HIDE DEF k
  <2>3. /\ Puts(mem, mem', begin, k, Fill!fill_word)
        /\ \A i \in 0 .. (k - 1) : Fill!fill_word[i] = bv
        /\ used' \in SUBSET Int /\ \A b \in used' : Holds(b, begin, end)
        /\ shifts' \in SUBSET Int /\ \A i \in shifts' : ShiftDefined(i)
    BY <2>1, <2>2, FillFacts, WriteFillPuts
  <2>4. begin \in Int /\ begin <= begin
    BY FillFacts
  <2> QED BY <1>1, <1>2, <2>1, <2>2, <2>3, <2>4, FilledNone, FillKeeps
<1>4. CASE Pos(begin) = 0
  <2>1. /\ used' = {} /\ shifts' = {} /\ mem' = mem /\ it' = begin /\ Base(begin) = begin
    BY <1>1, <1>4, FillFacts
  <2>2. Puts(mem, mem', begin, 0, <<>>) /\ FilledTo(begin)
    BY <2>1, FillFacts, PutsNothing, FilledNone
  <2>3. begin \in Int /\ begin <= begin /\ it' = begin + 0 /\ 0 \in Nat /\ begin + 0 <= end
        /\ it' \in 0 .. MemBits /\ it' <= Base(end) /\ Pos(it') = 0
    BY <1>2, <1>4, <2>1, FillFacts
  <2> QED BY <1>1, <1>2, <2>1, <2>2, <2>3, FillKeeps
<1> QED BY <1>3, <1>4

LEMMA FillWordStep ==
  ASSUME FillInv, Fill!FillWord
  PROVE  FillInv'
<1>1. /\ it # Base(end) /\ mem' = Store(mem, it, Fill!fill_word) /\ used' = {it} /\ shifts' = {}
      /\ it' = it + W /\ pc' = "words"
      /\ orig' = orig /\ begin' = begin /\ end' = end /\ bv' = bv
      /\ begin < end /\ begin <= it /\ it <= Base(end) /\ Pos(it) = 0 /\ FilledTo(it)
  BY FillWords DEF Fill!FillWord, Fill!Call, FillInv
<1>2. it + W <= Base(end) /\ Pos(it + W) = 0
  <2>1. it < end
    BY <1>1, FillFacts
  <2> QED BY <1>1, <2>1, FillFacts, AlignedGap, AlignedStep
<1>3. Puts(mem, mem', it, W, Fill!fill_word)
  BY <1>1, FillFacts, StorePuts
<1>4. \A i \in 0 .. (W - 1) : Fill!fill_word[i] = bv
  BY FillWordBits DEF BitPos
<1>5. \A b \in used' : Holds(b, begin, end)
  BY <1>1, <1>2, FillFacts, HoldsIs
<1>6. it' \in 0 .. MemBits /\ it + W <= end /\ it \in Int /\ W \in Nat /\ it' <= Base(end)
      /\ used' \in SUBSET Int /\ Pos(it') = 0
  BY <1>1, <1>2, FillFacts
<1> QED BY <1>1, <1>3, <1>4, <1>5, <1>6, FillKeeps

LEMMA FillTailStep ==
  ASSUME FillInv, Fill!Tail
  PROVE  FillInv'
<1>1. /\ it = Base(end) /\ pc' = "done" /\ it' = it
      /\ IF Pos(end) # 0 THEN Fill!WriteFill(it, Pos(end))
         ELSE used' = {} /\ shifts' = {} /\ mem' = mem
      /\ orig' = orig /\ begin' = begin /\ end' = end /\ bv' = bv
      /\ begin <= it /\ FilledTo(it)
  BY FillWords DEF Fill!Tail, Fill!Call, FillInv
<1> DEFINE k == Pos(end)
<1>2. it + k = end /\ it \in Int /\ it \in Nat /\ k \in Nat /\ it' \in 0 .. MemBits /\ it + k <= end
  BY <1>1, FillFacts
<1>3. CASE Pos(end) # 0
  <2>1. k \in 1 .. W /\ Fill!WriteFill(it, k)
    BY <1>1, <1>3, FillFacts
  <2> HIDE DEF k
  <2>2. /\ Puts(mem, mem', it, k, Fill!fill_word)
        /\ \A i \in 0 .. (k - 1) : Fill!fill_word[i] = bv
        /\ used' \in SUBSET Int /\ \A b \in used' : Holds(b, begin, end)
        /\ shifts' \in SUBSET Int /\ \A i \in shifts' : ShiftDefined(i)
    BY <1>1, <1>2, <2>1, WriteFillPuts
  <2> QED BY <1>1, <1>2, <2>2, FillKeeps
<1>4. CASE Pos(end) = 0
  <2>1. used' = {} /\ shifts' = {} /\ Puts(mem, mem', it, 0, <<>>) /\ it + 0 = end
    BY <1>1, <1>2, <1>4, FillFacts, PutsNothing
  <2>2. it + 0 <= end /\ 0 \in Nat
    BY <1>2, <2>1
  <2> QED BY <1>1, <1>2, <2>1, <2>2, FillKeeps
<1> QED BY <1>3, <1>4

LEMMA FillInit ==
  ASSUME Fill!Init
  PROVE  FillInv
<1>1. /\ orig \in [Addr -> Bit] /\ mem = orig
      /\ begin \in 0 .. MemBits /\ end \in 0 .. MemBits /\ begin <= end
      /\ bv \in {Zero, One} /\ it = Base(begin) /\ pc = "start" /\ used = {} /\ shifts = {}
  BY FillWords DEF Fill!Init
<1>2. Base(begin) \in 0 .. MemBits
  <2>1. begin \in Int /\ 0 <= begin /\ begin <= MemBits
    BY <1>1, Widths
  <2>2. Base(0) = 0
    <3>1. 0 % W = 0
      BY Widths
    <3> QED BY <3>1 DEF Base, Pos
  <2>3. 0 <= Base(begin)
    BY <2>1, <2>2, BaseMonotone
  <2> QED BY <2>1, <2>3, PosRange, Widths
<1>3. bv \in Bit
  BY <1>1, BitAssumption, OneAssumption
<1> QED BY <1>1, <1>2, <1>3, FillWords, Widths
        DEF FillInv, Fill!TypeOK, Fill!OutsideIntact, Fill!AccessInRange, Fill!ShiftsDefined

LEMMA FillNext ==
  ASSUME FillInv, Fill!Next
  PROVE  FillInv'
<1>1. CASE Fill!Finished
  BY <1>1 DEF Fill!Finished, Fill!vars, FillInv, FilledTo, Fill!TypeOK, Fill!OutsideIntact,
              Fill!Filled, Fill!AccessInRange, Fill!ShiftsDefined
<1> QED BY <1>1, FillEmptyStep, OneWriteStep, FillHeadStep, FillWordStep, FillTailStep DEF Fill!Next

LEMMA FillImplies ==
  ASSUME FillInv
  PROVE  /\ Fill!TypeOK /\ Fill!FillCorrect /\ Fill!OutsideIntact
         /\ Fill!AccessInRange /\ Fill!ShiftsDefined
BY FillWords DEF FillInv, Fill!FillCorrect, Fill!Filled, FilledTo

----------------------------------------------------------------------------
(* copy_backward                                                           *)

LEMMA CopyWords ==
  /\ Copy!BitPos = BitPos /\ Copy!MemBits = MemBits /\ Copy!Addr = Addr
  /\ \A a : Copy!Pos(a) = Pos(a) /\ Copy!Base(a) = Base(a)
  /\ \A m, b, w : Copy!Store(m, b, w) = Store(m, b, w)
  /\ \A m, b : Copy!Load(m, b) = Load(m, b)
  /\ \A w, k : Copy!Lsl(w, k) = Lsl(w, k)
  /\ \A v, w, s, k : Copy!BitBlend(v, w, s, k) = BitBlend(v, w, s, k)
  /\ \A a, b : Copy!Least(a, b) = Least(a, b)
  /\ \A m, a, k : Copy!GetWord(m, a, k) = GetWord(m, a, k)
  /\ \A a, k : /\ Copy!GetWordLoads(a, k) = GetWordLoads(a, k)
               /\ Copy!GetWordShifts(a, k) = GetWordShifts(a, k)
  /\ \A a, b, c : Copy!Holds(a, b, c) <=> Holds(a, b, c)
  /\ \A k : Copy!ShiftDefined(k) <=> ShiftDefined(k)
<1>1. /\ Copy!BitPos = BitPos /\ Copy!MemBits = MemBits /\ Copy!Addr = Addr
      /\ \A a : Copy!Pos(a) = Pos(a) /\ Copy!Base(a) = Base(a)
  BY DEF Copy!BitPos, Copy!MemBits, Copy!Addr, Copy!Pos, Copy!Base, BitPos, MemBits, Addr, Pos, Base
<1>2. /\ \A m, b, w : Copy!Store(m, b, w) = Store(m, b, w)
      /\ \A m, b : Copy!Load(m, b) = Load(m, b)
      /\ \A w, k : Copy!Lsr(w, k) = Lsr(w, k) /\ Copy!Lsl(w, k) = Lsl(w, k)
      /\ \A v, w, s, k : Copy!BitBlend(v, w, s, k) = BitBlend(v, w, s, k)
      /\ \A a, b : Copy!Least(a, b) = Least(a, b)
      /\ \A a, k : Copy!Spans(a, k) <=> Spans(a, k)
  BY <1>1 DEF Copy!Store, Copy!Load, Copy!Lsr, Copy!Lsl, Copy!BitBlend, Copy!Least, Copy!Spans,
              Store, Load, Lsr, Lsl, BitBlend, Least, Spans
<1>3. \A m, a, k : Copy!GetWord(m, a, k) = GetWord(m, a, k)
  BY <1>1, <1>2 DEF Copy!GetWord, GetWord
<1>4. \A a, k : /\ Copy!GetWordLoads(a, k) = GetWordLoads(a, k)
                /\ Copy!GetWordShifts(a, k) = GetWordShifts(a, k)
  BY <1>1, <1>2 DEF Copy!GetWordLoads, Copy!GetWordShifts, GetWordLoads, GetWordShifts
<1> QED BY <1>1, <1>2, <1>3, <1>4 DEF Copy!Holds, Copy!ShiftDefined, Holds, ShiftDefined

\* The bits from target + remaining on have arrived; the iterators are where
\* what remains says.
CopyInv ==
  /\ Copy!TypeOK /\ Copy!AccessInRange /\ Copy!ShiftsDefined
  /\ begin <= target \/ target + n <= begin
  /\ mem = Carried(target + remaining, target + n, begin - target)
  /\ pc # "done" => last = begin + remaining
  /\ pc \in {"start", "align"} => remaining = n /\ it = Base(target + n)
  /\ pc = "align" => n > 0 /\ Pos(target + n) # 0
  /\ pc \in {"body", "bulk", "loop", "tail"} /\ remaining > 0 =>
       it = target + remaining /\ Pos(it) = 0
  /\ pc = "bulk" => Pos(last) = 0 /\ Base(begin) + W <= last
  /\ pc = "tail" => 0 < remaining /\ remaining <= W
  /\ pc = "done" => remaining = 0

LEMMA CopyFacts ==
  ASSUME CopyInv
  PROVE  /\ mem \in [Addr -> Bit] /\ orig \in [Addr -> Bit] /\ DOMAIN mem = Addr
         /\ mem = [a \in Addr |-> mem[a]]
         /\ begin \in Nat /\ target \in Nat /\ n \in Nat
         /\ begin + n <= MemBits /\ target + n <= MemBits /\ MemBits \in Nat
         /\ last \in Nat /\ it \in Int /\ remaining \in Nat /\ remaining <= n
         /\ W \in Nat /\ W > 0
         /\ Pos(begin) \in 0 .. (W - 1) /\ Base(begin) \in Int /\ begin = Base(begin) + Pos(begin)
         /\ Pos(target + n) \in 0 .. (W - 1) /\ Base(target + n) \in Int
         /\ target + n = Base(target + n) + Pos(target + n)
<1>1. begin \in Nat /\ target \in Nat /\ n \in Nat
  BY DEF CopyInv, Copy!TypeOK
<1>2. /\ Pos(begin) \in 0 .. (W - 1) /\ Base(begin) \in Int /\ begin = Base(begin) + Pos(begin)
      /\ Pos(target + n) \in 0 .. (W - 1) /\ Base(target + n) \in Int
      /\ target + n = Base(target + n) + Pos(target + n)
  <2>1. begin \in Int /\ target + n \in Int
    BY <1>1
  <2> QED BY <2>1, RangeFacts
<1> QED BY <1>1, <1>2, Widths, CopyWords DEF CopyInv, Copy!TypeOK

\* A source bit that has not been copied is that of the call.
LEMMA CopySource ==
  ASSUME CopyInv, NEW i \in 0 .. (remaining - 1)
  PROVE  begin + i \in Addr /\ mem[begin + i] = orig[begin + i]
<1>1. begin + i \in Addr
  <2>1. begin + i \in Nat /\ begin + i < MemBits
    BY CopyFacts
  <2> QED BY <2>1, Widths
<1>2. begin + i < target + remaining \/ target + n <= begin + i
  BY CopyFacts DEF CopyInv
<1>3. target + remaining \in Int /\ target + n \in Int
  BY CopyFacts
<1>4. mem = Carried(target + remaining, target + n, begin - target)
  BY DEF CopyInv
<1> QED BY <1>1, <1>2, <1>3, <1>4, CarriedSource

\* What a step has to show: that it writes the k bits before those that have
\* arrived, and where it leaves the iterators.
LEMMA CopyKeeps ==
  ASSUME CopyInv, orig' = orig, begin' = begin, target' = target, n' = n,
         NEW k \in 0 .. remaining, NEW v, remaining' = remaining - k,
         Puts(mem, mem', target + (remaining - k), k, v),
         \A i \in 0 .. (k - 1) : v[i] = mem[begin + (remaining - k) + i],
         last' \in Nat, it' \in Int, pc' \in {"align", "body", "bulk", "loop", "tail", "done"},
         used' \in SUBSET Int,
         \A b \in used' : Holds(b, begin, begin + n) \/ Holds(b, target, target + n),
         shifts' \in SUBSET Int, \A i \in shifts' : ShiftDefined(i),
         pc' # "done" => last' = begin + remaining',
         pc' = "align" => remaining' = n /\ it' = Base(target + n) /\ n > 0 /\ Pos(target + n) # 0,
         pc' \in {"body", "bulk", "loop", "tail"} /\ remaining' > 0 =>
           it' = target + remaining' /\ Pos(it') = 0,
         pc' = "bulk" => Pos(last') = 0 /\ Base(begin) + W <= last',
         pc' = "tail" => 0 < remaining' /\ remaining' <= W,
         pc' = "done" => remaining' = 0
  PROVE  CopyInv'
<1> DEFINE lo    == target + remaining
           hi    == target + n
           delta == begin - target
           from  == target + (remaining - k)
<1>1. /\ lo \in Int /\ hi \in Int /\ delta \in Int /\ from \in Int /\ lo <= hi /\ k \in Nat
      /\ from + k = lo /\ remaining' \in 0 .. n
      /\ 0 <= from + delta /\ hi + delta <= MemBits
  BY CopyFacts
<1>2. mem = Carried(lo, hi, delta)
  BY DEF CopyInv
<1>3. Carries(v, k, from, delta)
  <2> SUFFICES ASSUME NEW i \in 0 .. (k - 1) PROVE v[i] = orig[from + i + delta]
    BY DEF Carries
  <2>1. (remaining - k) + i \in 0 .. (remaining - 1) /\ begin + (remaining - k) + i = from + i + delta
        /\ begin + (remaining - k) + i = begin + ((remaining - k) + i)
    BY <1>1, CopyFacts
  <2>2. mem[begin + ((remaining - k) + i)] = orig[begin + ((remaining - k) + i)]
    BY <2>1, CopySource
  <2> QED BY <2>1, <2>2
<1>4. mem' = Carried(from, hi, delta)
  <2>1. Puts(Carried(lo, hi, delta), mem', from, k, v)
    BY <1>2
  <2> HIDE DEF lo, hi, delta, from
  <2> QED BY <1>1, <1>3, <2>1, CarriedGrows
<1>5. mem' \in [Addr -> Bit]
  <2> HIDE DEF lo, hi, delta, from
  <2> QED BY <1>1, <1>4, CopyFacts, CarriedType
<1>6. Carried(target + remaining, target + n, begin - target)' = mem'
  BY <1>4 DEF Carried
<1>7. Copy!TypeOK'
  BY <1>1, <1>5, CopyFacts, CopyWords DEF Copy!TypeOK
<1>8. Copy!AccessInRange' /\ Copy!ShiftsDefined'
  BY CopyWords DEF Copy!AccessInRange, Copy!ShiftsDefined, Copy!d_last
<1>9. /\ Pos(it)' = Pos(it') /\ Pos(last)' = Pos(last') /\ Base(begin)' = Base(begin)
      /\ Base(target + n)' = Base(target + n) /\ Pos(target + n)' = Pos(target + n)
  BY DEF Pos, Base
<1> QED BY <1>6, <1>7, <1>8, <1>9 DEF CopyInv

\* A step that writes nothing.
LEMMA CopyWaits ==
  ASSUME CopyInv, orig' = orig, begin' = begin, target' = target, n' = n,
         mem' = mem, last' = last, it' = it, remaining' = remaining,
         used' = {}, shifts' = {}, pc' \in {"align", "body", "bulk", "loop", "tail", "done"},
         pc # "done",
         pc' = "align" => remaining = n /\ it = Base(target + n) /\ n > 0 /\ Pos(target + n) # 0,
         pc' \in {"body", "bulk", "loop", "tail"} /\ remaining > 0 =>
           it = target + remaining /\ Pos(it) = 0,
         pc' = "bulk" => Pos(last) = 0 /\ Base(begin) + W <= last,
         pc' = "tail" => 0 < remaining /\ remaining <= W,
         pc' = "done" => remaining = 0
  PROVE  CopyInv'
<1> DEFINE k == 0
<1>1. k \in 0 .. remaining /\ remaining' = remaining - k /\ target + (remaining - k) \in Int
  BY CopyFacts
<1>2. Puts(mem, mem', target + (remaining - k), k, <<>>)
  BY <1>1, CopyFacts, PutsNothing
<1>3. \A i \in 0 .. (k - 1) : <<>>[i] = mem[begin + (remaining - k) + i]
  OBVIOUS
<1>4. last' \in Nat /\ it' \in Int /\ (pc' # "done" => last' = begin + remaining')
  BY CopyFacts DEF CopyInv
<1> HIDE DEF k
<1> QED BY <1>1, <1>2, <1>3, <1>4, CopyKeeps

LEMMA CopyStartStep ==
  ASSUME CopyInv, Copy!Start
  PROVE  CopyInv'
<1>1. /\ pc = "start" /\ remaining = n /\ it = Base(target + n)
      /\ pc' = IF n = 0 THEN "done" ELSE IF Pos(target + n) # 0 THEN "align" ELSE "body"
      /\ mem' = mem /\ last' = last /\ it' = it /\ remaining' = remaining
      /\ used' = {} /\ shifts' = {}
      /\ orig' = orig /\ begin' = begin /\ target' = target /\ n' = n
  BY CopyWords DEF Copy!Start, Copy!Call, Copy!d_last, CopyInv
<1>2. Pos(target + n) = 0 => it = target + n /\ Pos(it) = 0
  BY <1>1, CopyFacts
<1>3. CASE n = 0
  BY <1>1, <1>3, CopyFacts, CopyWaits
<1>4. CASE n # 0 /\ Pos(target + n) # 0
  <2>1. n > 0 /\ pc' = "align"
    BY <1>1, <1>4, CopyFacts
  <2> QED BY <1>1, <1>4, <2>1, CopyWaits
<1>5. CASE n # 0 /\ Pos(target + n) = 0
  <2>1. pc' = "body"
    BY <1>1, <1>5
  <2> QED BY <1>1, <1>2, <1>5, <2>1, CopyWaits
<1> QED BY <1>3, <1>4, <1>5

\* A get_word of the k bits before those that have been read.
LEMMA CopyReads ==
  ASSUME CopyInv, pc # "done", NEW k \in 1 .. W, k <= remaining
  PROVE  /\ last - k \in Nat
         /\ \A i \in 0 .. (k - 1) : GetWord(mem, last - k, k)[i] = mem[begin + (remaining - k) + i]
         /\ GetWordLoads(last - k, k) \in SUBSET Int
         /\ \A b \in GetWordLoads(last - k, k) : Holds(b, begin, begin + n)
         /\ GetWordShifts(last - k, k) \in SUBSET Int
         /\ \A i \in GetWordShifts(last - k, k) : ShiftDefined(i)
<1>1. last - k \in Nat /\ last - k = begin + (remaining - k) /\ k \in 0 .. W /\ last <= begin + n
      /\ begin <= last - k /\ k \in Int
  BY CopyFacts DEF CopyInv
<1>2. \A i \in 0 .. (k - 1) : GetWord(mem, last - k, k)[i] = mem[(last - k) + i]
  BY <1>1, GetWordBit
<1>3. /\ \A b \in GetWordLoads(last - k, k) : b \in Int /\ b < (last - k) + k /\ last - k < b + W
      /\ \A i \in GetWordShifts(last - k, k) : i \in Int /\ ShiftDefined(i)
  BY <1>1, GetWordAccess
<1>4. \A b \in GetWordLoads(last - k, k) : Holds(b, begin, begin + n)
  BY <1>1, <1>3, CopyFacts, HoldsIs
<1> QED BY <1>1, <1>2, <1>3, <1>4

\* The read-modify-write of the word at b that Align and Tail do: what get_word
\* gives goes to the places from start on.
LEMMA CopyBlends ==
  ASSUME CopyInv, pc # "done", NEW k \in 1 .. W, k <= remaining,
         NEW b \in Int, NEW start \in Nat, start + k <= W, b + start = target + (remaining - k),
         mem' = Store(mem, b, BitBlend(Load(mem, b), Lsl(GetWord(mem, last - k, k), start), start, k)),
         used' = GetWordLoads(last - k, k) \cup {b},
         shifts' = GetWordShifts(last - k, k) \cup {start}
  PROVE  /\ Puts(mem, mem', target + (remaining - k), k, GetWord(mem, last - k, k))
         /\ \A i \in 0 .. (k - 1) : GetWord(mem, last - k, k)[i] = mem[begin + (remaining - k) + i]
         /\ used' \in SUBSET Int
         /\ \A a \in used' : Holds(a, begin, begin + n) \/ Holds(a, target, target + n)
         /\ shifts' \in SUBSET Int /\ \A i \in shifts' : ShiftDefined(i)
<1> DEFINE w == GetWord(mem, last - k, k)
           x == Lsl(w, start)
<1>1. k \in Nat /\ W \in Nat /\ k <= W /\ 0 < k
  BY Widths
<1>2. ASSUME NEW i \in 0 .. (k - 1) PROVE x[start + i] = w[i]
  <2>1. start + i \in BitPos /\ start <= start + i /\ (start + i) - start = i
    BY <1>1 DEF BitPos
  <2> HIDE DEF w
  <2> QED BY <2>1, LslBit
<1>3. mem' = Store(mem, b, BitBlend(Load(mem, b), x, start, k))
  OBVIOUS
<1>4. Holds(b, target, target + n) /\ ShiftDefined(start) /\ start \in Int
  BY <1>1, CopyFacts, HoldsIs, ShiftIs
<1>5. /\ \A i \in 0 .. (k - 1) : w[i] = mem[begin + (remaining - k) + i]
      /\ GetWordLoads(last - k, k) \in SUBSET Int
      /\ \A a \in GetWordLoads(last - k, k) : Holds(a, begin, begin + n)
      /\ GetWordShifts(last - k, k) \in SUBSET Int
      /\ \A i \in GetWordShifts(last - k, k) : ShiftDefined(i)
  BY CopyReads
<1> HIDE DEF w, x
<1>6. Puts(mem, mem', b + start, k, w)
  BY <1>1, <1>2, <1>3, CopyFacts, BlendPuts
<1> QED BY <1>4, <1>5, <1>6 DEF w

LEMMA CopyAlignStep ==
  ASSUME CopyInv, Copy!Align
  PROVE  CopyInv'
<1> DEFINE p == Pos(target + n)
           k == Least(remaining, p)
           s == p - k
<1>1. /\ pc = "align" /\ remaining = n /\ n > 0 /\ p # 0 /\ it = Base(target + n)
      /\ mem' = Store(mem, it, BitBlend(Load(mem, it), Lsl(GetWord(mem, last - k, k), s), s, k))
      /\ used' = GetWordLoads(last - k, k) \cup {it}
      /\ shifts' = GetWordShifts(last - k, k) \cup {s}
      /\ remaining' = remaining - k /\ last' = last - k /\ it' = it /\ pc' = "body"
      /\ orig' = orig /\ begin' = begin /\ target' = target /\ n' = n
  BY CopyWords DEF Copy!Align, Copy!PartialBits, Copy!Call, Copy!d_last, CopyInv
<1>2. p \in Nat /\ p < W /\ it + p = target + n /\ it \in Int /\ W \in Nat /\ remaining \in Nat
  BY <1>1, CopyFacts
<1> HIDE DEF p
<1>3. /\ k \in 1 .. W /\ k <= remaining /\ k <= p /\ s \in Nat /\ s + k <= W
      /\ (k < remaining => k = p)
  BY <1>1, <1>2, LeastIs DEF Least
<1> HIDE DEF k
<1>4. it + s = target + (remaining - k) /\ k \in 0 .. remaining
  <2>1. it + p = target + remaining /\ target \in Nat
    BY <1>1, <1>2, CopyFacts
  <2> QED BY <1>2, <1>3, <2>1
<1> HIDE DEF s
<1>5. /\ Puts(mem, mem', target + (remaining - k), k, GetWord(mem, last - k, k))
      /\ \A i \in 0 .. (k - 1) : GetWord(mem, last - k, k)[i] = mem[begin + (remaining - k) + i]
      /\ used' \in SUBSET Int
      /\ \A a \in used' : Holds(a, begin, begin + n) \/ Holds(a, target, target + n)
      /\ shifts' \in SUBSET Int /\ \A i \in shifts' : ShiftDefined(i)
  BY <1>1, <1>2, <1>3, <1>4, CopyBlends
<1>6. /\ last' \in Nat /\ last' = begin + remaining'
      /\ remaining' > 0 => it' = target + remaining' /\ Pos(it') = 0
  <2>1. last = begin + remaining
    BY <1>1 DEF CopyInv
  <2>2. Pos(it) = 0
    BY <1>1, CopyFacts, BaseAligned
  <2> QED BY <1>1, <1>2, <1>3, <2>1, <2>2, CopyFacts
<1> QED BY <1>1, <1>2, <1>4, <1>5, <1>6, CopyKeeps

LEMMA CopyBodyStep ==
  ASSUME CopyInv, Copy!Body
  PROVE  CopyInv'
<1>1. /\ pc = "body" /\ last = begin + remaining
      /\ remaining > 0 => it = target + remaining /\ Pos(it) = 0
      /\ pc' = IF remaining = 0 THEN "done"
               ELSE IF Pos(last) = 0 /\ remaining >= W THEN "bulk" ELSE "loop"
      /\ mem' = mem /\ last' = last /\ it' = it /\ remaining' = remaining
      /\ used' = {} /\ shifts' = {}
      /\ orig' = orig /\ begin' = begin /\ target' = target /\ n' = n
  BY CopyWords DEF Copy!Body, Copy!Call, CopyInv
<1>2. CASE remaining = 0
  BY <1>1, <1>2, CopyWaits
<1>3. CASE remaining # 0 /\ Pos(last) = 0 /\ remaining >= W
  <2>1. pc' = "bulk" /\ Base(begin) + W <= last
    BY <1>1, <1>3, CopyFacts
  <2> QED BY <1>1, <1>3, <2>1, CopyWaits
<1>4. CASE remaining # 0 /\ ~(Pos(last) = 0 /\ remaining >= W)
  <2>1. pc' = "loop"
    BY <1>1, <1>4
  <2> QED BY <1>1, <2>1, CopyWaits
<1> QED BY <1>2, <1>3, <1>4

\* The store of a whole word w before those that have arrived.
LEMMA CopyStores ==
  ASSUME CopyInv, W <= remaining, pc \in {"bulk", "loop"}, pc' = pc,
         orig' = orig, begin' = begin, target' = target, n' = n,
         NEW w, mem' = Store(mem, it - W, w),
         \A i \in 0 .. (W - 1) : w[i] = mem[begin + (remaining - W) + i],
         last' = last - W, it' = it - W, remaining' = remaining - W,
         NEW loads, loads \in SUBSET Int, \A b \in loads : Holds(b, begin, begin + n),
         used' = loads \cup {it - W},
         shifts' \in SUBSET Int, \A i \in shifts' : ShiftDefined(i),
         pc = "bulk" => Base(begin) + W <= last - W
  PROVE  CopyInv'
<1>1. /\ it = target + remaining /\ Pos(it) = 0 /\ last = begin + remaining
      /\ pc = "bulk" => Pos(last) = 0
  BY CopyFacts DEF CopyInv
<1>2. /\ W \in 0 .. remaining /\ it - W \in Int /\ it - W = target + (remaining - W) /\ last - W \in Nat
      /\ last - W = begin + (remaining - W) /\ last - W \in Int
  BY <1>1, CopyFacts
<1>3. Puts(mem, mem', target + (remaining - W), W, w)
  <2>1. Puts(mem, mem', it - W, W, w)
    BY <1>2, CopyFacts, StorePuts
  <2> QED BY <1>2, <2>1
<1>4. Pos(it - W) = 0 /\ (pc = "bulk" => Pos(last - W) = 0)
  <2>1. Pos((it - W) + W) = Pos(it - W) /\ Pos((last - W) + W) = Pos(last - W)
    BY <1>2, AlignedStep
  <2>2. (it - W) + W = it /\ (last - W) + W = last
    BY CopyFacts
  <2> QED BY <1>1, <2>1, <2>2
<1>5. Holds(it - W, target, target + n)
  BY <1>1, CopyFacts, HoldsIs
<1>6. used' \in SUBSET Int
      /\ \A b \in used' : Holds(b, begin, begin + n) \/ Holds(b, target, target + n)
  BY <1>2, <1>5
<1> QED BY <1>1, <1>2, <1>3, <1>4, <1>6, CopyKeeps

LEMMA CopyBulkStep ==
  ASSUME CopyInv, Copy!BulkWord
  PROVE  CopyInv'
<1>1. /\ pc = "bulk" /\ last # Base(begin) + W /\ pc' = pc
      /\ mem' = Store(mem, it - W, Load(mem, last - W))
      /\ used' = {last - W, it - W} /\ shifts' = {}
      /\ last' = last - W /\ it' = it - W /\ remaining' = remaining - W
      /\ orig' = orig /\ begin' = begin /\ target' = target /\ n' = n
      /\ last = begin + remaining /\ Pos(last) = 0 /\ Base(begin) + W <= last
  BY CopyWords DEF Copy!BulkWord, Copy!FirstWhole, Copy!Call, CopyInv
<1>2. Base(begin) + W <= last - W /\ W <= remaining
  <2>1. Base(begin) + W \in Int /\ last \in Int /\ Base(begin) + W < last
    BY <1>1, CopyFacts
  <2>2. Pos(Base(begin) + W) = 0
    BY CopyFacts, BaseAligned, AlignedStep
  <2>3. Base(last) = last
    BY <1>1, CopyFacts DEF Base
  <2>4. Base(begin) + W + W <= last
    BY <2>1, <2>2, <2>3, AlignedGap
  <2> QED BY <1>1, <2>4, CopyFacts
<1>3. ASSUME NEW i \in 0 .. (W - 1)
      PROVE  Load(mem, last - W)[i] = mem[begin + (remaining - W) + i]
  <2>1. (last - W) + i = begin + (remaining - W) + i /\ i \in BitPos
    BY <1>1, CopyFacts DEF BitPos
  <2> QED BY <2>1, LoadBit
<1>4. Holds(last - W, begin, begin + n) /\ last - W \in Int /\ used' = {last - W} \cup {it - W}
  BY <1>1, <1>2, CopyFacts, HoldsIs
<1> DEFINE loads == {last - W}
<1>5. loads \in SUBSET Int /\ (\A b \in loads : Holds(b, begin, begin + n)) /\ used' = loads \cup {it - W}
  BY <1>4
<1> HIDE DEF loads
<1> QED BY <1>1, <1>2, <1>3, <1>5, CopyStores

LEMMA CopyLoopStep ==
  ASSUME CopyInv, Copy!LoopWord
  PROVE  CopyInv'
<1>1. /\ pc = "loop" /\ remaining >= W /\ pc' = pc
      /\ mem' = Store(mem, it - W, GetWord(mem, last - W, W))
      /\ used' = GetWordLoads(last - W, W) \cup {it - W} /\ shifts' = GetWordShifts(last - W, W)
      /\ last' = last - W /\ it' = it - W /\ remaining' = remaining - W
      /\ orig' = orig /\ begin' = begin /\ target' = target /\ n' = n
  BY CopyWords DEF Copy!LoopWord, Copy!Call
<1>2. W \in 1 .. W /\ W <= remaining
  BY <1>1, CopyFacts
<1>3. /\ \A i \in 0 .. (W - 1) : GetWord(mem, last - W, W)[i] = mem[begin + (remaining - W) + i]
      /\ GetWordLoads(last - W, W) \in SUBSET Int
      /\ \A b \in GetWordLoads(last - W, W) : Holds(b, begin, begin + n)
      /\ GetWordShifts(last - W, W) \in SUBSET Int
      /\ \A i \in GetWordShifts(last - W, W) : ShiftDefined(i)
  BY <1>1, <1>2, CopyReads
<1> QED BY <1>1, <1>2, <1>3, CopyStores

LEMMA CopyWordsDoneStep ==
  ASSUME CopyInv, Copy!WordsDone
  PROVE  CopyInv'
<1>1. /\ \/ pc = "bulk" /\ last = Base(begin) + W
         \/ pc = "loop" /\ remaining < W
      /\ pc' = IF remaining > 0 THEN "tail" ELSE "done"
      /\ mem' = mem /\ last' = last /\ it' = it /\ remaining' = remaining
      /\ used' = {} /\ shifts' = {}
      /\ orig' = orig /\ begin' = begin /\ target' = target /\ n' = n
      /\ last = begin + remaining
      /\ remaining > 0 => it = target + remaining /\ Pos(it) = 0
  BY CopyWords DEF Copy!WordsDone, Copy!FirstWhole, Copy!Call, CopyInv
<1>2. remaining <= W
  BY <1>1, CopyFacts
<1>3. CASE remaining > 0
  BY <1>1, <1>2, <1>3, CopyWaits
<1>4. CASE ~(remaining > 0)
  BY <1>1, <1>4, CopyFacts, CopyWaits
<1> QED BY <1>3, <1>4

LEMMA CopyTailStep ==
  ASSUME CopyInv, Copy!Tail
  PROVE  CopyInv'
<1> DEFINE k == remaining
           b == it - W
           s == W - k
<1>1. /\ pc = "tail" /\ pc' = "done" /\ remaining' = 0 /\ it' = b /\ last' = last
      /\ mem' = Store(mem, b, BitBlend(Load(mem, b), Lsl(GetWord(mem, last - k, k), s), s, k))
      /\ used' = GetWordLoads(last - k, k) \cup {b}
      /\ shifts' = GetWordShifts(last - k, k) \cup {s}
      /\ orig' = orig /\ begin' = begin /\ target' = target /\ n' = n
      /\ 0 < remaining /\ remaining <= W /\ it = target + remaining
  BY CopyWords DEF Copy!Tail, Copy!Call, CopyInv
<1>2. /\ k \in 1 .. W /\ k <= remaining /\ b \in Int /\ s \in Nat /\ s + k <= W
      /\ b + s = target + (remaining - k) /\ k \in 0 .. remaining /\ remaining' = remaining - k
      /\ last' \in Nat
  BY <1>1, CopyFacts
<1> HIDE DEF b, s, k
<1>3. /\ Puts(mem, mem', target + (remaining - k), k, GetWord(mem, last - k, k))
      /\ \A i \in 0 .. (k - 1) : GetWord(mem, last - k, k)[i] = mem[begin + (remaining - k) + i]
      /\ used' \in SUBSET Int
      /\ \A a \in used' : Holds(a, begin, begin + n) \/ Holds(a, target, target + n)
      /\ shifts' \in SUBSET Int /\ \A i \in shifts' : ShiftDefined(i)
  BY <1>1, <1>2, CopyBlends
<1> QED BY <1>1, <1>2, <1>3, CopyKeeps

LEMMA CopyInit ==
  ASSUME Copy!Init
  PROVE  CopyInv
<1>1. /\ orig \in [Addr -> Bit] /\ mem = orig
      /\ begin \in 0 .. MemBits /\ target \in 0 .. MemBits /\ n \in 0 .. MemBits
      /\ begin + n <= MemBits /\ target + n <= MemBits
      /\ begin <= target \/ target + n <= begin
      /\ last = begin + n /\ it = Base(target + n) /\ remaining = n /\ pc = "start"
      /\ used = {} /\ shifts = {}
  BY CopyWords DEF Copy!Init
<1>2. begin \in Nat /\ target \in Nat /\ n \in Nat /\ target + n \in Int
  BY <1>1, Widths
<1>3. Base(target + n) \in Int
  BY <1>2, PosRange
<1>4. mem = Carried(target + remaining, target + n, begin - target)
  BY <1>1, <1>2, CarriedNone
<1>5. Copy!TypeOK
  BY <1>1, <1>2, <1>3, CopyWords DEF Copy!TypeOK
<1>6. Copy!AccessInRange /\ Copy!ShiftsDefined
  BY <1>1 DEF Copy!AccessInRange, Copy!ShiftsDefined
<1> QED BY <1>1, <1>4, <1>5, <1>6 DEF CopyInv

LEMMA CopyNext ==
  ASSUME CopyInv, Copy!Next
  PROVE  CopyInv'
<1>1. CASE Copy!Finished
  BY <1>1 DEF Copy!Finished, Copy!vars, CopyInv, Copy!TypeOK, Copy!AccessInRange,
              Copy!ShiftsDefined, Copy!d_last, Carried
<1> QED BY <1>1, CopyStartStep, CopyAlignStep, CopyBodyStep, CopyBulkStep, CopyLoopStep,
           CopyWordsDoneStep, CopyTailStep DEF Copy!Next

LEMMA CopyImplies ==
  ASSUME CopyInv
  PROVE  /\ Copy!TypeOK /\ Copy!CopyCorrect /\ Copy!SourceIntact
         /\ Copy!AccessInRange /\ Copy!ShiftsDefined
<1>1. Copy!CopyCorrect
  <2> SUFFICES ASSUME pc = "done"
               PROVE  mem = [a \in Addr |-> IF target <= a /\ a < target + n
                                              THEN orig[begin + (a - target)] ELSE orig[a]]
    BY CopyWords DEF Copy!CopyCorrect, Copy!d_last
  <2>1. mem = Carried(target + remaining, target + n, begin - target) /\ remaining = 0
    BY DEF CopyInv
  <2>2. target + remaining = target
    BY <2>1, CopyFacts
  <2>3. \A a \in Addr : a + (begin - target) = begin + (a - target)
    BY CopyFacts, Widths
  <2> QED BY <2>1, <2>2, <2>3 DEF Carried
<1>2. Copy!SourceIntact
  BY CopySource DEF Copy!SourceIntact
<1> QED BY <1>1, <1>2 DEF CopyInv

----------------------------------------------------------------------------
(* The binary transform                                                    *)

LEMMA JoinWords ==
  /\ Join!BitPos = BitPos /\ Join!MemBits = MemBits /\ Join!Addr = Addr
  /\ \A a : Join!Pos(a) = Pos(a) /\ Join!Base(a) = Base(a)
  /\ \A m, b, w : Join!Store(m, b, w) = Store(m, b, w)
  /\ \A m, b : Join!Load(m, b) = Load(m, b)
  /\ \A w, k : Join!Lsl(w, k) = Lsl(w, k) /\ Join!MaskLow(w, k) = MaskLow(w, k)
  /\ \A v, w, s, k : Join!BitBlend(v, w, s, k) = BitBlend(v, w, s, k)
  /\ \A a, b : Join!Least(a, b) = Least(a, b)
  /\ \A m, a, k : Join!GetWord(m, a, k) = GetWord(m, a, k)
  /\ \A a, k : Join!GetWordLoads(a, k) = GetWordLoads(a, k)
  /\ \A a, b, c : Join!Holds(a, b, c) <=> Holds(a, b, c)
<1>1. /\ Join!BitPos = BitPos /\ Join!MemBits = MemBits /\ Join!Addr = Addr
      /\ \A a : Join!Pos(a) = Pos(a) /\ Join!Base(a) = Base(a)
  BY DEF Join!BitPos, Join!MemBits, Join!Addr, Join!Pos, Join!Base, BitPos, MemBits, Addr, Pos, Base
<1>2. /\ \A m, b, w : Join!Store(m, b, w) = Store(m, b, w)
      /\ \A m, b : Join!Load(m, b) = Load(m, b)
      /\ \A w, k : /\ Join!Lsr(w, k) = Lsr(w, k) /\ Join!Lsl(w, k) = Lsl(w, k)
                   /\ Join!MaskLow(w, k) = MaskLow(w, k)
      /\ \A v, w, s, k : Join!BitBlend(v, w, s, k) = BitBlend(v, w, s, k)
      /\ \A a, b : Join!Least(a, b) = Least(a, b)
      /\ \A a, k : Join!Spans(a, k) <=> Spans(a, k)
  BY <1>1 DEF Join!Store, Join!Load, Join!Lsr, Join!Lsl, Join!MaskLow, Join!BitBlend, Join!Least,
              Join!Spans, Store, Load, Lsr, Lsl, MaskLow, BitBlend, Least, Spans
<1>3. \A m, a, k : Join!GetWord(m, a, k) = GetWord(m, a, k)
  BY <1>1, <1>2 DEF Join!GetWord, GetWord
<1>4. \A a, k : Join!GetWordLoads(a, k) = GetWordLoads(a, k)
  BY <1>1, <1>2 DEF Join!GetWordLoads, GetWordLoads
<1> QED BY <1>1, <1>2, <1>3, <1>4 DEF Join!Holds, Holds

\* What transform makes of the bits at place i of its ranges.
Pair(i) == Combine[<<orig[begin + i], orig[begin2 + i]>>]

\* The memory with the first k bits of the destination joined.
Joined(k) ==
  [a \in Addr |-> IF target <= a /\ a < target + k THEN Pair(a - target) ELSE orig[a]]

JoinInv ==
  /\ Join!TypeOK /\ Join!AccessInRange
  /\ begin2 \in Nat /\ begin2 + (end - begin) <= MemBits
  /\ target \in Nat /\ target + (end - begin) <= MemBits
  /\ target <= begin \/ end <= target
  /\ target <= begin2 \/ begin2 + (end - begin) <= target
  /\ mem = Joined(first - begin)
  /\ pc = "start" => first = begin /\ it = Base(target)
  /\ pc \in {"bulk", "shifted"} /\ first < end => it = target + (first - begin) /\ Pos(it) = 0
  /\ pc = "bulk" => Pos(first) = 0 /\ Pos(middle) = 0 /\ first <= Base(end)
  /\ pc = "done" => first = end

LEMMA JoinFacts ==
  ASSUME JoinInv
  PROVE  /\ mem \in [Addr -> Bit] /\ orig \in [Addr -> Bit] /\ DOMAIN mem = Addr
         /\ mem = [a \in Addr |-> mem[a]]
         /\ begin \in Nat /\ end \in Nat /\ begin <= end /\ end <= MemBits /\ MemBits \in Nat
         /\ begin2 \in Nat /\ begin2 + (end - begin) <= MemBits
         /\ target \in Nat /\ target + (end - begin) <= MemBits
         /\ first \in Nat /\ begin <= first /\ first <= end
         /\ middle = begin2 + (first - begin) /\ middle \in Nat
         /\ remaining = end - first /\ remaining \in Nat
         /\ it \in Int /\ 0 <= it /\ it <= MemBits + W
         /\ W \in Nat /\ W > 0
         /\ Pos(target) \in 0 .. (W - 1) /\ Base(target) \in Int /\ target = Base(target) + Pos(target)
         /\ Pos(end) \in 0 .. (W - 1) /\ Base(end) \in Int /\ end = Base(end) + Pos(end)
<1>1. end \in Nat /\ target \in Nat
  BY DEF JoinInv, Join!TypeOK
<1>2. /\ Pos(target) \in 0 .. (W - 1) /\ Base(target) \in Int /\ target = Base(target) + Pos(target)
      /\ Pos(end) \in 0 .. (W - 1) /\ Base(end) \in Int /\ end = Base(end) + Pos(end)
  BY <1>1, RangeFacts
<1> QED BY <1>1, <1>2, Widths, JoinWords DEF JoinInv, Join!TypeOK

\* The source bits not read yet are those of the call.
LEMMA JoinSource ==
  ASSUME JoinInv, NEW i \in 0 .. (remaining - 1)
  PROVE  /\ first + i \in Addr /\ mem[first + i] = orig[begin + ((first - begin) + i)]
         /\ middle + i \in Addr /\ mem[middle + i] = orig[begin2 + ((first - begin) + i)]
<1>1. /\ first + i \in Addr /\ first + i = begin + ((first - begin) + i)
      /\ middle + i \in Addr /\ middle + i = begin2 + ((first - begin) + i)
  <2>1. /\ first + i \in Nat /\ first + i < MemBits /\ first + i = begin + ((first - begin) + i)
        /\ middle + i \in Nat /\ middle + i < MemBits /\ middle + i = begin2 + ((first - begin) + i)
    BY JoinFacts
  <2> QED BY <2>1, Widths
<1>2. /\ ~(target <= first + i /\ first + i < target + (first - begin))
      /\ ~(target <= middle + i /\ middle + i < target + (first - begin))
  BY JoinFacts DEF JoinInv
<1>3. mem = Joined(first - begin)
  BY DEF JoinInv
<1> QED BY <1>1, <1>2, <1>3 DEF Joined

\* The l low bits of v are what is to be put after k bits of the destination.
Joins(v, k, l) == \A i \in 0 .. (l - 1) : v[i] = Pair(k + i)

LEMMA JoinedGrows ==
  ASSUME target \in Int, NEW k \in Nat, NEW l \in Nat, NEW new, NEW v,
         Puts(Joined(k), new, target + k, l, v), Joins(v, k, l)
  PROVE  new = Joined(k + l)
<1>1. ASSUME NEW a \in Addr
      PROVE  new[a] = IF target <= a /\ a < target + (k + l) THEN Pair(a - target) ELSE orig[a]
  <2>1. a \in Int
    BY Widths
  <2>2. new[a] = IF target + k <= a /\ a < (target + k) + l THEN v[a - (target + k)] ELSE Joined(k)[a]
    BY DEF Puts
  <2>3. Joined(k)[a] = IF target <= a /\ a < target + k THEN Pair(a - target) ELSE orig[a]
    BY DEF Joined
  <2>4. CASE target + k <= a /\ a < (target + k) + l
    <3>1. a - (target + k) \in 0 .. (l - 1) /\ k + (a - (target + k)) = a - target
          /\ target <= a /\ a < target + (k + l)
      BY <2>1, <2>4
    <3>2. v[a - (target + k)] = Pair(a - target)
      BY <3>1 DEF Joins
    <3> QED BY <2>2, <2>4, <3>1, <3>2
  <2>5. CASE ~(target + k <= a /\ a < (target + k) + l)
    <3>1. (target <= a /\ a < target + (k + l)) <=> (target <= a /\ a < target + k)
      BY <2>1, <2>5
    <3> QED BY <2>2, <2>3, <2>5, <3>1
  <2> QED BY <2>4, <2>5
<1> QED BY <1>1 DEF Puts, Joined

LEMMA JoinedType ==
  ASSUME JoinInv, NEW k \in Nat, k <= end - begin
  PROVE  Joined(k) \in [Addr -> Bit]
<1>1. ASSUME NEW a \in Addr, target <= a, a < target + k PROVE Pair(a - target) \in Bit
  <2>1. a \in Int /\ target \in Int /\ 0 <= a - target /\ a - target < end - begin
    <3>1. target \in Int /\ end - begin \in Int
      BY JoinFacts
    <3>2. a \in Int
      BY Widths
    <3> QED BY <1>1, <3>1, <3>2
  <2> DEFINE j == a - target
  <2>2. j \in Nat /\ j < end - begin
    BY <2>1
  <2> HIDE DEF j
  <2>3. /\ begin + j \in Nat /\ begin + j < MemBits
        /\ begin2 + j \in Nat /\ begin2 + j < MemBits
    BY <2>2, JoinFacts
  <2>4. begin + j \in Addr /\ begin2 + j \in Addr
    BY <2>3, Widths
  <2>5. orig[begin + j] \in Bit /\ orig[begin2 + j] \in Bit
    BY <2>4, JoinFacts
  <2> QED BY <2>5, CombineAssumption DEF Pair, j
<1> QED BY <1>1, JoinFacts DEF Joined

\* What a step has to show: that it joins the next k bits, and where it leaves
\* the iterators.
LEMMA JoinKeeps ==
  ASSUME JoinInv, orig' = orig, begin' = begin, end' = end, begin2' = begin2, target' = target,
         NEW k \in 0 .. remaining, NEW v, Puts(mem, mem', target + (first - begin), k, v),
         \A i \in 0 .. (k - 1) : v[i] = Combine[<<mem[first + i], mem[middle + i]>>],
         first' = first + k, middle' = middle + k, remaining' = remaining - k,
         it' \in 0 .. (MemBits + W), pc' \in {"bulk", "shifted", "done"},
         used' \in SUBSET Int, \A b \in used' : Holds(b, begin, end),
         used2' \in SUBSET Int, \A b \in used2' : Holds(b, begin2, begin2 + (end - begin)),
         d_used' \in SUBSET Int, \A b \in d_used' : Holds(b, target, target + (end - begin)),
         pc' \in {"bulk", "shifted"} /\ k < remaining =>
           it' = target + (first - begin) + k /\ Pos(it') = 0,
         pc' = "bulk" => Pos(first') = 0 /\ Pos(middle') = 0 /\ first' <= Base(end),
         pc' = "done" => k = remaining
  PROVE  JoinInv'
<1> DEFINE c == first - begin
<1>1. c \in Nat /\ k \in Nat /\ first' - begin' = c + k /\ c + k <= end - begin /\ k <= remaining
  BY JoinFacts
<1>2. Joins(v, c, k)
  <2> SUFFICES ASSUME NEW i \in 0 .. (k - 1) PROVE v[i] = Pair(c + i)
    BY DEF Joins
  <2>1. i \in 0 .. (remaining - 1)
    BY <1>1, JoinFacts
  <2> QED BY <2>1, JoinSource DEF Pair
<1>3. mem' = Joined(c + k)
  <2>1. Puts(Joined(c), mem', target + c, k, v)
    BY DEF JoinInv
  <2> HIDE DEF c
  <2> QED BY <1>1, <1>2, <2>1, JoinFacts, JoinedGrows
<1>4. mem' \in [Addr -> Bit]
  <2> HIDE DEF c
  <2> QED BY <1>1, <1>3, JoinedType, JoinFacts
<1>5. Joined(first - begin)' = mem'
  <2> HIDE DEF c
  <2>1. Joined(first - begin)' = Joined(c + k)
    BY <1>1 DEF Joined, Pair
  <2> QED BY <1>3, <2>1
<1>6. Join!TypeOK'
  <2>1. /\ first' \in begin' .. end' /\ middle' = begin2' + (first' - begin')
        /\ remaining' = end' - first'
    BY <1>1, JoinFacts
  <2> QED BY <1>4, <2>1, JoinFacts, JoinWords DEF Join!TypeOK
<1>7. Join!AccessInRange'
  BY JoinWords DEF Join!AccessInRange
<1>8. /\ Pos(it)' = Pos(it') /\ Pos(first)' = Pos(first') /\ Pos(middle)' = Pos(middle')
      /\ Base(end)' = Base(end) /\ Base(target)' = Base(target)
  BY DEF Pos, Base
<1>9. /\ first' < end' <=> k < remaining
      /\ target' + (first' - begin') = target + (first - begin) + k
      /\ k = remaining => first' = end'
  BY <1>1, JoinFacts
<1>10. /\ begin2' \in Nat /\ begin2' + (end' - begin') <= MemBits
       /\ target' \in Nat /\ target' + (end' - begin') <= MemBits
       /\ target' <= begin' \/ end' <= target'
       /\ target' <= begin2' \/ begin2' + (end' - begin') <= target'
  BY DEF JoinInv
<1> QED BY <1>5, <1>6, <1>7, <1>8, <1>9, <1>10 DEF JoinInv

\* A step that writes nothing.
LEMMA JoinWaits ==
  ASSUME JoinInv, orig' = orig, begin' = begin, end' = end, begin2' = begin2, target' = target,
         Join!PutNothing, pc' \in {"bulk", "shifted", "done"},
         pc' \in {"bulk", "shifted"} /\ first < end => it = target + (first - begin) /\ Pos(it) = 0,
         pc' = "bulk" => Pos(first) = 0 /\ Pos(middle) = 0 /\ first <= Base(end),
         pc' = "done" => first = end
  PROVE  JoinInv'
<1> DEFINE v == [i \in {} |-> Zero]
           c == target + (first - begin)
<1>1. /\ mem' = mem /\ first' = first /\ middle' = middle /\ remaining' = remaining /\ it' = it
      /\ used' = {} /\ used2' = {} /\ d_used' = {}
  BY DEF Join!PutNothing
<1>2. /\ 0 \in 0 .. remaining /\ first' = first + 0 /\ middle' = middle + 0
      /\ remaining' = remaining - 0 /\ it' \in 0 .. (MemBits + W) /\ c \in Int /\ c + 0 = c
  BY <1>1, JoinFacts
<1>3. 0 < remaining <=> first < end
  BY JoinFacts
<1>4. first = end => 0 = remaining
  BY JoinFacts
<1>5. Puts(mem, mem', c, 0, v)
  BY <1>1, <1>2, JoinFacts, PutsNothing
<1>6. \A i \in 0 .. (0 - 1) : v[i] = Combine[<<mem[first + i], mem[middle + i]>>]
  OBVIOUS
<1> HIDE DEF v
<1>7. pc' \in {"bulk", "shifted"} /\ 0 < remaining =>
        it' = target + (first - begin) + 0 /\ Pos(it') = 0
  BY <1>1, <1>2, <1>3
<1> QED BY <1>1, <1>2, <1>4, <1>5, <1>6, <1>7, JoinKeeps

\* The next k bits of the sources, joined.
NextPairs(k) == [i \in 0 .. (k - 1) |-> Combine[<<mem[first + i], mem[middle + i]>>]]

\* Put reads k bits of both sources, joins them and blends them into the word.
LEMMA PutIs ==
  ASSUME JoinInv, NEW p \in Nat, NEW k \in 1 .. W, k <= remaining, p + k <= W,
         it + p = target + (first - begin), Join!Put(p, k)
  PROVE  /\ Puts(mem, mem', target + (first - begin), k, NextPairs(k))
         /\ \A i \in 0 .. (k - 1) : NextPairs(k)[i] = Combine[<<mem[first + i], mem[middle + i]>>]
         /\ first' = first + k /\ middle' = middle + k /\ remaining' = remaining - k
         /\ it' = it + W /\ it' \in 0 .. (MemBits + W)
         /\ used' \in SUBSET Int /\ \A b \in used' : Holds(b, begin, end)
         /\ used2' \in SUBSET Int /\ \A b \in used2' : Holds(b, begin2, begin2 + (end - begin))
         /\ d_used' \in SUBSET Int /\ \A b \in d_used' : Holds(b, target, target + (end - begin))
<1> DEFINE x == Lsl(MaskLow(GetWord(mem, first, k), k), p)
           y == Lsl(MaskLow(GetWord(mem, middle, k), k), p)
           z == [i \in BitPos |-> Combine[<<x[i], y[i]>>]]
<1>1. /\ mem' = Store(mem, it, BitBlend(Load(mem, it), z, p, k))
      /\ used' = GetWordLoads(first, k) /\ used2' = GetWordLoads(middle, k) /\ d_used' = {it}
      /\ first' = first + k /\ middle' = middle + k /\ it' = it + W /\ remaining' = remaining - k
  BY JoinWords DEF Join!Put, Join!binary_op
<1>2. k \in Nat /\ 0 < k /\ k <= W /\ k \in 0 .. W /\ W \in Nat
  BY Widths
<1>3. ASSUME NEW i \in 0 .. (k - 1), NEW s \in Nat
      PROVE  Lsl(MaskLow(GetWord(mem, s, k), k), p)[p + i] = mem[s + i]
  <2>1. p + i \in BitPos /\ p <= p + i /\ (p + i) - p = i /\ i \in BitPos /\ i < k
    BY <1>2 DEF BitPos
  <2>2. Lsl(MaskLow(GetWord(mem, s, k), k), p)[p + i] = MaskLow(GetWord(mem, s, k), k)[i]
    BY <2>1, LslBit
  <2>3. MaskLow(GetWord(mem, s, k), k)[i] = GetWord(mem, s, k)[i]
    BY <2>1 DEF MaskLow
  <2>4. GetWord(mem, s, k)[i] = mem[s + i]
    BY <1>2, GetWordBit
  <2> QED BY <2>2, <2>3, <2>4
<1>4. ASSUME NEW i \in 0 .. (k - 1) PROVE z[p + i] = NextPairs(k)[i]
  <2>1. p + i \in BitPos
    BY <1>2 DEF BitPos
  <2>2. x[p + i] = mem[first + i] /\ y[p + i] = mem[middle + i]
    BY <1>3, JoinFacts
  <2> HIDE DEF x, y
  <2> QED BY <2>1, <2>2 DEF NextPairs
<1> HIDE DEF z
<1>5. Puts(mem, mem', it + p, k, NextPairs(k))
  BY <1>1, <1>2, <1>4, JoinFacts, BlendPuts
<1>6. /\ \A b \in GetWordLoads(first, k) : b \in Int /\ b < first + k /\ first < b + W
      /\ \A b \in GetWordLoads(middle, k) : b \in Int /\ b < middle + k /\ middle < b + W
  BY GetWordAccess, JoinFacts
<1>7. /\ \A b \in used' : b \in Int /\ Holds(b, begin, end)
      /\ \A b \in used2' : b \in Int /\ Holds(b, begin2, begin2 + (end - begin))
  <2>1. /\ first + k <= end /\ begin <= first /\ begin2 <= middle
        /\ middle + k <= begin2 + (end - begin) /\ begin2 + (end - begin) \in Int /\ middle + k \in Int
    BY <1>2, JoinFacts
  <2> QED BY <1>1, <1>2, <1>6, <2>1, JoinFacts, HoldsIs
<1>8. Holds(it, target, target + (end - begin)) /\ it <= MemBits
  BY <1>2, JoinFacts, HoldsIs
<1>9. it' \in 0 .. (MemBits + W) /\ \A i \in 0 .. (k - 1) : NextPairs(k)[i] = Combine[<<mem[first + i], mem[middle + i]>>]
  BY <1>1, <1>8, JoinFacts DEF NextPairs
<1> QED BY <1>1, <1>5, <1>7, <1>8, <1>9, JoinFacts


LEMMA JoinEmptyStep ==
  ASSUME JoinInv, Join!Empty
  PROVE  JoinInv'
<1>1. /\ pc = "start" /\ begin = end /\ pc' = "done" /\ Join!PutNothing
      /\ orig' = orig /\ begin' = begin /\ end' = end /\ begin2' = begin2 /\ target' = target
  BY DEF Join!Empty, Join!Call
<1>2. first = end
  BY <1>1 DEF JoinInv
<1> QED BY <1>1, <1>2, JoinWaits

\* Where Proceed goes on by whole words the first word of the first source is
\* one of the words std::transform reads.
LEMMA JoinProceeds ==
  ASSUME JoinInv, NEW k \in 0 .. remaining, Join!Proceed(first + k, middle + k, remaining - k)
  PROVE  /\ pc' \in {"bulk", "shifted"}
         /\ pc' = "bulk" => /\ Pos(first + k) = 0 /\ Pos(middle + k) = 0
                            /\ first + k <= Base(end)
<1>1. pc' = IF Pos(first + k) = 0 /\ Pos(middle + k) = 0 /\ remaining - k > W
              THEN "bulk" ELSE "shifted"
  BY JoinWords DEF Join!Proceed
<1>2. CASE Pos(first + k) = 0 /\ remaining - k > W
  <2>1. first + k \in Int /\ end \in Int /\ first + k < end
    BY <1>2, JoinFacts
  <2>2. first + k = Base(end) \/ (first + k) + W <= Base(end)
    BY <1>2, <2>1, AlignedGap
  <2>3. first + k <= Base(end)
    BY <2>1, <2>2, JoinFacts
  <2> QED BY <1>1, <2>3
<1>3. CASE ~(Pos(first + k) = 0 /\ remaining - k > W)
  BY <1>1, <1>3
<1> QED BY <1>2, <1>3

LEMMA JoinHeadStep ==
  ASSUME JoinInv, Join!Head
  PROVE  JoinInv'
<1> DEFINE p == Pos(target)
           k == IF p = 0 THEN 0 ELSE Least(remaining, W - p)
<1>1. /\ pc = "start" /\ begin # end
      /\ IF k = 0 THEN Join!PutNothing ELSE Join!Put(p, k)
      /\ Join!Proceed(first + k, middle + k, remaining - k)
      /\ orig' = orig /\ begin' = begin /\ end' = end /\ begin2' = begin2 /\ target' = target
      /\ first = begin /\ it = Base(target)
  BY JoinWords DEF Join!Head, Join!Call, JoinInv
<1>2. /\ p \in Nat /\ p < W /\ it \in Int /\ target = it + p /\ target + (first - begin) = target
      /\ remaining \in Nat /\ remaining > 0 /\ W \in Nat /\ target \in Nat
  BY <1>1, JoinFacts
<1>3. Pos(it) = 0
  BY <1>1, JoinFacts, BaseAligned
<1> HIDE DEF p
<1>4. CASE p = 0
  <2>1. k = 0 /\ Join!PutNothing /\ it = target + (first - begin)
    BY <1>1, <1>2, <1>4
  <2>2. first + k = first /\ middle + k = middle /\ k \in 0 .. remaining
    BY <2>1, JoinFacts
  <2> HIDE DEF k
  <2>3. /\ pc' \in {"bulk", "shifted"}
        /\ pc' = "bulk" => Pos(first) = 0 /\ Pos(middle) = 0 /\ first <= Base(end)
    BY <1>1, <2>2, JoinProceeds
  <2> QED BY <1>1, <1>3, <2>1, <2>3, JoinWaits
<1>5. CASE p # 0
  <2>1. /\ k \in 1 .. W /\ k <= remaining /\ p + k <= W /\ k # 0 /\ k \in 0 .. remaining
        /\ k < remaining => k = W - p
    BY <1>2, <1>5, LeastIs DEF Least
  <2> HIDE DEF k
  <2>2. Join!Put(p, k) /\ it + p = target + (first - begin)
    BY <1>1, <1>2, <2>1
  <2>3. /\ Puts(mem, mem', target + (first - begin), k, NextPairs(k))
        /\ \A i \in 0 .. (k - 1) : NextPairs(k)[i] = Combine[<<mem[first + i], mem[middle + i]>>]
        /\ first' = first + k /\ middle' = middle + k /\ remaining' = remaining - k
        /\ it' = it + W /\ it' \in 0 .. (MemBits + W)
        /\ used' \in SUBSET Int /\ \A b \in used' : Holds(b, begin, end)
        /\ used2' \in SUBSET Int /\ \A b \in used2' : Holds(b, begin2, begin2 + (end - begin))
        /\ d_used' \in SUBSET Int /\ \A b \in d_used' : Holds(b, target, target + (end - begin))
    BY <1>2, <2>1, <2>2, PutIs
  <2>4. /\ pc' \in {"bulk", "shifted"}
        /\ pc' = "bulk" => /\ Pos(first + k) = 0 /\ Pos(middle + k) = 0
                           /\ first + k <= Base(end)
    BY <1>1, <2>1, JoinProceeds
  <2>5. Pos(it') = 0
    BY <1>2, <1>3, <2>3, AlignedStep
  <2>6. k < remaining => it' = target + (first - begin) + k
    BY <1>2, <2>1, <2>3
  <2> QED BY <1>1, <2>1, <2>3, <2>4, <2>5, <2>6, JoinKeeps
<1> QED BY <1>4, <1>5

LEMMA JoinBulkStep ==
  ASSUME JoinInv, Join!BulkWord
  PROVE  JoinInv'
<1> DEFINE z == [i \in BitPos |-> Combine[<<Load(mem, first)[i], Load(mem, middle)[i]>>]]
<1>1. /\ pc = "bulk" /\ pc' = "bulk" /\ first # Base(end)
      /\ mem' = Store(mem, it, [i \in BitPos |-> Combine[<<Load(mem, Base(first))[i],
                                                           Load(mem, Base(middle))[i]>>]])
      /\ used' = {Base(first)} /\ used2' = {Base(middle)} /\ d_used' = {it}
      /\ first' = first + W /\ middle' = middle + W /\ it' = it + W /\ remaining' = remaining - W
      /\ orig' = orig /\ begin' = begin /\ end' = end /\ begin2' = begin2 /\ target' = target
      /\ Pos(first) = 0 /\ Pos(middle) = 0 /\ first <= Base(end)
  BY JoinWords DEF Join!BulkWord, Join!binary_op, Join!Call, JoinInv
<1>2. Base(first) = first /\ Base(middle) = middle
  BY <1>1, JoinFacts DEF Base
<1>3. first + W <= Base(end) /\ first < end
  <2>1. first \in Int /\ end \in Int /\ first < end
    BY <1>1, JoinFacts
  <2> QED BY <1>1, <2>1, AlignedGap
<1>4. it = target + (first - begin) /\ Pos(it) = 0
  BY <1>1, <1>3 DEF JoinInv
<1>5. /\ W \in 0 .. remaining /\ it \in Int /\ W <= remaining
      /\ it + W <= MemBits /\ it' \in 0 .. (MemBits + W)
  BY <1>1, <1>3, <1>4, JoinFacts
<1>6. Puts(mem, mem', target + (first - begin), W, z)
  <2> HIDE DEF z
  <2>1. mem' = Store(mem, it, z)
    BY <1>1, <1>2 DEF z
  <2> QED BY <1>4, <1>5, <2>1, JoinFacts, StorePuts
<1>7. \A i \in 0 .. (W - 1) : z[i] = Combine[<<mem[first + i], mem[middle + i]>>]
  BY DEF BitPos, Load
<1> HIDE DEF z
<1>8. /\ Holds(first, begin, end) /\ Holds(middle, begin2, begin2 + (end - begin))
      /\ Holds(it, target, target + (end - begin))
  <2>1. /\ begin < first + W /\ first < end
        /\ begin2 < middle + W /\ middle < begin2 + (end - begin)
        /\ target < it + W /\ it < target + (end - begin)
    BY <1>3, <1>4, JoinFacts
  <2> QED BY <2>1, HoldsIs
<1>9. /\ used' \in SUBSET Int /\ \A b \in used' : Holds(b, begin, end)
      /\ used2' \in SUBSET Int /\ \A b \in used2' : Holds(b, begin2, begin2 + (end - begin))
      /\ d_used' \in SUBSET Int /\ \A b \in d_used' : Holds(b, target, target + (end - begin))
  BY <1>1, <1>2, <1>5, <1>8, JoinFacts
<1>10. Pos(it') = 0 /\ Pos(first') = 0 /\ Pos(middle') = 0 /\ first' <= Base(end)
  BY <1>1, <1>3, <1>4, <1>5, JoinFacts, AlignedStep
<1>11. it' = target + (first - begin) + W
  BY <1>1, <1>4
<1> QED BY <1>1, <1>5, <1>6, <1>7, <1>9, <1>10, <1>11, JoinKeeps

LEMMA JoinShiftedStep ==
  ASSUME JoinInv, Join!ShiftedWord
  PROVE  JoinInv'
<1>1. /\ pc = "shifted" /\ pc' = "shifted" /\ remaining >= W /\ Join!Put(0, W)
      /\ orig' = orig /\ begin' = begin /\ end' = end /\ begin2' = begin2 /\ target' = target
  BY DEF Join!ShiftedWord, Join!Call
<1>2. W \in 1 .. W /\ W \in 0 .. remaining /\ 0 + W <= W /\ 0 \in Nat /\ first < end
  BY <1>1, JoinFacts
<1>3. it = target + (first - begin) /\ Pos(it) = 0
  BY <1>1, <1>2 DEF JoinInv
<1>4. it \in Int /\ it + 0 = target + (first - begin) /\ W <= remaining
  BY <1>1, <1>3, JoinFacts
<1>5. /\ Puts(mem, mem', target + (first - begin), W, NextPairs(W))
      /\ \A i \in 0 .. (W - 1) : NextPairs(W)[i] = Combine[<<mem[first + i], mem[middle + i]>>]
      /\ first' = first + W /\ middle' = middle + W /\ remaining' = remaining - W
      /\ it' = it + W /\ it' \in 0 .. (MemBits + W)
      /\ used' \in SUBSET Int /\ \A b \in used' : Holds(b, begin, end)
      /\ used2' \in SUBSET Int /\ \A b \in used2' : Holds(b, begin2, begin2 + (end - begin))
      /\ d_used' \in SUBSET Int /\ \A b \in d_used' : Holds(b, target, target + (end - begin))
  BY <1>1, <1>2, <1>4, PutIs
<1>6. Pos(it') = 0 /\ it' = target + (first - begin) + W
  BY <1>3, <1>4, <1>5, AlignedStep
<1> QED BY <1>1, <1>2, <1>5, <1>6, JoinKeeps

LEMMA JoinTailStep ==
  ASSUME JoinInv, Join!Tail
  PROVE  JoinInv'
<1>1. /\ \/ pc = "bulk" /\ first = Base(end)
         \/ pc = "shifted" /\ remaining < W
      /\ IF remaining > 0 THEN Join!Put(0, remaining) ELSE Join!PutNothing
      /\ pc' = "done"
      /\ orig' = orig /\ begin' = begin /\ end' = end /\ begin2' = begin2 /\ target' = target
  BY JoinWords DEF Join!Tail, Join!Call
<1>2. remaining < W
  BY <1>1, JoinFacts
<1>3. CASE remaining > 0
  <2> DEFINE k == remaining
  <2>1. /\ k \in 1 .. W /\ k \in 0 .. remaining /\ k <= remaining /\ 0 + k <= W /\ 0 \in Nat
        /\ first < end /\ pc \in {"bulk", "shifted"} /\ Join!Put(0, k)
    BY <1>1, <1>2, <1>3, JoinFacts
  <2>2. it = target + (first - begin)
    BY <2>1 DEF JoinInv
  <2>3. it + 0 = target + (first - begin)
    BY <2>2, JoinFacts
  <2>4. /\ Puts(mem, mem', target + (first - begin), k, NextPairs(k))
        /\ \A i \in 0 .. (k - 1) : NextPairs(k)[i] = Combine[<<mem[first + i], mem[middle + i]>>]
        /\ first' = first + k /\ middle' = middle + k /\ remaining' = remaining - k
        /\ it' = it + W /\ it' \in 0 .. (MemBits + W)
        /\ used' \in SUBSET Int /\ \A b \in used' : Holds(b, begin, end)
        /\ used2' \in SUBSET Int /\ \A b \in used2' : Holds(b, begin2, begin2 + (end - begin))
        /\ d_used' \in SUBSET Int /\ \A b \in d_used' : Holds(b, target, target + (end - begin))
    BY <2>1, <2>3, PutIs
  <2>5. k = remaining
    OBVIOUS
  <2> HIDE DEF k
  <2> QED BY <1>1, <2>1, <2>4, <2>5, JoinKeeps
<1>4. CASE ~(remaining > 0)
  <2>1. first = end /\ Join!PutNothing
    BY <1>1, <1>4, JoinFacts
  <2> QED BY <1>1, <2>1, JoinWaits
<1> QED BY <1>3, <1>4

LEMMA JoinInit ==
  ASSUME Join!Init
  PROVE  JoinInv
<1>1. /\ orig \in [Addr -> Bit] /\ mem = orig
      /\ begin \in 0 .. MemBits /\ end \in 0 .. MemBits /\ begin <= end
      /\ begin2 \in 0 .. (MemBits - (end - begin)) /\ target \in 0 .. (MemBits - (end - begin))
      /\ target <= begin \/ begin + (end - begin) <= target
      /\ target <= begin2 \/ begin2 + (end - begin) <= target
      /\ first = begin /\ middle = begin2 /\ it = Base(target) /\ remaining = end - begin
      /\ pc = "start" /\ used = {} /\ used2 = {} /\ d_used = {}
  BY JoinWords DEF Join!Init, Join!NotAhead
<1>2. /\ begin \in Nat /\ end \in Nat /\ begin2 \in Nat /\ target \in Nat /\ MemBits \in Nat
      /\ begin2 + (end - begin) <= MemBits /\ target + (end - begin) <= MemBits
      /\ begin + (end - begin) = end /\ first - begin = 0 /\ end <= MemBits /\ target <= MemBits
      /\ W \in Nat
  BY <1>1, Widths
<1>3. Base(target) \in 0 .. (MemBits + W)
  <2>1. Base(target) \in Nat /\ Base(target) <= target
    BY <1>2, PosRange, BaseNat
  <2> QED BY <1>2, <2>1
<1>4. mem = Joined(first - begin)
  <2>1. \A a \in Addr : ~(target <= a /\ a < target + 0)
    BY <1>2, Widths
  <2> QED BY <1>1, <1>2, <2>1 DEF Joined
<1>5. Join!TypeOK
  <2>1. first \in begin .. end /\ middle = begin2 + (first - begin) /\ remaining = end - first
    BY <1>1, <1>2
  <2> QED BY <1>1, <1>2, <1>3, <2>1, JoinWords DEF Join!TypeOK
<1>6. Join!AccessInRange
  BY <1>1 DEF Join!AccessInRange
<1> QED BY <1>1, <1>2, <1>4, <1>5, <1>6 DEF JoinInv

LEMMA JoinNext ==
  ASSUME JoinInv, Join!Next
  PROVE  JoinInv'
<1>1. CASE Join!Finished
  BY <1>1 DEF Join!Finished, Join!vars, JoinInv, Join!TypeOK, Join!AccessInRange, Joined, Pair
<1> QED BY <1>1, JoinEmptyStep, JoinHeadStep, JoinBulkStep, JoinShiftedStep, JoinTailStep
        DEF Join!Next

LEMMA JoinImplies ==
  ASSUME JoinInv
  PROVE  /\ Join!TypeOK /\ Join!TransformCorrect /\ Join!OutsideIntact /\ Join!AccessInRange
<1> DEFINE c == first - begin
<1>1. mem = Joined(c) /\ c \in Nat /\ c <= end - begin
  BY JoinFacts DEF JoinInv
<1>2. ASSUME NEW i \in 0 .. (c - 1) PROVE mem[target + i] = Pair(i)
  <2>1. target \in Nat /\ target + (end - begin) <= MemBits /\ end - begin \in Int /\ MemBits \in Nat
    BY JoinFacts
  <2> HIDE DEF c
  <2>2. target + i \in Nat /\ target + i < MemBits /\ target <= target + i /\ target + i < target + c
        /\ (target + i) - target = i
    BY <1>1, <2>1
  <2>3. target + i \in Addr
    BY <2>2, Widths
  <2> QED BY <1>1, <2>2, <2>3 DEF Joined
<1>3. ASSUME NEW a \in Addr, a < target \/ target + (end - begin) <= a PROVE mem[a] = orig[a]
  <2>1. target \in Int /\ end - begin \in Int
    BY JoinFacts
  <2>2. a \in Int
    BY Widths
  <2> HIDE DEF c
  <2>3. ~(target <= a /\ a < target + c)
    BY <1>1, <1>3, <2>1, <2>2
  <2> QED BY <1>1, <2>3 DEF Joined
<1>4. pc = "done" => first = end
  BY DEF JoinInv
<1>5. Join!TransformCorrect
  <2>1. \A i \in 0 .. ((first - begin) - 1) : mem[target + i] = Pair(i)
    BY <1>2
  <2> QED BY <1>4, <2>1 DEF Join!TransformCorrect, Join!Result, Pair
<1>6. Join!OutsideIntact
  BY <1>3, JoinWords DEF Join!OutsideIntact
<1> QED BY <1>5, <1>6 DEF JoinInv

----------------------------------------------------------------------------
(* shift_left                                                              *)

LeftInv ==
  /\ Left!TypeOK /\ Left!AccessInRange /\ Left!ShiftsDefined
  /\ pc # "done" => middle = first + n /\ mem = Carried(begin, first, n)
  /\ pc = "start" => first = begin
  /\ pc \in {"aligned", "tail"} => 0 < n /\ n < end - begin /\ middle <= end
  /\ pc = "aligned" => Pos(first) = 0 /\ middle < end
  /\ pc = "tail" => middle = Base(end)
  /\ pc = "done" => Left!ShiftCorrect /\ Left!OutsideIntact

LEMMA LeftWords ==
  /\ Left!BitPos = BitPos /\ Left!MemBits = MemBits /\ Left!Addr = Addr
  /\ \A a : Left!Pos(a) = Pos(a) /\ Left!Base(a) = Base(a)
  /\ \A m, b, w : Left!Store(m, b, w) = Store(m, b, w)
  /\ \A m, b : Left!Load(m, b) = Load(m, b)
  /\ \A w, k : /\ Left!Lsr(w, k) = Lsr(w, k) /\ Left!Lsl(w, k) = Lsl(w, k)
               /\ Left!MaskLow(w, k) = MaskLow(w, k)
  /\ \A v, w, s, k : Left!BitBlend(v, w, s, k) = BitBlend(v, w, s, k)
  /\ \A v, w, k : Left!Shrd(v, w, k) = Shrd(v, w, k)
  /\ \A a, b : Left!Least(a, b) = Least(a, b)
  /\ \A m, a, k : Left!GetWord(m, a, k) = GetWord(m, a, k)
  /\ \A m, w, a, k : Left!WriteWord(m, w, a, k) = WriteWord(m, w, a, k)
  /\ \A a, k : /\ Left!GetWordLoads(a, k) = GetWordLoads(a, k)
               /\ Left!GetWordShifts(a, k) = GetWordShifts(a, k)
               /\ Left!WriteWordWords(a, k) = WriteWordWords(a, k)
               /\ Left!WriteWordShifts(a, k) = WriteWordShifts(a, k)
  /\ \A a, b, c : Left!Holds(a, b, c) <=> Holds(a, b, c)
  /\ \A k : Left!ShiftDefined(k) <=> ShiftDefined(k)
<1>1. /\ Left!BitPos = BitPos /\ Left!MemBits = MemBits /\ Left!Addr = Addr
      /\ \A a : Left!Pos(a) = Pos(a) /\ Left!Base(a) = Base(a)
  BY DEF Left!BitPos, Left!MemBits, Left!Addr, Left!Pos, Left!Base, BitPos, MemBits, Addr, Pos, Base
<1>2. /\ \A m, b, w : Left!Store(m, b, w) = Store(m, b, w)
      /\ \A m, b : Left!Load(m, b) = Load(m, b)
      /\ \A w, k : /\ Left!Lsr(w, k) = Lsr(w, k) /\ Left!Lsl(w, k) = Lsl(w, k)
                   /\ Left!MaskLow(w, k) = MaskLow(w, k)
      /\ \A v, w, s, k : Left!BitBlend(v, w, s, k) = BitBlend(v, w, s, k)
      /\ \A v, w : Left!BitOr(v, w) = BitOr(v, w)
      /\ \A a, b : Left!Least(a, b) = Least(a, b)
      /\ \A a, k : Left!Spans(a, k) <=> Spans(a, k)
  BY <1>1 DEF Left!Store, Left!Load, Left!Lsr, Left!Lsl, Left!MaskLow, Left!BitBlend, Left!BitOr,
              Left!Least, Left!Spans, Store, Load, Lsr, Lsl, MaskLow, BitBlend, BitOr, Least, Spans
<1>3. \A v, w, k : Left!Shrd(v, w, k) = Shrd(v, w, k)
  BY <1>2 DEF Left!Shrd, Shrd
<1>4. \A m, a, k : Left!GetWord(m, a, k) = GetWord(m, a, k)
  BY <1>1, <1>2 DEF Left!GetWord, GetWord
<1>5. \A m, w, a, k : Left!WriteWord(m, w, a, k) = WriteWord(m, w, a, k)
  BY <1>1, <1>2 DEF Left!WriteWord, WriteWord
<1>6. \A a, k : /\ Left!GetWordLoads(a, k) = GetWordLoads(a, k)
                /\ Left!GetWordShifts(a, k) = GetWordShifts(a, k)
                /\ Left!WriteWordWords(a, k) = WriteWordWords(a, k)
                /\ Left!WriteWordShifts(a, k) = WriteWordShifts(a, k)
  BY <1>1, <1>2 DEF Left!GetWordLoads, Left!GetWordShifts, Left!WriteWordWords,
     Left!WriteWordShifts, GetWordLoads, GetWordShifts, WriteWordWords, WriteWordShifts
<1> QED BY <1>1, <1>2, <1>3, <1>4, <1>5, <1>6 DEF Left!Holds, Left!ShiftDefined, Holds, ShiftDefined

\* Two neighbouring words joined by shrd hold the bits from an address on.
LEMMA ShrdBit ==
  ASSUME NEW m, NEW a \in Int, NEW i \in BitPos
  PROVE  Shrd(Load(m, Base(a)), Load(m, Base(a) + W), Pos(a))[i] = m[a + i]
<1> DEFINE p == Pos(a)
           b == Base(a)
           v == Lsr(Load(m, b), p)
           w == Lsl(Load(m, b + W), W - p)
<1>1. /\ p \in Nat /\ p < W /\ b \in Int /\ a = b + p /\ W \in Nat /\ i \in Nat /\ i < W
  <2>1. p \in 0 .. (W - 1) /\ b \in Int /\ a = b + p
    BY RangeFacts
  <2>2. i \in Nat /\ i < W /\ W \in Nat
    BY Widths DEF BitPos
  <2> HIDE DEF p, b
  <2> QED BY <2>1, <2>2
<1>2. Shrd(Load(m, b), Load(m, b + W), p)[i] = IF v[i] = Zero THEN w[i] ELSE v[i]
  BY DEF Shrd, BitOr
<1>3. /\ v[i] = IF i + p < W THEN Load(m, b)[i + p] ELSE Zero
      /\ w[i] = IF W - p <= i THEN Load(m, b + W)[i - (W - p)] ELSE Zero
  BY DEF Lsr, Lsl
<1> HIDE DEF v, w
<1>4. CASE i + p < W
  <2>1. ~(W - p <= i) /\ i + p \in BitPos /\ b + (i + p) = a + i
    BY <1>1, <1>4 DEF BitPos
  <2>2. Load(m, b)[i + p] = m[a + i]
    BY <2>1, LoadBit
  <2> QED BY <1>2, <1>3, <1>4, <2>1, <2>2
<1>5. CASE ~(i + p < W)
  <2>1. W - p <= i /\ i - (W - p) \in BitPos /\ (b + W) + (i - (W - p)) = a + i
    BY <1>1, <1>5 DEF BitPos
  <2>2. Load(m, b + W)[i - (W - p)] = m[a + i]
    BY <2>1, LoadBit
  <2> QED BY <1>2, <1>3, <1>5, <2>1, <2>2
<1> QED BY <1>4, <1>5

\* The distance of two aligned addresses is a number of words.
LEMMA AlignedDistance ==
  ASSUME NEW a \in Int, NEW b \in Int, Pos(a) = 0, Pos(b) = 0
  PROVE  ((b - a) \div W) * W = b - a /\ Pos(b - a) = 0
<1> DEFINE p == a \div W
           q == b \div W
<1>1. p \in Int /\ q \in Int /\ a = p * W /\ b = q * W /\ W \in Int
  BY Widths DEF Pos
<1> HIDE DEF p, q
<1>2. b - a = (q - p) * W + 0 /\ q - p \in Int /\ 0 \in BitPos
  <2>1. (q - p) * W = q * W - p * W
    BY <1>1, SMTT(30)
  <2>2. 0 \in BitPos
    BY Widths DEF BitPos
  <2>3. q * W \in Int /\ p * W \in Int /\ (q - p) * W \in Int
    BY <1>1
  <2> QED BY <1>1, <2>1, <2>2, <2>3
<1>3. Pos(b - a) = 0
  BY <1>2, PosUnique
<1>4. b - a = ((b - a) \div W) * W + ((b - a) % W)
  BY Widths
<1>5. ((b - a) \div W) * W \in Int
  BY Widths
<1> QED BY <1>3, <1>4, <1>5 DEF Pos

\* The words from a on that end at b or before it.
LEMMA WordsBetween ==
  ASSUME NEW a \in Int, NEW b \in Int, NEW k \in 0 .. ((b - a) \div W - 1)
  PROVE  a + k * W \in Int /\ a <= a + k * W /\ (a + k * W) + W <= b
<1> DEFINE q == (b - a) \div W
<1>1. q \in Int /\ q * W <= b - a /\ W \in Nat /\ k \in Nat /\ k + 1 <= q
  BY Widths
<1> HIDE DEF q
<1>2. (k + 1) * W <= q * W
  BY <1>1, SMTT(30)
<1>3. (k + 1) * W = k * W + W /\ k * W \in Nat
  BY <1>1, SMTT(30)
<1>4. q * W \in Int
  BY <1>1
<1> QED BY <1>1, <1>2, <1>3, <1>4

LEMMA LeftFacts ==
  ASSUME LeftInv
  PROVE  /\ mem \in [Addr -> Bit] /\ orig \in [Addr -> Bit] /\ DOMAIN mem = Addr
         /\ mem = [a \in Addr |-> mem[a]]
         /\ begin \in Nat /\ end \in Nat /\ begin <= end /\ end <= MemBits /\ MemBits \in Nat
         /\ n \in Int /\ first \in Nat /\ begin <= first /\ first <= end /\ middle \in Int
         /\ W \in Nat /\ W > 0
         /\ Pos(begin) \in 0 .. (W - 1) /\ Base(begin) \in Int /\ begin = Base(begin) + Pos(begin)
         /\ Pos(end) \in 0 .. (W - 1) /\ Base(end) \in Int /\ end = Base(end) + Pos(end)
         /\ Pos(first) \in 0 .. (W - 1) /\ Base(first) \in Int /\ first = Base(first) + Pos(first)
         /\ Pos(middle) \in 0 .. (W - 1) /\ Base(middle) \in Int /\ middle = Base(middle) + Pos(middle)
<1>1. begin \in Nat /\ end \in Nat /\ first \in Nat /\ middle \in Int
  BY Widths, LeftWords DEF LeftInv, Left!TypeOK
<1>2. /\ Pos(begin) \in 0 .. (W - 1) /\ Base(begin) \in Int /\ begin = Base(begin) + Pos(begin)
      /\ Pos(end) \in 0 .. (W - 1) /\ Base(end) \in Int /\ end = Base(end) + Pos(end)
      /\ Pos(first) \in 0 .. (W - 1) /\ Base(first) \in Int /\ first = Base(first) + Pos(first)
      /\ Pos(middle) \in 0 .. (W - 1) /\ Base(middle) \in Int /\ middle = Base(middle) + Pos(middle)
  BY <1>1, RangeFacts
<1>3. /\ mem \in [Addr -> Bit] /\ orig \in [Addr -> Bit] /\ begin <= end /\ end <= MemBits
      /\ n \in Int /\ begin <= first /\ first <= end
  BY Widths, LeftWords DEF LeftInv, Left!TypeOK
<1> QED BY <1>1, <1>2, <1>3, Widths

\* n moves something, and the shift has not returned.
LeftMoving == pc # "done" /\ 0 < n /\ n < end - begin

LEMMA LeftMovingFacts ==
  ASSUME LeftInv, LeftMoving
  PROVE  /\ middle = first + n /\ mem = Carried(begin, first, n) /\ middle <= end
         /\ n \in Nat /\ middle \in Nat /\ first < middle
         /\ end - n \in Nat /\ end - middle \in Nat /\ first + (end - middle) = end - n
<1>1. middle = first + n /\ mem = Carried(begin, first, n)
  BY DEF LeftInv, LeftMoving
<1>2. middle <= end
  <2>1. CASE pc = "start"
    <3>1. first = begin
      BY <2>1 DEF LeftInv
    <3>2. first \in Int /\ n \in Int /\ end \in Int
      BY LeftFacts
    <3> QED BY <1>1, <3>1, <3>2 DEF LeftMoving
  <2>2. CASE pc \in {"aligned", "tail"}
    BY <2>2 DEF LeftInv
  <2> QED BY <2>1, <2>2 DEF LeftInv, Left!TypeOK, LeftMoving
<1>3. first \in Nat /\ n \in Int /\ end \in Nat /\ begin \in Nat
  BY LeftFacts
<1> QED BY <1>1, <1>2, <1>3 DEF LeftMoving

\* The bits from middle on are those of the call.
LEMMA LeftSource ==
  ASSUME LeftInv, LeftMoving, NEW a \in Int, middle <= a, a < end
  PROVE  a \in Addr /\ mem[a] = orig[a]
<1>1. first \in Int /\ middle \in Nat /\ first < middle /\ end <= MemBits /\ MemBits \in Nat /\ end \in Nat
  BY LeftFacts, LeftMovingFacts
<1>2. first <= a /\ a \in Nat /\ a < MemBits
  BY <1>1
<1>3. a \in Addr
  BY <1>1, <1>2, Widths
<1> QED BY <1>2, <1>3, LeftFacts, LeftMovingFacts, CarriedSource

\* What putting the k bits from middle on at first makes of the memory.
LEMMA LeftGrows ==
  ASSUME LeftInv, LeftMoving, NEW k \in 0 .. (end - middle), NEW v,
         Puts(mem, mem', first, k, v), \A i \in 0 .. (k - 1) : v[i] = mem[middle + i]
  PROVE  mem' = Carried(begin, first + k, n) /\ mem' \in [Addr -> Bit]
<1>1. /\ k \in Nat /\ first \in Nat /\ middle \in Nat /\ n \in Nat /\ begin \in Nat /\ begin <= first
      /\ middle = first + n /\ end \in Nat /\ end <= MemBits /\ MemBits \in Nat /\ k <= end - middle
  BY LeftFacts, LeftMovingFacts
<1>2. Carries(v, k, first, n)
  <2> SUFFICES ASSUME NEW i \in 0 .. (k - 1) PROVE v[i] = orig[first + i + n]
    BY DEF Carries
  <2>1. middle + i \in Int /\ middle <= middle + i /\ middle + i < end /\ first + i + n = middle + i
    BY <1>1
  <2> QED BY <2>1, LeftSource
<1>3. Puts(Carried(begin, first, n), mem', first, k, v)
  BY LeftMovingFacts
<1>4. mem' = Carried(begin, first + k, n)
  BY <1>1, <1>2, <1>3, CarriedGrows
<1>5. first + k \in Int /\ 0 <= begin + n /\ (first + k) + n <= MemBits
  BY <1>1
<1> QED BY <1>1, <1>4, <1>5, LeftFacts, CarriedType

\* What a step that goes on has to show: that it moves the next k bits.
LEMMA LeftKeeps ==
  ASSUME LeftInv, LeftMoving, orig' = orig, begin' = begin, end' = end, n' = n, ret' = ret,
         NEW k \in 0 .. (end - middle), NEW v, Puts(mem, mem', first, k, v),
         \A i \in 0 .. (k - 1) : v[i] = mem[middle + i],
         first' = first + k, middle' = middle + k, pc' \in {"aligned", "tail"},
         used' \in SUBSET Int, \A b \in used' : Holds(b, begin, end),
         shifts' \in SUBSET Int, \A i \in shifts' : ShiftDefined(i),
         pc' = "aligned" => Pos(first + k) = 0 /\ k < end - middle,
         pc' = "tail" => middle + k = Base(end)
  PROVE  LeftInv'
<1>1. mem' = Carried(begin, first + k, n) /\ mem' \in [Addr -> Bit]
  BY LeftGrows
<1>2. /\ begin <= first' /\ first' <= end /\ first' \in Nat /\ middle' = first' + n /\ middle' <= end
      /\ middle' \in Nat /\ begin <= middle' /\ 0 < n /\ n < end - begin
      /\ (k < end - middle => middle' < end)
  BY LeftFacts, LeftMovingFacts DEF LeftMoving
<1>3. Left!TypeOK'
  <2>1. ret \in begin .. end
    BY DEF LeftInv, Left!TypeOK
  <2>2. first' \in begin' .. end' /\ middle' \in begin' .. end' /\ begin' \in 0 .. MemBits /\ end' \in 0 .. MemBits
    BY <1>2, LeftFacts
  <2> QED BY <1>1, <1>2, <2>1, <2>2, LeftFacts, LeftWords DEF Left!TypeOK
<1>4. Left!AccessInRange' /\ Left!ShiftsDefined'
  BY LeftWords DEF Left!AccessInRange, Left!ShiftsDefined
<1>5. Carried(begin, first, n)' = Carried(begin, first + k, n)
  BY DEF Carried
<1>6. Pos(first)' = Pos(first') /\ Base(end)' = Base(end)
  BY DEF Pos, Base
<1> QED BY <1>1, <1>2, <1>3, <1>4, <1>5, <1>6 DEF LeftInv

\* What the last step has to show.
LEMMA LeftEnds ==
  ASSUME LeftInv, orig' = orig, begin' = begin, end' = end, n' = n, middle' = middle,
         first' \in begin .. end, ret' \in begin .. end, pc' = "done", mem' \in [Addr -> Bit],
         used' \in SUBSET Int, \A b \in used' : Holds(b, begin, end),
         shifts' \in SUBSET Int, \A i \in shifts' : ShiftDefined(i),
         \A a \in Addr : ~(begin <= a /\ a < end) => mem'[a] = orig[a],
         IF 0 < n /\ n < end - begin
           THEN /\ \A i \in 0 .. (end - begin - n - 1) : mem'[begin + i] = orig[begin + n + i]
                /\ ret' = end - n
           ELSE mem' = orig /\ ret' = IF n <= 0 THEN end ELSE begin
  PROVE  LeftInv'
<1>1. Left!TypeOK'
  BY LeftFacts, LeftWords DEF Left!TypeOK, LeftInv, Left!d
<1>2. Left!AccessInRange' /\ Left!ShiftsDefined'
  BY LeftWords DEF Left!AccessInRange, Left!ShiftsDefined
<1>3. Left!OutsideIntact'
  BY LeftWords DEF Left!OutsideIntact
<1>4. Left!ShiftCorrect'
  <2>1. CASE 0 < n /\ n < end - begin
    <3>1. Left!Kept' = end - begin - n
      BY <2>1 DEF Left!Kept, Left!d
    <3>2. ~(n <= 0) /\ end - begin - n # 0 /\ begin + (end - begin - n) = end - n
      BY <2>1, LeftFacts
    <3> QED BY <2>1, <3>1, <3>2 DEF Left!ShiftCorrect
  <2>2. CASE ~(0 < n /\ n < end - begin)
    <3>1. Left!Kept' = 0
      BY <2>2 DEF Left!Kept, Left!d
    <3>2. begin + 0 = begin /\ \A i \in 0 .. (0 - 1) : FALSE
      BY LeftFacts
    <3> QED BY <2>2, <3>1, <3>2 DEF Left!ShiftCorrect
  <2> QED BY <2>1, <2>2
<1> QED BY <1>1, <1>2, <1>3, <1>4 DEF LeftInv

\* The last step, when it moves the bits that are left.
LEMMA LeftReturns ==
  ASSUME LeftInv, LeftMoving, orig' = orig, begin' = begin, end' = end, n' = n, middle' = middle,
         NEW v, Puts(mem, mem', first, end - middle, v),
         \A i \in 0 .. ((end - middle) - 1) : v[i] = mem[middle + i],
         first' \in begin .. end, ret' = end - n, pc' = "done",
         used' \in SUBSET Int, \A b \in used' : Holds(b, begin, end),
         shifts' \in SUBSET Int, \A i \in shifts' : ShiftDefined(i)
  PROVE  LeftInv'
<1>1. end - middle \in 0 .. (end - middle) /\ first + (end - middle) = end - n
  BY LeftMovingFacts
<1>2. mem' = Carried(begin, end - n, n) /\ mem' \in [Addr -> Bit]
  BY <1>1, LeftGrows
<1>3. 0 < n /\ n < end - begin /\ begin \in Nat /\ end \in Nat /\ n \in Nat /\ end <= MemBits /\ MemBits \in Nat
  BY LeftFacts, LeftMovingFacts DEF LeftMoving
<1>4. ret' \in begin .. end
  BY <1>3
<1>5. ASSUME NEW a \in Addr, ~(begin <= a /\ a < end) PROVE mem'[a] = orig[a]
  <2>1. ~(begin <= a /\ a < end - n)
    BY <1>3, <1>5, Widths
  <2> QED BY <1>2, <2>1 DEF Carried
<1>6. ASSUME NEW i \in 0 .. (end - begin - n - 1) PROVE mem'[begin + i] = orig[begin + n + i]
  <2>1. /\ begin + i \in Nat /\ begin + i < MemBits /\ begin <= begin + i /\ begin + i < end - n
        /\ (begin + i) + n = begin + n + i
    BY <1>3
  <2>2. begin + i \in Addr
    BY <2>1, Widths
  <2> QED BY <1>2, <2>1, <2>2 DEF Carried
<1> QED BY <1>2, <1>3, <1>4, <1>5, <1>6, LeftEnds

\* The word of an address of the range holds a bit of it.
LEMMA LeftHolds ==
  ASSUME LeftInv, NEW a \in Int, begin <= a, a < end
  PROVE  Holds(Base(a), begin, end) /\ Base(a) \in Int
<1>1. Base(a) \in Int /\ Base(a) <= a /\ a < Base(a) + W
  BY PosRange
<1>2. begin < Base(a) + W /\ Base(a) < end
  BY <1>1, LeftFacts
<1> QED BY <1>1, <1>2, HoldsIs

\* One call of write_word with what get_word gives.
LEMMA LeftMovesWord ==
  ASSUME LeftInv, LeftMoving, NEW k \in 1 .. W, k <= end - middle,
         mem' = WriteWord(mem, GetWord(mem, middle, k), first, k),
         used' = GetWordLoads(middle, k) \cup WriteWordWords(first, k),
         shifts' = GetWordShifts(middle, k) \cup WriteWordShifts(first, k)
  PROVE  /\ Puts(mem, mem', first, k, GetWord(mem, middle, k))
         /\ \A i \in 0 .. (k - 1) : GetWord(mem, middle, k)[i] = mem[middle + i]
         /\ used' \in SUBSET Int /\ \A b \in used' : Holds(b, begin, end)
         /\ shifts' \in SUBSET Int /\ \A i \in shifts' : ShiftDefined(i)
<1>1. middle \in Nat /\ first \in Nat /\ first < middle
  BY LeftFacts, LeftMovingFacts
<1>2. Puts(mem, mem', first, k, GetWord(mem, middle, k))
  BY <1>1, LeftFacts, WriteWordPuts
<1>3. k \in 0 .. W
  BY Widths
<1>4. \A i \in 0 .. (k - 1) : GetWord(mem, middle, k)[i] = mem[middle + i]
  BY <1>1, <1>3, GetWordBit
<1>5. /\ \A b \in GetWordLoads(middle, k) : b \in Int /\ b < middle + k /\ middle < b + W
      /\ \A i \in GetWordShifts(middle, k) : i \in Int /\ ShiftDefined(i)
  BY <1>1, GetWordAccess
<1>6. /\ \A b \in WriteWordWords(first, k) : b \in Int /\ b < first + k /\ first < b + W
      /\ \A i \in WriteWordShifts(first, k) : i \in Int /\ ShiftDefined(i)
  BY <1>1, WriteWordAccess
<1>7. ASSUME NEW b \in used' PROVE b \in Int /\ Holds(b, begin, end)
  <2>1. /\ middle + k <= end /\ first + k <= end /\ begin <= first /\ begin <= middle
        /\ begin \in Int /\ end \in Int /\ k \in Int /\ W \in Int
    BY <1>1, LeftFacts
  <2>2. CASE b \in GetWordLoads(middle, k)
    <3>1. b \in Int /\ b < middle + k /\ middle < b + W
      BY <1>5, <2>2
    <3> QED BY <1>1, <2>1, <3>1, HoldsIs
  <2>3. CASE b \in WriteWordWords(first, k)
    <3>1. b \in Int /\ b < first + k /\ first < b + W
      BY <1>6, <2>3
    <3> QED BY <1>1, <2>1, <3>1, HoldsIs
  <2> QED BY <2>2, <2>3
<1> QED BY <1>2, <1>4, <1>5, <1>6, <1>7

LEMMA LeftOutOfRangeStep ==
  ASSUME LeftInv, Left!OutOfRange
  PROVE  LeftInv'
<1>1. /\ pc = "start" /\ (n <= 0 \/ n >= end - begin)
      /\ ret' = IF n <= 0 THEN end ELSE first
      /\ pc' = "done" /\ middle' = middle /\ mem' = mem /\ first' = first
      /\ used' = {} /\ shifts' = {} /\ orig' = orig /\ begin' = begin /\ end' = end /\ n' = n
  BY DEF Left!OutOfRange, Left!Return, Left!Call, Left!last, Left!d
<1>2. first = begin /\ mem = Carried(begin, first, n)
  BY <1>1 DEF LeftInv
<1>3. mem = orig
  BY <1>2, LeftFacts, CarriedNone
<1>4. ~(0 < n /\ n < end - begin) /\ ret' \in begin .. end /\ first' \in begin .. end
  BY <1>1, <1>2, LeftFacts
<1> QED BY <1>1, <1>2, <1>3, <1>4, LeftFacts, LeftEnds

LEMMA LeftShiftInWordStep ==
  ASSUME LeftInv, Left!ShiftInWord
  PROVE  LeftInv'
<1> DEFINE p == Pos(begin)
           b == Base(begin)
           L == IF Pos(end) = 0 THEN W ELSE Pos(end)
           x == Lsr(MaskLow(Load(mem, b), L), n)
           k == L - p
           v == [i \in 0 .. (k - 1) |-> x[p + i]]
<1>1. /\ pc = "start" /\ 0 < n /\ n < end - begin /\ first = begin
      /\ b + (IF Pos(end) = 0 THEN W ELSE 0) = Base(end)
      /\ mem' = Store(mem, b, BitBlend(Load(mem, b), x, p, k))
      /\ used' = {b} /\ shifts' = {W - L, n} /\ ret' = first + ((end - begin) - n)
      /\ pc' = "done" /\ middle' = middle /\ first' = first
      /\ orig' = orig /\ begin' = begin /\ end' = end /\ n' = n
  BY LeftWords DEF Left!ShiftInWord, Left!Return, Left!Call, Left!d, Left!SingleWord, Left!LastPos,
                   Left!is_last_aligned, Left!last, LeftInv
<1>2. /\ L \in Nat /\ L <= W /\ 0 < L /\ p \in Nat /\ b \in Int /\ b + p = begin /\ b + L = end
      /\ W \in Nat /\ n \in Nat /\ begin \in Nat /\ end \in Nat /\ end <= MemBits /\ MemBits \in Nat
  BY <1>1, LeftFacts
<1>3. 0 <= b
  BY <1>2, BaseNat
<1>4. mem = orig
  <2>1. mem = Carried(begin, first, n)
    BY <1>1 DEF LeftInv
  <2> QED BY <1>1, <2>1, LeftFacts, CarriedNone
<1>5. ASSUME NEW i \in BitPos
      PROVE  /\ i + n < L => x[i] = mem[b + (i + n)]
             /\ x[i] \in Bit
  <2>1. i \in Nat /\ i < W
    BY Widths DEF BitPos
  <2>2. x[i] = IF i + n < W THEN MaskLow(Load(mem, b), L)[i + n] ELSE Zero
    BY LsrBit
  <2> HIDE DEF x
  <2>3. CASE i + n < L
    <3>1. i + n \in BitPos /\ i + n < W /\ b + (i + n) \in Nat /\ b + (i + n) < MemBits
      BY <1>2, <1>3, <2>1, <2>3 DEF BitPos
    <3>2. b + (i + n) \in Addr
      BY <1>2, <3>1, Widths
    <3>3. MaskLow(Load(mem, b), L)[i + n] = mem[b + (i + n)]
      BY <2>3, <3>1 DEF MaskLow, Load
    <3> QED BY <2>2, <3>1, <3>2, <3>3, LeftFacts
  <2>4. CASE ~(i + n < L)
    <3>1. i + n < W => i + n \in BitPos
      BY <1>2, <2>1 DEF BitPos
    <3>2. i + n < W => MaskLow(Load(mem, b), L)[i + n] = Zero
      BY <2>4, <3>1 DEF MaskLow
    <3> QED BY <2>2, <2>4, <3>2, BitAssumption
  <2> QED BY <2>3, <2>4
<1> HIDE DEF x, b, p, L
<1>6. k \in Nat /\ p + k <= W /\ begin + k = end
  BY <1>1, <1>2, LeftFacts
<1>7. \A i \in 0 .. (k - 1) : x[p + i] = v[i]
  OBVIOUS
<1> HIDE DEF v, k
<1>8. Puts(mem, mem', begin, k, v)
  <2>1. Puts(mem, mem', b + p, k, v)
    BY <1>1, <1>2, <1>6, <1>7, LeftFacts, BlendPuts
  <2> QED BY <1>2, <2>1
<1>9. mem' \in [Addr -> Bit]
  <2>1. \A i \in 0 .. (k - 1) : v[i] \in Bit
    <3> SUFFICES ASSUME NEW i \in 0 .. (k - 1) PROVE v[i] \in Bit
      OBVIOUS
    <3>1. p + i \in BitPos
      BY <1>2, <1>6 DEF BitPos
    <3> QED BY <1>5, <1>7, <3>1
  <2> QED BY <1>2, <1>6, <1>8, <2>1, LeftFacts, PutsType
<1>10. ASSUME NEW a \in Addr, ~(begin <= a /\ a < end) PROVE mem'[a] = orig[a]
  <2>1. a \in Int
    BY Widths
  <2>2. ~(begin <= a /\ a < begin + k)
    BY <1>6, <1>10
  <2> QED BY <1>4, <1>8, <2>2 DEF Puts
<1>11. ASSUME NEW i \in 0 .. (end - begin - n - 1) PROVE mem'[begin + i] = orig[begin + n + i]
  <2>1. /\ begin + i \in Nat /\ begin + i < MemBits /\ begin <= begin + i /\ begin + i < begin + k
        /\ (begin + i) - begin = i /\ i \in 0 .. (k - 1) /\ (p + i) + n < L /\ p + i \in Nat
        /\ p + i < W /\ b + ((p + i) + n) = begin + n + i
    BY <1>1, <1>2, <1>6
  <2>2. begin + i \in Addr /\ p + i \in BitPos
    BY <1>2, <2>1, Widths DEF BitPos
  <2>3. mem'[begin + i] = v[i]
    BY <1>8, <2>1, <2>2 DEF Puts
  <2> QED BY <1>4, <1>5, <1>7, <2>1, <2>2, <2>3
<1>12. /\ used' \in SUBSET Int /\ \A c \in used' : Holds(c, begin, end)
       /\ shifts' \in SUBSET Int /\ \A i \in shifts' : ShiftDefined(i)
  <2>1. begin < b + W /\ b < end /\ W - L \in 0 .. (W - 1) /\ n \in 0 .. (W - 1)
    BY <1>1, <1>2, LeftFacts
  <2> QED BY <1>1, <1>2, <2>1, HoldsIs, ShiftIs
<1>13. ret' = end - n /\ ret' \in begin .. end /\ first' \in begin .. end
  BY <1>1, <1>2
<1> QED BY <1>1, <1>9, <1>10, <1>11, <1>12, <1>13, LeftEnds

LEMMA LeftOneWordStep ==
  ASSUME LeftInv, Left!MoveOneWord
  PROVE  LeftInv'
<1> DEFINE k == end - middle
<1>1. /\ pc = "start" /\ 0 < n /\ n < end - begin /\ (end - begin) - n <= W
      /\ mem' = WriteWord(mem, GetWord(mem, middle, (end - begin) - n), first, (end - begin) - n)
      /\ used' = GetWordLoads(middle, (end - begin) - n) \cup WriteWordWords(first, (end - begin) - n)
      /\ shifts' = GetWordShifts(middle, (end - begin) - n) \cup WriteWordShifts(first, (end - begin) - n)
      /\ ret' = first + ((end - begin) - n)
      /\ pc' = "done" /\ middle' = middle /\ first' = first
      /\ orig' = orig /\ begin' = begin /\ end' = end /\ n' = n
      /\ first = begin
  BY LeftWords DEF Left!MoveOneWord, Left!Return, Left!Call, Left!d, LeftInv
<1>2. LeftMoving
  BY <1>1 DEF LeftMoving
<1>3. /\ (end - begin) - n = k /\ k \in 1 .. W /\ k <= end - middle
      /\ ret' = end - n /\ first' \in begin .. end /\ k = end - middle
  BY <1>1, <1>2, LeftFacts, LeftMovingFacts
<1> HIDE DEF k
<1>4. /\ Puts(mem, mem', first, k, GetWord(mem, middle, k))
      /\ \A i \in 0 .. (k - 1) : GetWord(mem, middle, k)[i] = mem[middle + i]
      /\ used' \in SUBSET Int /\ \A b \in used' : Holds(b, begin, end)
      /\ shifts' \in SUBSET Int /\ \A i \in shifts' : ShiftDefined(i)
  BY <1>1, <1>2, <1>3, LeftMovesWord
<1> QED BY <1>1, <1>2, <1>3, <1>4, LeftReturns

\* The bits from middle on that share its word.
LEMMA LeftLowBits ==
  ASSUME LeftInv, NEW i \in Nat, Pos(middle) + i < W
  PROVE  /\ Pos(middle) + i \in BitPos
         /\ Load(mem, Base(middle))[Pos(middle) + i] = mem[middle + i]
         /\ Lsr(Load(mem, Base(middle)), Pos(middle))[i] = mem[middle + i]
<1> DEFINE p == Pos(middle)
           b == Base(middle)
           w == Load(mem, b)
<1>1. p + i \in BitPos /\ b + (p + i) = middle + i /\ i \in BitPos /\ i + p = p + i
  BY LeftFacts DEF BitPos
<1>2. w[p + i] = mem[middle + i]
  <2>1. w[p + i] = mem[b + (p + i)]
    BY <1>1 DEF Load
  <2> QED BY <1>1, <2>1
<1>3. Lsr(w, p)[i] = w[i + p]
  <2> HIDE DEF w
  <2> QED BY <1>1, LsrBit
<1> QED BY <1>1, <1>2, <1>3

LEMMA LeftAlignOne ==
  ASSUME LeftInv, LeftMoving, Left!AlignFromOne, end - middle > W
  PROVE  LET k == W - Pos(first)
             v == [i \in 0 .. (k - 1) |-> mem[middle + i]]
         IN  /\ Puts(mem, mem', first, k, v)
             /\ used' \in SUBSET Int /\ \A b \in used' : Holds(b, begin, end)
             /\ shifts' \in SUBSET Int /\ \A i \in shifts' : ShiftDefined(i)
<1> DEFINE p == Pos(first)
           q == Pos(middle)
           k == W - p
           v == [i \in 0 .. (k - 1) |-> mem[middle + i]]
           w == Load(mem, Base(middle))
           x == Lsl(w, p - q)
<1>1. /\ q <= p
      /\ mem' = Store(mem, Base(first), BitBlend(Load(mem, Base(first)), x, p, k))
      /\ used' = {Base(first), Base(middle)} /\ shifts' = {p - q}
  BY LeftWords DEF Left!AlignFromOne
<1>2. /\ p \in Nat /\ q \in Nat /\ p < W /\ q < W /\ W \in Nat /\ k \in Nat /\ p + k = W
      /\ Base(first) \in Int /\ Base(first) + p = first /\ Base(middle) \in Int
  BY LeftFacts
<1>3. ASSUME NEW i \in 0 .. (k - 1) PROVE x[p + i] = v[i]
  <2>1. p + i \in BitPos /\ p - q <= p + i /\ (p + i) - (p - q) = q + i /\ q + i < W /\ i \in Nat
    BY <1>1, <1>2 DEF BitPos
  <2>2. x[p + i] = w[q + i]
    <3> HIDE DEF w, p, q, k
    <3> QED BY <2>1, LslBit
  <2>3. w[q + i] = mem[middle + i]
    BY <2>1, LeftLowBits
  <2> QED BY <2>2, <2>3
<1>4. Puts(mem, mem', first, k, v)
  <2> HIDE DEF x, p, k, v
  <2>1. Puts(mem, mem', Base(first) + p, k, v)
    <3>1. p + k <= W
      BY <1>2
    <3> QED BY <1>1, <1>2, <1>3, <3>1, LeftFacts, BlendPuts
  <2> QED BY <1>2, <2>1
<1>5. /\ Holds(Base(first), begin, end) /\ Holds(Base(middle), begin, end)
  <2>1. begin <= first /\ first < end /\ begin <= middle /\ middle < end /\ first \in Int /\ middle \in Int
    BY LeftFacts, LeftMovingFacts
  <2> QED BY <2>1, LeftHolds
<1>6. p - q \in 0 .. (W - 1)
  BY <1>1, <1>2
<1>7. used' \in SUBSET Int /\ \A b \in used' : Holds(b, begin, end)
  BY <1>1, <1>2, <1>5
<1>8. shifts' \in SUBSET Int /\ \A i \in shifts' : ShiftDefined(i)
  BY <1>1, <1>2, <1>6, ShiftIs
<1> QED BY <1>4, <1>7, <1>8

LEMMA LeftAlignTwo ==
  ASSUME LeftInv, LeftMoving, Left!AlignFromTwo, end - middle > W
  PROVE  LET k == W - Pos(first)
             v == [i \in 0 .. (k - 1) |-> mem[middle + i]]
         IN  /\ Puts(mem, mem', first, k, v)
             /\ used' \in SUBSET Int /\ \A b \in used' : Holds(b, begin, end)
             /\ shifts' \in SUBSET Int /\ \A i \in shifts' : ShiftDefined(i)
<1> DEFINE p    == Pos(first)
           q    == Pos(middle)
           b    == Base(first)
           next == Base(middle) + W
           n1   == W - q
           n2   == W - p - n1
           x    == Lsr(Load(mem, Base(middle)), q - p)
           m1   == Store(mem, b, BitBlend(Load(mem, b), x, p, n1))
           y    == Lsl(Load(m1, next), W - n2)
           v    == [i \in 0 .. ((W - p) - 1) |-> mem[middle + i]]
           u    == [i \in 0 .. (n2 - 1) |-> mem[next + i]]
<1>1. /\ p < q
      /\ mem' = Store(m1, b, BitBlend(Load(m1, b), y, p + n1, n2))
      /\ used' = {b, Base(middle), next} /\ shifts' = {q - p, W - n2}
  BY LeftWords DEF Left!AlignFromTwo
<1>2. /\ p \in Nat /\ q \in Nat /\ p < W /\ q < W /\ W \in Nat
      /\ n1 \in Nat /\ n2 \in Nat /\ n2 = q - p /\ n1 + n2 = W - p
      /\ b \in Int /\ b + p = first /\ Base(middle) \in Int /\ next \in Int /\ next = middle + n1
      /\ first \in Nat /\ first < middle /\ middle \in Nat
  BY <1>1, LeftFacts, LeftMovingFacts
<1>3. ASSUME NEW i \in 0 .. (n1 - 1) PROVE x[p + i] = v[i]
  <2>1. p + i \in BitPos /\ (p + i) + (q - p) = q + i /\ q + i < W /\ i \in Nat /\ i \in 0 .. ((W - p) - 1)
    BY <1>1, <1>2 DEF BitPos
  <2>2. x[p + i] = Load(mem, Base(middle))[q + i]
    BY <2>1, LsrBit
  <2>3. Load(mem, Base(middle))[q + i] = mem[middle + i]
    BY <2>1, LeftLowBits
  <2> QED BY <2>1, <2>2, <2>3
<1>4. Puts(mem, m1, first, n1, v) /\ DOMAIN m1 = Addr
  <2> HIDE DEF x, v, p, b, n1
  <2>1. p + n1 <= W
    BY <1>1, <1>2
  <2>2. Puts(mem, m1, b + p, n1, v)
    BY <1>2, <1>3, <2>1, LeftFacts, BlendPuts
  <2> HIDE DEF m1
  <2>3. Puts(mem, m1, first, n1, v)
    BY <1>2, <2>2
  <2> QED BY <2>3 DEF Puts
<1>5. ASSUME NEW i \in 0 .. (n2 - 1) PROVE y[(p + n1) + i] = u[i]
  <2>1. /\ (p + n1) + i \in BitPos /\ W - n2 <= (p + n1) + i /\ ((p + n1) + i) - (W - n2) = i
        /\ i \in BitPos /\ i \in Nat /\ i < W
    BY <1>1, <1>2 DEF BitPos
  <2>2. y[(p + n1) + i] = Load(m1, next)[i]
    <3> HIDE DEF p, n1, n2, m1, next
    <3> QED BY <2>1, LslBit
  <2> HIDE DEF m1
  <2>3. Load(m1, next)[i] = m1[next + i]
    BY <2>1, LoadBit
  <2>4. next + i \in Int /\ middle <= next + i /\ next + i < end
    BY <1>1, <1>2, <2>1, LeftFacts
  <2>5. next + i \in Addr
    BY <2>4, LeftSource
  <2>6. ~(next + i < first + n1)
    BY <1>2, <2>1
  <2>7. m1[next + i] = mem[next + i]
    BY <1>4, <2>5, <2>6 DEF Puts
  <2> QED BY <2>2, <2>3, <2>7
<1>6. Puts(m1, mem', first + n1, n2, u)
  <2> HIDE DEF y, u, p, b, n1, n2, m1
  <2>1. (p + n1) + n2 <= W /\ p + n1 \in Nat /\ b + (p + n1) = first + n1
    BY <1>1, <1>2
  <2>2. Puts(m1, mem', b + (p + n1), n2, u)
    BY <1>1, <1>2, <1>4, <1>5, <2>1, BlendPuts
  <2> QED BY <2>1, <2>2
<1>7. ASSUME NEW i \in 0 .. (n2 - 1) PROVE u[i] = v[n1 + i]
  <2>1. n1 + i \in 0 .. ((W - p) - 1) /\ middle + (n1 + i) = next + i
    BY <1>1, <1>2
  <2> QED BY <2>1
<1>8. Puts(mem, mem', first, W - p, v)
  <2> HIDE DEF u, v, p, n1, n2, m1
  <2>1. Puts(mem, mem', first, n1 + n2, v)
    BY <1>2, <1>4, <1>6, <1>7, PutsTwice
  <2> QED BY <1>2, <2>1
<1>9. /\ Holds(b, begin, end) /\ Holds(Base(middle), begin, end) /\ Holds(next, begin, end)
  <2>1. begin <= first /\ first < end /\ begin <= middle /\ middle < end
        /\ begin < next + W /\ next < end
    BY <1>1, <1>2, LeftFacts
  <2> QED BY <1>2, <2>1, LeftHolds, HoldsIs
<1>10. q - p \in 0 .. (W - 1) /\ W - n2 \in 0 .. (W - 1)
  BY <1>1, <1>2
<1>11. used' \in SUBSET Int /\ \A c \in used' : Holds(c, begin, end)
  BY <1>1, <1>2, <1>9
<1>12. shifts' \in SUBSET Int /\ \A i \in shifts' : ShiftDefined(i)
  BY <1>1, <1>2, <1>10, ShiftIs
<1> QED BY <1>8, <1>11, <1>12

LEMMA LeftAlignStep ==
  ASSUME LeftInv, Left!AlignFirst
  PROVE  LeftInv'
<1> DEFINE s == Least((end - begin) - n, W - Pos(first))
           k == W - Pos(first)
           v == [i \in 0 .. (k - 1) |-> mem[middle + i]]
<1>1. /\ pc = "start" /\ 0 < n /\ n < end - begin /\ (end - begin) - n > W
      /\ IF Pos(first) # 0
           THEN /\ Left!AlignFromOne \/ Left!AlignFromTwo
                /\ first' = first + s /\ middle' = middle + s
           ELSE /\ used' = {} /\ shifts' = {} /\ mem' = mem /\ first' = first /\ middle' = middle
      /\ pc' = "aligned" /\ ret' = ret
      /\ orig' = orig /\ begin' = begin /\ end' = end /\ n' = n /\ first = begin
  BY LeftWords DEF Left!AlignFirst, Left!Call, Left!d, LeftInv
<1>2. LeftMoving
  BY <1>1 DEF LeftMoving
<1>3. /\ end - middle > W /\ k \in Nat /\ k <= W /\ s = k /\ k \in 0 .. (end - middle) /\ k < end - middle
      /\ first \in Int /\ first + k = Base(first) + W
  <2>1. end - middle = (end - begin) - n
    BY <1>1, <1>2, LeftFacts, LeftMovingFacts
  <2>2. end - middle > W /\ W \in Nat /\ k \in Nat /\ k <= W /\ first + k = Base(first) + W /\ end - middle \in Int
        /\ first \in Int
    BY <1>1, <2>1, LeftFacts, LeftMovingFacts
  <2>3. (end - begin) - n \in Int /\ ~((end - begin) - n <= k)
    BY <2>1, <2>2
  <2>4. s = k
    BY <2>3 DEF Least
  <2> HIDE DEF k, s
  <2>5. k \in 0 .. (end - middle) /\ k < end - middle
    BY <2>2
  <2> QED BY <2>2, <2>4, <2>5
<1>4. Pos(first + k) = 0
  BY <1>3, LeftFacts, BaseAligned, AlignedStep
<1>5. CASE Pos(first) # 0
  <2>1. /\ Puts(mem, mem', first, k, v)
        /\ used' \in SUBSET Int /\ \A b \in used' : Holds(b, begin, end)
        /\ shifts' \in SUBSET Int /\ \A i \in shifts' : ShiftDefined(i)
    BY <1>1, <1>2, <1>3, <1>5, LeftAlignOne, LeftAlignTwo
  <2>2. \A i \in 0 .. (k - 1) : v[i] = mem[middle + i]
    OBVIOUS
  <2>3. first' = first + k /\ middle' = middle + k
    BY <1>1, <1>3, <1>5
  <2> HIDE DEF k, v
  <2> QED BY <1>1, <1>2, <1>3, <1>4, <2>1, <2>2, <2>3, LeftKeeps
<1>6. CASE Pos(first) = 0
  <2> DEFINE u == [i \in {} |-> Zero]
  <2>1. Puts(mem, mem', first, 0, u)
    BY <1>1, <1>6, LeftFacts, PutsNothing
  <2>2. \A i \in 0 .. (0 - 1) : u[i] = mem[middle + i]
    OBVIOUS
  <2>3. /\ first + 0 = first /\ middle + 0 = middle /\ 0 \in 0 .. (end - middle) /\ 0 < end - middle
    BY <1>2, <1>3, LeftFacts
  <2>4. first' = first + 0 /\ middle' = middle + 0 /\ Pos(first + 0) = 0 /\ used' = {} /\ shifts' = {}
    BY <1>1, <1>6, <2>3
  <2> HIDE DEF u
  <2> QED BY <1>1, <1>2, <2>1, <2>2, <2>3, <2>4, LeftKeeps
<1> QED BY <1>5, <1>6

\* The blend of the rest of middle's word into the low bits of first's, which
\* LastWordOnly and Penultimate do.
LEMMA LeftBlendsLow ==
  ASSUME LeftInv, LeftMoving, pc = "aligned", NEW k \in Nat, Pos(middle) + k <= W,
         mem' = Store(mem, Base(first), BitBlend(Load(mem, Base(first)),
                                          Lsr(Load(mem, Base(middle)), Pos(middle)), 0, k)),
         used' = {Base(first), Base(middle)}, shifts' = {Pos(middle)}
  PROVE  LET v == [i \in 0 .. (k - 1) |-> mem[middle + i]]
         IN  /\ Puts(mem, mem', first, k, v)
             /\ used' \in SUBSET Int /\ \A b \in used' : Holds(b, begin, end)
             /\ shifts' \in SUBSET Int /\ \A i \in shifts' : ShiftDefined(i)
<1> DEFINE v == [i \in 0 .. (k - 1) |-> mem[middle + i]]
           x == Lsr(Load(mem, Base(middle)), Pos(middle))
<1>1. /\ Pos(first) = 0 /\ Base(first) = first /\ first \in Int /\ 0 + k <= W /\ 0 \in Nat
      /\ first + 0 = first
  <2>1. Pos(first) = 0
    BY DEF LeftInv
  <2> QED BY <2>1, LeftFacts
<1>2. ASSUME NEW i \in 0 .. (k - 1) PROVE x[0 + i] = v[i]
  <2>1. i \in Nat /\ Pos(middle) + i < W /\ 0 + i = i
    BY LeftFacts
  <2>2. x[i] = mem[middle + i]
    BY <2>1, LeftLowBits
  <2> HIDE DEF x
  <2> QED BY <2>1, <2>2
<1>3. Puts(mem, mem', first, k, v)
  <2> HIDE DEF x, v
  <2>1. mem' = Store(mem, first, BitBlend(Load(mem, first), x, 0, k))
    BY <1>1 DEF x
  <2>2. Puts(mem, mem', first + 0, k, v)
    BY <1>1, <1>2, <2>1, LeftFacts, BlendPuts
  <2> QED BY <1>1, <2>2
<1>4. Holds(Base(first), begin, end) /\ Holds(Base(middle), begin, end)
  <2>1. middle < end
    BY DEF LeftInv
  <2>2. begin <= first /\ first < end /\ begin <= middle /\ middle \in Int
    BY <2>1, LeftFacts, LeftMovingFacts
  <2> QED BY <1>1, <2>1, <2>2, LeftHolds
<1>5. used' \in SUBSET Int /\ \A b \in used' : Holds(b, begin, end)
  BY <1>4, LeftFacts
<1>6. shifts' \in SUBSET Int /\ \A i \in shifts' : ShiftDefined(i)
  BY LeftFacts, ShiftIs
<1> QED BY <1>3, <1>5, <1>6

LEMMA LeftLastWordStep ==
  ASSUME LeftInv, Left!LastWordOnly
  PROVE  LeftInv'
<1> DEFINE k == end - middle
           v == [i \in 0 .. (k - 1) |-> mem[middle + i]]
<1>1. /\ pc = "aligned" /\ Base(middle) = Base(end) /\ 0 < n /\ n < end - begin /\ middle < end
      /\ IF Pos(end) - Pos(middle) > 0
           THEN /\ mem' = Store(mem, Base(first), BitBlend(Load(mem, Base(first)),
                                   Lsr(Load(mem, Base(middle)), Pos(middle)), 0, Pos(end) - Pos(middle)))
                /\ used' = {Base(first), Base(middle)} /\ shifts' = {Pos(middle)}
                /\ first' = first + (Pos(end) - Pos(middle))
           ELSE TRUE
      /\ pc' = "done" /\ ret' = first' /\ middle' = middle
      /\ orig' = orig /\ begin' = begin /\ end' = end /\ n' = n
  BY LeftWords DEF Left!LastWordOnly, Left!Return, Left!Call, Left!last, LeftInv
<1>2. LeftMoving
  BY <1>1 DEF LeftMoving
<1>3. /\ Pos(end) - Pos(middle) = k /\ k > 0 /\ k \in Nat /\ Pos(middle) + k <= W
      /\ first + k = end - n /\ first + k \in begin .. end
  BY <1>1, <1>2, LeftFacts, LeftMovingFacts
<1>4. /\ Puts(mem, mem', first, k, v)
      /\ used' \in SUBSET Int /\ \A b \in used' : Holds(b, begin, end)
      /\ shifts' \in SUBSET Int /\ \A i \in shifts' : ShiftDefined(i)
  <2> HIDE DEF k
  <2> QED BY <1>1, <1>2, <1>3, LeftBlendsLow
<1>5. \A i \in 0 .. (k - 1) : v[i] = mem[middle + i]
  OBVIOUS
<1>6. first' \in begin .. end /\ ret' = end - n
  <2> HIDE DEF k
  <2> QED BY <1>1, <1>3
<1> HIDE DEF v
<1> QED BY <1>1, <1>2, <1>4, <1>5, <1>6, LeftReturns

LEMMA LeftPenultimateStep ==
  ASSUME LeftInv, Left!Penultimate
  PROVE  LeftInv'
<1> DEFINE k == W - Pos(middle)
           v == [i \in 0 .. (k - 1) |-> mem[middle + i]]
<1>1. /\ pc = "aligned" /\ 0 < n /\ n < end - begin /\ Base(middle) + W = Base(end)
      /\ mem' = Store(mem, Base(first), BitBlend(Load(mem, Base(first)),
                                          Lsr(Load(mem, Base(middle)), Pos(middle)), 0, k))
      /\ used' = {Base(first), Base(middle)} /\ shifts' = {Pos(middle)}
      /\ first' = first + k /\ middle' = middle + k
      /\ pc' = "tail" /\ ret' = ret
      /\ orig' = orig /\ begin' = begin /\ end' = end /\ n' = n
  BY LeftWords DEF Left!Penultimate, Left!Call, Left!last, LeftInv
<1>2. LeftMoving
  BY <1>1 DEF LeftMoving
<1>3. k \in Nat /\ Pos(middle) + k <= W /\ middle + k = Base(end) /\ k \in 0 .. (end - middle)
  BY <1>1, LeftFacts
<1> HIDE DEF k
<1>4. /\ Puts(mem, mem', first, k, v)
      /\ used' \in SUBSET Int /\ \A b \in used' : Holds(b, begin, end)
      /\ shifts' \in SUBSET Int /\ \A i \in shifts' : ShiftDefined(i)
  BY <1>1, <1>2, <1>3, LeftBlendsLow
<1>5. \A i \in 0 .. (k - 1) : v[i] = mem[middle + i]
  OBVIOUS
<1> HIDE DEF v
<1> QED BY <1>1, <1>2, <1>3, <1>4, <1>5, LeftKeeps

LEMMA LeftShrdStep ==
  ASSUME LeftInv, Left!ShrdWord
  PROVE  LeftInv'
<1> DEFINE v == Shrd(Load(mem, Base(middle)), Load(mem, Base(middle) + W), Pos(middle))
<1>1. /\ pc = "aligned" /\ 0 < n /\ n < end - begin /\ Base(middle) + W < Base(end)
      /\ mem' = Store(mem, Base(first), v)
      /\ used' = {Base(first), Base(middle), Base(middle) + W}
      /\ shifts' = {Pos(middle), W - Pos(middle)} /\ Pos(middle) # 0
      /\ first' = first + W /\ middle' = middle + W /\ pc' = "aligned" /\ ret' = ret
      /\ orig' = orig /\ begin' = begin /\ end' = end /\ n' = n
      /\ Pos(first) = 0 /\ middle < end
  BY LeftWords DEF Left!ShrdWord, Left!ShrdLeft, Left!Call, Left!last, LeftInv
<1>2. LeftMoving
  BY <1>1 DEF LeftMoving
<1>3. \A i \in 0 .. (W - 1) : v[i] = mem[middle + i]
  BY LeftFacts, ShrdBit DEF BitPos
<1> HIDE DEF v
<1>4. Base(first) = first /\ first \in Int /\ W \in Nat
  BY <1>1, LeftFacts
<1>5. Puts(mem, mem', first, W, v)
  BY <1>1, <1>4, LeftFacts, StorePuts
<1>6. (Base(middle) + W) + W <= Base(end)
  <2>1. Pos(Base(middle) + W) = 0
    BY LeftFacts, BaseAligned, AlignedStep
  <2>2. Base(middle) + W \in Int /\ Base(end) \in Int /\ Pos(Base(end)) = 0
    BY LeftFacts, BaseAligned
  <2>3. Base(Base(end)) = Base(end)
    BY <2>2 DEF Base
  <2> QED BY <1>1, <2>1, <2>2, <2>3, AlignedGap
<1>7. W \in 0 .. (end - middle) /\ W < end - middle
  BY <1>6, LeftFacts
<1>8. Pos(first + W) = 0
  BY <1>1, <1>4, AlignedStep
<1>9. used' \in SUBSET Int /\ \A b \in used' : Holds(b, begin, end)
  <2>1. begin <= first /\ first < end /\ begin <= middle /\ middle < end /\ middle \in Int
        /\ begin < (Base(middle) + W) + W /\ Base(middle) + W < end
    BY <1>1, <1>2, LeftFacts, LeftMovingFacts
  <2>2. Holds(Base(first), begin, end) /\ Holds(Base(middle), begin, end)
        /\ Holds(Base(middle) + W, begin, end)
    BY <1>4, <2>1, LeftHolds, HoldsIs
  <2> QED BY <1>1, <2>2, LeftFacts
<1>10. shifts' \in SUBSET Int /\ \A i \in shifts' : ShiftDefined(i)
  <2>1. Pos(middle) \in 0 .. (W - 1) /\ W - Pos(middle) \in 0 .. (W - 1)
    BY <1>1, LeftFacts
  <2> QED BY <1>1, <2>1, ShiftIs
<1> QED BY <1>1, <1>2, <1>3, <1>5, <1>7, <1>8, <1>9, <1>10, LeftKeeps

LEMMA LeftTailStep ==
  ASSUME LeftInv, Left!Tail
  PROVE  LeftInv'
<1> DEFINE k == end - middle
<1>1. /\ pc = "tail" /\ 0 < n /\ n < end - begin /\ middle = Base(end)
      /\ IF Pos(end) = 0
           THEN used' = {} /\ shifts' = {} /\ mem' = mem /\ first' = first
           ELSE /\ mem' = WriteWord(mem, GetWord(mem, middle, Pos(end) - Pos(middle)), first,
                                    Pos(end) - Pos(middle))
                /\ used' = GetWordLoads(middle, Pos(end) - Pos(middle))
                             \cup WriteWordWords(first, Pos(end) - Pos(middle))
                /\ shifts' = GetWordShifts(middle, Pos(end) - Pos(middle))
                               \cup WriteWordShifts(first, Pos(end) - Pos(middle))
                /\ first' = first + (Pos(end) - Pos(middle))
      /\ pc' = "done" /\ ret' = first' /\ middle' = middle
      /\ orig' = orig /\ begin' = begin /\ end' = end /\ n' = n
  BY LeftWords DEF Left!Tail, Left!is_last_aligned, Left!Return, Left!Call, Left!last, LeftInv
<1>2. LeftMoving
  BY <1>1 DEF LeftMoving
<1>3. Pos(middle) = 0
  BY <1>1, LeftFacts, BaseAligned
<1>4. /\ Pos(end) - Pos(middle) = k /\ k \in Nat /\ k < W /\ k <= end - middle /\ k = Pos(end)
      /\ first + k = end - n /\ first + k \in begin .. end /\ k = end - middle
  <2>1. k = Pos(end) /\ Pos(end) \in Nat /\ Pos(end) < W
    BY <1>1, LeftFacts
  <2>2. first + k = end - n /\ begin <= first + k /\ first + k <= end /\ first + k \in Int
    <3>1. first + k = end - n /\ k \in Nat /\ n \in Nat
      BY <1>2, LeftMovingFacts
    <3>2. begin \in Int /\ first \in Int /\ begin <= first /\ end \in Int
      BY LeftFacts
    <3> HIDE DEF k
    <3> QED BY <3>1, <3>2
  <2>3. begin \in Int /\ end \in Int
    BY LeftFacts
  <2> HIDE DEF k
  <2>4. Pos(end) - Pos(middle) = k /\ k \in Nat /\ k < W /\ k <= k
    BY <1>3, <2>1
  <2>5. first + k \in begin .. end
    BY <2>2, <2>3
  <2> QED BY <2>1, <2>2, <2>4, <2>5 DEF k
<1> HIDE DEF k
<1>5. CASE Pos(end) = 0
  <2> DEFINE u == [i \in {} |-> Zero]
  <2>1. k = 0 /\ first \in Int
    <3>1. first \in Int
      BY LeftFacts
    <3> QED BY <1>4, <1>5, <3>1
  <2>2. Puts(mem, mem', first, k, u)
    BY <1>1, <1>5, <2>1, LeftFacts, PutsNothing
  <2>3. \A i \in 0 .. (k - 1) : u[i] = mem[middle + i]
    BY <2>1
  <2>4. first' \in begin .. end /\ ret' = end - n /\ used' = {} /\ shifts' = {}
    <3>1. first + k = first
      BY <2>1
    <3> QED BY <1>1, <1>4, <1>5, <3>1
  <2> HIDE DEF u
  <2> QED BY <1>1, <1>2, <1>4, <2>2, <2>3, <2>4, LeftReturns
<1>6. CASE Pos(end) # 0
  <2>1. k \in 1 .. W
    BY <1>4, <1>6, LeftFacts
  <2>2. /\ Puts(mem, mem', first, k, GetWord(mem, middle, k))
        /\ \A i \in 0 .. (k - 1) : GetWord(mem, middle, k)[i] = mem[middle + i]
        /\ used' \in SUBSET Int /\ \A b \in used' : Holds(b, begin, end)
        /\ shifts' \in SUBSET Int /\ \A i \in shifts' : ShiftDefined(i)
    BY <1>1, <1>2, <1>4, <1>6, <2>1, LeftMovesWord
  <2>3. first' \in begin .. end /\ ret' = end - n
    BY <1>1, <1>4, <1>6
  <2> QED BY <1>1, <1>2, <1>4, <2>2, <2>3, LeftReturns
<1> QED BY <1>5, <1>6

\* std::shift_left over the words: the bits of the whole words from middle on
\* move down to first.
LEMMA LeftWholeWords ==
  ASSUME LeftInv, LeftMoving, Pos(first) = 0, Pos(middle) = 0, middle <= Base(end)
  PROVE  LET m1 == Left!WordShiftLeft(mem)
             v  == [i \in 0 .. ((end - middle) - 1) |-> mem[middle + i]]
         IN  /\ (n \div W) * W = n
             /\ Puts(mem, m1, first, Base(end) - middle, v)
             /\ \A a \in Addr : Base(end) <= a => m1[a] = mem[a]
<1> DEFINE m1 == Left!WordShiftLeft(mem)
           v  == [i \in 0 .. ((end - middle) - 1) |-> mem[middle + i]]
           l  == Base(end) - middle
<1>1. /\ first \in Nat /\ middle \in Nat /\ n \in Nat /\ middle = first + n /\ n = middle - first
      /\ Base(end) \in Int /\ end \in Nat /\ Base(end) <= end /\ l \in Nat
      /\ first + l = Base(end) - n /\ Base(first) = first
  BY LeftFacts, LeftMovingFacts
<1>2. (n \div W) * W = n
  BY <1>1, AlignedDistance
<1>3. m1 = [a \in Addr |-> IF first <= a /\ a < Base(end) - n THEN mem[a + n] ELSE mem[a]]
  BY <1>1, <1>2, LeftWords DEF Left!WordShiftLeft, Left!word_shifts, Left!last
<1> HIDE DEF m1, l
<1>4. ASSUME NEW a \in Addr
      PROVE  /\ m1[a] = IF first <= a /\ a < first + l THEN v[a - first] ELSE mem[a]
             /\ Base(end) <= a => m1[a] = mem[a]
  <2>1. a \in Int
    BY Widths
  <2>2. m1[a] = IF first <= a /\ a < Base(end) - n THEN mem[a + n] ELSE mem[a]
    BY <1>3
  <2>3. first <= a /\ a < Base(end) - n => a - first \in 0 .. ((end - middle) - 1) /\ middle + (a - first) = a + n
    BY <1>1, <2>1
  <2>4. Base(end) <= a => ~(a < Base(end) - n)
    <3>1. Base(end) \in Int /\ n \in Int /\ 0 < n
      BY <1>1, LeftMovingFacts DEF LeftMoving
    <3> QED BY <2>1, <3>1
  <2> QED BY <1>1, <2>1, <2>2, <2>3, <2>4
<1>5. DOMAIN m1 = Addr /\ m1 = [a \in Addr |-> m1[a]]
  BY <1>3
<1>6. Puts(mem, m1, first, l, v)
  <2> HIDE DEF v
  <2> QED BY <1>4, <1>5 DEF Puts
<1> QED BY <1>2, <1>4, <1>6 DEF m1, l

LEMMA LeftWordsStep ==
  ASSUME LeftInv, Left!ShiftWords
  PROVE  LeftInv'
<1> DEFINE S  == {Base(first) + k * W : k \in 0 .. ((Base(end) - Base(first)) \div W - 1)}
           m1 == Left!WordShiftLeft(mem)
           f  == Base(end) - (n \div W) * W
           p  == Pos(end)
           v  == [i \in 0 .. ((end - middle) - 1) |-> mem[middle + i]]
           l  == Base(end) - middle
           w  == Load(m1, Base(end))
<1>1. /\ pc = "aligned" /\ Base(middle) # Base(end) /\ Pos(middle) = 0
      /\ IF p = 0
           THEN /\ mem' = m1
                /\ used' = S /\ shifts' = {}
                /\ first' = f
           ELSE /\ mem' = WriteWord(m1, w, f, p)
                /\ used' = S \cup {Base(end)} \cup WriteWordWords(f, p)
                /\ shifts' = WriteWordShifts(f, p)
                /\ first' = f + p
      /\ pc' = "done" /\ ret' = first' /\ middle' = middle
      /\ orig' = orig /\ begin' = begin /\ end' = end /\ n' = n
  BY LeftWords DEF Left!ShiftWords, Left!is_last_aligned, Left!word_shifts, Left!Return, Left!Call,
                   Left!last
<1>2. LeftMoving /\ Pos(first) = 0 /\ middle < end /\ 0 < n
  BY <1>1 DEF LeftMoving, LeftInv
<1>3. middle <= Base(end)
  <2>1. middle \in Int /\ end \in Int /\ W \in Nat /\ Base(end) \in Int
    BY LeftFacts
  <2>2. middle = Base(end) \/ middle + W <= Base(end)
    BY <1>1, <1>2, <2>1, AlignedGap
  <2> QED BY <2>1, <2>2
<1>4. /\ (n \div W) * W = n /\ Puts(mem, m1, first, l, v)
      /\ \A a \in Addr : Base(end) <= a => m1[a] = mem[a]
  BY <1>1, <1>2, <1>3, LeftWholeWords
<1>5. Base(first) = first
  BY <1>2, LeftFacts
<1>6. /\ first \in Nat /\ middle \in Nat /\ n \in Nat /\ middle = first + n
      /\ Base(end) \in Int /\ end \in Nat /\ end = Base(end) + p /\ p \in Nat /\ p < W /\ W \in Nat
      /\ begin <= first /\ begin \in Nat /\ end <= MemBits /\ MemBits \in Nat
  BY LeftFacts, LeftMovingFacts, <1>2
<1> HIDE DEF m1, p
<1>7. /\ f = Base(end) - n /\ f \in Nat /\ f = first + l /\ l \in Nat /\ l + p = end - middle
      /\ begin <= f /\ f + p = end - n /\ f + p \in begin .. end /\ f <= end
  <2>1. f = Base(end) - n
    BY <1>4
  <2> HIDE DEF f
  <2>2. f \in Nat /\ f = first + l /\ l \in Nat /\ l + p = end - middle
    BY <1>3, <1>6, <2>1
  <2>3. begin <= f /\ f + p = end - n /\ f + p <= end /\ f + p \in Int /\ f <= end
    BY <1>3, <1>6, <2>1, <2>2
  <2> HIDE DEF l
  <2>4. begin <= f + p
    BY <1>6, <2>2, <2>3
  <2> QED BY <1>6, <2>1, <2>2, <2>3, <2>4
<1>8. ASSUME NEW b \in S PROVE b \in Int /\ Holds(b, begin, end)
  <2>1. PICK k \in 0 .. ((Base(end) - Base(first)) \div W - 1) : b = Base(first) + k * W
    OBVIOUS
  <2>2. b \in Int /\ Base(first) <= b /\ b + W <= Base(end)
    <3>1. Base(first) \in Int /\ Base(end) \in Int
      BY <1>5, <1>6
    <3> QED BY <2>1, <3>1, WordsBetween
  <2>3. begin < b + W /\ b < end
    BY <1>5, <1>6, <2>2
  <2> QED BY <2>2, <2>3, HoldsIs
<1>9. \A i \in 0 .. ((end - middle) - 1) : v[i] = mem[middle + i]
  OBVIOUS
<1> HIDE DEF S, f, l
<1>10. CASE p = 0
  <2>1. l = end - middle /\ first' = f /\ f \in begin .. end /\ f = end - n
    BY <1>1, <1>6, <1>7, <1>10
  <2>2. /\ Puts(mem, mem', first, end - middle, v)
        /\ used' \in SUBSET Int /\ \A b \in used' : Holds(b, begin, end) /\ shifts' = {}
    BY <1>1, <1>4, <1>8, <1>10, <2>1
  <2> HIDE DEF v
  <2> QED BY <1>1, <1>2, <1>9, <1>10, <2>1, <2>2, LeftReturns
<1>11. CASE p # 0
  <2>1. p \in 1 .. W
    BY <1>6, <1>11
  <2>2. DOMAIN m1 = Addr
    BY <1>4 DEF Puts
  <2>3. Puts(m1, mem', f, p, w)
    <3> HIDE DEF w
    <3> QED BY <1>1, <1>7, <1>11, <2>1, <2>2, WriteWordPuts
  <2>4. ASSUME NEW i \in 0 .. (p - 1) PROVE w[i] = v[l + i]
    <3>1. /\ i \in BitPos /\ Base(end) + i \in Nat /\ Base(end) + i < MemBits /\ Base(end) <= Base(end) + i
          /\ l + i \in 0 .. ((end - middle) - 1) /\ middle + (l + i) = Base(end) + i
      BY <1>3, <1>6, <1>7 DEF BitPos, l
    <3>2. Base(end) + i \in Addr
      BY <1>6, <3>1, Widths
    <3>3. w[i] = m1[Base(end) + i]
      BY <3>1, LoadBit
    <3> QED BY <1>4, <3>1, <3>2, <3>3
  <2> HIDE DEF v, w
  <2>5. Puts(mem, mem', first, l + p, v)
    <3>1. Puts(m1, mem', first + l, p, w)
      BY <1>7, <2>3
    <3> QED BY <1>4, <1>6, <1>7, <2>4, <3>1, PutsTwice
  <2>6. Puts(mem, mem', first, end - middle, v)
    BY <1>7, <2>5
  <2>7. /\ \A b \in WriteWordWords(f, p) : b \in Int /\ b < f + p /\ f < b + W
        /\ \A i \in WriteWordShifts(f, p) : i \in Int /\ ShiftDefined(i)
    BY <1>7, <2>1, WriteWordAccess
  <2>8. \A b \in WriteWordWords(f, p) : b \in Int /\ Holds(b, begin, end)
    <3> SUFFICES ASSUME NEW b \in WriteWordWords(f, p) PROVE b \in Int /\ Holds(b, begin, end)
      OBVIOUS
    <3>1. b \in Int /\ b < f + p /\ f < b + W
      BY <2>7
    <3>2. begin < b + W /\ b < end
      BY <1>6, <1>7, <3>1
    <3> QED BY <3>1, <3>2, HoldsIs
  <2>9. Base(end) \in Int /\ Holds(Base(end), begin, end)
    <3>1. begin < Base(end) + W /\ Base(end) < end
      BY <1>3, <1>6, <2>1
    <3> QED BY <1>6, <3>1, HoldsIs
  <2>10. /\ used' \in SUBSET Int /\ \A b \in used' : Holds(b, begin, end)
         /\ shifts' \in SUBSET Int /\ \A i \in shifts' : ShiftDefined(i)
    BY <1>1, <1>8, <1>11, <2>7, <2>8, <2>9
  <2>11. first' \in begin .. end /\ ret' = end - n
    BY <1>1, <1>7, <1>11
  <2> QED BY <1>1, <1>2, <1>9, <2>6, <2>10, <2>11, LeftReturns
<1> QED BY <1>10, <1>11

LEMMA LeftInit ==
  ASSUME Left!Init
  PROVE  LeftInv
<1>1. /\ orig \in [Addr -> Bit] /\ mem = orig
      /\ begin \in 0 .. MemBits /\ end \in 0 .. MemBits /\ begin <= end /\ n \in -1 .. (MemBits + 1)
      /\ first = begin /\ middle = begin + n /\ ret = begin /\ pc = "start"
      /\ used = {} /\ shifts = {}
  BY LeftWords DEF Left!Init
<1>2. begin \in Nat /\ end \in Nat /\ n \in Int /\ MemBits \in Nat /\ begin <= begin
  BY <1>1, Widths
<1>3. mem = Carried(begin, first, n)
  BY <1>1, <1>2, CarriedNone
<1>4. Left!TypeOK
  <2>1. /\ first \in begin .. end /\ ret \in begin .. end
        /\ middle \in Int /\ (0 < n /\ n < end - begin => middle \in begin .. end)
    BY <1>1, <1>2
  <2> QED BY <1>1, <1>2, <2>1, LeftWords DEF Left!TypeOK, Left!d
<1>5. Left!AccessInRange /\ Left!ShiftsDefined
  BY <1>1 DEF Left!AccessInRange, Left!ShiftsDefined
<1> QED BY <1>1, <1>3, <1>4, <1>5 DEF LeftInv

LEMMA LeftNext ==
  ASSUME LeftInv, Left!Next
  PROVE  LeftInv'
<1>1. CASE Left!Finished
  BY <1>1 DEF Left!Finished, Left!vars, LeftInv, Left!TypeOK, Left!AccessInRange, Left!ShiftsDefined,
     Left!ShiftCorrect, Left!OutsideIntact, Left!Kept, Left!d, Carried
<1> QED BY <1>1, LeftOutOfRangeStep, LeftShiftInWordStep, LeftOneWordStep, LeftAlignStep,
           LeftLastWordStep, LeftWordsStep, LeftShrdStep, LeftPenultimateStep, LeftTailStep
        DEF Left!Next

LEMMA LeftImplies ==
  ASSUME LeftInv
  PROVE  /\ Left!TypeOK /\ Left!ShiftCorrect /\ Left!OutsideIntact /\ Left!SourceIntact
         /\ Left!AccessInRange /\ Left!ShiftsDefined
<1>1. Left!ShiftCorrect
  BY DEF LeftInv, Left!ShiftCorrect
<1>2. Left!OutsideIntact
  <2>1. CASE pc = "done"
    BY <2>1 DEF LeftInv
  <2>2. CASE pc # "done"
    <3>1. mem = Carried(begin, first, n)
      BY <2>2 DEF LeftInv
    <3> SUFFICES ASSUME NEW a \in Addr, ~(begin <= a /\ a < end) PROVE mem[a] = orig[a]
      BY LeftWords DEF Left!OutsideIntact
    <3>2. a \in Int /\ begin \in Int /\ first \in Int /\ end \in Int /\ first <= end
      BY LeftFacts, Widths
    <3>3. a < begin \/ first <= a
      BY <3>2
    <3> QED BY <3>1, <3>2, <3>3, CarriedSource
  <2> QED BY <2>1, <2>2
<1>3. Left!SourceIntact
  <2> SUFFICES ASSUME pc # "done", n > 0, NEW a \in middle .. (end - 1)
               PROVE  mem[a] = orig[a]
    BY DEF Left!SourceIntact
  <2>1. mem = Carried(begin, first, n) /\ middle = first + n
    BY DEF LeftInv
  <2>2. begin \in Nat /\ first \in Nat /\ end \in Nat /\ n \in Int /\ end <= MemBits /\ MemBits \in Nat
    BY LeftFacts
  <2>3. a \in Nat /\ a < MemBits /\ first <= a
    BY <2>1, <2>2
  <2>4. a \in Addr
    BY <2>2, <2>3, Widths
  <2> QED BY <2>1, <2>2, <2>3, <2>4, CarriedSource
<1> QED BY <1>1, <1>2, <1>3 DEF LeftInv

----------------------------------------------------------------------------
(* shift_right                                                             *)

RightInv ==
  /\ Right!TypeOK /\ Right!AccessInRange /\ Right!ShiftsDefined
  /\ pc # "done" => middle = last - n /\ mem = Carried(last, end, 0 - n)
  /\ pc = "start" => last = end
  /\ pc \in {"aligned", "words", "tail"} =>
       0 < n /\ n < end - begin /\ Pos(last) = 0 /\ begin <= middle
  /\ pc = "aligned" => begin < middle
  /\ pc = "words" => Pos(middle) # 0 /\ Base(begin) + W <= Base(middle)
  /\ pc = "tail" => middle - begin < W /\ (Pos(begin) = Pos(middle) => middle = begin)
  /\ pc = "done" => Right!ShiftCorrect /\ Right!OutsideIntact
LEMMA RightWords ==
  /\ Right!BitPos = BitPos /\ Right!MemBits = MemBits /\ Right!Addr = Addr
  /\ \A a : Right!Pos(a) = Pos(a) /\ Right!Base(a) = Base(a)
  /\ \A m, b, w : Right!Store(m, b, w) = Store(m, b, w)
  /\ \A m, b : Right!Load(m, b) = Load(m, b)
  /\ \A w, k : /\ Right!Lsr(w, k) = Lsr(w, k) /\ Right!Lsl(w, k) = Lsl(w, k)
               /\ Right!MaskLow(w, k) = MaskLow(w, k)
  /\ \A v, w, s, k : Right!BitBlend(v, w, s, k) = BitBlend(v, w, s, k)
  /\ \A v, w, k : Right!Shrd(v, w, k) = Shrd(v, w, k)
  /\ \A a, b : Right!Least(a, b) = Least(a, b)
  /\ \A m, a, k : Right!GetWord(m, a, k) = GetWord(m, a, k)
  /\ \A m, w, a, k : Right!WriteWord(m, w, a, k) = WriteWord(m, w, a, k)
  /\ \A a, k : /\ Right!GetWordLoads(a, k) = GetWordLoads(a, k)
               /\ Right!GetWordShifts(a, k) = GetWordShifts(a, k)
               /\ Right!WriteWordWords(a, k) = WriteWordWords(a, k)
               /\ Right!WriteWordShifts(a, k) = WriteWordShifts(a, k)
  /\ \A a, b, c : Right!Holds(a, b, c) <=> Holds(a, b, c)
  /\ \A k : Right!ShiftDefined(k) <=> ShiftDefined(k)
<1>1. /\ Right!BitPos = BitPos /\ Right!MemBits = MemBits /\ Right!Addr = Addr
      /\ \A a : Right!Pos(a) = Pos(a) /\ Right!Base(a) = Base(a)
  BY DEF Right!BitPos, Right!MemBits, Right!Addr, Right!Pos, Right!Base, BitPos, MemBits, Addr, Pos, Base
<1>2. /\ \A m, b, w : Right!Store(m, b, w) = Store(m, b, w)
      /\ \A m, b : Right!Load(m, b) = Load(m, b)
      /\ \A w, k : /\ Right!Lsr(w, k) = Lsr(w, k) /\ Right!Lsl(w, k) = Lsl(w, k)
                   /\ Right!MaskLow(w, k) = MaskLow(w, k)
      /\ \A v, w, s, k : Right!BitBlend(v, w, s, k) = BitBlend(v, w, s, k)
      /\ \A v, w : Right!BitOr(v, w) = BitOr(v, w)
      /\ \A a, b : Right!Least(a, b) = Least(a, b)
      /\ \A a, k : Right!Spans(a, k) <=> Spans(a, k)
  BY <1>1 DEF Right!Store, Right!Load, Right!Lsr, Right!Lsl, Right!MaskLow, Right!BitBlend, Right!BitOr,
              Right!Least, Right!Spans, Store, Load, Lsr, Lsl, MaskLow, BitBlend, BitOr, Least, Spans
<1>3. \A v, w, k : Right!Shrd(v, w, k) = Shrd(v, w, k)
  BY <1>2 DEF Right!Shrd, Shrd
<1>4. \A m, a, k : Right!GetWord(m, a, k) = GetWord(m, a, k)
  BY <1>1, <1>2 DEF Right!GetWord, GetWord
<1>5. \A m, w, a, k : Right!WriteWord(m, w, a, k) = WriteWord(m, w, a, k)
  BY <1>1, <1>2 DEF Right!WriteWord, WriteWord
<1>6. \A a, k : /\ Right!GetWordLoads(a, k) = GetWordLoads(a, k)
                /\ Right!GetWordShifts(a, k) = GetWordShifts(a, k)
                /\ Right!WriteWordWords(a, k) = WriteWordWords(a, k)
                /\ Right!WriteWordShifts(a, k) = WriteWordShifts(a, k)
  BY <1>1, <1>2 DEF Right!GetWordLoads, Right!GetWordShifts, Right!WriteWordWords,
     Right!WriteWordShifts, GetWordLoads, GetWordShifts, WriteWordWords, WriteWordShifts
<1> QED BY <1>1, <1>2, <1>3, <1>4, <1>5, <1>6 DEF Right!Holds, Right!ShiftDefined, Holds, ShiftDefined

LEMMA RightFacts ==
  ASSUME RightInv
  PROVE  /\ mem \in [Addr -> Bit] /\ orig \in [Addr -> Bit] /\ DOMAIN mem = Addr
         /\ mem = [a \in Addr |-> mem[a]]
         /\ begin \in Nat /\ end \in Nat /\ begin <= end /\ end <= MemBits /\ MemBits \in Nat
         /\ n \in Int /\ last \in Nat /\ begin <= last /\ last <= end /\ middle \in Int
         /\ W \in Nat /\ W > 0
         /\ Pos(begin) \in 0 .. (W - 1) /\ Base(begin) \in Int /\ begin = Base(begin) + Pos(begin)
         /\ Pos(end) \in 0 .. (W - 1) /\ Base(end) \in Int /\ end = Base(end) + Pos(end)
         /\ Pos(last) \in 0 .. (W - 1) /\ Base(last) \in Int /\ last = Base(last) + Pos(last)
         /\ Pos(middle) \in 0 .. (W - 1) /\ Base(middle) \in Int /\ middle = Base(middle) + Pos(middle)
<1>1. begin \in Nat /\ end \in Nat /\ last \in Nat /\ middle \in Int
  BY Widths, RightWords DEF RightInv, Right!TypeOK
<1>2. /\ Pos(begin) \in 0 .. (W - 1) /\ Base(begin) \in Int /\ begin = Base(begin) + Pos(begin)
      /\ Pos(end) \in 0 .. (W - 1) /\ Base(end) \in Int /\ end = Base(end) + Pos(end)
      /\ Pos(last) \in 0 .. (W - 1) /\ Base(last) \in Int /\ last = Base(last) + Pos(last)
      /\ Pos(middle) \in 0 .. (W - 1) /\ Base(middle) \in Int /\ middle = Base(middle) + Pos(middle)
  BY <1>1, RangeFacts
<1>3. /\ mem \in [Addr -> Bit] /\ orig \in [Addr -> Bit] /\ begin <= end /\ end <= MemBits
      /\ n \in Int /\ begin <= last /\ last <= end
  BY Widths, RightWords DEF RightInv, Right!TypeOK
<1> QED BY <1>1, <1>2, <1>3, Widths

\* n moves something, and the shift has not returned.
RightMoving == pc # "done" /\ 0 < n /\ n < end - begin

LEMMA RightMovingFacts ==
  ASSUME RightInv, RightMoving
  PROVE  /\ middle = last - n /\ mem = Carried(last, end, 0 - n) /\ begin <= middle
         /\ n \in Nat /\ middle \in Nat /\ middle < last
         /\ middle - begin \in Nat /\ last - (middle - begin) = begin + n
<1>1. middle = last - n /\ mem = Carried(last, end, 0 - n)
  BY DEF RightInv, RightMoving
<1>2. begin <= middle
  <2>1. CASE pc = "start"
    <3>1. last = end
      BY <2>1 DEF RightInv
    <3>2. begin \in Int /\ n \in Int /\ end \in Int
      BY RightFacts
    <3> QED BY <1>1, <3>1, <3>2 DEF RightMoving
  <2>2. CASE pc \in {"aligned", "words", "tail"}
    BY <2>2 DEF RightInv
  <2> QED BY <2>1, <2>2 DEF RightInv, Right!TypeOK, RightMoving
<1>3. last \in Nat /\ n \in Int /\ end \in Nat /\ begin \in Nat
  BY RightFacts
<1> QED BY <1>1, <1>2, <1>3 DEF RightMoving

\* The bits before middle are those of the call.
LEMMA RightSource ==
  ASSUME RightInv, RightMoving, NEW a \in Int, begin <= a, a < middle
  PROVE  a \in Addr /\ mem[a] = orig[a]
<1>1. /\ last \in Int /\ middle \in Nat /\ middle < last /\ last <= end /\ end <= MemBits
      /\ MemBits \in Nat /\ end \in Nat /\ begin \in Nat
  BY RightFacts, RightMovingFacts
<1>2. a < last /\ a \in Nat /\ a < MemBits
  BY <1>1
<1>3. a \in Addr
  BY <1>1, <1>2, Widths
<1> QED BY <1>1, <1>2, <1>3, RightMovingFacts, CarriedSource

\* What putting the k bits before middle before last makes of the memory.
LEMMA RightGrows ==
  ASSUME RightInv, RightMoving, NEW k \in 0 .. (middle - begin), NEW v,
         Puts(mem, mem', last - k, k, v), \A i \in 0 .. (k - 1) : v[i] = mem[(middle - k) + i]
  PROVE  mem' = Carried(last - k, end, 0 - n) /\ mem' \in [Addr -> Bit]
<1>1. /\ k \in Nat /\ last \in Nat /\ middle \in Nat /\ n \in Nat /\ begin \in Nat /\ last <= end
      /\ middle = last - n /\ end \in Nat /\ end <= MemBits /\ MemBits \in Nat /\ k <= middle - begin
  BY RightFacts, RightMovingFacts
<1> DEFINE from == last - k
           delta == 0 - n
<1>2. from \in Int /\ delta \in Int /\ from + k = last /\ 0 <= from + delta /\ end + delta <= MemBits
  BY <1>1
<1>3. Carries(v, k, from, delta)
  <2> SUFFICES ASSUME NEW i \in 0 .. (k - 1) PROVE v[i] = orig[from + i + delta]
    BY DEF Carries
  <2>1. /\ (middle - k) + i \in Int /\ begin <= (middle - k) + i /\ (middle - k) + i < middle
        /\ from + i + delta = (middle - k) + i
    BY <1>1
  <2> HIDE DEF from, delta
  <2> QED BY <2>1, RightSource
<1>4. Puts(Carried(last, end, delta), mem', from, k, v)
  BY RightMovingFacts
<1> HIDE DEF from, delta
<1>5. mem' = Carried(from, end, delta)
  BY <1>1, <1>2, <1>3, <1>4, CarriedGrows
<1>6. mem' \in [Addr -> Bit]
  BY <1>1, <1>2, <1>5, RightFacts, CarriedType
<1> QED BY <1>5, <1>6 DEF from, delta

\* What a step that goes on has to show: that it moves the k bits before middle.
LEMMA RightKeeps ==
  ASSUME RightInv, RightMoving, orig' = orig, begin' = begin, end' = end, n' = n, ret' = ret,
         NEW k \in 0 .. (middle - begin), NEW v, Puts(mem, mem', last - k, k, v),
         \A i \in 0 .. (k - 1) : v[i] = mem[(middle - k) + i],
         last' = last - k, middle' = middle - k, pc' \in {"aligned", "words", "tail"},
         used' \in SUBSET Int, \A b \in used' : Holds(b, begin, end),
         shifts' \in SUBSET Int, \A i \in shifts' : ShiftDefined(i),
         Pos(last - k) = 0,
         pc' = "aligned" => k < middle - begin,
         pc' = "words" => Pos(middle - k) # 0 /\ Base(begin) + W <= Base(middle - k),
         pc' = "tail" => (middle - k) - begin < W /\ (Pos(begin) = Pos(middle - k) => middle - k = begin)
  PROVE  RightInv'
<1>1. mem' = Carried(last - k, end, 0 - n) /\ mem' \in [Addr -> Bit]
  BY RightGrows
<1>2. /\ begin <= last' /\ last' <= end /\ last' \in Nat /\ middle' = last' - n /\ begin <= middle'
      /\ middle' \in Nat /\ middle' <= end /\ 0 < n /\ n < end - begin
      /\ (k < middle - begin => begin < middle')
  <2>1. /\ k \in Nat /\ last \in Nat /\ middle \in Nat /\ n \in Nat /\ begin \in Nat /\ last <= end
        /\ middle = last - n /\ end \in Nat /\ k <= middle - begin
    BY RightFacts, RightMovingFacts
  <2> QED BY <2>1 DEF RightMoving
<1>3. Right!TypeOK'
  <2>1. ret \in begin .. end
    BY DEF RightInv, Right!TypeOK
  <2>2. begin \in Nat /\ end \in Nat /\ begin <= end /\ end <= MemBits /\ MemBits \in Nat /\ n \in Int
        /\ orig \in [Addr -> Bit]
    BY RightFacts
  <2>3. last' \in begin' .. end' /\ middle' \in begin' .. end' /\ begin' \in 0 .. MemBits /\ end' \in 0 .. MemBits
    BY <1>2, <2>2
  <2> QED BY <1>1, <1>2, <2>1, <2>2, <2>3, RightWords DEF Right!TypeOK
<1>4. Right!AccessInRange' /\ Right!ShiftsDefined'
  BY RightWords DEF Right!AccessInRange, Right!ShiftsDefined
<1>5. Carried(last, end, 0 - n)' = Carried(last - k, end, 0 - n)
  BY DEF Carried
<1>6. /\ Pos(last)' = Pos(last') /\ Pos(middle)' = Pos(middle') /\ Base(middle)' = Base(middle')
      /\ Base(begin)' = Base(begin) /\ Pos(begin)' = Pos(begin)
  BY DEF Pos, Base
<1> QED BY <1>1, <1>2, <1>3, <1>4, <1>5, <1>6 DEF RightInv

\* What the last step has to show.
LEMMA RightEnds ==
  ASSUME RightInv, orig' = orig, begin' = begin, end' = end, n' = n,
         last' \in begin .. end, middle' \in Int, 0 < n /\ n < end - begin => middle' \in begin .. end,
         ret' \in begin .. end, pc' = "done", mem' \in [Addr -> Bit],
         used' \in SUBSET Int, \A b \in used' : Holds(b, begin, end),
         shifts' \in SUBSET Int, \A i \in shifts' : ShiftDefined(i),
         \A a \in Addr : ~(begin <= a /\ a < end) => mem'[a] = orig[a],
         IF 0 < n /\ n < end - begin
           THEN /\ \A i \in 0 .. (end - begin - n - 1) : mem'[begin + n + i] = orig[begin + i]
                /\ ret' = begin + n
           ELSE mem' = orig /\ ret' = IF n <= 0 THEN begin ELSE end
  PROVE  RightInv'
<1>1. Right!TypeOK'
  BY RightFacts, RightWords DEF Right!TypeOK, RightInv, Right!d
<1>2. Right!AccessInRange' /\ Right!ShiftsDefined'
  BY RightWords DEF Right!AccessInRange, Right!ShiftsDefined
<1>3. Right!OutsideIntact'
  BY RightWords DEF Right!OutsideIntact
<1>4. Right!ShiftCorrect'
  <2>1. CASE 0 < n /\ n < end - begin
    <3>1. Right!Kept' = end - begin - n
      BY <2>1 DEF Right!Kept, Right!d
    <3>2. begin \in Int /\ end \in Int /\ n \in Int
      BY RightFacts
    <3>3. ~(n <= 0) /\ end - begin - n # 0 /\ end - (end - begin - n) = begin + n
      BY <2>1, <3>2
    <3> QED BY <2>1, <3>1, <3>3 DEF Right!ShiftCorrect
  <2>2. CASE ~(0 < n /\ n < end - begin)
    <3>1. Right!Kept' = 0
      BY <2>2 DEF Right!Kept, Right!d
    <3>2. end - 0 = end /\ \A i \in 0 .. (0 - 1) : FALSE
      BY RightFacts
    <3> QED BY <2>2, <3>1, <3>2 DEF Right!ShiftCorrect
  <2> QED BY <2>1, <2>2
<1> QED BY <1>1, <1>2, <1>3, <1>4 DEF RightInv

\* The last step, when it moves the bits that are left.
LEMMA RightReturns ==
  ASSUME RightInv, RightMoving, orig' = orig, begin' = begin, end' = end, n' = n,
         NEW v, Puts(mem, mem', begin + n, middle - begin, v),
         \A i \in 0 .. ((middle - begin) - 1) : v[i] = mem[begin + i],
         last' \in begin .. end, middle' \in begin .. end, ret' = begin + n, pc' = "done",
         used' \in SUBSET Int, \A b \in used' : Holds(b, begin, end),
         shifts' \in SUBSET Int, \A i \in shifts' : ShiftDefined(i)
  PROVE  RightInv'
<1> DEFINE k == middle - begin
<1>1. begin \in Nat /\ end \in Nat /\ n \in Nat /\ end <= MemBits /\ MemBits \in Nat
      /\ 0 < n /\ n < end - begin /\ middle' \in Int
  BY RightFacts, RightMovingFacts DEF RightMoving
<1>2. k \in 0 .. (middle - begin) /\ last - k = begin + n /\ middle - k = begin
  BY <1>1, RightMovingFacts
<1>3. mem' = Carried(begin + n, end, 0 - n) /\ mem' \in [Addr -> Bit]
  <2>1. /\ Puts(mem, mem', last - k, k, v)
        /\ \A i \in 0 .. (k - 1) : v[i] = mem[(middle - k) + i]
    BY <1>2
  <2> HIDE DEF k
  <2> QED BY <1>2, <2>1, RightGrows
<1>4. ret' \in begin .. end
  BY <1>1
<1>5. ASSUME NEW a \in Addr, ~(begin <= a /\ a < end) PROVE mem'[a] = orig[a]
  <2>1. ~(begin + n <= a /\ a < end)
    BY <1>1, <1>5, Widths
  <2> QED BY <1>3, <2>1 DEF Carried
<1>6. ASSUME NEW i \in 0 .. (end - begin - n - 1) PROVE mem'[begin + n + i] = orig[begin + i]
  <2>1. /\ begin + n + i \in Nat /\ begin + n + i < MemBits /\ begin + n <= begin + n + i
        /\ begin + n + i < end /\ (begin + n + i) + (0 - n) = begin + i
    BY <1>1
  <2>2. begin + n + i \in Addr
    BY <2>1, Widths
  <2> QED BY <1>3, <2>1, <2>2 DEF Carried
<1> QED BY <1>1, <1>3, <1>4, <1>5, <1>6, RightEnds

LEMMA RightHolds ==
  ASSUME RightInv, NEW a \in Int, begin <= a, a < end
  PROVE  Holds(Base(a), begin, end) /\ Base(a) \in Int
<1>1. Base(a) \in Int /\ Base(a) <= a /\ a < Base(a) + W
  BY PosRange
<1>2. begin < Base(a) + W /\ Base(a) < end
  BY <1>1, RightFacts
<1> QED BY <1>1, <1>2, HoldsIs

\* One call of write_word with what get_word gives.
LEMMA RightMovesWord ==
  ASSUME RightInv, RightMoving, NEW k \in 1 .. W, k <= middle - begin,
         NEW src, src = middle - k, NEW dst, dst = last - k, Right!MoveBits(src, dst, k)
  PROVE  /\ Puts(mem, mem', dst, k, GetWord(mem, src, k))
         /\ \A i \in 0 .. (k - 1) : GetWord(mem, src, k)[i] = mem[src + i]
         /\ used' \in SUBSET Int /\ \A b \in used' : Holds(b, begin, end)
         /\ shifts' \in SUBSET Int /\ \A i \in shifts' : ShiftDefined(i)
<1>1. /\ mem' = WriteWord(mem, GetWord(mem, src, k), dst, k)
      /\ used' = GetWordLoads(src, k) \cup WriteWordWords(dst, k)
      /\ shifts' = GetWordShifts(src, k) \cup WriteWordShifts(dst, k)
  BY RightWords DEF Right!MoveBits
<1>2. /\ k \in Nat /\ begin \in Nat /\ end \in Nat /\ last <= end /\ W \in Nat
      /\ middle \in Nat /\ middle < last /\ last \in Nat
  BY RightFacts, RightMovingFacts
<1>3. src \in Nat /\ dst \in Nat /\ begin <= src /\ src + k <= end /\ begin <= dst /\ dst + k <= end
  BY <1>2
<1>4. Puts(mem, mem', dst, k, GetWord(mem, src, k))
  BY <1>1, <1>3, RightFacts, WriteWordPuts
<1>5. \A i \in 0 .. (k - 1) : GetWord(mem, src, k)[i] = mem[src + i]
  <2>1. k \in 0 .. W
    BY <1>2
  <2> QED BY <1>3, <2>1, GetWordBit
<1>6. /\ \A b \in GetWordLoads(src, k) : b \in Int /\ b < src + k /\ src < b + W
      /\ \A i \in GetWordShifts(src, k) : i \in Int /\ ShiftDefined(i)
  BY <1>3, GetWordAccess
<1>7. /\ \A b \in WriteWordWords(dst, k) : b \in Int /\ b < dst + k /\ dst < b + W
      /\ \A i \in WriteWordShifts(dst, k) : i \in Int /\ ShiftDefined(i)
  BY <1>3, WriteWordAccess
<1>8. ASSUME NEW b \in used' PROVE b \in Int /\ Holds(b, begin, end)
  <2>1. CASE b \in GetWordLoads(src, k)
    <3>1. b \in Int /\ b < src + k /\ src < b + W
      BY <1>6, <2>1
    <3>2. begin < b + W /\ b < end
      BY <1>2, <1>3, <3>1
    <3> QED BY <3>1, <3>2, HoldsIs
  <2>2. CASE b \in WriteWordWords(dst, k)
    <3>1. b \in Int /\ b < dst + k /\ dst < b + W
      BY <1>7, <2>2
    <3>2. begin < b + W /\ b < end
      BY <1>2, <1>3, <3>1
    <3> QED BY <3>1, <3>2, HoldsIs
  <2> QED BY <1>1, <2>1, <2>2
<1> QED BY <1>1, <1>4, <1>5, <1>6, <1>7, <1>8

\* Two words joined into the one before last, which is aligned.
LEMMA RightJoins ==
  ASSUME RightInv, RightMoving, Right!JoinWord, W <= middle - begin, Pos(last) = 0, Pos(middle) # 0
  PROVE  LET v == Shrd(Load(mem, Base(middle) - W), Load(mem, Base(middle)), Pos(middle))
         IN  /\ Puts(mem, mem', last - W, W, v)
             /\ \A i \in 0 .. (W - 1) : v[i] = mem[(middle - W) + i]
             /\ used' \in SUBSET Int /\ \A b \in used' : Holds(b, begin, end)
             /\ shifts' \in SUBSET Int /\ \A i \in shifts' : ShiftDefined(i)
             /\ middle' = middle - W /\ last' = last - W
             /\ Pos(last - W) = 0 /\ Pos(middle - W) = Pos(middle) /\ Base(middle - W) = Base(middle) - W
<1> DEFINE v == Shrd(Load(mem, Base(middle) - W), Load(mem, Base(middle)), Pos(middle))
           a == middle - W
<1>1. /\ mem' = Store(mem, Base(last) - W, v)
      /\ used' = {Base(last) - W, Base(middle) - W, Base(middle)}
      /\ shifts' = {Pos(middle), W - Pos(middle)}
      /\ middle' = middle - W /\ last' = last - W
  BY RightWords DEF Right!JoinWord
<1>2. /\ Base(last) = last /\ last \in Nat /\ W \in Nat /\ middle \in Nat /\ middle < last /\ last <= end
      /\ begin \in Nat /\ end \in Nat /\ Base(middle) \in Int /\ middle = Base(middle) + Pos(middle)
      /\ Pos(middle) \in Nat /\ Pos(middle) < W
  BY RightFacts, RightMovingFacts
<1>3. a \in Int /\ a + W = middle /\ last - W \in Int /\ (last - W) + W = last
  BY <1>2
<1> HIDE DEF a
<1>4. Pos(a) = Pos(middle) /\ Pos(last - W) = 0
  <2>1. Pos(a + W) = Pos(a) /\ Pos((last - W) + W) = Pos(last - W)
    BY <1>3, AlignedStep
  <2> QED BY <1>3, <2>1
<1>5. Base(a) = Base(middle) - W
  <2>1. Base(a) = a - Pos(a)
    BY DEF Base
  <2> QED BY <1>2, <1>3, <1>4, <2>1
<1>6. \A i \in 0 .. (W - 1) : v[i] = mem[a + i]
  <2>1. Base(a) + W = Base(middle)
    BY <1>2, <1>5
  <2>2. v = Shrd(Load(mem, Base(a)), Load(mem, Base(a) + W), Pos(a))
    BY <1>4, <1>5, <2>1
  <2> HIDE DEF v
  <2> QED BY <1>3, <2>2, ShrdBit DEF BitPos
<1> HIDE DEF v
<1>7. Puts(mem, mem', last - W, W, v)
  BY <1>1, <1>2, <1>3, RightFacts, StorePuts
<1>8. ASSUME NEW b \in used' PROVE b \in Int /\ Holds(b, begin, end)
  <2>1. /\ begin < (last - W) + W /\ last - W < end
        /\ begin < (Base(middle) - W) + W /\ Base(middle) - W < end
        /\ begin < Base(middle) + W /\ Base(middle) < end
    BY <1>2
  <2> QED BY <1>1, <1>2, <2>1, HoldsIs
<1>9. shifts' \in SUBSET Int /\ \A i \in shifts' : ShiftDefined(i)
  <2>1. Pos(middle) \in 0 .. (W - 1) /\ W - Pos(middle) \in 0 .. (W - 1)
    BY <1>2
  <2> QED BY <1>1, <2>1, ShiftIs
<1> QED BY <1>1, <1>4, <1>5, <1>6, <1>7, <1>8, <1>9 DEF a, v

LEMMA RightOutOfRangeStep ==
  ASSUME RightInv, Right!OutOfRange
  PROVE  RightInv'
<1>1. /\ pc = "start" /\ (n <= 0 \/ n >= end - begin)
      /\ ret' = IF n <= 0 THEN begin ELSE last
      /\ pc' = "done" /\ middle' = middle /\ mem' = mem /\ last' = last
      /\ used' = {} /\ shifts' = {} /\ orig' = orig /\ begin' = begin /\ end' = end /\ n' = n
  BY DEF Right!OutOfRange, Right!Return, Right!NoAccess, Right!Call, Right!first, Right!d
<1>2. last = end /\ mem = Carried(last, end, 0 - n)
  BY <1>1 DEF RightInv
<1>3. mem = orig
  BY <1>2, RightFacts, CarriedNone
<1>4. ~(0 < n /\ n < end - begin) /\ ret' \in begin .. end /\ last' \in begin .. end /\ middle' \in Int
  BY <1>1, <1>2, RightFacts
<1> QED BY <1>1, <1>2, <1>3, <1>4, RightFacts, RightEnds

LEMMA RightShiftInWordStep ==
  ASSUME RightInv, Right!ShiftInWord
  PROVE  RightInv'
<1> DEFINE p == Pos(begin)
           b == Base(begin)
           L == IF Pos(end) = 0 THEN W ELSE Pos(end)
           x == Lsl(Right!MaskFrom(Load(mem, b), p), n)
           k == L - p
           v == [i \in 0 .. (k - 1) |-> x[p + i]]
<1>1. /\ pc = "start" /\ 0 < n /\ n < end - begin /\ last = end
      /\ b + (IF Pos(end) = 0 THEN W ELSE 0) = Base(end)
      /\ mem' = Store(mem, b, BitBlend(Load(mem, b), x, p, k))
      /\ used' = {b} /\ shifts' = {p, n} /\ ret' = begin + n
      /\ pc' = "done" /\ middle' = middle /\ last' = last
      /\ orig' = orig /\ begin' = begin /\ end' = end /\ n' = n
  BY RightWords DEF Right!ShiftInWord, Right!Return, Right!Call, Right!d, Right!SingleWord,
                    Right!first, RightInv
<1>2. /\ L \in Nat /\ L <= W /\ 0 < L /\ p \in Nat /\ p < W /\ b \in Int /\ b + p = begin /\ b + L = end
      /\ W \in Nat /\ n \in Nat /\ begin \in Nat /\ end \in Nat /\ end <= MemBits /\ MemBits \in Nat
  BY <1>1, RightFacts
<1>3. mem = orig /\ 0 <= b
  <2>1. mem = Carried(last, end, 0 - n)
    BY <1>1 DEF RightInv
  <2> QED BY <1>1, <1>2, <2>1, RightFacts, CarriedNone, BaseNat
<1>4. ASSUME NEW i \in BitPos, i < L
      PROVE  /\ p + n <= i => x[i] = mem[b + (i - n)]
             /\ x[i] \in Bit
  <2>1. i \in Nat /\ i < W
    BY Widths DEF BitPos
  <2>2. x[i] = IF n <= i THEN Right!MaskFrom(Load(mem, b), p)[i - n] ELSE Zero
    BY LslBit
  <2> HIDE DEF x
  <2>3. CASE p + n <= i
    <3>1. n <= i /\ p <= i - n /\ i - n \in BitPos /\ b + (i - n) \in Nat /\ b + (i - n) < MemBits
      BY <1>2, <1>3, <1>4, <2>1, <2>3 DEF BitPos
    <3>2. b + (i - n) \in Addr
      BY <1>2, <3>1, Widths
    <3>3. Right!MaskFrom(Load(mem, b), p)[i - n] = mem[b + (i - n)]
      BY <3>1, RightWords DEF Right!MaskFrom, Load
    <3> QED BY <2>2, <3>1, <3>2, <3>3, RightFacts
  <2>4. CASE ~(p + n <= i)
    <3>1. n <= i => i - n \in BitPos /\ ~(p <= i - n)
      BY <1>2, <2>1, <2>4 DEF BitPos
    <3>2. n <= i => Right!MaskFrom(Load(mem, b), p)[i - n] = Zero
      BY <3>1, RightWords DEF Right!MaskFrom
    <3> QED BY <2>2, <2>4, <3>2, BitAssumption
  <2> QED BY <2>3, <2>4
<1> HIDE DEF x, b, p, L
<1>5. k \in Nat /\ p + k = L /\ p + k <= W /\ begin + k = end
  <2>1. begin <= end
    BY RightFacts
  <2> QED BY <1>2, <2>1
<1>6. \A i \in 0 .. (k - 1) : x[p + i] = v[i]
  OBVIOUS
<1> HIDE DEF v, k
<1>7. Puts(mem, mem', begin, k, v)
  <2>1. Puts(mem, mem', b + p, k, v)
    BY <1>1, <1>2, <1>5, <1>6, RightFacts, BlendPuts
  <2> QED BY <1>2, <2>1
<1>8. mem' \in [Addr -> Bit]
  <2>1. \A i \in 0 .. (k - 1) : v[i] \in Bit
    <3> SUFFICES ASSUME NEW i \in 0 .. (k - 1) PROVE v[i] \in Bit
      OBVIOUS
    <3>1. p + i \in BitPos /\ p + i < L
      BY <1>2, <1>5 DEF BitPos
    <3> QED BY <1>4, <1>6, <3>1
  <2> QED BY <1>2, <1>5, <1>7, <2>1, RightFacts, PutsType
<1>9. ASSUME NEW a \in Addr, ~(begin <= a /\ a < end) PROVE mem'[a] = orig[a]
  <2>1. ~(begin <= a /\ a < begin + k)
    BY <1>5, <1>9
  <2> QED BY <1>3, <1>7, <2>1 DEF Puts
<1>10. ASSUME NEW i \in 0 .. (end - begin - n - 1) PROVE mem'[begin + n + i] = orig[begin + i]
  <2>1. /\ begin + n + i \in Nat /\ begin + n + i < MemBits /\ begin <= begin + n + i
        /\ begin + n + i < begin + k /\ (begin + n + i) - begin = n + i /\ n + i \in 0 .. (k - 1)
    BY <1>1, <1>2, <1>5
  <2>2. /\ p + (n + i) \in Nat /\ p + (n + i) < W /\ p + (n + i) < L /\ p + n <= p + (n + i)
        /\ b + ((p + (n + i)) - n) = begin + i
    BY <1>1, <1>2, <1>5
  <2>3. begin + n + i \in Addr /\ p + (n + i) \in BitPos
    BY <1>2, <2>1, <2>2, Widths DEF BitPos
  <2>4. mem'[begin + n + i] = v[n + i]
    BY <1>7, <2>1, <2>3 DEF Puts
  <2>5. v[n + i] = x[p + (n + i)]
    BY <1>6, <2>1
  <2>6. x[p + (n + i)] = mem[begin + i]
    BY <1>4, <2>2, <2>3
  <2> QED BY <1>3, <2>4, <2>5, <2>6
<1>11. /\ used' \in SUBSET Int /\ \A c \in used' : Holds(c, begin, end)
       /\ shifts' \in SUBSET Int /\ \A i \in shifts' : ShiftDefined(i)
  <2>1. begin < b + W /\ b < end /\ p \in 0 .. (W - 1) /\ n \in 0 .. (W - 1)
    BY <1>1, <1>2
  <2> QED BY <1>1, <1>2, <2>1, HoldsIs, ShiftIs
<1>12. ret' \in begin .. end /\ last' \in begin .. end /\ middle' \in Int /\ middle' \in begin .. end
  <2>1. last = end /\ middle = last - n
    BY <1>1 DEF RightInv
  <2>2. middle = end - n
    BY <2>1
  <2> QED BY <1>1, <1>2, <2>2
<1> QED BY <1>1, <1>8, <1>9, <1>10, <1>11, <1>12, RightEnds

\* A step that moves nothing.
LEMMA RightWaits ==
  ASSUME RightInv, RightMoving, orig' = orig, begin' = begin, end' = end, n' = n, ret' = ret,
         Right!NoAccess, last' = last, middle' = middle, pc' \in {"aligned", "words", "tail"},
         Pos(last) = 0,
         pc' = "aligned" => begin < middle,
         pc' = "words" => Pos(middle) # 0 /\ Base(begin) + W <= Base(middle),
         pc' = "tail" => middle - begin < W /\ (Pos(begin) = Pos(middle) => middle = begin)
  PROVE  RightInv'
<1> DEFINE v == [i \in {} |-> Zero]
<1>1. mem' = mem /\ used' = {} /\ shifts' = {}
  BY DEF Right!NoAccess
<1>2. /\ 0 \in 0 .. (middle - begin) /\ last - 0 = last /\ middle - 0 = middle /\ last \in Int
      /\ (begin < middle => 0 < middle - begin)
  BY RightFacts, RightMovingFacts
<1>3. Puts(mem, mem', last - 0, 0, v)
  BY <1>1, <1>2, RightFacts, PutsNothing
<1>4. \A i \in 0 .. (0 - 1) : v[i] = mem[(middle - 0) + i]
  OBVIOUS
<1> HIDE DEF v
<1>5. /\ last' = last - 0 /\ middle' = middle - 0 /\ Pos(last - 0) = 0
      /\ pc' = "aligned" => 0 < middle - begin
      /\ pc' = "words" => Pos(middle - 0) # 0 /\ Base(begin) + W <= Base(middle - 0)
      /\ pc' = "tail" => (middle - 0) - begin < W /\ (Pos(begin) = Pos(middle - 0) => middle - 0 = begin)
  BY <1>2
<1>6. /\ used' \in SUBSET Int /\ (\A b \in used' : Holds(b, begin, end))
      /\ shifts' \in SUBSET Int /\ (\A i \in shifts' : ShiftDefined(i))
  BY <1>1
<1> QED BY <1>2, <1>3, <1>4, <1>5, <1>6, RightKeeps

LEMMA RightAlignStep ==
  ASSUME RightInv, Right!AlignLast
  PROVE  RightInv'
<1> DEFINE k == Least(Pos(last), middle - begin)
           src == middle - k
           dst == last - k
           v == GetWord(mem, src, k)
<1>1. /\ pc = "start" /\ 0 < n /\ n < end - begin /\ Pos(last) # 0
      /\ Right!MoveBits(src, dst, k) /\ middle' = middle - k /\ last' = last - k
      /\ IF middle' = begin THEN pc' = "done" /\ ret' = begin + n
                            ELSE pc' = "aligned" /\ ret' = ret
      /\ orig' = orig /\ begin' = begin /\ end' = end /\ n' = n /\ last = end
  BY RightWords DEF Right!AlignLast, Right!AlignBits, Right!Return, Right!Call, Right!d, Right!first,
                    RightInv
<1>2. RightMoving
  BY <1>1 DEF RightMoving
<1>3. /\ middle = last - n /\ begin \in Nat /\ end \in Nat /\ n \in Nat /\ last \in Nat /\ middle \in Nat
      /\ begin < middle /\ middle <= end /\ W \in Nat
      /\ Pos(last) \in Nat /\ Pos(last) < W /\ Base(last) \in Int /\ last = Base(last) + Pos(last)
  <2>1. /\ middle = last - n /\ begin \in Nat /\ end \in Nat /\ n \in Nat /\ last \in Nat /\ middle \in Nat
        /\ W \in Nat
        /\ Pos(last) \in Nat /\ Pos(last) < W /\ Base(last) \in Int /\ last = Base(last) + Pos(last)
    BY <1>2, RightFacts, RightMovingFacts
  <2> QED BY <1>1, <2>1
<1>4. /\ k \in 1 .. W /\ k \in 0 .. (middle - begin) /\ k <= middle - begin
      /\ k < middle - begin => k = Pos(last)
  BY <1>1, <1>3 DEF Least
<1> HIDE DEF k
<1>5. /\ Puts(mem, mem', dst, k, v)
      /\ \A i \in 0 .. (k - 1) : v[i] = mem[src + i]
      /\ used' \in SUBSET Int /\ \A b \in used' : Holds(b, begin, end)
      /\ shifts' \in SUBSET Int /\ \A i \in shifts' : ShiftDefined(i)
  BY <1>1, <1>2, <1>4, RightMovesWord
<1> HIDE DEF v
<1>6. CASE middle' = begin
  <2>1. /\ k = middle - begin /\ dst = begin + n /\ src = begin
    BY <1>1, <1>3, <1>4, <1>6
  <2>2. last' \in begin .. end /\ middle' \in begin .. end
    BY <1>1, <1>3, <1>6, <2>1
  <2>3. /\ Puts(mem, mem', begin + n, middle - begin, v)
        /\ \A i \in 0 .. ((middle - begin) - 1) : v[i] = mem[begin + i]
    <3> HIDE DEF dst, src
    <3> QED BY <1>5, <2>1
  <2> QED BY <1>1, <1>2, <1>5, <1>6, <2>2, <2>3, RightReturns
<1>7. CASE middle' # begin
  <2>1. k < middle - begin /\ k = Pos(last) /\ last - k = Base(last)
    BY <1>1, <1>3, <1>4, <1>7
  <2>2. Pos(last - k) = 0
    BY <1>3, <2>1, BaseAligned
  <2> QED BY <1>1, <1>2, <1>4, <1>5, <1>7, <2>1, <2>2, RightKeeps
<1> QED BY <1>6, <1>7

LEMMA RightAlignedStep ==
  ASSUME RightInv, Right!LastAligned
  PROVE  RightInv'
<1>1. /\ pc = "start" /\ 0 < n /\ n < end - begin /\ Pos(last) = 0 /\ pc' = "aligned"
      /\ Right!NoAccess /\ middle' = middle /\ last' = last /\ ret' = ret
      /\ orig' = orig /\ begin' = begin /\ end' = end /\ n' = n /\ last = end
  BY RightWords DEF Right!LastAligned, Right!Call, Right!d, RightInv
<1>2. RightMoving
  BY <1>1 DEF RightMoving
<1>3. begin < middle
  <2>1. middle = last - n /\ begin \in Int /\ end \in Int /\ n \in Int
    BY <1>2, RightFacts, RightMovingFacts
  <2> QED BY <1>1, <2>1
<1> QED BY <1>1, <1>2, <1>3, RightWaits

LEMMA RightWordsStep ==
  ASSUME RightInv, Right!ShiftWords
  PROVE  RightInv'
<1> DEFINE S == {Base(begin) + k * W : k \in 0 .. ((Base(last) - Base(begin)) \div W - 1)}
           b == Base(begin)
<1>1. /\ pc = "aligned" /\ Pos(middle) = 0
      /\ mem' = [a \in Addr |-> IF b + (n \div W) * W <= a /\ a < Base(last)
                                  THEN mem[a - (n \div W) * W] ELSE mem[a]]
      /\ used' = S /\ shifts' = {}
      /\ pc' = "done" /\ ret' = begin + n /\ middle' = middle /\ last' = last
      /\ orig' = orig /\ begin' = begin /\ end' = end /\ n' = n
  BY RightWords DEF Right!ShiftWords, Right!word_shifts, Right!Return, Right!Call, Right!first
<1>2. /\ 0 < n /\ n < end - begin /\ Pos(last) = 0
  BY <1>1 DEF RightInv
<1>3. RightMoving
  BY <1>1, <1>2 DEF RightMoving
<1>4. /\ middle = last - n /\ begin \in Nat /\ end \in Nat /\ n \in Nat /\ last \in Nat /\ middle \in Nat
      /\ begin <= middle /\ last <= end /\ W \in Nat /\ end <= MemBits /\ MemBits \in Nat
      /\ b \in Nat /\ b <= begin /\ begin < b + W /\ Base(last) = last
  BY <1>2, <1>3, RightFacts, RightMovingFacts, BaseNat
<1>5. (n \div W) * W = n /\ W <= n
  <2>1. n = last - middle
    BY <1>4
  <2>2. (n \div W) * W = n /\ Pos(n) = 0
    <3>1. ((last - middle) \div W) * W = last - middle /\ Pos(last - middle) = 0
      <4>1. middle \in Int /\ last \in Int /\ Pos(middle) = 0 /\ Pos(last) = 0
        BY <1>1, <1>2, <1>4
      <4> QED BY <4>1, AlignedDistance
    <3> QED BY <2>1, <3>1
  <2>3. Base(n) = n /\ Pos(0) = 0
    BY <1>4, <2>2, Widths DEF Base, Pos
  <2>4. 0 = Base(n) \/ 0 + W <= Base(n)
    BY <1>2, <1>4, <2>3, AlignedGap
  <2> QED BY <1>2, <1>4, <2>2, <2>3, <2>4
<1>6. mem' = [a \in Addr |-> IF b + n <= a /\ a < last THEN mem[a - n] ELSE mem[a]]
  BY <1>1, <1>4, <1>5
<1>7. ASSUME NEW c \in S PROVE c \in Int /\ Holds(c, begin, end)
  <2>1. PICK k \in 0 .. ((Base(last) - Base(begin)) \div W - 1) : c = Base(begin) + k * W
    OBVIOUS
  <2>2. c \in Int /\ Base(begin) <= c /\ c + W <= Base(last)
    <3>1. Base(begin) \in Int /\ Base(last) \in Int
      BY <1>4
    <3> QED BY <2>1, <3>1, WordsBetween
  <2>3. begin < c + W /\ c < end
    <3>1. W > 0
      BY Widths
    <3> QED BY <1>4, <2>2, <3>1
  <2> QED BY <2>2, <2>3, HoldsIs
<1> HIDE DEF S, b
<1>8. mem = Carried(last, end, 0 - n)
  BY <1>3, RightMovingFacts
<1>9. mem' \in [Addr -> Bit]
  <2> SUFFICES ASSUME NEW a \in Addr, b + n <= a, a < last PROVE mem[a - n] \in Bit
    BY <1>6, RightFacts
  <2>1. a \in Int
    BY Widths
  <2>2. a - n \in Nat /\ a - n < MemBits
    BY <1>4, <2>1
  <2>3. a - n \in Addr
    BY <1>4, <2>2, Widths
  <2> QED BY <2>3, RightFacts
<1>10. ASSUME NEW a \in Addr, ~(begin <= a /\ a < end) PROVE mem'[a] = orig[a]
  <2>1. a \in Int
    BY Widths
  <2>2. ~(b + n <= a /\ a < last) /\ ~(last <= a /\ a < end)
    BY <1>4, <1>5, <1>10, <2>1
  <2> QED BY <1>6, <1>8, <2>2 DEF Carried
<1>11. ASSUME NEW i \in 0 .. (end - begin - n - 1) PROVE mem'[begin + n + i] = orig[begin + i]
  <2> DEFINE a == begin + n + i
  <2>1. a \in Nat /\ a < MemBits /\ a < end /\ b + n <= a /\ a - n = begin + i /\ a + (0 - n) = begin + i
        /\ begin + i \in Int /\ begin <= begin + i
    BY <1>2, <1>4
  <2> HIDE DEF a
  <2>2. a \in Addr
    BY <1>4, <2>1, Widths
  <2>3. CASE a < last
    <3>1. begin + i < middle
      BY <1>4, <2>1, <2>3
    <3>2. mem'[a] = mem[begin + i]
      BY <1>6, <2>1, <2>2, <2>3
    <3>3. mem[begin + i] = orig[begin + i]
      BY <1>3, <2>1, <3>1, RightSource
    <3> QED BY <3>2, <3>3 DEF a
  <2>4. CASE ~(a < last)
    <3>1. mem'[a] = mem[a]
      BY <1>6, <2>2, <2>4
    <3>2. last <= a
      BY <1>4, <2>1, <2>4
    <3>3. mem[a] = orig[begin + i]
      BY <1>8, <2>1, <2>2, <3>2 DEF Carried
    <3> QED BY <3>1, <3>3 DEF a
  <2> QED BY <2>3, <2>4
<1>12. /\ used' \in SUBSET Int /\ (\A c \in used' : Holds(c, begin, end))
       /\ shifts' \in SUBSET Int /\ (\A i \in shifts' : ShiftDefined(i))
  BY <1>1, <1>7
<1>13. ret' \in begin .. end /\ last' \in begin .. end /\ middle' \in begin .. end /\ middle' \in Int
  BY <1>1, <1>2, <1>4
<1> QED BY <1>1, <1>2, <1>9, <1>10, <1>11, <1>12, <1>13, RightEnds

\* Two addresses at the same position less than a word apart are the same.
LEMMA SamePosition ==
  ASSUME NEW a \in Int, NEW b \in Int, a <= b, b - a < W, Pos(a) = Pos(b)
  PROVE  a = b
<1>1. /\ Base(a) \in Int /\ Base(b) \in Int /\ a = Base(a) + Pos(a) /\ b = Base(b) + Pos(b)
      /\ Pos(a) \in Int /\ W \in Nat /\ Pos(Base(a)) = 0 /\ Pos(Base(b)) = 0
  BY RangeFacts, BaseAligned, Widths
<1>2. Base(Base(b)) = Base(b)
  BY <1>1 DEF Base
<1>3. ~(Base(a) < Base(b))
  <2> SUFFICES ASSUME Base(a) < Base(b) PROVE FALSE
    OBVIOUS
  <2>1. Base(a) = Base(b) \/ Base(a) + W <= Base(b)
    BY <1>1, <1>2, AlignedGap
  <2> QED BY <1>1, <2>1
<1>4. Base(a) <= Base(b)
  BY BaseMonotone
<1> QED BY <1>1, <1>3, <1>4

LEMMA RightTestStep ==
  ASSUME RightInv, Right!WordsOrTail
  PROVE  RightInv'
<1>1. /\ pc = "aligned" /\ Pos(middle) # 0 /\ pc' = IF middle - begin >= W THEN "words" ELSE "tail"
      /\ Right!NoAccess /\ middle' = middle /\ last' = last /\ ret' = ret
      /\ orig' = orig /\ begin' = begin /\ end' = end /\ n' = n
  BY RightWords DEF Right!WordsOrTail, Right!Call, Right!first
<1>2. /\ RightMoving /\ Pos(last) = 0
  BY <1>1 DEF RightInv, RightMoving
<1>3. begin \in Int /\ middle \in Int /\ W \in Nat /\ begin <= middle /\ Base(begin) \in Int
  BY <1>2, RightFacts, RightMovingFacts
<1>4. CASE middle - begin >= W
  <2>1. begin + W <= middle
    BY <1>3, <1>4
  <2>2. Base(begin + W) <= Base(middle)
    BY <1>3, <2>1, BaseMonotone
  <2>3. Base(begin + W) = Base(begin) + W
    <3>1. Pos(begin + W) = Pos(begin) /\ Pos(begin) \in Int
      BY <1>3, RightFacts, AlignedStep
    <3> QED BY <1>3, <3>1 DEF Base
  <2>4. Base(begin) + W <= Base(middle) /\ pc' = "words"
    BY <1>1, <1>4, <2>2, <2>3
  <2> QED BY <1>1, <1>2, <2>4, RightWaits
<1>5. CASE ~(middle - begin >= W)
  <2>1. middle - begin < W /\ pc' = "tail"
    BY <1>1, <1>3, <1>5
  <2>2. Pos(begin) = Pos(middle) => middle = begin
    BY <1>3, <2>1, SamePosition
  <2> QED BY <1>1, <1>2, <2>1, <2>2, RightWaits
<1> QED BY <1>4, <1>5

LEMMA RightShrdStep ==
  ASSUME RightInv, Right!ShrdWord
  PROVE  RightInv'
<1> DEFINE v == Shrd(Load(mem, Base(middle) - W), Load(mem, Base(middle)), Pos(middle))
<1>1. /\ pc = "words" /\ Base(middle) - W > Base(begin) /\ Right!JoinWord
      /\ pc' = "words" /\ ret' = ret /\ orig' = orig /\ begin' = begin /\ end' = end /\ n' = n
      /\ Pos(middle) # 0 /\ Pos(last) = 0
  BY RightWords DEF Right!ShrdWord, Right!Call, Right!first, RightInv
<1>2. RightMoving
  BY <1>1 DEF RightInv, RightMoving
<1>3. /\ Base(begin) \in Int /\ Base(middle) \in Int /\ W \in Nat /\ begin \in Int /\ middle \in Int
      /\ begin < Base(begin) + W /\ Base(middle) <= middle
  BY RightFacts
<1>4. Base(begin) + W <= Base(middle) - W
  <2>1. Base(Base(middle) - W) = Base(middle) - W /\ Pos(Base(begin)) = 0
    <3>1. Pos((Base(middle) - W) + W) = Pos(Base(middle) - W) /\ Pos(Base(middle)) = 0
          /\ Pos(Base(begin)) = 0
      BY <1>3, BaseAligned, AlignedStep
    <3>2. (Base(middle) - W) + W = Base(middle) /\ Base(middle) - W \in Int
      BY <1>3
    <3> QED BY <3>1, <3>2 DEF Base
  <2>2. Base(middle) - W \in Int
    BY <1>3
  <2> QED BY <1>1, <1>3, <2>1, <2>2, AlignedGap
<1>5. W \in 0 .. (middle - begin) /\ W <= middle - begin
  BY <1>3, <1>4
<1>6. /\ Puts(mem, mem', last - W, W, v)
      /\ \A i \in 0 .. (W - 1) : v[i] = mem[(middle - W) + i]
      /\ used' \in SUBSET Int /\ \A b \in used' : Holds(b, begin, end)
      /\ shifts' \in SUBSET Int /\ \A i \in shifts' : ShiftDefined(i)
      /\ middle' = middle - W /\ last' = last - W
      /\ Pos(last - W) = 0 /\ Pos(middle - W) = Pos(middle) /\ Base(middle - W) = Base(middle) - W
  BY <1>1, <1>2, <1>5, RightJoins
<1> HIDE DEF v
<1> QED BY <1>1, <1>2, <1>4, <1>5, <1>6, RightKeeps

LEMMA RightWordsDoneStep ==
  ASSUME RightInv, Right!WordsDone
  PROVE  RightInv'
<1> DEFINE v == Shrd(Load(mem, Base(middle) - W), Load(mem, Base(middle)), Pos(middle))
<1>1. /\ pc = "words" /\ ~(Base(middle) - W > Base(begin))
      /\ IF Pos(begin) <= Pos(middle) THEN Right!JoinWord
           ELSE Right!NoAccess /\ middle' = middle /\ last' = last
      /\ pc' = "tail" /\ ret' = ret /\ orig' = orig /\ begin' = begin /\ end' = end /\ n' = n
      /\ Pos(middle) # 0 /\ Pos(last) = 0 /\ Base(begin) + W <= Base(middle)
  BY RightWords DEF Right!WordsDone, Right!JoinFirst, Right!Call, Right!first, RightInv
<1>2. RightMoving
  BY <1>1 DEF RightInv, RightMoving
<1>3. /\ Base(begin) \in Int /\ Base(middle) \in Int /\ W \in Nat /\ begin \in Int /\ middle \in Int
      /\ Pos(begin) \in Nat /\ Pos(middle) \in Nat /\ Pos(begin) < W /\ Pos(middle) < W
      /\ begin = Base(begin) + Pos(begin) /\ middle = Base(middle) + Pos(middle)
  BY RightFacts
<1>4. Base(middle) = Base(begin) + W
  BY <1>1, <1>3
<1>5. CASE Pos(begin) <= Pos(middle)
  <2>1. /\ W \in 0 .. (middle - begin) /\ W <= middle - begin
        /\ (middle - W) - begin < W /\ (Pos(begin) = Pos(middle) => middle - W = begin)
    BY <1>3, <1>4, <1>5
  <2>2. /\ Puts(mem, mem', last - W, W, v)
        /\ \A i \in 0 .. (W - 1) : v[i] = mem[(middle - W) + i]
        /\ used' \in SUBSET Int /\ \A b \in used' : Holds(b, begin, end)
        /\ shifts' \in SUBSET Int /\ \A i \in shifts' : ShiftDefined(i)
        /\ middle' = middle - W /\ last' = last - W
        /\ Pos(last - W) = 0 /\ Pos(middle - W) = Pos(middle)
    BY <1>1, <1>2, <1>5, <2>1, RightJoins
  <2> HIDE DEF v
  <2>3. Pos(begin) = Pos(middle - W) => middle - W = begin
    BY <2>1, <2>2
  <2> QED BY <1>1, <1>2, <2>1, <2>2, <2>3, RightKeeps
<1>6. CASE ~(Pos(begin) <= Pos(middle))
  <2>1. middle - begin < W /\ Pos(begin) # Pos(middle)
    BY <1>3, <1>4, <1>6
  <2> QED BY <1>1, <1>2, <1>6, <2>1, RightWaits
<1> QED BY <1>5, <1>6

LEMMA RightTailStep ==
  ASSUME RightInv, Right!Tail
  PROVE  RightInv'
<1> DEFINE k == middle - begin
           dst == last - k
           v == GetWord(mem, begin, k)
<1>1. /\ pc = "tail"
      /\ IF Pos(begin) # Pos(middle) THEN Right!MoveBits(begin, dst, k) ELSE Right!NoAccess
      /\ pc' = "done" /\ ret' = begin + n /\ middle' = middle /\ last' = last
      /\ orig' = orig /\ begin' = begin /\ end' = end /\ n' = n
      /\ k < W /\ (Pos(begin) = Pos(middle) => middle = begin)
  BY RightWords DEF Right!Tail, Right!Return, Right!Call, Right!first, RightInv
<1>2. RightMoving
  BY <1>1 DEF RightInv, RightMoving
<1>3. /\ begin \in Nat /\ end \in Nat /\ middle \in Nat /\ last \in Nat /\ n \in Nat /\ begin <= middle
      /\ middle < last /\ last <= end /\ begin <= last /\ dst = begin + n /\ k \in Nat /\ W \in Nat
      /\ begin = middle - k /\ middle = last - n
  BY <1>2, RightFacts, RightMovingFacts
<1>4. last' \in begin .. end /\ middle' \in begin .. end
  BY <1>1, <1>3
<1>5. CASE Pos(begin) # Pos(middle)
  <2>1. k \in 1 .. W /\ k <= middle - begin
    <3>1. middle # begin
      BY <1>5
    <3> QED BY <1>1, <1>3, <3>1
  <2>2. Right!MoveBits(begin, dst, k)
    BY <1>1, <1>5
  <2>3. k = middle - begin /\ dst = last - k
    OBVIOUS
  <2> HIDE DEF k, dst
  <2>4. /\ Puts(mem, mem', dst, k, v)
        /\ \A i \in 0 .. (k - 1) : v[i] = mem[begin + i]
        /\ used' \in SUBSET Int /\ \A b \in used' : Holds(b, begin, end)
        /\ shifts' \in SUBSET Int /\ \A i \in shifts' : ShiftDefined(i)
    BY <1>2, <1>3, <2>1, <2>2, <2>3, RightMovesWord
  <2> HIDE DEF v
  <2>5. /\ Puts(mem, mem', begin + n, middle - begin, v)
        /\ \A i \in 0 .. ((middle - begin) - 1) : v[i] = mem[begin + i]
    BY <1>3, <2>3, <2>4
  <2> QED BY <1>1, <1>2, <1>4, <2>4, <2>5, RightReturns
<1>6. CASE Pos(begin) = Pos(middle)
  <2> DEFINE u == [i \in {} |-> Zero]
  <2>1. /\ middle - begin = 0 /\ mem' = mem /\ used' = {} /\ shifts' = {} /\ begin + n \in Int
    BY <1>1, <1>3, <1>6 DEF Right!NoAccess
  <2>2. Puts(mem, mem', begin + n, middle - begin, u)
    BY <2>1, RightFacts, PutsNothing
  <2>3. \A i \in 0 .. ((middle - begin) - 1) : u[i] = mem[begin + i]
    BY <2>1
  <2> HIDE DEF u
  <2> QED BY <1>1, <1>2, <1>4, <2>1, <2>2, <2>3, RightReturns
<1> QED BY <1>5, <1>6

LEMMA RightInit ==
  ASSUME Right!Init
  PROVE  RightInv
<1>1. /\ orig \in [Addr -> Bit] /\ mem = orig
      /\ begin \in 0 .. MemBits /\ end \in 0 .. MemBits /\ begin <= end /\ n \in -1 .. (MemBits + 1)
      /\ middle = end - n /\ last = end /\ ret = begin /\ pc = "start"
      /\ used = {} /\ shifts = {}
  BY RightWords DEF Right!Init
<1>2. begin \in Nat /\ end \in Nat /\ n \in Int /\ MemBits \in Nat /\ end <= end /\ last \in Int
  BY <1>1, Widths
<1>3. mem = Carried(last, end, 0 - n)
  BY <1>1, <1>2, CarriedNone
<1>4. Right!TypeOK
  <2>1. /\ last \in begin .. end /\ ret \in begin .. end
        /\ middle \in Int /\ (0 < n /\ n < end - begin => middle \in begin .. end)
    BY <1>1, <1>2
  <2> QED BY <1>1, <1>2, <2>1, RightWords DEF Right!TypeOK, Right!d
<1>5. Right!AccessInRange /\ Right!ShiftsDefined
  BY <1>1 DEF Right!AccessInRange, Right!ShiftsDefined
<1> QED BY <1>1, <1>3, <1>4, <1>5 DEF RightInv

LEMMA RightNext ==
  ASSUME RightInv, Right!Next
  PROVE  RightInv'
<1>1. CASE Right!Finished
  BY <1>1 DEF Right!Finished, Right!vars, RightInv, Right!TypeOK, Right!AccessInRange,
     Right!ShiftsDefined, Right!ShiftCorrect, Right!OutsideIntact, Right!Kept, Right!d, Carried
<1> QED BY <1>1, RightOutOfRangeStep, RightShiftInWordStep, RightAlignStep, RightAlignedStep,
           RightWordsStep, RightTestStep, RightShrdStep, RightWordsDoneStep, RightTailStep
        DEF Right!Next

LEMMA RightImplies ==
  ASSUME RightInv
  PROVE  /\ Right!TypeOK /\ Right!ShiftCorrect /\ Right!OutsideIntact /\ Right!SourceIntact
         /\ Right!AccessInRange /\ Right!ShiftsDefined
<1>1. Right!ShiftCorrect
  BY DEF RightInv, Right!ShiftCorrect
<1>2. Right!OutsideIntact
  <2>1. CASE pc = "done"
    BY <2>1 DEF RightInv
  <2>2. CASE pc # "done"
    <3>1. mem = Carried(last, end, 0 - n)
      BY <2>2 DEF RightInv
    <3> SUFFICES ASSUME NEW a \in Addr, ~(begin <= a /\ a < end) PROVE mem[a] = orig[a]
      BY RightWords DEF Right!OutsideIntact
    <3>2. a \in Int /\ begin \in Int /\ last \in Int /\ end \in Int /\ begin <= last
      BY RightFacts, Widths
    <3>3. a < last \/ end <= a
      BY <3>2
    <3> QED BY <3>1, <3>2, <3>3, CarriedSource
  <2> QED BY <2>1, <2>2
<1>3. Right!SourceIntact
  <2> SUFFICES ASSUME pc # "done", n > 0, NEW a \in begin .. (middle - 1)
               PROVE  mem[a] = orig[a]
    BY DEF Right!SourceIntact
  <2>1. mem = Carried(last, end, 0 - n) /\ middle = last - n
    BY DEF RightInv
  <2>2. /\ begin \in Nat /\ last \in Nat /\ end \in Nat /\ n \in Int /\ last <= end /\ end <= MemBits
        /\ MemBits \in Nat
    BY RightFacts
  <2>3. a \in Nat /\ a < MemBits /\ a < last
    BY <2>1, <2>2
  <2>4. a \in Addr
    BY <2>2, <2>3, Widths
  <2> QED BY <2>1, <2>2, <2>3, <2>4, CarriedSource
<1> QED BY <1>1, <1>2, <1>3 DEF RightInv

----------------------------------------------------------------------------
(* Whichever algorithm is called                                           *)

IInv ==
  /\ algorithm \in {"copy_backward", "fill", "shift_left", "shift_right", "transform"}
  /\ algorithm = "copy_backward" => CopyInv
  /\ algorithm = "fill"          => FillInv
  /\ algorithm = "shift_left"    => LeftInv
  /\ algorithm = "shift_right"   => RightInv
  /\ algorithm = "transform"     => JoinInv

LEMMA InitIInv == Init => IInv
BY CopyInit, FillInit, LeftInit, RightInit, JoinInit DEF Init, IInv

\* A step that changes nothing.
LEMMA Stutter ==
  ASSUME IInv, UNCHANGED vars
  PROVE  IInv'
<1>1. ASSUME CopyInv PROVE CopyInv'
  BY <1>1 DEF vars, CopyInv, Copy!TypeOK, Copy!AccessInRange,
              Copy!ShiftsDefined, Copy!d_last, Carried
<1>2. ASSUME FillInv PROVE FillInv'
  BY <1>2 DEF vars, FillInv, FilledTo, Fill!TypeOK, Fill!OutsideIntact,
              Fill!Filled, Fill!AccessInRange, Fill!ShiftsDefined
<1>3. ASSUME LeftInv PROVE LeftInv'
  BY <1>3 DEF vars, LeftInv, Left!TypeOK, Left!AccessInRange, Left!ShiftsDefined,
              Left!ShiftCorrect, Left!OutsideIntact, Left!Kept, Left!d, Carried
<1>4. ASSUME RightInv PROVE RightInv'
  BY <1>4 DEF vars, RightInv, Right!TypeOK, Right!AccessInRange, Right!ShiftsDefined,
              Right!ShiftCorrect, Right!OutsideIntact, Right!Kept, Right!d, Carried
<1>5. ASSUME JoinInv PROVE JoinInv'
  BY <1>5 DEF vars, JoinInv, Join!TypeOK, Join!AccessInRange, Joined, Pair
<1>6. algorithm' = algorithm
  BY DEF vars
<1> QED BY <1>1, <1>2, <1>3, <1>4, <1>5, <1>6 DEF IInv

LEMMA NextIInv == IInv /\ [Next]_vars => IInv'
<1> SUFFICES ASSUME IInv, Next PROVE IInv'
  BY Stutter
<1>1. algorithm' = algorithm
  BY DEF Next
<1>2. CASE algorithm = "copy_backward"
  <2>1. CopyInv /\ Copy!Next
    BY <1>2 DEF Next, IInv
  <2>2. CopyInv'
    BY <2>1, CopyNext
  <2> QED BY <1>1, <1>2, <2>2 DEF IInv
<1>3. CASE algorithm = "fill"
  <2>1. FillInv /\ Fill!Next
    BY <1>3 DEF Next, IInv
  <2>2. FillInv'
    BY <2>1, FillNext
  <2> QED BY <1>1, <1>3, <2>2 DEF IInv
<1>4. CASE algorithm = "shift_left"
  <2>1. LeftInv /\ Left!Next
    BY <1>4 DEF Next, IInv
  <2>2. LeftInv'
    BY <2>1, LeftNext
  <2> QED BY <1>1, <1>4, <2>2 DEF IInv
<1>5. CASE algorithm = "shift_right"
  <2>1. RightInv /\ Right!Next
    BY <1>5 DEF Next, IInv
  <2>2. RightInv'
    BY <2>1, RightNext
  <2> QED BY <1>1, <1>5, <2>2 DEF IInv
<1>6. CASE algorithm = "transform"
  <2>1. JoinInv /\ Join!Next
    BY <1>6 DEF Next, IInv
  <2>2. JoinInv'
    BY <2>1, JoinNext
  <2> QED BY <1>1, <1>6, <2>2 DEF IInv
<1> QED BY <1>2, <1>3, <1>4, <1>5, <1>6 DEF IInv

LEMMA Inductive == Spec => []IInv
BY InitIInv, NextIInv, PTL DEF Spec

LEMMA IInvImplies == IInv => TypeOK /\ MoveCorrect /\ SourceIntact /\ InstructionsSafe
<1> SUFFICES ASSUME IInv PROVE TypeOK /\ MoveCorrect /\ SourceIntact /\ InstructionsSafe
  OBVIOUS
<1>1. TypeOK
  BY CopyImplies, FillImplies, LeftImplies, RightImplies, JoinImplies DEF IInv, TypeOK
<1>2. MoveCorrect
  BY CopyImplies, FillImplies, LeftImplies, RightImplies, JoinImplies DEF IInv, MoveCorrect
<1>3. SourceIntact
  BY CopyImplies, LeftImplies, RightImplies DEF IInv, SourceIntact
<1>4. InstructionsSafe
  BY CopyImplies, FillImplies, LeftImplies, RightImplies, JoinImplies DEF IInv, InstructionsSafe
<1> QED BY <1>1, <1>2, <1>3, <1>4

\* The iterators of copy_backward, fill, the shifts and transform stay in their
\* ranges, and what transform has left is the rest of both its sources.
THEOREM TypeCorrect == Spec => []TypeOK
BY Inductive, IInvImplies, PTL

\* When copy_backward, fill, shift_left, shift_right or transform returns, each
\* bit of its destination is the one the call asked for, and no bit beside the
\* range, in a word the range covers in part, has changed.
THEOREM Correct == Spec => []MoveCorrect
BY Inductive, IInvImplies, PTL

\* copy_backward and the shifts, which move a range over itself a word at a
\* time, never overwrite a bit they have still to read.
THEOREM NeverClobbers == Spec => []SourceIntact
BY Inductive, IInvImplies, PTL

\* The word loops dereference only words of their ranges, never that of an
\* aligned end, and never shift by the width of a word or more.
THEOREM Safe == Spec => []InstructionsSafe
BY Inductive, IInvImplies, PTL

----------------------------------------------------------------------------
(* The promise of SequenceMove                                             *)

\* The promise of each call, and that it is one SequenceMove can make.
LEMMA CopyPromise ==
  algorithm = "copy_backward" =>
    /\ Promise.src = begin /\ Promise.dst = target /\ Promise.len = n
    /\ Promise.free = {} /\ Promise.moved = remaining .. (n - 1)
BY DEF Promise

LEMMA FillPromise ==
  algorithm = "fill" =>
    /\ Promise.src = begin /\ Promise.dst = begin /\ Promise.len = 0
    /\ Promise.free = begin .. (end - 1) /\ Promise.moved = {}
BY DEF Promise

LEMMA LeftPromise ==
  algorithm = "shift_left" =>
    /\ Promise.src = begin + n /\ Promise.dst = begin /\ Promise.len = Left!Kept
    /\ Promise.free = IF Left!Kept = 0 THEN {} ELSE (begin + Left!Kept) .. (end - 1)
    /\ Promise.moved = 0 .. ((IF pc = "done" THEN Left!Kept ELSE first - begin) - 1)
BY DEF Promise

LEMMA RightPromise ==
  algorithm = "shift_right" =>
    /\ Promise.src = begin /\ Promise.dst = begin + n /\ Promise.len = Right!Kept
    /\ Promise.free = IF Right!Kept = 0 THEN {} ELSE begin .. (begin + n - 1)
    /\ Promise.moved =
         (IF pc = "done" THEN 0 ELSE Right!Kept - (end - last)) .. (Right!Kept - 1)
BY DEF Promise

LEMMA JoinPromise ==
  algorithm = "transform" =>
    /\ Promise.src = begin /\ Promise.dst = target /\ Promise.len = 0
    /\ Promise.free = target .. (target + (end - begin) - 1) /\ Promise.moved = {}
BY DEF Promise

\* A call from src to dst whose bits at the offsets D have arrived.
Arrived(src, dst, len, free, D) ==
  /\ src \in Int /\ dst \in Int /\ len \in Nat /\ free \subseteq Int
  /\ D \in SUBSET (0 .. (len - 1))
  /\ mem \in [Addr -> Bit] /\ orig \in [Addr -> Bit]
  /\ \A a \in Addr \ free : mem[a] = IF (a - dst) \in D THEN orig[src + (a - dst)] ELSE orig[a]

Shown == Arrived(Promise.src, Promise.dst, Promise.len, Promise.free, Promise.moved)

LEMMA CopyShown ==
  ASSUME CopyInv
  PROVE  Arrived(begin, target, n, {}, remaining .. (n - 1))
<1>1. /\ begin \in Nat /\ target \in Nat /\ n \in Nat /\ remaining \in Nat /\ remaining <= n
      /\ mem \in [Addr -> Bit] /\ orig \in [Addr -> Bit]
  BY CopyFacts
<1>2. mem = Carried(target + remaining, target + n, begin - target)
  BY DEF CopyInv
<1>3. ASSUME NEW a \in Addr
      PROVE  mem[a] = IF (a - target) \in remaining .. (n - 1)
                        THEN orig[begin + (a - target)] ELSE orig[a]
  <2>1. a \in Int
    BY Widths
  <2>2. /\ target + remaining <= a /\ a < target + n <=> (a - target) \in remaining .. (n - 1)
        /\ a + (begin - target) = begin + (a - target)
    BY <1>1, <2>1
  <2> QED BY <1>2, <2>2 DEF Carried
<1>4. remaining .. (n - 1) \in SUBSET (0 .. (n - 1))
  BY <1>1
<1> QED BY <1>1, <1>3, <1>4 DEF Arrived

LEMMA FillShown ==
  ASSUME FillInv
  PROVE  Arrived(begin, begin, 0, begin .. (end - 1), {})
<1>1. /\ begin \in Nat /\ end \in Nat /\ mem \in [Addr -> Bit] /\ orig \in [Addr -> Bit]
  BY FillFacts
<1>2. ASSUME NEW a \in Addr \ (begin .. (end - 1)) PROVE mem[a] = orig[a]
  <2>1. a \in Int
    BY Widths
  <2>2. ~(begin <= a /\ a < end)
    BY <1>1, <2>1
  <2> QED BY <2>2, FillWords DEF FillInv, Fill!OutsideIntact, Fill!Filled
<1> QED BY <1>1, <1>2 DEF Arrived

LEMMA JoinShown ==
  ASSUME JoinInv
  PROVE  Arrived(begin, target, 0, target .. (target + (end - begin) - 1), {})
<1>1. /\ begin \in Nat /\ end \in Nat /\ target \in Nat
      /\ mem \in [Addr -> Bit] /\ orig \in [Addr -> Bit]
  BY JoinFacts
<1>2. ASSUME NEW a \in Addr \ (target .. (target + (end - begin) - 1)) PROVE mem[a] = orig[a]
  <2>1. a \in Int
    BY Widths
  <2>2. a < target \/ target + (end - begin) <= a
    BY <1>1, <2>1
  <2>3. Join!OutsideIntact
    BY JoinImplies
  <2> QED BY <2>2, <2>3, JoinWords DEF Join!OutsideIntact
<1>3. target .. (target + (end - begin) - 1) \subseteq Int
  BY <1>1
<1> QED BY <1>1, <1>2, <1>3 DEF Arrived

LEMMA LeftShown ==
  ASSUME LeftInv
  PROVE  Arrived(begin + n, begin, Left!Kept,
                 IF Left!Kept = 0 THEN {} ELSE (begin + Left!Kept) .. (end - 1),
                 0 .. ((IF pc = "done" THEN Left!Kept ELSE first - begin) - 1))
<1> DEFINE k     == Left!Kept
           c     == IF pc = "done" THEN k ELSE first - begin
           frees == IF k = 0 THEN {} ELSE (begin + k) .. (end - 1)
<1>1. /\ begin \in Nat /\ end \in Nat /\ begin <= end /\ n \in Int /\ first \in Nat /\ begin <= first
      /\ mem \in [Addr -> Bit] /\ orig \in [Addr -> Bit]
  BY LeftFacts
<1>2. k = IF 0 < n /\ n < end - begin THEN (end - begin) - n ELSE 0
  BY DEF Left!Kept, Left!d
<1>3. k \in Nat /\ frees \subseteq Int
  BY <1>1, <1>2
<1>4. c \in Nat /\ c <= k
  <2>1. CASE pc = "done"
    BY <2>1, <1>3
  <2>2. CASE pc # "done" /\ 0 < n /\ n < end - begin
    <3>1. middle = first + n /\ middle <= end
      BY <2>2, LeftMovingFacts DEF LeftMoving
    <3> HIDE DEF k
    <3> QED BY <1>1, <1>2, <2>2, <3>1
  <2>3. CASE pc # "done" /\ ~(0 < n /\ n < end - begin)
    <3>1. first = begin
      BY <2>3 DEF LeftInv, Left!TypeOK
    <3> HIDE DEF k
    <3> QED BY <1>1, <1>2, <2>3, <3>1
  <2> QED BY <2>1, <2>2, <2>3
<1>5. ASSUME NEW a \in Addr, a \notin frees
      PROVE  mem[a] = IF (a - begin) \in 0 .. (c - 1) THEN orig[(begin + n) + (a - begin)]
                      ELSE orig[a]
  <2>1. a \in Int
    BY Widths
  <2>2. CASE pc # "done"
    <3>1. mem = Carried(begin, first, n) /\ c = first - begin
      BY <2>2 DEF LeftInv
    <3> HIDE DEF c
    <3>2. /\ begin <= a /\ a < first <=> (a - begin) \in 0 .. (c - 1)
          /\ (begin + n) + (a - begin) = a + n
      BY <1>1, <2>1, <3>1
    <3> QED BY <3>1, <3>2 DEF Carried
  <2>3. CASE pc = "done"
    <3>1. /\ \A i \in 0 .. (k - 1) : mem[begin + i] = orig[begin + n + i]
          /\ k = 0 => mem = orig
      BY <2>3 DEF LeftInv, Left!ShiftCorrect
    <3>2. ~(begin <= a /\ a < end) => mem[a] = orig[a]
      BY <2>3, LeftWords DEF LeftInv, Left!OutsideIntact
    <3>3. c = k /\ (k # 0 => frees = (begin + k) .. (end - 1))
      BY <2>3
    <3> HIDE DEF c, k, frees
    <3>4. CASE (a - begin) \in 0 .. (c - 1)
      <4>1. mem[begin + (a - begin)] = orig[begin + n + (a - begin)]
        BY <3>1, <3>3, <3>4
      <4>2. begin + (a - begin) = a /\ begin + n + (a - begin) = (begin + n) + (a - begin)
        BY <1>1, <2>1
      <4> QED BY <3>4, <4>1, <4>2
    <3>5. CASE (a - begin) \notin 0 .. (c - 1) /\ k # 0
      <4>1. a \notin (begin + k) .. (end - 1)
        BY <1>5, <3>3, <3>5
      <4>2. ~(begin <= a /\ a < end)
        BY <1>1, <1>3, <2>1, <3>3, <3>5, <4>1
      <4> QED BY <3>2, <3>5, <4>2
    <3>6. CASE (a - begin) \notin 0 .. (c - 1) /\ k = 0
      BY <3>1, <3>6
    <3> QED BY <3>4, <3>5, <3>6
  <2> QED BY <2>2, <2>3
<1>6. 0 .. (c - 1) \in SUBSET (0 .. (k - 1)) /\ begin + n \in Int
  <2> HIDE DEF c, k
  <2> QED BY <1>1, <1>3, <1>4
<1>7. Arrived(begin + n, begin, k, frees, 0 .. (c - 1))
  <2> HIDE DEF c, k, frees
  <2> QED BY <1>1, <1>3, <1>5, <1>6 DEF Arrived
<1> QED BY <1>7

LEMMA RightShown ==
  ASSUME RightInv
  PROVE  Arrived(begin, begin + n, Right!Kept,
                 IF Right!Kept = 0 THEN {} ELSE begin .. (begin + n - 1),
                 (IF pc = "done" THEN 0 ELSE Right!Kept - (end - last)) .. (Right!Kept - 1))
<1> DEFINE k     == Right!Kept
           c     == IF pc = "done" THEN 0 ELSE k - (end - last)
           frees == IF k = 0 THEN {} ELSE begin .. (begin + n - 1)
<1>1. /\ begin \in Nat /\ end \in Nat /\ begin <= end /\ n \in Int /\ last \in Nat /\ last <= end
      /\ mem \in [Addr -> Bit] /\ orig \in [Addr -> Bit]
  BY RightFacts
<1>2. k = IF 0 < n /\ n < end - begin THEN (end - begin) - n ELSE 0
  BY DEF Right!Kept, Right!d
<1>3. k \in Nat /\ frees \subseteq Int
  BY <1>1, <1>2
<1>4. c \in Nat
  <2>1. CASE pc = "done"
    BY <2>1
  <2>2. CASE pc # "done" /\ 0 < n /\ n < end - begin
    <3>1. middle = last - n /\ begin <= middle
      BY <2>2, RightMovingFacts DEF RightMoving
    <3> HIDE DEF k
    <3> QED BY <1>1, <1>2, <2>2, <3>1
  <2>3. CASE pc # "done" /\ ~(0 < n /\ n < end - begin)
    <3>1. last = end
      BY <2>3 DEF RightInv, Right!TypeOK
    <3> HIDE DEF k
    <3> QED BY <1>1, <1>2, <2>3, <3>1
  <2> QED BY <2>1, <2>2, <2>3
<1>5. ASSUME NEW a \in Addr, a \notin frees
      PROVE  mem[a] = IF (a - (begin + n)) \in c .. (k - 1) THEN orig[begin + (a - (begin + n))]
                      ELSE orig[a]
  <2>1. a \in Int
    BY Widths
  <2>2. CASE pc # "done" /\ 0 < n /\ n < end - begin
    <3>1. mem = Carried(last, end, 0 - n) /\ c = k - (end - last) /\ k = (end - begin) - n
      BY <1>2, <2>2 DEF RightInv
    <3> HIDE DEF c, k
    <3>2. /\ last <= a /\ a < end <=> (a - (begin + n)) \in c .. (k - 1)
          /\ begin + (a - (begin + n)) = a + (0 - n)
      BY <1>1, <2>1, <3>1
    <3> QED BY <3>1, <3>2 DEF Carried
  <2>3. CASE pc # "done" /\ ~(0 < n /\ n < end - begin)
    <3>1. last = end /\ k = 0 /\ mem = Carried(last, end, 0 - n)
      BY <1>2, <2>3 DEF RightInv, Right!TypeOK
    <3> HIDE DEF c, k
    <3>2. (a - (begin + n)) \notin c .. (k - 1) /\ ~(last <= a /\ a < end)
      BY <1>1, <1>4, <2>1, <3>1
    <3> QED BY <3>1, <3>2 DEF Carried
  <2>4. CASE pc = "done"
    <3>1. /\ \A i \in 0 .. (k - 1) : mem[begin + n + i] = orig[begin + i]
          /\ k = 0 => mem = orig
      BY <2>4 DEF RightInv, Right!ShiftCorrect
    <3>2. ~(begin <= a /\ a < end) => mem[a] = orig[a]
      BY <2>4, RightWords DEF RightInv, Right!OutsideIntact
    <3>3. c = 0 /\ (k # 0 => frees = begin .. (begin + n - 1))
      BY <2>4
    <3> HIDE DEF c, k, frees
    <3>4. CASE (a - (begin + n)) \in c .. (k - 1)
      <4>1. mem[begin + n + (a - (begin + n))] = orig[begin + (a - (begin + n))]
        BY <3>1, <3>3, <3>4
      <4>2. begin + n + (a - (begin + n)) = a
        BY <1>1, <2>1
      <4> QED BY <3>4, <4>1, <4>2
    <3>5. CASE (a - (begin + n)) \notin c .. (k - 1) /\ k # 0
      <4>1. a \notin begin .. (begin + n - 1)
        BY <1>5, <3>3, <3>5
      <4>2. k = (end - begin) - n
        BY <1>2, <3>5
      <4>3. ~(begin <= a /\ a < end)
        BY <1>1, <2>1, <3>3, <3>5, <4>1, <4>2
      <4> QED BY <3>2, <3>5, <4>3
    <3>6. CASE (a - (begin + n)) \notin c .. (k - 1) /\ k = 0
      BY <3>1, <3>6
    <3> QED BY <3>4, <3>5, <3>6
  <2> QED BY <2>2, <2>3, <2>4
<1>6. c .. (k - 1) \in SUBSET (0 .. (k - 1)) /\ begin + n \in Int
  <2> HIDE DEF c, k
  <2> QED BY <1>1, <1>3, <1>4
<1> QED BY <1>1, <1>3, <1>5, <1>6 DEF Arrived

\* The memory is at every moment what the bits that have arrived make of it.
LEMMA IInvShows == IInv => Shown
<1> SUFFICES ASSUME IInv PROVE Shown
  OBVIOUS
<1>1. CASE algorithm = "copy_backward"
  BY <1>1, CopyShown, CopyPromise DEF IInv, Shown
<1>2. CASE algorithm = "fill"
  BY <1>2, FillShown, FillPromise DEF IInv, Shown
<1>3. CASE algorithm = "shift_left"
  BY <1>3, LeftShown, LeftPromise DEF IInv, Shown
<1>4. CASE algorithm = "shift_right"
  BY <1>4, RightShown, RightPromise DEF IInv, Shown
<1>5. CASE algorithm = "transform"
  BY <1>5, JoinShown, JoinPromise DEF IInv, Shown
<1> QED BY <1>1, <1>2, <1>3, <1>4, <1>5 DEF IInv

\* No step changes what the call promises.
LEMMA Steady ==
  ASSUME IInv, Next
  PROVE  /\ algorithm' = algorithm /\ orig' = orig
         /\ begin' = begin /\ end' = end /\ n' = n /\ target' = target
<1>1. algorithm' = algorithm
  BY DEF Next
<1>2. CASE algorithm = "copy_backward"
  <2>1. Copy!Next /\ end' = end
    BY <1>2 DEF Next
  <2> QED BY <1>1, <2>1 DEF Copy!Next, Copy!Start, Copy!Align, Copy!Body, Copy!BulkWord,
             Copy!LoopWord, Copy!WordsDone, Copy!Tail, Copy!Finished, Copy!vars, Copy!Call
<1>3. CASE algorithm = "fill"
  <2>1. Fill!Next /\ n' = n /\ target' = target
    BY <1>3 DEF Next
  <2> QED BY <1>1, <2>1 DEF Fill!Next, Fill!Empty, Fill!OneWrite, Fill!Head, Fill!FillWord,
             Fill!Tail, Fill!Finished, Fill!vars, Fill!Call
<1>4. CASE algorithm = "shift_left"
  <2>1. Left!Next /\ target' = target
    BY <1>4 DEF Next
  <2> QED BY <1>1, <2>1 DEF Left!Next, Left!OutOfRange, Left!ShiftInWord, Left!MoveOneWord,
             Left!AlignFirst, Left!LastWordOnly, Left!ShiftWords, Left!ShrdWord, Left!Penultimate,
             Left!Tail, Left!Finished, Left!Return, Left!vars, Left!Call
<1>5. CASE algorithm = "shift_right"
  <2>1. Right!Next /\ target' = target
    BY <1>5 DEF Next
  <2> QED BY <1>1, <2>1 DEF Right!Next, Right!OutOfRange, Right!ShiftInWord, Right!AlignLast,
             Right!LastAligned, Right!ShiftWords, Right!WordsOrTail, Right!ShrdWord,
             Right!WordsDone, Right!Tail, Right!Finished, Right!Return, Right!vars, Right!Call
<1>6. CASE algorithm = "transform"
  <2>1. Join!Next /\ n' = n
    BY <1>6 DEF Next
  <2> QED BY <1>1, <2>1 DEF Join!Next, Join!Empty, Join!Head, Join!BulkWord, Join!ShiftedWord,
             Join!Tail, Join!Finished, Join!vars, Join!Call
<1> QED BY <1>2, <1>3, <1>4, <1>5, <1>6 DEF IInv

\* copy_backward: what is left shrinks.
LEMMA CopyMonotone ==
  ASSUME CopyInv, Copy!Next
  PROVE  remaining' \in Int /\ remaining' <= remaining
<1>1. remaining \in Nat /\ W \in Nat
  BY CopyFacts
<1>2. CASE Copy!Align
  <2>1. Pos(target + n) \in Nat
    BY CopyFacts
  <2>2. remaining' = remaining - Least(remaining, Pos(target + n))
    BY <1>2, CopyWords DEF Copy!Align, Copy!PartialBits, Copy!d_last
  <2>3. Least(remaining, Pos(target + n)) \in Nat
    BY <1>1, <2>1 DEF Least
  <2> QED BY <1>1, <2>2, <2>3
<1>3. CASE Copy!BulkWord \/ Copy!LoopWord
  BY <1>1, <1>3 DEF Copy!BulkWord, Copy!LoopWord
<1>4. CASE Copy!Tail
  BY <1>1, <1>4 DEF Copy!Tail
<1>5. CASE Copy!Start \/ Copy!Body \/ Copy!WordsDone \/ Copy!Finished
  BY <1>1, <1>5 DEF Copy!Start, Copy!Body, Copy!WordsDone, Copy!Finished, Copy!vars
<1> QED BY <1>2, <1>3, <1>4, <1>5 DEF Copy!Next

\* shift_left: first moves up, until it returns.
LEMMA LeftMonotone ==
  ASSUME LeftInv, Left!Next
  PROVE  /\ pc = "done" => pc' = "done"
         /\ pc' # "done" => first' \in Int /\ first <= first'
<1>1. /\ first \in Nat /\ middle \in Int /\ end \in Nat /\ n \in Int /\ W \in Nat
      /\ Pos(first) \in 0 .. (W - 1) /\ Pos(middle) \in 0 .. (W - 1)
  BY LeftFacts
<1>2. CASE Left!AlignFirst
  <2>1. /\ 0 < n /\ n < end - begin /\ (end - begin) - n > W /\ pc' = "aligned" /\ pc = "start"
        /\ first' = first \/ first' = first + Least((end - begin) - n, W - Pos(first))
    BY <1>2, LeftWords DEF Left!AlignFirst, Left!d
  <2>2. begin \in Nat
    BY LeftFacts
  <2>3. Least((end - begin) - n, W - Pos(first)) \in Nat
    <3>1. (end - begin) - n \in Nat /\ W - Pos(first) \in Nat
      BY <1>1, <2>1, <2>2
    <3> QED BY <3>1 DEF Least
  <2> QED BY <1>1, <2>1, <2>3
<1>3. CASE Left!ShrdWord
  BY <1>1, <1>3 DEF Left!ShrdWord
<1>4. CASE Left!Penultimate
  <2>1. first' = first + (W - Pos(middle)) /\ pc = "aligned"
    BY <1>4, LeftWords DEF Left!Penultimate
  <2> QED BY <1>1, <2>1
<1>5. CASE Left!Finished
  BY <1>1, <1>5 DEF Left!Finished, Left!vars
<1>6. CASE \/ Left!OutOfRange \/ Left!ShiftInWord \/ Left!MoveOneWord \/ Left!LastWordOnly
           \/ Left!ShiftWords \/ Left!Tail
  BY <1>6 DEF Left!OutOfRange, Left!ShiftInWord, Left!MoveOneWord, Left!LastWordOnly,
              Left!ShiftWords, Left!Tail, Left!Return
<1> QED BY <1>2, <1>3, <1>4, <1>5, <1>6 DEF Left!Next

\* shift_right: last moves down, until it returns.
LEMMA RightMonotone ==
  ASSUME RightInv, Right!Next
  PROVE  /\ pc = "done" => pc' = "done"
         /\ pc' # "done" => last' \in Int /\ last' <= last
<1>1. /\ last \in Nat /\ middle \in Int /\ begin \in Nat /\ W \in Nat
      /\ Pos(last) \in 0 .. (W - 1)
  BY RightFacts
<1>2. CASE Right!AlignLast
  <2>1. /\ 0 < n /\ n < end - begin /\ pc = "start"
        /\ last' = last - Least(Pos(last), middle - begin)
    BY <1>2, RightWords DEF Right!AlignLast, Right!AlignBits, Right!d, Right!first
  <2>2. middle - begin \in Nat
    BY <2>1, RightMovingFacts DEF RightMoving
  <2>3. Least(Pos(last), middle - begin) \in Nat
    BY <1>1, <2>2 DEF Least
  <2> QED BY <1>1, <2>1, <2>3
<1>3. CASE Right!ShrdWord \/ Right!WordsDone
  BY <1>1, <1>3 DEF Right!ShrdWord, Right!WordsDone, Right!JoinWord
<1>4. CASE Right!LastAligned \/ Right!WordsOrTail
  BY <1>1, <1>4 DEF Right!LastAligned, Right!WordsOrTail
<1>5. CASE Right!Finished
  BY <1>1, <1>5 DEF Right!Finished, Right!vars
<1>6. CASE Right!OutOfRange \/ Right!ShiftInWord \/ Right!ShiftWords \/ Right!Tail
  BY <1>6 DEF Right!OutOfRange, Right!ShiftInWord, Right!ShiftWords, Right!Tail, Right!Return
<1> QED BY <1>2, <1>3, <1>4, <1>5, <1>6 DEF Right!Next

\* What has arrived stays, and the promise does not change.
LEMMA Promised ==
  ASSUME IInv, IInv', Next
  PROVE  /\ Promise.src' = Promise.src /\ Promise.dst' = Promise.dst /\ Promise.len' = Promise.len
         /\ Promise.free' = Promise.free /\ Promise.moved \subseteq Promise.moved'
<1>1. /\ algorithm' = algorithm /\ orig' = orig
      /\ begin' = begin /\ end' = end /\ n' = n /\ target' = target
  BY Steady
<1>2. CASE algorithm = "copy_backward"
  <2>1. (algorithm = "copy_backward" =>
           /\ Promise.src = begin /\ Promise.dst = target /\ Promise.len = n
           /\ Promise.free = {} /\ Promise.moved = remaining .. (n - 1))'
    BY CopyPromise, PTL
  <2>2. CopyInv /\ Copy!Next
    BY <1>2 DEF IInv, Next
  <2>3. remaining \in Nat /\ n \in Nat /\ remaining' \in Int /\ remaining' <= remaining
    BY <2>2, CopyFacts, CopyMonotone
  <2>4. remaining .. (n - 1) \subseteq remaining' .. (n - 1)
    <3> DEFINE r == remaining'
    <3>1. r \in Int /\ r <= remaining
      BY <2>3
    <3> HIDE DEF r
    <3>2. remaining .. (n - 1) \subseteq r .. (n - 1)
      BY <2>3, <3>1
    <3> QED BY <3>2 DEF r
  <2> QED BY <1>1, <1>2, <2>1, <2>4, CopyPromise
<1>3. CASE algorithm = "fill"
  <2>1. (algorithm = "fill" =>
           /\ Promise.src = begin /\ Promise.dst = begin /\ Promise.len = 0
           /\ Promise.free = begin .. (end - 1) /\ Promise.moved = {})'
    BY FillPromise, PTL
  <2> QED BY <1>1, <1>3, <2>1, FillPromise
<1>4. CASE algorithm = "shift_left"
  <2> DEFINE c == IF pc = "done" THEN Left!Kept ELSE first - begin
             e == c'
  <2>1. (algorithm = "shift_left" =>
           /\ Promise.src = begin + n /\ Promise.dst = begin /\ Promise.len = Left!Kept
           /\ Promise.free = IF Left!Kept = 0 THEN {} ELSE (begin + Left!Kept) .. (end - 1)
           /\ Promise.moved = 0 .. ((IF pc = "done" THEN Left!Kept ELSE first - begin) - 1))'
    BY LeftPromise, PTL
  <2>2. LeftInv /\ Left!Next
    BY <1>4 DEF IInv, Next
  <2>3. Left!Kept' = Left!Kept
    BY <1>1 DEF Left!Kept, Left!d
  <2>4. 0 .. (c - 1) \subseteq 0 .. (Left!Kept - 1)
    BY <2>2, LeftShown DEF Arrived
  <2>5. 0 .. (c - 1) \subseteq 0 .. (e - 1)
    <3>1. CASE pc' = "done"
      BY <2>3, <2>4, <3>1
    <3>2. CASE pc' # "done"
      <4>1. c = first - begin /\ e = first' - begin
        BY <1>1, <2>2, <3>2, LeftMonotone
      <4>2. first \in Int /\ begin \in Int /\ first' \in Int /\ first <= first'
        BY <2>2, <3>2, LeftFacts, LeftMonotone
      <4> DEFINE f == first
                 g == first'
      <4>3. c = f - begin /\ e = g - begin /\ f \in Int /\ g \in Int /\ begin \in Int /\ f <= g
        BY <4>1, <4>2
      <4> HIDE DEF c, e, f, g
      <4>4. c \in Int /\ e \in Int /\ c <= e
        BY <4>3
      <4> QED BY <4>4
    <3> QED BY <3>1, <3>2
  <2> QED BY <1>1, <1>4, <2>1, <2>3, <2>5, LeftPromise
<1>5. CASE algorithm = "shift_right"
  <2> DEFINE c == IF pc = "done" THEN 0 ELSE Right!Kept - (end - last)
             e == c'
             k == Right!Kept
  <2>1. (algorithm = "shift_right" =>
           /\ Promise.src = begin /\ Promise.dst = begin + n /\ Promise.len = Right!Kept
           /\ Promise.free = IF Right!Kept = 0 THEN {} ELSE begin .. (begin + n - 1)
           /\ Promise.moved =
                (IF pc = "done" THEN 0 ELSE Right!Kept - (end - last)) .. (Right!Kept - 1))'
    BY RightPromise, PTL
  <2>2. RightInv /\ Right!Next
    BY <1>5 DEF IInv, Next
  <2>3. Right!Kept' = Right!Kept
    BY <1>1 DEF Right!Kept, Right!d
  <2>4. c .. (k - 1) \subseteq 0 .. (k - 1) /\ k \in Nat
    BY <2>2, RightShown DEF Arrived
  <2>5. c .. (k - 1) \subseteq e .. (k - 1)
    <3>1. CASE pc' = "done"
      BY <2>3, <2>4, <3>1
    <3>2. CASE pc' # "done"
      <4>1. c = k - (end - last) /\ e = k - (end - last')
        BY <1>1, <2>2, <2>3, <3>2, RightMonotone
      <4>2. last \in Int /\ end \in Int /\ last' \in Int /\ last' <= last /\ k \in Int
        BY <2>2, <2>4, <3>2, RightFacts, RightMonotone
      <4> DEFINE f == last
                 g == last'
      <4>3. /\ c = k - (end - f) /\ e = k - (end - g)
            /\ f \in Int /\ g \in Int /\ end \in Int /\ k \in Int /\ g <= f
        BY <4>1, <4>2
      <4> HIDE DEF c, e, f, g, k
      <4>4. c \in Int /\ e \in Int /\ e <= c
        BY <4>3
      <4> QED BY <4>2, <4>4
    <3> QED BY <3>1, <3>2
  <2> QED BY <1>1, <1>5, <2>1, <2>3, <2>5, RightPromise
<1>6. CASE algorithm = "transform"
  <2>1. (algorithm = "transform" =>
           /\ Promise.src = begin /\ Promise.dst = target /\ Promise.len = 0
           /\ Promise.free = target .. (target + (end - begin) - 1) /\ Promise.moved = {})'
    BY JoinPromise, PTL
  <2> QED BY <1>1, <1>6, <2>1, JoinPromise
<1> QED BY <1>2, <1>3, <1>4, <1>5, <1>6 DEF IInv

\* Nothing has arrived when the call is made.
LEMMA NothingArrived ==
  ASSUME Init
  PROVE  Promise.moved = {} /\ mem = orig
<1>1. CASE algorithm = "copy_backward"
  <2>1. Copy!Init
    BY <1>1 DEF Init
  <2>2. remaining = n /\ mem = orig
    BY <2>1 DEF Copy!Init
  <2>3. n \in Nat
    BY <2>1, CopyInit, CopyFacts
  <2>4. n .. (n - 1) = {}
    BY <2>3
  <2> QED BY <1>1, <2>2, <2>4, CopyPromise
<1>2. CASE algorithm = "fill"
  BY <1>2, FillPromise DEF Init, Fill!Init
<1>3. CASE algorithm = "shift_left"
  <2>1. Left!Init
    BY <1>3 DEF Init
  <2>2. first = begin /\ pc = "start" /\ mem = orig
    BY <2>1 DEF Left!Init
  <2>3. begin \in Nat
    BY <2>1, LeftInit, LeftFacts
  <2>4. 0 .. ((first - begin) - 1) = {}
    BY <2>2, <2>3
  <2> QED BY <1>3, <2>2, <2>4, LeftPromise
<1>4. CASE algorithm = "shift_right"
  <2>1. Right!Init
    BY <1>4 DEF Init
  <2>2. last = end /\ pc = "start" /\ mem = orig
    BY <2>1 DEF Right!Init
  <2>3. end \in Nat /\ Right!Kept \in Nat
    BY <2>1, RightInit, RightFacts, RightShown DEF Arrived
  <2>4. (Right!Kept - (end - last)) .. (Right!Kept - 1) = {}
    BY <2>2, <2>3
  <2> QED BY <1>4, <2>2, <2>4, RightPromise
<1>5. CASE algorithm = "transform"
  BY <1>5, JoinPromise DEF Init, Join!Init
<1> QED BY <1>1, <1>2, <1>3, <1>4, <1>5 DEF Init

\* copy_backward and the shifts move bits as std::copy_backward, shift_left and
\* shift_right promise, one at a time and in any order; fill and transform write
\* nothing but their destination.
THEOREM Refines == Spec => MoveSpec
<1>1. Init => Move!Init
  <2> SUFFICES ASSUME Init PROVE Move!Init
    OBVIOUS
  <2>1. Shown
    BY InitIInv, IInvShows
  <2> QED BY <2>1, NothingArrived DEF Move!Init, Shown, Arrived
<1>2. IInv /\ IInv' /\ [Next]_vars => [Move!Arrive]_(Move!vars)
  <2>1. ASSUME IInv, IInv', Next PROVE Move!Arrive
    <3>1. Shown'
      BY <2>1, IInvShows, PTL
    <3>2. /\ Promise.src' = Promise.src /\ Promise.dst' = Promise.dst
          /\ Promise.len' = Promise.len /\ Promise.free' = Promise.free
          /\ Promise.moved \subseteq Promise.moved' /\ orig' = orig
      BY <2>1, Promised, Steady
    <3>3. /\ Promise.moved' \in SUBSET (0 .. (Promise.len - 1)) /\ mem' \in [Addr -> Bit]
          /\ \A a \in Addr \ Promise.free :
               mem'[a] = IF (a - Promise.dst) \in Promise.moved'
                           THEN orig[Promise.src + (a - Promise.dst)] ELSE orig[a]
      BY <3>1, <3>2 DEF Shown, Arrived
    <3> QED BY <3>2, <3>3 DEF Move!Arrive, Move!Offsets, Move!Image
  <2>2. UNCHANGED vars => UNCHANGED Move!vars
    BY DEF vars, Move!vars, Promise, Left!Kept, Left!d, Right!Kept, Right!d
  <2> QED BY <2>1, <2>2
<1> QED BY <1>1, <1>2, Inductive, PTL DEF Spec, MoveSpec, Move!Spec
=============================================================================
