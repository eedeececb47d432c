---------------------------- MODULE ScanTheorems ----------------------------
(***************************************************************************)
(* find, count, count_msb and equal are right for every width of a word,   *)
(* every memory and every range: what they return is what a search, a      *)
(* count or a comparison bit by bit would, and the words they read hold    *)
(* bits of the ranges.  Each algorithm has an invariant of its own and a   *)
(* lemma per step, which says that the step keeps it.                      *)
(***************************************************************************)
EXTENDS MCScanAlgorithms, BitWordTheorems, FiniteSetTheorems

----------------------------------------------------------------------------
(* The least and the greatest of a set of numbers.                         *)

LEMMA HasLeast ==
  ASSUME NEW S \in SUBSET Nat, S # {}
  PROVE  \E x \in S : \A y \in S : x <= y
<1>1. \E x \in S : \A y \in S : ~ (<<y, x>> \in OpToRel(<, Nat))
  BY WFMin, NatLessThanWellFounded
<1>2. ASSUME NEW x \in Nat, NEW y \in Nat, ~ (<<y, x>> \in OpToRel(<, Nat))
      PROVE  x <= y
  BY <1>2 DEF OpToRel
<1> QED BY <1>1, <1>2

LEMMA HasGreatest ==
  ASSUME NEW n \in Nat, NEW S \in SUBSET (0 .. n), S # {}
  PROVE  \E x \in S : \A y \in S : y <= x
<1> DEFINE T == {n - x : x \in S}
<1>1. T \in SUBSET Nat /\ T # {}
  <2>1. ASSUME NEW x \in S PROVE n - x \in Nat
    OBVIOUS
  <2>2. PICK x : x \in S
    OBVIOUS
  <2>3. n - x \in T
    BY <2>2
  <2> QED BY <2>1, <2>3
<1>2. PICK z \in T : \A y \in T : z <= y
  BY <1>1, HasLeast
<1>3. PICK x \in S : z = n - x
  BY <1>2
<1>4. ASSUME NEW y \in S PROVE y <= x
  BY <1>2, <1>3, n - y \in T
<1> QED BY <1>4

LEMMA MinIs ==
  ASSUME NEW S \in SUBSET Int, NEW x \in S, \A y \in S : x <= y
  PROVE  Find!Min(S) = x
<1>1. Find!Min(S) \in S /\ \A y \in S : Find!Min(S) <= y
  <2>1. \E z \in S : \A y \in S : z <= y
    OBVIOUS
  <2> QED BY <2>1 DEF Find!Min
<1>2. Find!Min(S) \in Int /\ x \in Int /\ x <= Find!Min(S) /\ Find!Min(S) <= x
  BY <1>1
<1> QED BY <1>2

LEMMA MaxIs ==
  ASSUME NEW S \in SUBSET Int, NEW x \in S, \A y \in S : y <= x
  PROVE  CountMsb!Max(S) = x
<1>1. CountMsb!Max(S) \in S /\ \A y \in S : y <= CountMsb!Max(S)
  <2>1. \E z \in S : \A y \in S : y <= z
    OBVIOUS
  <2> QED BY <2>1 DEF CountMsb!Max
<1>2. CountMsb!Max(S) \in Int /\ x \in Int /\ x <= CountMsb!Max(S) /\ CountMsb!Max(S) <= x
  BY <1>1
<1> QED BY <1>2

----------------------------------------------------------------------------
(* find                                                                    *)

LEMMA FindWords ==
  /\ Find!BitPos = BitPos /\ Find!MemBits = MemBits /\ Find!Addr = Addr
  /\ \A a : Find!Pos(a) = Pos(a) /\ Find!Base(a) = Base(a)
  /\ \A m, b : Find!Load(m, b) = Load(m, b)
  /\ \A w, k : Find!Lsr(w, k) = Lsr(w, k)
  /\ \A a, b : Find!Least(a, b) = Least(a, b)
  /\ \A a, b, c : Find!Holds(a, b, c) = Holds(a, b, c)
BY DEF Find!BitPos, Find!MemBits, Find!Addr, Find!Pos, Find!Base, Find!Load, Find!Lsr, Find!Least,
       Find!Holds, BitPos, MemBits, Addr, Pos, Base, Load, Lsr, Least, Holds

\* k is the first of the n places of w that holds v, or n.
FirstIn(w, n, v, k) ==
  /\ k \in 0 .. n
  /\ \A i \in 0 .. (k - 1) : w[i] # v
  /\ k < n => w[k] = v

\* std::countr_zero, as find uses it.
LEMMA TrailingIs ==
  ASSUME NEW w
  PROVE  FirstIn(w, W, value, Find!NumTrailingComplementary(w))
<1> DEFINE S == {i \in BitPos : w[i] = value} \cup {W}
<1>1. S \in SUBSET Nat /\ S # {} /\ S \in SUBSET Int
  BY Widths DEF BitPos
<1>2. PICK k \in S : \A y \in S : k <= y
  BY <1>1, HasLeast
<1>3. Find!NumTrailingComplementary(w) = k
  BY <1>1, <1>2, MinIs, FindWords DEF Find!NumTrailingComplementary
<1>4. k \in 0 .. W
  BY <1>1, <1>2, Widths DEF BitPos
<1>5. ASSUME NEW i \in 0 .. (k - 1) PROVE w[i] # value
  BY <1>2, <1>4, Widths, i \in BitPos DEF BitPos
<1> QED BY <1>2, <1>3, <1>4, <1>5 DEF FirstIn

\* No bit of m from lo up to hi is v.
Missed(m, lo, hi, v) == \A a \in lo .. (hi - 1) : m[a] # v

\* A window of n bits of the memory in the low end of a word: v is found in it,
\* or it is not in the n bits.
LEMMA Window ==
  ASSUME NEW m, NEW v, NEW w, NEW lo \in Int, NEW a \in Int, NEW n \in Nat, lo <= a, n <= W,
         \A i \in 0 .. (n - 1) : w[i] = m[a + i],
         Missed(m, lo, a, v), NEW k, FirstIn(w, W, v, k)
  PROVE  /\ k \in 0 .. W
         /\ k >= n => Missed(m, lo, a + n, v)
         /\ k < n => Missed(m, lo, a + k, v) /\ m[a + k] = v
<1>1. k \in 0 .. W /\ (k < W => w[k] = v)
  BY DEF FirstIn
<1>2. ASSUME NEW h \in 0 .. n, h <= k PROVE Missed(m, lo, a + h, v)
  <2> SUFFICES ASSUME NEW x \in lo .. (a + h - 1) PROVE m[x] # v
    BY DEF Missed
  <2>1. CASE x < a
    BY <2>1 DEF Missed
  <2>2. CASE x >= a
    <3>1. x - a \in 0 .. (n - 1) /\ x - a \in 0 .. (k - 1) /\ a + (x - a) = x
      BY <1>1, <1>2, <2>2
    <3> QED BY <3>1 DEF FirstIn
  <2> QED BY <2>1, <2>2
<1>3. k < n => m[a + k] = v
  BY <1>1, Widths
<1> QED BY <1>1, <1>2, <1>3

FindInv ==
  /\ Find!TypeOK
  /\ Find!AccessInRange
  /\ pc = "start" => it = Base(first)
  /\ pc = "words" => first <= it /\ Missed(mem, first, it, value)
  /\ pc = "done"  => /\ Missed(mem, first, result, value)
                     /\ result < last => mem[result] = value

\* The types of find, in the terms of BitWord.
LEMMA FindFacts ==
  ASSUME FindInv
  PROVE  /\ mem \in [Addr -> Bit] /\ value \in Bit
         /\ first \in Nat /\ last \in Nat /\ first <= last /\ last <= MemBits
         /\ it \in Int /\ Base(first) <= it /\ it <= Base(last) /\ Pos(it) = 0
         /\ result \in first .. last
         /\ W \in Nat /\ W > 0
         /\ Pos(first) \in 0 .. (W - 1) /\ Base(first) \in Int /\ first = Base(first) + Pos(first)
         /\ Pos(last) \in 0 .. (W - 1) /\ Base(last) \in Int /\ last = Base(last) + Pos(last)
<1>1. first \in Nat /\ last \in Nat
  BY DEF FindInv, Find!TypeOK
<1>2. /\ Pos(first) \in 0 .. (W - 1) /\ Base(first) \in Int /\ first = Base(first) + Pos(first)
      /\ Pos(last) \in 0 .. (W - 1) /\ Base(last) \in Int /\ last = Base(last) + Pos(last)
  BY <1>1, RangeFacts
<1> QED BY <1>1, <1>2, Widths, FindWords DEF FindInv, Find!TypeOK

\* What a step that leaves the call alone has to show.
LEMMA FindKeeps ==
  ASSUME FindInv, mem' = mem, first' = first, last' = last, value' = value,
         it' \in Int, Base(first) <= it', it' <= Base(last), Pos(it') = 0,
         result' \in first .. last,
         pc' \in {"words", "done"},
         used' \in SUBSET Int, \A b \in used' : Holds(b, first, last),
         pc' = "words" => first <= it' /\ Missed(mem, first, it', value),
         pc' = "done" => /\ Missed(mem, first, result', value)
                         /\ result' < last => mem[result'] = value
  PROVE  FindInv'
<1>1. Find!TypeOK'
  BY FindFacts, FindWords DEF Find!TypeOK
<1>2. Find!AccessInRange'
  BY FindWords DEF Find!AccessInRange
<1> QED BY <1>1, <1>2 DEF FindInv

LEMMA LowBits ==
  ASSUME NEW m, NEW a \in Int, NEW p \in Int, NEW b \in Int, b = a + p,
         NEW i \in BitPos, 0 <= p, i + p < W
  PROVE  Lsr(Load(m, a), p)[i] = m[b + i]
<1>1. i + p \in BitPos /\ a + (i + p) = b + i
  BY Widths DEF BitPos
<1> QED BY <1>1, LsrBit, LoadBit

LEMMA NothingBefore ==
  ASSUME NEW m, NEW lo \in Int, NEW v
  PROVE  Missed(m, lo, lo, v)
BY DEF Missed

LEMMA FindInOnlyStep ==
  ASSUME FindInv, Find!FindInOnly
  PROVE  FindInv'
<1> DEFINE p == Pos(first)
           w == Lsr(Load(mem, Base(first)), p)
           n == last - first
           k == Find!NumTrailingComplementary(w)
<1>1. /\ p # 0 /\ Base(first) + (IF Pos(last) = 0 THEN W ELSE 0) = Base(last)
      /\ used' = {Base(first)}
      /\ result' = first + Least(k, last - first) /\ pc' = "done"
      /\ mem' = mem /\ first' = first /\ last' = last /\ value' = value /\ it' = it
  BY FindWords DEF Find!FindInOnly, Find!OneWord, Find!FirstWord, Find!Return, Find!Call
<1>2. n \in Nat /\ n <= W - p /\ Base(first) < last
  BY <1>1, FindFacts
<1>3. ASSUME NEW i \in 0 .. (n - 1) PROVE w[i] = mem[first + i]
  <2>1. i \in BitPos /\ p \in Int /\ 0 <= p /\ i + p < W
    BY <1>2, FindFacts DEF BitPos
  <2> QED BY <2>1, FindFacts, LowBits
<1>4. FirstIn(w, W, value, k)
  BY TrailingIs
<1>5. Missed(mem, first, first, value)
  BY FindFacts, NothingBefore
<1> HIDE DEF w, k
<1>6. /\ k \in 0 .. W
      /\ k >= n => Missed(mem, first, first + n, value)
      /\ k < n => Missed(mem, first, first + k, value) /\ mem[first + k] = value
  BY <1>2, <1>3, <1>4, <1>5, FindFacts, Window
<1>7. /\ result' \in first .. last
      /\ Missed(mem, first, result', value)
      /\ result' < last => mem[result'] = value
  <2>1. CASE k >= n
    <3>1. result' = last /\ first + n = last
      BY <1>1, <1>2, <1>6, <2>1, FindFacts, LeastIs DEF Least
    <3> QED BY <1>6, <2>1, <3>1, FindFacts
  <2>2. CASE k < n
    <3>1. result' = first + k
      BY <1>1, <1>2, <1>6, <2>2, FindFacts DEF Least
    <3> QED BY <1>2, <1>6, <2>2, <3>1, FindFacts
  <2> QED BY <1>2, <1>6, <2>1, <2>2
<1>8. \A b \in used' : Holds(b, first, last)
  BY <1>1, <1>2, FindFacts, HoldsIs
<1> QED BY <1>1, <1>7, <1>8, FindFacts, FindKeeps

LEMMA FindInFirstStep ==
  ASSUME FindInv, Find!FindInFirst
  PROVE  FindInv'
<1> DEFINE p == Pos(first)
           w == Lsr(Load(mem, Base(first)), p)
           n == W - p
           k == Find!NumTrailingComplementary(w)
<1>1. /\ p # 0 /\ Base(first) + (IF Pos(last) = 0 THEN W ELSE 0) # Base(last)
      /\ used' = {Base(first)}
      /\ it = Base(first)
      /\ IF k + p < W THEN result' = first + k /\ pc' = "done" /\ it' = it
                      ELSE it' = it + W /\ pc' = "words" /\ result' = result
      /\ mem' = mem /\ first' = first /\ last' = last /\ value' = value
  BY FindWords DEF Find!FindInFirst, Find!OneWord, Find!FirstWord, Find!Return, Find!Call, FindInv
<1>2. n \in Nat /\ n <= W /\ first + n = Base(first) + W /\ Base(first) < last
      /\ first + n <= Base(last)
  <2>1. Base(first) < last
    BY <1>1, FindFacts
  <2>2. Base(first) = Base(last) \/ Base(first) + W <= Base(last)
    BY <2>1, FindFacts, AlignedGap, BaseAligned
  <2> QED BY <1>1, <2>1, <2>2, FindFacts
<1>3. ASSUME NEW i \in 0 .. (n - 1) PROVE w[i] = mem[first + i]
  <2>1. i \in BitPos /\ p \in Int /\ 0 <= p /\ i + p < W
    BY <1>2, FindFacts DEF BitPos
  <2> QED BY <2>1, FindFacts, LowBits
<1>4. FirstIn(w, W, value, k)
  BY TrailingIs
<1>5. Missed(mem, first, first, value)
  BY FindFacts, NothingBefore
<1> HIDE DEF w, k
<1>6. /\ k \in 0 .. W
      /\ k >= n => Missed(mem, first, first + n, value)
      /\ k < n => Missed(mem, first, first + k, value) /\ mem[first + k] = value
  BY <1>2, <1>3, <1>4, <1>5, FindFacts, Window
<1>7. \A b \in used' : Holds(b, first, last)
  BY <1>1, <1>2, FindFacts, HoldsIs
<1>8. CASE k + p < W
  <2>1. /\ result' \in first .. last /\ pc' = "done" /\ it' = it
        /\ Missed(mem, first, result', value) /\ mem[result'] = value
    BY <1>1, <1>2, <1>6, <1>8, FindFacts
  <2> QED BY <1>1, <1>7, <2>1, FindFacts, FindKeeps
<1>9. CASE ~(k + p < W)
  <2>1. /\ result' = result /\ pc' = "words" /\ it' = first + n
        /\ Missed(mem, first, it', value)
    BY <1>1, <1>2, <1>6, <1>9, FindFacts
  <2>2. Pos(it') = 0
    BY <1>1, <1>9, FindFacts, AlignedStep
  <2> QED BY <1>1, <1>2, <1>7, <2>1, <2>2, FindFacts, FindKeeps
<1> QED BY <1>8, <1>9

LEMMA AlignedFirstStep ==
  ASSUME FindInv, Find!AlignedFirst
  PROVE  FindInv'
<1>1. /\ Pos(first) = 0 /\ it = Base(first)
      /\ used' = {} /\ pc' = "words" /\ it' = it /\ result' = result
      /\ mem' = mem /\ first' = first /\ last' = last /\ value' = value
  BY FindWords DEF Find!AlignedFirst, Find!Call, FindInv
<1>2. it = first /\ Missed(mem, first, it', value)
  BY <1>1, FindFacts, NothingBefore
<1> QED BY <1>1, <1>2, FindFacts, FindKeeps

LEMMA SkipWordStep ==
  ASSUME FindInv, Find!SkipWord
  PROVE  FindInv'
<1>1. /\ it # Base(last) /\ \A i \in BitPos : Load(mem, it)[i] # value
      /\ it' = it + W /\ used' = {it} /\ result' = result /\ pc' = "words"
      /\ mem' = mem /\ first' = first /\ last' = last /\ value' = value
      /\ first <= it /\ Missed(mem, first, it, value)
  BY FindWords DEF Find!SkipWord, Find!HasNone, Find!Call, FindInv
<1>2. it + W <= Base(last) /\ it < last /\ Pos(it') = 0
  <2>1. it < last
    BY <1>1, FindFacts
  <2>2. it + W <= Base(last)
    BY <1>1, <2>1, FindFacts, AlignedGap
  <2>3. Pos(it + W) = 0
    BY FindFacts, AlignedStep
  <2> QED BY <1>1, <2>1, <2>2, <2>3
<1>3. Missed(mem, first, it', value)
  <2> SUFFICES ASSUME NEW x \in first .. ((it + W) - 1) PROVE mem[x] # value
    BY <1>1 DEF Missed
  <2>1. CASE x < it
    BY <1>1, <2>1, FindFacts DEF Missed
  <2>2. CASE x >= it
    <3>1. x - it \in BitPos /\ it + (x - it) = x
      BY <2>2, FindFacts DEF BitPos
    <3> QED BY <1>1, <3>1, LoadBit
  <2> QED BY <2>1, <2>2, FindFacts
<1>4. \A b \in used' : Holds(b, first, last)
  BY <1>1, <1>2, FindFacts, HoldsIs
<1> QED BY <1>1, <1>2, <1>3, <1>4, FindFacts, FindKeeps

LEMMA FindInWordStep ==
  ASSUME FindInv, Find!FindInWord
  PROVE  FindInv'
<1> DEFINE w == Load(mem, it)
           k == Find!NumTrailingComplementary(w)
<1>1. /\ it # Base(last) /\ ~ \A i \in BitPos : w[i] # value
      /\ it' = it /\ used' = {it} /\ result' = it + k /\ pc' = "done"
      /\ mem' = mem /\ first' = first /\ last' = last /\ value' = value
      /\ first <= it /\ Missed(mem, first, it, value)
  BY FindWords DEF Find!FindInWord, Find!HasNone, Find!Return, Find!Call, FindInv
<1>2. it + W <= Base(last) /\ it < last
  BY <1>1, FindFacts, AlignedGap
<1>3. ASSUME NEW i \in 0 .. (W - 1) PROVE w[i] = mem[it + i]
  BY LoadBit DEF BitPos
<1>4. FirstIn(w, W, value, k)
  BY TrailingIs
<1>5. k < W
  BY <1>1, <1>4, FindFacts DEF FirstIn, BitPos
<1> HIDE DEF w, k
<1>6. k \in 0 .. W /\ Missed(mem, first, it + k, value) /\ mem[it + k] = value
  <2>1. first \in Int /\ it \in Int /\ W \in Nat /\ first <= it /\ W <= W
        /\ Missed(mem, first, it, value)
    BY <1>1, FindFacts
  <2> QED BY <2>1, <1>3, <1>4, <1>5, Window
<1>7. \A b \in used' : Holds(b, first, last)
  BY <1>1, <1>2, FindFacts, HoldsIs
<1>8. result' \in first .. last
  BY <1>1, <1>2, <1>5, <1>6, FindFacts
<1> QED BY <1>1, <1>6, <1>7, <1>8, FindFacts, FindKeeps

LEMMA FindInLastStep ==
  ASSUME FindInv, Find!FindInLast
  PROVE  FindInv'
<1> DEFINE n == Pos(last)
           w == Load(mem, it)
           k == Find!NumTrailingComplementary(w)
<1>1. /\ it = Base(last) /\ it' = it /\ pc' = "done"
      /\ IF n # 0 THEN used' = {it} /\ result' = it + Least(k, n)
                   ELSE used' = {} /\ result' = last
      /\ mem' = mem /\ first' = first /\ last' = last /\ value' = value
      /\ first <= it /\ Missed(mem, first, it, value)
  BY FindWords DEF Find!FindInLast, Find!Return, Find!Call, FindInv
<1>2. n \in Nat /\ n <= W /\ it + n = last
  BY <1>1, FindFacts
<1>3. ASSUME NEW i \in 0 .. (n - 1) PROVE w[i] = mem[it + i]
  BY <1>2, FindFacts, LoadBit DEF BitPos
<1>4. FirstIn(w, W, value, k)
  BY TrailingIs
<1> HIDE DEF w, k
<1>5. /\ k \in 0 .. W
      /\ k >= n => Missed(mem, first, it + n, value)
      /\ k < n => Missed(mem, first, it + k, value) /\ mem[it + k] = value
  <2>1. first \in Int /\ it \in Int /\ first <= it /\ Missed(mem, first, it, value)
    BY <1>1, FindFacts
  <2> QED BY <2>1, <1>2, <1>3, <1>4, Window
<1>6. result' = it + Least(k, n)
  BY <1>1, <1>2, <1>5, FindFacts DEF Least
<1>7. /\ result' \in first .. last
      /\ Missed(mem, first, result', value)
      /\ result' < last => mem[result'] = value
  <2>1. CASE k >= n
    <3>1. result' = last
      BY <1>2, <1>5, <1>6, <2>1, FindFacts DEF Least
    <3> QED BY <1>2, <1>5, <2>1, <3>1, FindFacts
  <2>2. CASE k < n
    <3>1. result' = it + k
      BY <1>2, <1>5, <1>6, <2>2, FindFacts DEF Least
    <3> QED BY <1>1, <1>2, <1>5, <2>2, <3>1, FindFacts
  <2> QED BY <1>2, <1>5, <2>1, <2>2
<1>8. used' \in SUBSET Int /\ \A b \in used' : Holds(b, first, last)
  <2>1. CASE n # 0
    BY <1>1, <1>2, <2>1, FindFacts, HoldsIs
  <2>2. CASE n = 0
    BY <1>1, <2>2
  <2> QED BY <2>1, <2>2
<1> QED BY <1>1, <1>7, <1>8, FindFacts, FindKeeps

LEMMA FindInit ==
  ASSUME Find!Init
  PROVE  FindInv
<1>1. /\ mem \in [Addr -> Bit]
      /\ first \in 0 .. MemBits /\ last \in 0 .. MemBits /\ first <= last
      /\ value \in Bit /\ it = Base(first) /\ result = last /\ pc = "start" /\ used = {}
  BY FindWords DEF Find!Init
<1>2. first \in Nat /\ last \in Nat /\ first <= last /\ last <= MemBits
  BY <1>1, Widths
<1>3. /\ Base(first) \in Int /\ Base(last) \in Int
      /\ Base(first) <= Base(last) /\ Pos(Base(first)) = 0
  BY <1>2, PosRange, BaseMonotone, BaseAligned
<1> QED BY <1>1, <1>2, <1>3, FindWords DEF FindInv, Find!TypeOK, Find!AccessInRange

LEMMA FindNext ==
  ASSUME FindInv, Find!Next
  PROVE  FindInv'
<1>1. CASE Find!Finished
  BY <1>1 DEF Find!Finished, Find!vars, FindInv, Find!TypeOK, Find!AccessInRange
<1> QED BY <1>1, FindInOnlyStep, FindInFirstStep, AlignedFirstStep, SkipWordStep, FindInWordStep,
           FindInLastStep DEF Find!Next

LEMMA FindReturns ==
  ASSUME FindInv
  PROVE  Find!FindCorrect
<1> SUFFICES ASSUME pc = "done"
             PROVE  result = Find!Min({a \in first .. (last - 1) : mem[a] = value} \cup {last})
  BY DEF Find!FindCorrect
<1> DEFINE S == {a \in first .. (last - 1) : mem[a] = value} \cup {last}
<1>1. Missed(mem, first, result, value) /\ (result < last => mem[result] = value)
  BY DEF FindInv
<1>2. S \in SUBSET Int /\ result \in S
  BY <1>1, FindFacts
<1>3. ASSUME NEW y \in S PROVE result <= y
  BY <1>1, FindFacts DEF Missed
<1> QED BY <1>2, <1>3, MinIs

LEMMA FindImplies ==
  ASSUME FindInv
  PROVE  Find!TypeOK /\ Find!FindCorrect /\ Find!NothingMissed /\ Find!AccessInRange
BY FindReturns DEF FindInv, Find!NothingMissed, Missed

----------------------------------------------------------------------------
(* count                                                                   *)

LEMMA CountWords ==
  /\ Count!BitPos = BitPos /\ Count!MemBits = MemBits /\ Count!Addr = Addr
  /\ \A a : Count!Pos(a) = Pos(a) /\ Count!Base(a) = Base(a)
  /\ \A m, b : Count!Load(m, b) = Load(m, b)
  /\ \A w, k : Count!Lsr(w, k) = Lsr(w, k) /\ Count!Lsl(w, k) = Lsl(w, k)
  /\ \A a, b, c : Count!Holds(a, b, c) = Holds(a, b, c)
BY DEF Count!BitPos, Count!MemBits, Count!Addr, Count!Pos, Count!Base, Count!Load, Count!Lsr,
       Count!Lsl, Count!Holds, BitPos, MemBits, Addr, Pos, Base, Load, Lsr, Lsl, Holds

LEMMA CountCardinality == \A S : Count!Cardinality(S) = Cardinality(S)
BY DEF Count!Cardinality, Cardinality

\* The bits of m from lo up to hi that are v, and how many they are.
Those(m, lo, hi, v)   == {a \in lo .. (hi - 1) : m[a] = v}
HowMany(m, lo, hi, v) == Cardinality(Those(m, lo, hi, v))

LEMMA IntervalSize ==
  ASSUME NEW lo \in Int, NEW hi \in Int, lo <= hi
  PROVE  IsFiniteSet(lo .. (hi - 1)) /\ Cardinality(lo .. (hi - 1)) = hi - lo
<1> DEFINE b == hi - 1
<1>1. b \in Int /\ (IF lo > b THEN 0 ELSE b - lo + 1) = hi - lo
  OBVIOUS
<1>2. IsFiniteSet(lo .. b) /\ Cardinality(lo .. b) = IF lo > b THEN 0 ELSE b - lo + 1
  BY <1>1, FS_Interval
<1> QED BY <1>1, <1>2

LEMMA HowManyBound ==
  ASSUME NEW m, NEW lo \in Int, NEW hi \in Int, lo <= hi, NEW v
  PROVE  IsFiniteSet(Those(m, lo, hi, v)) /\ HowMany(m, lo, hi, v) \in 0 .. (hi - lo)
<1>1. IsFiniteSet(lo .. (hi - 1)) /\ Cardinality(lo .. (hi - 1)) = hi - lo
  BY IntervalSize
<1>2. Those(m, lo, hi, v) \in SUBSET (lo .. (hi - 1))
  BY DEF Those
<1>3. /\ IsFiniteSet(Those(m, lo, hi, v))
      /\ Cardinality(Those(m, lo, hi, v)) <= hi - lo
  BY <1>1, <1>2, FS_Subset
<1>4. Cardinality(Those(m, lo, hi, v)) \in Nat
  BY <1>3, FS_CardinalityType
<1> QED BY <1>3, <1>4 DEF HowMany

LEMMA HowManyNone ==
  ASSUME NEW m, NEW lo \in Int, NEW v
  PROVE  HowMany(m, lo, lo, v) = 0
<1>1. lo .. (lo - 1) = {}
  OBVIOUS
<1>2. Those(m, lo, lo, v) = {}
  BY <1>1 DEF Those
<1> QED BY <1>2, FS_EmptySet DEF HowMany

\* Counting in two parts.
LEMMA HowManySplit ==
  ASSUME NEW m, NEW lo \in Int, NEW mid \in Int, NEW hi \in Int, lo <= mid, mid <= hi, NEW v
  PROVE  HowMany(m, lo, hi, v) = HowMany(m, lo, mid, v) + HowMany(m, mid, hi, v)
<1> DEFINE S == Those(m, lo, mid, v)
           T == Those(m, mid, hi, v)
<1>1. IsFiniteSet(S) /\ IsFiniteSet(T) /\ Cardinality(S) \in Nat /\ Cardinality(T) \in Nat
  BY HowManyBound, FS_CardinalityType
<1>2. S \cap T = {} /\ S \cup T = Those(m, lo, hi, v)
  BY DEF Those
<1>3. Cardinality(S \cup T) = Cardinality(S) + Cardinality(T) - Cardinality(S \cap T)
  BY <1>1, FS_Union
<1> QED BY <1>1, <1>2, <1>3, FS_EmptySet DEF HowMany

\* The bits that are not One are Zero.
LEMMA HowManyZeros ==
  ASSUME NEW m, NEW lo \in Int, NEW hi \in Int, lo <= hi, \A a \in lo .. (hi - 1) : m[a] \in Bit
  PROVE  HowMany(m, lo, hi, Zero) = (hi - lo) - HowMany(m, lo, hi, One)
<1> DEFINE I == lo .. (hi - 1)
           T == Those(m, lo, hi, One)
<1>1. IsFiniteSet(I) /\ Cardinality(I) = hi - lo
  BY IntervalSize
<1>2. Cardinality(I \ T) = Cardinality(I) - Cardinality(I \cap T)
  BY <1>1, FS_Difference
<1>3. I \cap T = T /\ I \ T = Those(m, lo, hi, Zero)
  BY TwoValuesAssumption DEF Those
<1> QED BY <1>1, <1>2, <1>3 DEF HowMany

\* The word w holds the n bits of m at a from place s on, and zeros elsewhere.
HasAt(w, m, a, n, s) ==
  /\ \A i \in 0 .. (n - 1) : w[s + i] = m[a + i]
  /\ \A i \in BitPos : i < s \/ i >= s + n => w[i] = Zero

\* std::popcount of such a word.
LEMMA PopCountIs ==
  ASSUME NEW m, NEW a \in Int, NEW n \in Nat, NEW s \in Nat, s + n <= W, NEW w,
         HasAt(w, m, a, n, s)
  PROVE  Count!PopCount(w) = HowMany(m, a, a + n, One)
<1> DEFINE S == Those(m, a, a + n, One)
           T == {i \in BitPos : w[i] = One}
           f == [x \in S |-> s + (x - a)]
<1>1. ASSUME NEW x \in S PROVE f[x] \in T
  <2>1. x \in Int /\ x - a \in 0 .. (n - 1) /\ a + (x - a) = x /\ m[x] = One
    BY DEF Those
  <2>2. f[x] = s + (x - a) /\ f[x] \in BitPos
    BY <2>1, Widths DEF BitPos
  <2>3. w[s + (x - a)] = m[a + (x - a)]
    BY <2>1 DEF HasAt
  <2> QED BY <2>1, <2>2, <2>3
<1>2. ASSUME NEW i \in T PROVE \E x \in S : f[x] = i
  <2>1. i \in BitPos /\ w[i] = One /\ i \in Int
    BY Widths DEF BitPos
  <2>2. s <= i /\ i < s + n
    BY <2>1, TwoValuesAssumption DEF HasAt
  <2>3. i - s \in 0 .. (n - 1) /\ s + (i - s) = i
    BY <2>1, <2>2
  <2>4. m[a + (i - s)] = One
    BY <2>1, <2>3 DEF HasAt
  <2>5. a + (i - s) \in S
    BY <2>1, <2>3, <2>4 DEF Those
  <2>6. f[a + (i - s)] = i
    BY <2>1, <2>5
  <2> QED BY <2>5, <2>6
<1>3. ASSUME NEW x \in S, NEW y \in S, f[x] = f[y] PROVE x = y
  <2>1. x \in Int /\ y \in Int
    BY DEF Those
  <2> QED BY <1>3, <2>1
<1>4. f \in Bijection(S, T)
  BY <1>1, <1>2, <1>3 DEF Bijection, Injection, Surjection, IsInjective
<1>5. ExistsBijection(S, T)
  BY <1>4 DEF ExistsBijection
<1>6. IsFiniteSet(S)
  <2>1. a + n \in Int /\ a <= a + n
    OBVIOUS
  <2> QED BY <2>1, HowManyBound
<1>7. Cardinality(T) = Cardinality(S)
  BY <1>5, <1>6, FS_Bijection
<1> QED BY <1>7, CountWords, CountCardinality DEF Count!PopCount, HowMany

CountInv ==
  /\ Count!TypeOK
  /\ Count!AccessInRange
  /\ pc = "start" => it = Base(first) /\ result = 0
  /\ pc \in {"words", "last"} => /\ Base(first) # Base(last) /\ first <= it
                                 /\ result = HowMany(mem, first, it, One)
  /\ pc = "last" => it = Base(last)
  /\ pc = "value" => result = HowMany(mem, first, last, One)
  /\ pc = "done" => result = HowMany(mem, first, last, value)

LEMMA CountFacts ==
  ASSUME CountInv
  PROVE  /\ mem \in [Addr -> Bit] /\ value \in Bit
         /\ first \in Nat /\ last \in Nat /\ first <= last /\ last <= MemBits
         /\ it \in Int /\ Base(first) <= it /\ it <= Base(last)
         /\ result \in Int
         /\ W \in Nat /\ W > 0
         /\ Pos(first) \in 0 .. (W - 1) /\ Base(first) \in Int /\ first = Base(first) + Pos(first)
         /\ Pos(last) \in 0 .. (W - 1) /\ Base(last) \in Int /\ last = Base(last) + Pos(last)
<1>1. /\ mem \in [Addr -> Bit] /\ value \in Bit
      /\ first \in Nat /\ last \in Nat /\ first <= last /\ last <= MemBits
      /\ it \in Base(first) .. Base(last) /\ result \in 0 .. (last - first)
  BY CountWords DEF CountInv, Count!TypeOK
<1>2. /\ Pos(first) \in 0 .. (W - 1) /\ Base(first) \in Int /\ first = Base(first) + Pos(first)
      /\ Pos(last) \in 0 .. (W - 1) /\ Base(last) \in Int /\ last = Base(last) + Pos(last)
  BY <1>1, RangeFacts
<1> QED BY <1>1, <1>2, Widths

LEMMA CountKeeps ==
  ASSUME CountInv, mem' = mem, first' = first, last' = last, value' = value,
         it' \in Int, Base(first) <= it', it' <= Base(last),
         pc' \in {"words", "last", "value", "done"},
         used' \in SUBSET Int, \A b \in used' : first # last => Holds(b, first, last),
         pc' \in {"words", "last"} => /\ Base(first) # Base(last) /\ first <= it'
                                      /\ result' = HowMany(mem, first, it', One),
         pc' = "last" => it' = Base(last),
         pc' = "value" => result' = HowMany(mem, first, last, One),
         pc' = "done" => result' = HowMany(mem, first, last, value)
  PROVE  CountInv'
<1>1. PICK h \in {it', last}, v \in {value, One} :
        result' = HowMany(mem, first, h, v) /\ first <= h
  BY CountFacts
<1>2. result' \in 0 .. (last - first)
  <2>1. h \in Int /\ h <= last
    BY CountFacts
  <2>2. HowMany(mem, first, h, v) \in 0 .. (h - first)
    BY <1>1, <2>1, CountFacts, HowManyBound
  <2> QED BY <1>1, <2>1, <2>2, CountFacts
<1>3. Count!TypeOK'
  BY <1>2, CountFacts, CountWords DEF Count!TypeOK
<1>4. Count!AccessInRange'
  BY CountWords DEF Count!AccessInRange
<1> QED BY <1>3, <1>4 DEF CountInv

LEMMA SeveralStep ==
  ASSUME CountInv, Count!Several
  PROVE  CountInv'
<1> DEFINE p == Pos(first)
           w == Lsr(Load(mem, Base(first)), p)
<1>1. /\ Base(first) # Base(last) /\ it = Base(first) /\ result = 0
      /\ IF p # 0 THEN result' = Count!PopCount(w) /\ it' = it + W /\ used' = {it}
                  ELSE used' = {} /\ result' = result /\ it' = it
      /\ pc' = "words"
      /\ mem' = mem /\ first' = first /\ last' = last /\ value' = value
  BY CountWords DEF Count!Several, Count!Call, CountInv
<1>2. Base(first) < last /\ Base(first) + W <= Base(last)
  <2>1. Base(first) < last
    BY <1>1, CountFacts, BaseMonotone
  <2> QED BY <1>1, <2>1, CountFacts, AlignedGap, BaseAligned
<1>3. CASE p # 0
  <2> DEFINE n == W - p
  <2>1. n \in Nat /\ 0 + n <= W /\ first + n = Base(first) + W
    BY CountFacts
  <2>2. ASSUME NEW i \in 0 .. (n - 1) PROVE w[0 + i] = mem[first + i]
    <3>1. i \in BitPos /\ p \in Int /\ 0 <= p /\ i + p < W /\ 0 + i = i
      BY <2>1, CountFacts DEF BitPos
    <3> QED BY <3>1, CountFacts, LowBits
  <2>3. ASSUME NEW i \in BitPos, i < 0 \/ i >= 0 + n PROVE w[i] = Zero
    <3>1. ~(i + p < W)
      BY <2>1, <2>3, CountFacts DEF BitPos
    <3> QED BY <3>1, LsrBit
  <2> HIDE DEF w, n
  <2>4. Count!PopCount(w) = HowMany(mem, first, first + n, One)
    <3>1. first \in Int /\ 0 \in Nat
      BY CountFacts
    <3>2. HasAt(w, mem, first, n, 0)
      BY <2>2, <2>3 DEF HasAt
    <3> QED BY <2>1, <3>1, <3>2, PopCountIs
  <2>5. result' = HowMany(mem, first, it', One) /\ first <= it'
    BY <1>1, <1>3, <2>1, <2>4, CountFacts
  <2>6. used' \in SUBSET Int /\ \A b \in used' : Holds(b, first, last)
    BY <1>1, <1>2, <1>3, CountFacts, HoldsIs
  <2> QED BY <1>1, <1>2, <1>3, <2>5, <2>6, CountFacts, CountKeeps
<1>4. CASE p = 0
  <2>1. it' = first /\ result' = HowMany(mem, first, it', One)
    BY <1>1, <1>4, CountFacts, HowManyNone
  <2> QED BY <1>1, <1>2, <1>4, <2>1, CountFacts, CountKeeps
<1> QED BY <1>3, <1>4

LEMMA WordsStep ==
  ASSUME CountInv, Count!Words
  PROVE  CountInv'
<1>1. /\ Base(first) # Base(last) /\ first <= it
      /\ result = HowMany(mem, first, it, One)
      /\ result' = result + HowMany(mem, it, Base(last), One)
      /\ used' = {b \in it .. (Base(last) - 1) : Pos(b) = 0}
      /\ it' = Base(last) /\ pc' = "last"
      /\ mem' = mem /\ first' = first /\ last' = last /\ value' = value
  BY CountWords, CountCardinality
     DEF Count!Words, Count!PopCountWords, Count!Call, CountInv, HowMany, Those
<1>2. HowMany(mem, first, Base(last), One) = result'
  BY <1>1, CountFacts, HowManySplit
<1>3. used' \in SUBSET Int /\ \A b \in used' : Holds(b, first, last)
  BY <1>1, CountFacts, HoldsIs
<1>4. Base(first) <= Base(last) /\ first <= Base(last)
  BY <1>1, CountFacts
<1> QED BY <1>1, <1>2, <1>3, <1>4, CountFacts, CountKeeps

LEMMA LastWordStep ==
  ASSUME CountInv, Count!LastWord
  PROVE  CountInv'
<1> DEFINE n == Pos(last)
           s == W - n
           w == Lsl(Load(mem, it), s)
<1>1. /\ it = Base(last) /\ first <= it /\ result = HowMany(mem, first, it, One)
      /\ IF n # 0 THEN result' = result + Count!PopCount(w) /\ used' = {it}
                  ELSE used' = {} /\ result' = result
      /\ it' = it /\ pc' = "value"
      /\ mem' = mem /\ first' = first /\ last' = last /\ value' = value
  BY CountWords DEF Count!LastWord, Count!Call, CountInv
<1>2. CASE n # 0
  <2>1. n \in Nat /\ s \in Nat /\ s + n <= W /\ it + n = last /\ s + n = W /\ n > 0
    BY <1>1, <1>2, CountFacts
  <2>2. ASSUME NEW i \in 0 .. (n - 1) PROVE w[s + i] = mem[it + i]
    <3>1. s + i \in BitPos /\ s <= s + i /\ (s + i) - s = i /\ i \in BitPos
      BY <2>1, CountFacts DEF BitPos
    <3> QED BY <3>1, LslBit, LoadBit
  <2>3. ASSUME NEW i \in BitPos, i < s \/ i >= s + n PROVE w[i] = Zero
    <3>1. ~(s <= i)
      BY <2>1, <2>3, CountFacts DEF BitPos
    <3> QED BY <3>1, LslBit
  <2> HIDE DEF w, s, n
  <2>4. Count!PopCount(w) = HowMany(mem, it, it + n, One)
    <3>1. HasAt(w, mem, it, n, s)
      BY <2>2, <2>3 DEF HasAt
    <3> QED BY <2>1, <3>1, CountFacts, PopCountIs
  <2>5. result' = HowMany(mem, first, last, One)
    <3>1. it <= last
      BY <2>1, CountFacts
    <3>2. HowMany(mem, first, last, One) = HowMany(mem, first, it, One) + HowMany(mem, it, last, One)
      BY <1>1, <3>1, CountFacts, HowManySplit
    <3> QED BY <1>1, <1>2, <2>1, <2>4, <3>2
  <2>6. used' \in SUBSET Int /\ \A b \in used' : Holds(b, first, last)
    BY <1>1, <1>2, <2>1, CountFacts, HoldsIs
  <2> QED BY <1>1, <2>5, <2>6, CountFacts, CountKeeps
<1>3. CASE n = 0
  <2>1. it = last
    BY <1>1, <1>3, CountFacts
  <2> QED BY <1>1, <1>3, <2>1, CountFacts, CountKeeps
<1> QED BY <1>2, <1>3

LEMMA InWordStep ==
  ASSUME CountInv, Count!InWord
  PROVE  CountInv'
<1>1. /\ Base(first) = Base(last) /\ it = Base(first)
      /\ result' = Cardinality({i \in first .. (first + (Pos(last) - Pos(first)) - 1) : mem[i] = One})
      /\ used' = {Base(first)} /\ pc' = "value" /\ it' = it
      /\ mem' = mem /\ first' = first /\ last' = last /\ value' = value
  BY CountWords, CountCardinality DEF Count!InWord, Count!PopCountField, Count!Call, CountInv
<1>2. first + (Pos(last) - Pos(first)) - 1 = last - 1
  BY <1>1, CountFacts
<1>3. result' = HowMany(mem, first, last, One)
  BY <1>1, <1>2 DEF HowMany, Those
<1>4. used' \in SUBSET Int /\ \A b \in used' : first # last => Holds(b, first, last)
  BY <1>1, CountFacts, HoldsIs
<1> QED BY <1>1, <1>3, <1>4, CountFacts, CountKeeps

LEMMA NegateStep ==
  ASSUME CountInv, Count!Negate
  PROVE  CountInv'
<1>1. /\ result = HowMany(mem, first, last, One)
      /\ result' = IF value = Zero THEN (last - first) - result ELSE result
      /\ used' = {} /\ pc' = "done" /\ it' = it
      /\ mem' = mem /\ first' = first /\ last' = last /\ value' = value
  BY DEF Count!Negate, Count!Call, CountInv
<1>2. ASSUME NEW a \in first .. (last - 1) PROVE mem[a] \in Bit
  <2>1. a \in Addr
    BY CountFacts, Widths
  <2> QED BY <2>1, CountFacts
<1>3. HowMany(mem, first, last, Zero) = (last - first) - HowMany(mem, first, last, One)
  BY <1>2, CountFacts, HowManyZeros
<1>4. value = Zero \/ value = One
  BY CountFacts, TwoValuesAssumption
<1>5. result' = HowMany(mem, first, last, value)
  BY <1>1, <1>3, <1>4, TwoValuesAssumption
<1> QED BY <1>1, <1>5, CountFacts, CountKeeps

LEMMA CountInit ==
  ASSUME Count!Init
  PROVE  CountInv
<1>1. /\ mem \in [Addr -> Bit]
      /\ first \in 0 .. MemBits /\ last \in 0 .. MemBits /\ first <= last
      /\ value \in Bit /\ it = Base(first) /\ result = 0 /\ pc = "start" /\ used = {}
  BY CountWords DEF Count!Init
<1>2. first \in Nat /\ last \in Nat /\ first <= last /\ last <= MemBits
  BY <1>1, Widths
<1>3. Base(first) \in Int /\ Base(last) \in Int /\ Base(first) <= Base(last)
  BY <1>2, PosRange, BaseMonotone
<1> QED BY <1>1, <1>2, <1>3, CountWords DEF CountInv, Count!TypeOK, Count!AccessInRange

LEMMA CountNext ==
  ASSUME CountInv, Count!Next
  PROVE  CountInv'
<1>1. CASE Count!Finished
  BY <1>1 DEF Count!Finished, Count!vars, CountInv, Count!TypeOK, Count!AccessInRange
<1> QED BY <1>1, SeveralStep, WordsStep, LastWordStep, InWordStep, NegateStep DEF Count!Next

LEMMA CountImplies ==
  ASSUME CountInv
  PROVE  Count!TypeOK /\ Count!CountCorrect /\ Count!PartialCount /\ Count!AccessInRange
BY CountCardinality DEF CountInv, Count!CountCorrect, Count!PartialCount, HowMany, Those

----------------------------------------------------------------------------
(* count_msb                                                               *)

LEMMA CountMsbWords ==
  /\ CountMsb!BitPos = BitPos /\ CountMsb!MemBits = MemBits /\ CountMsb!Addr = Addr
  /\ CountMsb!Word = Word
  /\ \A a : CountMsb!Pos(a) = Pos(a)
  /\ \A a, b : CountMsb!Least(a, b) = Least(a, b)
  /\ \A m, a, n : CountMsb!GetWord(m, a, n) = GetWord(m, a, n)
  /\ \A w, n : CountMsb!MaskLow(w, n) = MaskLow(w, n)
BY DEF CountMsb!BitPos, CountMsb!MemBits, CountMsb!Addr, CountMsb!Word, CountMsb!Pos, CountMsb!Least,
       CountMsb!GetWord, CountMsb!MaskLow, CountMsb!Spans, CountMsb!Base, CountMsb!Load, CountMsb!Lsr,
       CountMsb!Lsl, CountMsb!BitBlend,
       BitPos, MemBits, Addr, Word, Pos, Least, GetWord, MaskLow, Spans, Base, Load, Lsr, Lsl, BitBlend

\* The k bits of m below hi are v, and the next one, if it is not below lo, is not.
LeadingIn(m, lo, hi, v, k) ==
  /\ k \in 0 .. (hi - lo)
  /\ \A a \in (hi - k) .. (hi - 1) : m[a] = v
  /\ k < hi - lo => m[(hi - k) - 1] # v

\* std::countl_zero and std::countl_one, as count_msb uses them.
LEMMA CountLeadingIs ==
  ASSUME NEW w
  PROVE  LeadingIn(w, 0, W, value, CountMsb!CountLeading(w))
<1> DEFINE S == {i + 1 : i \in {j \in BitPos : w[j] # value}} \cup {0}
<1>1. S \in SUBSET (0 .. W) /\ S # {} /\ S \in SUBSET Int /\ W \in Nat
  BY Widths DEF BitPos
<1>2. PICK x \in S : \A y \in S : y <= x
  BY <1>1, HasGreatest
<1>3. CountMsb!CountLeading(w) = W - x
  BY <1>1, <1>2, MaxIs, CountMsbWords DEF CountMsb!CountLeading
<1>4. x \in 0 .. W /\ W - (W - x) = x /\ W - x \in 0 .. (W - 0)
  BY <1>1, <1>2
<1>5. ASSUME NEW j \in x .. (W - 1) PROVE w[j] = value
  <2>1. j \in BitPos /\ j + 1 > x
    BY <1>1, <1>4 DEF BitPos
  <2>2. w[j] # value => j + 1 \in S
    BY <2>1
  <2> QED BY <1>2, <1>4, <2>1, <2>2
<1>6. x > 0 => w[x - 1] # value
  <2> HAVE x > 0
  <2>1. PICK i \in {j \in BitPos : w[j] # value} : x = i + 1
    BY <1>2
  <2>2. i = x - 1
    BY <2>1, Widths DEF BitPos
  <2> QED BY <2>1, <2>2
<1> QED BY <1>1, <1>3, <1>4, <1>5, <1>6 DEF LeadingIn

LEMMA LeadingIs ==
  ASSUME NEW a \in Int, last \in Int, a <= last, NEW v, NEW k, LeadingIn(mem, a, last, v, k)
  PROVE  CountMsb!Leading(a, v) = k
<1> DEFINE S == {i + 1 : i \in {j \in a .. (last - 1) : mem[j] # v}} \cup {a}
           x == last - k
<1>1. k \in 0 .. (last - a) /\ k \in Int /\ x \in Int /\ last - x = k /\ S \in SUBSET Int
  BY DEF LeadingIn
<1>2. x \in S
  <2>1. CASE k < last - a
    <3>1. x - 1 \in a .. (last - 1) /\ mem[x - 1] # v /\ (x - 1) + 1 = x
      BY <1>1, <2>1 DEF LeadingIn
    <3> QED BY <3>1
  <2>2. CASE k = last - a
    BY <1>1, <2>2
  <2> QED BY <1>1, <2>1, <2>2
<1>3. ASSUME NEW y \in S PROVE y <= x
  <2>1. CASE y = a
    BY <1>1, <2>1
  <2>2. CASE \E i \in {j \in a .. (last - 1) : mem[j] # v} : y = i + 1
    <3>1. PICK i \in a .. (last - 1) : mem[i] # v /\ y = i + 1
      BY <2>2
    <3>2. ~(i >= x)
      BY <1>1, <3>1 DEF LeadingIn
    <3> QED BY <1>1, <3>1, <3>2
  <2> QED BY <2>1, <2>2
<1> HIDE DEF x
<1>4. CountMsb!Max(S) = x
  BY <1>1, <1>2, <1>3, MaxIs
<1> QED BY <1>1, <1>4 DEF CountMsb!Leading

MsbInv ==
  /\ CountMsb!TypeOK
  /\ CountMsb!HandedInOrder
  /\ value = Zero
  /\ Pos(last) = 0 \/ (last - first) \div W <= 1
  /\ pc = "start" => src = last /\ result = 0
  /\ pc = "words" => LeadingIn(mem, src, last, Zero, last - src) /\ result = last - src
  /\ pc = "done"  => LeadingIn(mem, first, last, Zero, result)

LEMMA MsbFacts ==
  ASSUME MsbInv
  PROVE  /\ mem \in [Addr -> Bit] /\ value = Zero
         /\ first \in Nat /\ last \in Nat /\ first <= last /\ last <= MemBits
         /\ src \in first .. last /\ src \in Nat /\ remaining = src - first
         /\ result \in Int /\ top \in Int
         /\ W \in Nat /\ W > 0
BY CountMsbWords, Widths DEF MsbInv, CountMsb!TypeOK

\* What a step that leaves the call alone has to show.
LEMMA MsbKeeps ==
  ASSUME MsbInv, mem' = mem, first' = first, last' = last, value' = value,
         src' \in first .. last, remaining' = src' - first,
         pc' \in {"words", "done"},
         top' \in first .. last, got' \in Word,
         \A i \in 0 .. (top' - src' - 1) : got'[i] = mem[src' + i],
         pc' = "words" => LeadingIn(mem, src', last, Zero, last - src') /\ result' = last - src',
         pc' = "done"  => LeadingIn(mem, first, last, Zero, result')
  PROVE  MsbInv'
<1>1. result' \in 0 .. (last - first)
  BY MsbFacts DEF LeadingIn
<1>2. CountMsb!TypeOK'
  BY <1>1, MsbFacts, CountMsbWords DEF CountMsb!TypeOK, MsbInv
<1>3. CountMsb!HandedInOrder'
  BY DEF CountMsb!HandedInOrder
<1> QED BY <1>2, <1>3 DEF MsbInv

\* The bits of w are the n bits of the memory below src, and zeros above them.
Below(w, n) ==
  /\ w \in Word
  /\ \A i \in 0 .. (n - 1) : w[i] = mem[(src - n) + i]
  /\ \A i \in BitPos : i >= n => w[i] = Zero

\* A call of the operation that hands it n bits.
LEMMA OperateStep ==
  ASSUME MsbInv, pc = "words", NEW n \in Nat, 0 < n, n <= W, n <= src - first,
         NEW w, Below(w, n), NEW next \in {"words", "done"},
         CountMsb!Operate(w, n, next), next = "done" => src - n = first,
         src' = src - n, remaining' = remaining - n,
         mem' = mem, first' = first, last' = last, value' = value
  PROVE  MsbInv'
<1> DEFINE k == CountMsb!CountLeading(w)
<1>1. /\ result' = result + (k - (W - n))
      /\ top' = src /\ got' = w
      /\ pc' = IF \A i \in BitPos : w[i] = Zero THEN next ELSE "done"
  BY CountMsbWords DEF CountMsb!Operate, CountMsb!Added, CountMsb!KeepGoing
<1>2. LeadingIn(w, 0, W, Zero, k)
  BY CountLeadingIs, MsbFacts
<1> HIDE DEF k
<1>3. /\ k \in 0 .. W
      /\ \A a \in (W - k) .. (W - 1) : w[a] = Zero
      /\ k < W => w[(W - k) - 1] # Zero
  BY <1>2, MsbFacts DEF LeadingIn
<1>4. LeadingIn(mem, src, last, Zero, last - src) /\ result = last - src
  BY DEF MsbInv
<1>5. \A a \in src .. (last - 1) : mem[a] = Zero
  BY <1>4, MsbFacts DEF LeadingIn
<1>6. ASSUME \A i \in BitPos : w[i] = Zero
      PROVE  LeadingIn(mem, src', last, Zero, last - src') /\ result' = last - src'
  <2>1. k = W
    <3> SUFFICES ASSUME k < W PROVE FALSE
      BY <1>3, MsbFacts
    <3>1. (W - k) - 1 \in BitPos
      BY <1>3, MsbFacts DEF BitPos
    <3> QED BY <1>3, <1>6, <3>1
  <2>2. ASSUME NEW a \in src' .. (last - 1) PROVE mem[a] = Zero
    <3>1. CASE a >= src
      BY <1>5, <3>1, MsbFacts
    <3>2. CASE a < src
      <4>1. a - (src - n) \in 0 .. (n - 1) /\ a - (src - n) \in BitPos /\ (src - n) + (a - (src - n)) = a
        BY <3>2, MsbFacts DEF BitPos
      <4> QED BY <1>6, <4>1 DEF Below
    <3> QED BY <3>1, <3>2, MsbFacts
  <2>3. last - src' \in 0 .. (last - src') /\ last - (last - src') = src'
    BY MsbFacts
  <2>4. result' = last - src'
    BY <1>1, <1>4, <2>1, MsbFacts
  <2> QED BY <2>2, <2>3, <2>4 DEF LeadingIn
<1>7. ASSUME ~ \A i \in BitPos : w[i] = Zero
      PROVE  LeadingIn(mem, first, last, Zero, result')
  <2>1. k < W
    BY <1>3, <1>7, MsbFacts DEF BitPos
  <2>2. (W - k) - 1 \in BitPos /\ (W - k) - 1 < n
    <3>1. (W - k) - 1 \in BitPos
      BY <1>3, <2>1, MsbFacts DEF BitPos
    <3> QED BY <1>3, <2>1, <3>1, MsbFacts DEF Below
  <2>3. result' = (last - src) + (k - (W - n)) /\ result' \in 0 .. (last - first)
        /\ last - result' = (src - n) + (W - k)
    BY <1>1, <1>3, <1>4, <2>1, <2>2, MsbFacts
  <2>4. result' < last - first /\ mem[(last - result') - 1] # Zero
    <3>1. (W - k) - 1 \in 0 .. (n - 1) /\ (src - n) + ((W - k) - 1) = (last - result') - 1
      BY <1>3, <2>1, <2>2, <2>3, MsbFacts DEF BitPos
    <3>2. w[(W - k) - 1] = mem[(last - result') - 1]
      BY <3>1 DEF Below
    <3>3. result' < last - first
      BY <1>3, <2>1, <2>3, MsbFacts
    <3> QED BY <1>3, <2>1, <3>2, <3>3
  <2>5. ASSUME NEW a \in (last - result') .. (last - 1) PROVE mem[a] = Zero
    <3>1. CASE a >= src
      BY <1>5, <3>1, <2>3, MsbFacts
    <3>2. CASE a < src
      <4>1. /\ a - (src - n) \in 0 .. (n - 1) /\ (src - n) + (a - (src - n)) = a
            /\ a - (src - n) \in (W - k) .. (W - 1)
        BY <1>3, <2>1, <2>3, <3>2, MsbFacts
      <4> QED BY <1>3, <4>1 DEF Below
    <3> QED BY <2>3, <3>1, <3>2, MsbFacts
  <2> QED BY <2>3, <2>4, <2>5 DEF LeadingIn
<1>8. pc' = "words" => LeadingIn(mem, src', last, Zero, last - src') /\ result' = last - src'
  BY <1>1, <1>6
<1>9. pc' = "done" => LeadingIn(mem, first, last, Zero, result')
  <2>1. CASE next = "done" /\ \A i \in BitPos : w[i] = Zero
    <3>1. src' = first
      BY <2>1
    <3> QED BY <1>6, <2>1, <3>1
  <2>2. CASE next = "words" \/ ~ \A i \in BitPos : w[i] = Zero
    BY <1>1, <1>7, <2>2
  <2> QED BY <2>1, <2>2
<1>10. /\ src' \in first .. last /\ remaining' = src' - first /\ top' \in first .. last
       /\ top' - src' = n
  BY <1>1, MsbFacts
<1>11. \A i \in 0 .. (top' - src' - 1) : got'[i] = mem[src' + i]
  BY <1>1, <1>10 DEF Below
<1>12. got' \in Word /\ pc' \in {"words", "done"}
  BY <1>1 DEF Below
<1> QED BY <1>8, <1>9, <1>10, <1>11, <1>12, MsbKeeps

\* The words get_word returns have bits of the memory, and any others it may have.
LEMMA GetWordBelow ==
  ASSUME MsbInv, NEW n \in Nat, n <= W, n <= src - first
  PROVE  /\ n = W => Below(GetWord(mem, src - n, n), n)
         /\ Below(MaskLow(GetWord(mem, src - n, n), n), n)
<1> DEFINE w == GetWord(mem, src - n, n)
<1>1. ASSUME NEW i \in 0 .. (n - 1) PROVE w[i] = mem[(src - n) + i] /\ w[i] \in Bit
  <2>1. src - n \in Nat /\ n \in 0 .. W /\ (src - n) + i \in Addr
    BY MsbFacts, Widths
  <2>2. w[i] = mem[(src - n) + i]
    BY <2>1, GetWordBit
  <2> QED BY <2>1, <2>2, MsbFacts
<1>2. w = [i \in BitPos |-> w[i]]
  BY DEF GetWord, BitBlend, Lsr
<1> HIDE DEF w
<1>3. n = W => Below(w, n)
  <2> HAVE n = W
  <2>1. \A i \in BitPos : w[i] \in Bit /\ ~(i >= n)
    BY <1>1, MsbFacts DEF BitPos
  <2>2. w \in Word
    BY <1>2, <2>1 DEF Word
  <2> QED BY <1>1, <2>1, <2>2 DEF Below
<1>4. Below(MaskLow(w, n), n)
  <2>1. \A i \in BitPos : MaskLow(w, n)[i] = IF i < n THEN w[i] ELSE Zero
    BY DEF MaskLow
  <2>2. \A i \in BitPos : MaskLow(w, n)[i] \in Bit
    BY <1>1, <2>1, BitAssumption, MsbFacts DEF BitPos
  <2>3. MaskLow(w, n) \in Word
    BY <2>2 DEF MaskLow, Word
  <2>4. \A i \in 0 .. (n - 1) : i \in BitPos /\ i < n
    BY MsbFacts DEF BitPos
  <2>5. \A i \in BitPos : i >= n => ~(i < n)
    BY MsbFacts DEF BitPos
  <2> QED BY <1>1, <2>1, <2>3, <2>4, <2>5 DEF Below
<1> QED BY <1>3, <1>4 DEF w

LEMMA MsbStarts ==
  ASSUME MsbInv, pc = "start", pc' = "words",
         mem' = mem, first' = first, last' = last, value' = value,
         src' = src, result' = result, remaining' = remaining, top' = top, got' = got
  PROVE  MsbInv'
<1>1. src = last /\ result = 0
  BY DEF MsbInv
<1>2. LeadingIn(mem, src, last, Zero, last - src) /\ result = last - src
  BY <1>1, MsbFacts DEF LeadingIn
<1> QED BY <1>2, MsbFacts, MsbKeeps DEF MsbInv, CountMsb!TypeOK, CountMsb!HandedInOrder

LEMMA SubWordStep ==
  ASSUME MsbInv, CountMsb!SubWord
  PROVE  MsbInv'
<1>1. remaining \div W > 1 /\ pc = "start"
  BY DEF CountMsb!SubWord
<1>2. remaining = last - first
  BY <1>1, MsbFacts DEF MsbInv
<1>3. Pos(last) = 0
  <2>1. (last - first) \div W \in Int
    BY MsbFacts
  <2> QED BY <1>1, <1>2, <2>1 DEF MsbInv
<1>4. CountMsb!SubDigits = 0
  BY <1>2, <1>3, MsbFacts, CountMsbWords DEF CountMsb!SubDigits, Least
<1>5. /\ pc' = "words"
      /\ mem' = mem /\ first' = first /\ last' = last /\ value' = value
      /\ src' = src /\ result' = result /\ remaining' = remaining /\ top' = top /\ got' = got
  BY <1>4 DEF CountMsb!SubWord, CountMsb!Call
<1> QED BY <1>1, <1>5, MsbStarts

LEMMA ShortStep ==
  ASSUME MsbInv, CountMsb!Short
  PROVE  MsbInv'
BY MsbStarts DEF CountMsb!Short, CountMsb!Call

LEMMA WholeWordStep ==
  ASSUME MsbInv, CountMsb!WholeWord
  PROVE  MsbInv'
<1>1. /\ pc = "words" /\ remaining >= W
      /\ src' = src - W /\ remaining' = remaining - W
      /\ CountMsb!Operate(GetWord(mem, src - W, W), W, "words")
      /\ mem' = mem /\ first' = first /\ last' = last /\ value' = value
  BY CountMsbWords DEF CountMsb!WholeWord, CountMsb!Call
<1>2. W \in Nat /\ W > 0 /\ W <= W /\ W <= src - first
  BY <1>1, MsbFacts
<1>3. Below(GetWord(mem, src - W, W), W)
  BY <1>2, GetWordBelow
<1> QED BY <1>1, <1>2, <1>3, OperateStep

LEMMA RestStep ==
  ASSUME MsbInv, CountMsb!Rest
  PROVE  MsbInv'
<1> DEFINE n == remaining
           w == MaskLow(GetWord(mem, src - n, n), n)
<1>1. /\ pc = "words" /\ n < W
      /\ IF n > 0 THEN /\ src' = src - n /\ remaining' = 0
                       /\ CountMsb!Operate(w, n, "done")
                  ELSE /\ pc' = "done" /\ src' = src /\ result' = result
                       /\ remaining' = n /\ top' = top /\ got' = got
      /\ mem' = mem /\ first' = first /\ last' = last /\ value' = value
  BY CountMsbWords DEF CountMsb!Rest, CountMsb!MaskedWord, CountMsb!Call
<1>2. n \in Nat /\ n <= W /\ n <= src - first /\ n - n = 0 /\ src - n = first
  BY <1>1, MsbFacts
<1>3. CASE n > 0
  <2>1. Below(w, n)
    BY <1>2, GetWordBelow
  <2> HIDE DEF w
  <2> QED BY <1>1, <1>2, <1>3, <2>1, OperateStep
<1>4. CASE n = 0
  <2>1. LeadingIn(mem, first, last, Zero, result)
    <3>1. src = first
      BY <1>2, <1>4, MsbFacts
    <3> QED BY <1>1, <3>1 DEF MsbInv
  <2> QED BY <1>1, <1>2, <1>4, <2>1, MsbFacts, MsbKeeps
      DEF MsbInv, CountMsb!TypeOK, CountMsb!HandedInOrder
<1> QED BY <1>2, <1>3, <1>4

LEMMA MsbInit ==
  ASSUME CountMsb!Init, value = Zero, Pos(last) = 0 \/ (last - first) \div W <= 1
  PROVE  MsbInv
<1>1. /\ mem \in [Addr -> Bit]
      /\ first \in 0 .. MemBits /\ last \in 0 .. MemBits /\ first <= last
      /\ src = last /\ result = 0 /\ remaining = last - first /\ pc = "start"
      /\ top = last /\ got = [i \in BitPos |-> Zero]
  BY CountMsbWords DEF CountMsb!Init, CountMsb!NoWord
<1>2. got \in Word /\ value \in Bit
  BY <1>1, BitAssumption DEF Word
<1> QED BY <1>1, <1>2, CountMsbWords, Widths
    DEF MsbInv, CountMsb!TypeOK, CountMsb!HandedInOrder

LEMMA MsbNext ==
  ASSUME MsbInv, CountMsb!Next
  PROVE  MsbInv'
<1>1. CASE CountMsb!Finished
  BY <1>1 DEF CountMsb!Finished, CountMsb!vars, MsbInv, CountMsb!TypeOK, CountMsb!HandedInOrder
<1> QED BY <1>1, SubWordStep, ShortStep, WholeWordStep, RestStep DEF CountMsb!Next

LEMMA MsbImplies ==
  ASSUME MsbInv
  PROVE  /\ CountMsb!TypeOK /\ CountMsb!CountMsbCorrect /\ CountMsb!AllCounted
         /\ CountMsb!HandedInOrder
<1>1. CountMsb!CountMsbCorrect
  BY LeadingIs, MsbFacts DEF MsbInv, CountMsb!CountMsbCorrect
<1>2. CountMsb!AllCounted
  BY LeadingIs, MsbFacts DEF MsbInv, CountMsb!AllCounted
<1> QED BY <1>1, <1>2 DEF MsbInv

----------------------------------------------------------------------------
(* equal                                                                   *)

LEMMA EqualWords ==
  /\ Equal!BitPos = BitPos /\ Equal!MemBits = MemBits /\ Equal!Addr = Addr
  /\ \A a : Equal!Pos(a) = Pos(a) /\ Equal!Base(a) = Base(a)
  /\ \A m, b : Equal!Load(m, b) = Load(m, b)
  /\ \A w, k : Equal!Lsl(w, k) = Lsl(w, k)
  /\ \A a, b : Equal!Least(a, b) = Least(a, b)
  /\ \A m, a, n : Equal!GetWord(m, a, n) = GetWord(m, a, n)
  /\ \A a, n : Equal!GetWordLoads(a, n) = GetWordLoads(a, n)
  /\ \A a, b, c : Equal!Holds(a, b, c) = Holds(a, b, c)
BY DEF Equal!BitPos, Equal!MemBits, Equal!Addr, Equal!Pos, Equal!Base, Equal!Load, Equal!Lsr, Equal!Lsl,
       Equal!Least, Equal!GetWord, Equal!GetWordLoads, Equal!Spans, Equal!BitBlend, Equal!Holds,
       BitPos, MemBits, Addr, Pos, Base, Load, Lsr, Lsl, Least, GetWord, GetWordLoads, Spans, BitBlend,
       Holds

\* The n bits of m at a and those at b are equal.
Matches(m, a, b, n) == \A i \in 0 .. (n - 1) : m[a + i] = m[b + i]

LEMMA MatchesMore ==
  ASSUME NEW m, NEW a \in Int, NEW b \in Int, NEW k \in Nat, NEW n \in Nat, Matches(m, a, b, k)
  PROVE  Matches(m, a, b, k + n) <=> Matches(m, a + k, b + k, n)
<1>1. ASSUME Matches(m, a, b, k + n), NEW i \in 0 .. (n - 1) PROVE m[(a + k) + i] = m[(b + k) + i]
  <2>1. k + i \in 0 .. ((k + n) - 1) /\ a + (k + i) = (a + k) + i /\ b + (k + i) = (b + k) + i
    OBVIOUS
  <2> QED BY <1>1, <2>1 DEF Matches
<1>2. ASSUME Matches(m, a + k, b + k, n), NEW i \in 0 .. ((k + n) - 1) PROVE m[a + i] = m[b + i]
  <2>1. CASE i < k
    BY <2>1 DEF Matches
  <2>2. CASE i >= k
    <3>1. i - k \in 0 .. (n - 1) /\ (a + k) + (i - k) = a + i /\ (b + k) + (i - k) = b + i
      BY <2>2
    <3> QED BY <1>2, <3>1 DEF Matches
  <2> QED BY <2>1, <2>2
<1> QED BY <1>1, <1>2 DEF Matches

EqualInv ==
  /\ Equal!TypeOK
  /\ Equal!AccessInRange
  /\ pc = "start" => src = first /\ it = Base(d_first) /\ result = TRUE
  /\ pc \in {"words", "tail"} => /\ first # last /\ result = TRUE
                                 /\ Matches(mem, first, d_first, src - first)
                                 /\ remaining > 0 => it = d_first + (src - first)
  /\ pc = "tail" => remaining < W
  /\ pc = "done" => (result <=> Matches(mem, first, d_first, last - first))

LEMMA EqualFacts ==
  ASSUME EqualInv
  PROVE  /\ mem \in [Addr -> Bit]
         /\ first \in Nat /\ last \in Nat /\ first <= last /\ last <= MemBits
         /\ d_first \in Nat /\ d_first + (last - first) <= MemBits
         /\ src \in first .. last /\ src \in Nat /\ it \in 0 .. (MemBits + W)
         /\ remaining = last - src /\ remaining \in Nat
         /\ result \in BOOLEAN
         /\ W \in Nat /\ W > 0 /\ MemBits \in Nat
BY EqualWords, Widths DEF EqualInv, Equal!TypeOK

\* What a step that leaves the call alone has to show.
LEMMA EqualKeeps ==
  ASSUME EqualInv, mem' = mem, first' = first, last' = last, d_first' = d_first,
         src' \in first .. last, it' \in 0 .. (MemBits + W), remaining' = last - src',
         result' \in BOOLEAN, pc' \in {"words", "tail", "done"},
         used' \in SUBSET Int, \A b \in used' : Holds(b, first, last),
         d_used' \in SUBSET Int, \A b \in d_used' : Holds(b, d_first, d_first + (last - first)),
         pc' \in {"words", "tail"} => /\ first # last /\ result' = TRUE
                                      /\ Matches(mem, first, d_first, src' - first)
                                      /\ remaining' > 0 => it' = d_first + (src' - first),
         pc' = "tail" => remaining' < W,
         pc' = "done" => (result' <=> Matches(mem, first, d_first, last - first))
  PROVE  EqualInv'
<1>1. Equal!TypeOK'
  BY EqualFacts, EqualWords DEF Equal!TypeOK
<1>2. Equal!AccessInRange'
  BY EqualWords DEF Equal!AccessInRange
<1> QED BY <1>1, <1>2 DEF EqualInv

\* The comparison of a word of the second range with the bits of the first one.
LEMMA SameBitsIs ==
  ASSUME EqualInv, NEW p \in Nat, NEW len \in Nat, p + len <= W
  PROVE  Equal!SameBits(p, len) <=> Matches(mem, src, it + p, len)
<1> DEFINE w == GetWord(mem, src, len)
           comp == Lsl(w, p)
<1>1. ASSUME NEW j \in 0 .. (len - 1)
      PROVE  /\ p + j \in p .. ((p + len) - 1)
             /\ Load(mem, it)[p + j] = mem[(it + p) + j] /\ comp[p + j] = mem[src + j]
  <2>1. p + j \in BitPos /\ p <= p + j /\ (p + j) - p = j /\ len \in 0 .. W
        /\ it + (p + j) = (it + p) + j /\ p + j \in p .. ((p + len) - 1)
    BY EqualFacts DEF BitPos
  <2>2. Load(mem, it)[p + j] = mem[(it + p) + j]
    BY <2>1, LoadBit
  <2>3. comp[p + j] = w[j]
    BY <2>1, LslBit
  <2>4. w[j] = mem[src + j]
    BY <2>1, EqualFacts, GetWordBit
  <2> QED BY <2>1, <2>2, <2>3, <2>4
<1>2. ASSUME NEW i \in p .. ((p + len) - 1) PROVE i - p \in 0 .. (len - 1) /\ p + (i - p) = i
  OBVIOUS
<1> HIDE DEF comp
<1>3. Equal!SameBits(p, len) <=> \A i \in p .. ((p + len) - 1) : Load(mem, it)[i] = comp[i]
  BY EqualWords DEF Equal!SameBits, comp
<1>4. ASSUME \A i \in p .. ((p + len) - 1) : Load(mem, it)[i] = comp[i], NEW j \in 0 .. (len - 1)
      PROVE  mem[src + j] = mem[(it + p) + j]
  BY <1>1, <1>4
<1>5. ASSUME Matches(mem, src, it + p, len), NEW i \in p .. ((p + len) - 1)
      PROVE  Load(mem, it)[i] = comp[i]
  <2>1. i - p \in 0 .. (len - 1) /\ p + (i - p) = i
    BY <1>2
  <2>2. mem[src + (i - p)] = mem[(it + p) + (i - p)]
    BY <1>5, <2>1 DEF Matches
  <2>3. Load(mem, it)[p + (i - p)] = comp[p + (i - p)]
    BY <1>1, <2>1, <2>2
  <2> QED BY <2>1, <2>3
<1> QED BY <1>3, <1>4, <1>5 DEF Matches

\* The comparison of the next n bits of the first range with their counterparts.
Compares(n, next) ==
  /\ used' = GetWordLoads(src, n) /\ d_used' = {it}
  /\ IF Matches(mem, src, d_first + (src - first), n)
       THEN src' = src + n /\ it' = it + W /\ remaining' = remaining - n /\ pc' = next /\ result' = result
       ELSE result' = FALSE /\ pc' = "done" /\ src' = src /\ it' = it /\ remaining' = remaining

LEMMA ComparesStep ==
  ASSUME EqualInv, first # last, result = TRUE, Matches(mem, first, d_first, src - first),
         NEW n \in Nat, 0 < n, n <= W, n <= remaining, NEW next \in {"words", "done"},
         Compares(n, next), Holds(it, d_first, d_first + (last - first)),
         next = "words" /\ n < remaining => it + W = d_first + (src - first) + n,
         next = "done" => n = remaining,
         mem' = mem, first' = first, last' = last, d_first' = d_first
  PROVE  EqualInv'
<1> DEFINE k == src - first
           same == Matches(mem, src, d_first + k, n)
<1>1. k \in Nat /\ first + k = src /\ k + n \in Nat /\ k + n <= last - first
  BY EqualFacts
<1>2. Matches(mem, first, d_first, k + n) <=> same
  BY <1>1, EqualFacts, MatchesMore
<1>3. used' \in SUBSET Int /\ \A b \in used' : Holds(b, first, last)
  <2>1. used' = GetWordLoads(src, n) /\ n \in 1 .. W
    BY EqualFacts DEF Compares
  <2>2. ASSUME NEW b \in used' PROVE b \in Int /\ b < src + n /\ src < b + W
    BY <2>1, EqualFacts, GetWordAccess
  <2> QED BY <1>1, <2>2, EqualFacts, HoldsIs
<1>4. d_used' \in SUBSET Int /\ \A b \in d_used' : Holds(b, d_first, d_first + (last - first))
  BY EqualFacts DEF Compares
<1>5. it < MemBits
  BY EqualFacts, HoldsIs
<1>6. CASE same
  <2>1. /\ src' = src + n /\ it' = it + W /\ remaining' = remaining - n /\ pc' = next
        /\ result' = TRUE /\ src' - first = k + n
    BY <1>1, <1>6, EqualFacts DEF Compares
  <2>2. Matches(mem, first, d_first, src' - first)
    BY <1>2, <1>6, <2>1
  <2>3. next = "done" => src' - first = last - first
    BY <2>1, EqualFacts
  <2>4. next = "words" => (remaining' > 0 => it' = d_first + (src' - first))
    BY <1>1, <2>1, EqualFacts
  <2>5. src' \in first .. last /\ it' \in 0 .. (MemBits + W) /\ remaining' = last - src'
    BY <1>1, <1>5, <2>1, EqualFacts
  <2>6. next = "done" => Matches(mem, first, d_first, last - first)
    BY <2>2, <2>3
  <2>7. pc' \in {"words", "tail", "done"} /\ pc' # "tail" /\ result' = TRUE /\ result' \in BOOLEAN
    BY <2>1
  <2> HIDE DEF k, same
  <2>8. CASE next = "words"
    BY <1>3, <1>4, <2>1, <2>2, <2>4, <2>5, <2>7, <2>8, EqualKeeps
  <2>9. CASE next = "done"
    BY <1>3, <1>4, <2>1, <2>5, <2>6, <2>7, <2>9, EqualKeeps
  <2> QED BY <2>8, <2>9
<1>7. CASE ~same
  <2>1. result' = FALSE /\ pc' = "done" /\ src' = src /\ it' = it /\ remaining' = remaining
    BY <1>7 DEF Compares
  <2>2. ~ Matches(mem, first, d_first, last - first)
    <3>1. ~ Matches(mem, first, d_first, k + n)
      BY <1>2, <1>7
    <3> QED BY <1>1, <3>1, EqualFacts DEF Matches
  <2> QED BY <1>3, <1>4, <2>1, <2>2, EqualFacts, EqualKeeps
<1> QED BY <1>6, <1>7

\* A step that compares nothing.
LEMMA ComparesNothing ==
  ASSUME EqualInv, mem' = mem, first' = first, last' = last, d_first' = d_first,
         used' = {}, d_used' = {}, src' = src, it' = it, remaining' = remaining, result' = result,
         pc' \in {"words", "tail", "done"},
         pc' \in {"words", "tail"} => /\ first # last /\ result = TRUE
                                      /\ Matches(mem, first, d_first, src - first)
                                      /\ remaining > 0 => it = d_first + (src - first),
         pc' = "tail" => remaining < W,
         pc' = "done" => (result <=> Matches(mem, first, d_first, last - first))
  PROVE  EqualInv'
BY EqualFacts, EqualKeeps

LEMMA MatchesNothing ==
  ASSUME NEW m, NEW a, NEW b
  PROVE  Matches(m, a, b, 0)
BY DEF Matches

LEMMA EmptyStep ==
  ASSUME EqualInv, Equal!Empty
  PROVE  EqualInv'
<1>1. first = last /\ result = TRUE /\ last - first = 0
  BY EqualFacts DEF Equal!Empty, EqualInv
<1>2. Matches(mem, first, d_first, last - first)
  BY <1>1, MatchesNothing
<1> QED BY <1>1, <1>2, ComparesNothing DEF Equal!Empty, Equal!ReadNothing, Equal!Call

LEMMA HeadStep ==
  ASSUME EqualInv, Equal!Head
  PROVE  EqualInv'
<1> DEFINE p == Pos(d_first)
           n == Least(remaining, W - p)
<1>1. /\ first # last /\ src = first /\ it = Base(d_first) /\ result = TRUE /\ src - first = 0
      /\ mem' = mem /\ first' = first /\ last' = last /\ d_first' = d_first
  BY EqualWords, EqualFacts DEF Equal!Head, Equal!Call, EqualInv
<1>2. p \in 0 .. (W - 1) /\ Base(d_first) \in Int /\ d_first = Base(d_first) + p
  BY EqualFacts, RangeFacts
<1>3. Matches(mem, first, d_first, src - first)
  BY <1>1, MatchesNothing
<1>4. CASE p # 0
  <2>1. /\ n \in Nat /\ 0 < n /\ n <= W /\ n <= remaining /\ p + n <= W /\ p \in Nat
        /\ n < remaining => n = W - p
    <3>1. remaining \in Nat /\ remaining > 0 /\ W - p \in Nat /\ W - p > 0 /\ W - p <= W /\ p \in Nat
      BY <1>1, <1>2, EqualFacts
    <3>2. (n = remaining /\ n <= W - p) \/ (n = W - p /\ n <= remaining)
      BY <3>1 DEF Least
    <3> HIDE DEF n, p
    <3> QED BY <3>1, <3>2, EqualFacts
  <2>2. it + p = d_first + (src - first)
    BY <1>1, <1>2, EqualFacts
  <2>3. Equal!SameBits(p, n) <=> Matches(mem, src, d_first + (src - first), n)
    BY <2>1, <2>2, SameBitsIs
  <2>4. Equal!Proceed(Equal!SameBits(p, n), n, "words")
    BY <1>4, EqualWords DEF Equal!Head
  <2> HIDE DEF n, p
  <2>5. Compares(n, "words")
    BY <2>3, <2>4, EqualWords DEF Equal!Proceed, Compares
  <2>6. Holds(it, d_first, d_first + (last - first))
    BY <1>1, <1>2, EqualFacts, HoldsIs
  <2>7. n < remaining => it + W = d_first + (src - first) + n
    BY <1>2, <2>1, <2>2, EqualFacts
  <2> QED BY <1>1, <1>3, <2>1, <2>5, <2>6, <2>7, ComparesStep
<1>5. CASE p = 0
  <2>1. /\ used' = {} /\ d_used' = {} /\ pc' = "words" /\ src' = src /\ it' = it
        /\ remaining' = remaining /\ result' = result
    BY <1>5, EqualWords DEF Equal!Head, Equal!ReadNothing
  <2>2. it = d_first + (src - first)
    BY <1>1, <1>2, <1>5, EqualFacts
  <2> QED BY <1>1, <1>3, <2>1, <2>2, ComparesNothing
<1> QED BY <1>4, <1>5

LEMMA WholeWordsStep ==
  ASSUME EqualInv, Equal!WholeWords
  PROVE  EqualInv'
<1> DEFINE N == Base(last) - src
           k == src - first
           same == Matches(mem, src, it, N)
<1>1. /\ first # last /\ Matches(mem, first, d_first, k) /\ result = TRUE
      /\ remaining >= W /\ remaining > 0 /\ it = d_first + k /\ Pos(src) = 0
  BY EqualWords, EqualFacts DEF Equal!WholeWords, EqualInv
<1>2. /\ mem' = mem /\ first' = first /\ last' = last /\ d_first' = d_first
      /\ used' = {a \in src .. (src + N - 1) : Pos(a) = 0}
      /\ d_used' = {a \in it .. (it + N - 1) : Pos(a) = 0}
      /\ IF same
           THEN src' = src + N /\ it' = it + N /\ remaining' = remaining - N /\ pc' = "tail"
                /\ result' = result
           ELSE result' = FALSE /\ pc' = "done" /\ src' = src /\ it' = it /\ remaining' = remaining
  BY EqualWords DEF Equal!WholeWords, Equal!Call, Matches
<1>3. /\ Base(last) \in Int /\ last = Base(last) + Pos(last) /\ Pos(last) \in 0 .. (W - 1)
      /\ N \in Nat /\ k \in Nat /\ first + k = src /\ k + N <= last - first /\ k + N = Base(last) - first
      /\ src + N = Base(last)
  <2>1. last \in Int /\ first \in Int /\ src \in Int
    BY EqualFacts
  <2>2. Base(last) \in Int /\ last = Base(last) + Pos(last) /\ Pos(last) \in 0 .. (W - 1)
    BY <2>1, RangeFacts
  <2> QED BY <1>1, <2>1, <2>2, EqualFacts
<1>4. used' \in SUBSET Int /\ \A b \in used' : Holds(b, first, last)
  <2>1. ASSUME NEW b \in used' PROVE b \in Int /\ first < b + W /\ b < last
    <3>1. b \in src .. (src + N - 1)
      BY <1>2
    <3> QED BY <1>3, <3>1, EqualFacts
  <2> QED BY <2>1, HoldsIs
<1>5. d_used' \in SUBSET Int /\ \A b \in d_used' : Holds(b, d_first, d_first + (last - first))
  <2>1. ASSUME NEW b \in d_used'
        PROVE  b \in Int /\ d_first < b + W /\ b < d_first + (last - first)
    <3>1. b \in it .. (it + N - 1) /\ it = d_first + k
      BY <1>1, <1>2
    <3> QED BY <1>3, <3>1, EqualFacts
  <2> QED BY <2>1, HoldsIs
<1>6. Matches(mem, first, d_first, k + N) <=> same
  BY <1>1, <1>3, EqualFacts, MatchesMore
<1>7. CASE same
  <2>1. /\ src' = Base(last) /\ it' = d_first + (k + N) /\ remaining' = last - src' /\ pc' = "tail"
        /\ result' = TRUE /\ src' - first = k + N /\ remaining' < W
        /\ src' \in first .. last /\ it' \in 0 .. (MemBits + W)
    BY <1>1, <1>2, <1>3, <1>7, EqualFacts
  <2>2. Matches(mem, first, d_first, src' - first)
    BY <1>6, <1>7, <2>1
  <2> QED BY <1>1, <1>2, <1>4, <1>5, <2>1, <2>2, EqualKeeps
<1>8. CASE ~same
  <2>1. result' = FALSE /\ pc' = "done" /\ src' = src /\ it' = it /\ remaining' = remaining
    BY <1>2, <1>8
  <2>2. ~ Matches(mem, first, d_first, last - first)
    <3>1. ~ Matches(mem, first, d_first, k + N)
      BY <1>6, <1>8
    <3> QED BY <1>3, <3>1, EqualFacts DEF Matches
  <2> QED BY <1>2, <1>4, <1>5, <2>1, <2>2, EqualFacts, EqualKeeps
<1> QED BY <1>7, <1>8

\* The comparison of an aligned word of the second range.
LEMMA AlignedCompare ==
  ASSUME EqualInv, pc \in {"words", "tail"}, NEW n \in Nat, 0 < n, n <= W, n <= remaining,
         NEW next \in {"words", "done"}, Equal!Proceed(Equal!SameBits(0, n), n, next),
         next = "words" => n = W, next = "done" => n = remaining,
         mem' = mem, first' = first, last' = last, d_first' = d_first
  PROVE  EqualInv'
<1>1. /\ first # last /\ result = TRUE /\ Matches(mem, first, d_first, src - first)
      /\ it = d_first + (src - first)
  <2>1. remaining > 0
    BY EqualFacts
  <2> QED BY <2>1 DEF EqualInv
<1>2. Equal!SameBits(0, n) <=> Matches(mem, src, d_first + (src - first), n)
  <2>1. it + 0 = d_first + (src - first) /\ 0 + n <= W /\ 0 \in Nat
    BY <1>1, EqualFacts
  <2> QED BY <2>1, SameBitsIs
<1>3. Compares(n, next)
  BY <1>2, EqualWords DEF Equal!Proceed, Compares
<1>4. Holds(it, d_first, d_first + (last - first))
  BY <1>1, EqualFacts, HoldsIs
<1>5. next = "words" /\ n < remaining => it + W = d_first + (src - first) + n
  BY <1>1, EqualFacts
<1> QED BY <1>1, <1>3, <1>4, <1>5, ComparesStep

LEMMA ShiftedWordStep ==
  ASSUME EqualInv, Equal!ShiftedWord
  PROVE  EqualInv'
<1>1. W \in Nat /\ 0 < W /\ W <= W /\ W <= remaining
  BY EqualFacts DEF Equal!ShiftedWord
<1> QED BY <1>1, AlignedCompare DEF Equal!ShiftedWord, Equal!Call

LEMMA ToTailStep ==
  ASSUME EqualInv, Equal!ToTail
  PROVE  EqualInv'
BY ComparesNothing DEF Equal!ToTail, Equal!ReadNothing, Equal!Call, EqualInv

LEMMA TailStep ==
  ASSUME EqualInv, Equal!Tail
  PROVE  EqualInv'
<1>1. /\ pc = "tail" /\ remaining < W
      /\ mem' = mem /\ first' = first /\ last' = last /\ d_first' = d_first
  BY DEF Equal!Tail, Equal!Call, EqualInv
<1>2. CASE remaining > 0
  <2>1. remaining \in Nat /\ 0 < remaining /\ remaining <= W
    BY <1>1, <1>2, EqualFacts
  <2> QED BY <1>1, <1>2, <2>1, AlignedCompare DEF Equal!Tail
<1>3. CASE ~(remaining > 0)
  <2>1. src - first = last - first
    BY <1>3, EqualFacts
  <2>2. result = TRUE /\ Matches(mem, first, d_first, last - first)
    BY <1>1, <2>1 DEF EqualInv
  <2> QED BY <1>1, <1>3, <2>2, ComparesNothing DEF Equal!Tail, Equal!ReadNothing
<1> QED BY <1>2, <1>3

LEMMA EqualInit ==
  ASSUME Equal!Init
  PROVE  EqualInv
<1>1. /\ mem \in [Addr -> Bit]
      /\ first \in 0 .. MemBits /\ last \in 0 .. MemBits /\ first <= last
      /\ d_first \in 0 .. (MemBits - (last - first))
      /\ src = first /\ it = Base(d_first) /\ remaining = last - first /\ result = TRUE
      /\ pc = "start" /\ used = {} /\ d_used = {}
  BY EqualWords DEF Equal!Init
<1>2. Base(d_first) \in 0 .. (MemBits + W)
  <2>1. d_first \in Nat /\ d_first <= MemBits /\ 0 <= d_first
    BY <1>1, Widths
  <2>2. Base(0) = 0
    <3>1. 0 % W = 0
      BY Widths
    <3> QED BY <3>1 DEF Base, Pos
  <2>3. 0 <= Base(d_first)
    BY <2>1, <2>2, BaseMonotone
  <2> QED BY <2>1, <2>3, PosRange, Widths
<1> QED BY <1>1, <1>2, EqualWords, Widths DEF EqualInv, Equal!TypeOK, Equal!AccessInRange

LEMMA EqualNext ==
  ASSUME EqualInv, Equal!Next
  PROVE  EqualInv'
<1>1. CASE Equal!Finished
  BY <1>1 DEF Equal!Finished, Equal!vars, EqualInv, Equal!TypeOK, Equal!AccessInRange
<1> QED BY <1>1, EmptyStep, HeadStep, WholeWordsStep, ShiftedWordStep, ToTailStep, TailStep
        DEF Equal!Next

LEMMA EqualImplies ==
  ASSUME EqualInv
  PROVE  Equal!TypeOK /\ Equal!EqualCorrect /\ Equal!InStep /\ Equal!AccessInRange
<1>1. \A n : Equal!Agree(n) <=> Matches(mem, first, d_first, n)
  BY DEF Equal!Agree, Matches
<1>2. Equal!InStep
  BY <1>1, EqualFacts DEF EqualInv, Equal!InStep
<1> QED BY <1>1, <1>2 DEF EqualInv, Equal!EqualCorrect

----------------------------------------------------------------------------
(* The scans                                                               *)

\* The invariant of the algorithm called.
IInv ==
  /\ algorithm = "find"      => FindInv
  /\ algorithm = "count"     => CountInv
  /\ algorithm = "count_msb" => MsbInv
  /\ algorithm = "equal"     => EqualInv

LEMMA InitIInv == Init => IInv
BY FindInit, CountInit, MsbInit, EqualInit DEF Init, AnyInit, IInv

LEMMA NextIInv == IInv /\ [Next]_vars => IInv'
<1> SUFFICES ASSUME IInv, [Next]_vars
             PROVE  IInv'
  OBVIOUS
<1>1. CASE algorithm = "find" /\ algorithm' = algorithm /\ Find!Next
  BY <1>1, FindNext DEF IInv
<1>2. CASE algorithm = "count" /\ algorithm' = algorithm /\ Count!Next
  BY <1>2, CountNext DEF IInv
<1>3. CASE algorithm = "count_msb" /\ algorithm' = algorithm /\ CountMsb!Next
  BY <1>3, MsbNext DEF IInv
<1>4. CASE algorithm = "equal" /\ algorithm' = algorithm /\ Equal!Next
  BY <1>4, EqualNext DEF IInv
<1>5. CASE UNCHANGED vars
  BY <1>5 DEF vars, IInv, FindInv, Find!TypeOK, Find!AccessInRange,
              CountInv, Count!TypeOK, Count!AccessInRange,
              MsbInv, CountMsb!TypeOK, CountMsb!HandedInOrder,
              EqualInv, Equal!TypeOK, Equal!AccessInRange
<1> QED BY <1>1, <1>2, <1>3, <1>4, <1>5 DEF Next

LEMMA IInvImplies == IInv => TypeOK /\ ScanCorrect /\ PassedSoFar /\ AccessInRange
BY FindImplies, CountImplies, MsbImplies, EqualImplies
   DEF IInv, TypeOK, ScanCorrect, PassedSoFar, HandedInOrder, AccessInRange

\* The invariant the others follow from holds of every run of the scans.
THEOREM Inductive == Spec => []IInv
BY InitIInv, NextIInv, PTL DEF Spec

\* The variables of a scan keep their types, and its iterators and its counters
\* stay within the range (find.hpp, count.hpp, accumulate.hpp, equal.hpp).
THEOREM TypeCorrect == Spec => []TypeOK
BY Inductive, IInvImplies, PTL

\* find returns the first bit that is the value, count and count_msb the number of
\* bits, and equal whether the ranges agree: no bit outside the range, and no zero
\* a shift or a mask lets in, is taken for one of its bits.
THEOREM Correct == Spec => []ScanCorrect
BY Inductive, IInvImplies, PTL

\* Between two words of a scan what it has passed is accounted for, and the
\* operation of count_msb is handed the words of the range in order.
THEOREM Accounted == Spec => []PassedSoFar
BY Inductive, IInvImplies, PTL

\* find, count and equal dereference only words that hold a bit of their ranges.
THEOREM AccessSafe == Spec => []AccessInRange
BY Inductive, IInvImplies, PTL
=============================================================================
