-------------------------- MODULE ExchangeTheorems --------------------------
(***************************************************************************)
(* swap_ranges, reverse and rotate are right for every width of a word,    *)
(* every memory and every range: each bit ends where it belongs, nothing   *)
(* beside the ranges is written or dereferenced.  Each algorithm has an    *)
(* invariant of its own, which says what of its permutation is done, and a *)
(* lemma per step, which says that the step keeps it.                      *)
(***************************************************************************)
EXTENDS MCExchangeAlgorithms, BitWordTheorems

\* A memory, as a function of its addresses.
Memory(m) == DOMAIN m = Addr /\ m = [a \in Addr |-> m[a]]

LEMMA MemoryOf == \A m \in [Addr -> Bit] : Memory(m)
BY DEF Memory

\* The memory with the bits [x, x + len) and [y, y + len) exchanged.
Swapped(m, x, y, len) ==
  [a \in Addr |-> IF x <= a /\ a < x + len THEN m[a + (y - x)]
                  ELSE IF y <= a /\ a < y + len THEN m[a - (y - x)]
                  ELSE m[a]]

\* Two ranges of the memory that do not overlap.
Apart(x, y, len) ==
  /\ 0 <= x /\ x + len <= MemBits /\ 0 <= y /\ y + len <= MemBits
  /\ x + len <= y \/ y + len <= x

LEMMA SwappedNone ==
  ASSUME NEW m, Memory(m), NEW x \in Int, NEW y \in Int
  PROVE  Swapped(m, x, y, 0) = m
<1>1. \A a \in Addr : ~(x <= a /\ a < x + 0) /\ ~(y <= a /\ a < y + 0)
  BY Widths
<1> QED BY <1>1 DEF Swapped, Memory

LEMMA SwappedType ==
  ASSUME NEW m \in [Addr -> Bit], NEW x \in Int, NEW y \in Int, NEW len \in Nat, Apart(x, y, len)
  PROVE  Swapped(m, x, y, len) \in [Addr -> Bit]
<1>1. ASSUME NEW a \in Addr
      PROVE  /\ x <= a /\ a < x + len => a + (y - x) \in Addr
             /\ y <= a /\ a < y + len => a - (y - x) \in Addr
  BY Widths DEF Apart
<1> QED BY <1>1 DEF Swapped

\* Exchanging the next bits too.
LEMMA SwappedGrows ==
  ASSUME NEW m, NEW x \in Int, NEW y \in Int, NEW d \in Nat, NEW len \in Nat,
         Apart(x, y, d + len)
  PROVE  Swapped(Swapped(m, x, y, d), x + d, y + d, len) = Swapped(m, x, y, d + len)
<1> DEFINE s == Swapped(m, x, y, d)
<1>1. ASSUME NEW a \in Addr
      PROVE  s[a] = IF x <= a /\ a < x + d THEN m[a + (y - x)]
                    ELSE IF y <= a /\ a < y + d THEN m[a - (y - x)]
                    ELSE m[a]
  BY DEF Swapped
<1> HIDE DEF s
<1>2. ASSUME NEW a \in Addr
      PROVE  (IF x + d <= a /\ a < (x + d) + len THEN s[a + ((y + d) - (x + d))]
              ELSE IF y + d <= a /\ a < (y + d) + len THEN s[a - ((y + d) - (x + d))]
              ELSE s[a]) =
             (IF x <= a /\ a < x + (d + len) THEN m[a + (y - x)]
              ELSE IF y <= a /\ a < y + (d + len) THEN m[a - (y - x)]
              ELSE m[a])
  <2>1. a \in Int /\ a + ((y + d) - (x + d)) = a + (y - x) /\ a - ((y + d) - (x + d)) = a - (y - x)
    BY Widths
  <2>2. CASE x + d <= a /\ a < (x + d) + len
    <3>1. a + (y - x) \in Addr
      BY <2>1, <2>2, Widths DEF Apart
    <3>2. s[a + (y - x)] = m[a + (y - x)]
      <4> DEFINE b == a + (y - x)
      <4>1. b \in Addr /\ b \in Int /\ ~(x <= b /\ b < x + d) /\ ~(y <= b /\ b < y + d)
        BY <2>1, <2>2, <3>1 DEF Apart
      <4> HIDE DEF b
      <4>2. s[b] = m[b]
        BY <4>1, <1>1
      <4> QED BY <4>2 DEF b
    <3> QED BY <2>1, <2>2, <3>2
  <2>3. CASE y + d <= a /\ a < (y + d) + len
    <3>1. a - (y - x) \in Addr
      BY <2>1, <2>3, Widths DEF Apart
    <3>2. s[a - (y - x)] = m[a - (y - x)]
      <4> DEFINE b == a - (y - x)
      <4>1. b \in Addr /\ b \in Int /\ ~(x <= b /\ b < x + d) /\ ~(y <= b /\ b < y + d)
        BY <2>1, <2>3, <3>1 DEF Apart
      <4> HIDE DEF b
      <4>2. s[b] = m[b]
        BY <4>1, <1>1
      <4> QED BY <4>2 DEF b
    <3>3. ~(x + d <= a /\ a < (x + d) + len) /\ ~(x <= a /\ a < x + (d + len))
      BY <2>1, <2>3 DEF Apart
    <3>4. y <= a /\ a < y + (d + len)
      BY <2>1, <2>3
    <3> QED BY <2>1, <2>3, <3>2, <3>3, <3>4
  <2>4. CASE ~(x + d <= a /\ a < (x + d) + len) /\ ~(y + d <= a /\ a < (y + d) + len)
    <3>1. /\ (x <= a /\ a < x + (d + len)) <=> (x <= a /\ a < x + d)
          /\ (y <= a /\ a < y + (d + len)) <=> (y <= a /\ a < y + d)
      BY <2>1, <2>4
    <3> QED BY <1>1, <2>4, <3>1
  <2> QED BY <2>2, <2>3, <2>4
<1>3. Swapped(s, x + d, y + d, len) = Swapped(m, x, y, d + len)
  BY <1>2 DEF Swapped
<1> QED BY <1>3 DEF s

----------------------------------------------------------------------------
(* _bitexch                                                                *)

LEMMA SwapWords ==
  /\ Swap!BitPos = BitPos /\ Swap!MemBits = MemBits /\ Swap!Addr = Addr
  /\ \A a : Swap!Pos(a) = Pos(a) /\ Swap!Base(a) = Base(a)
  /\ \A m, b, w : Swap!Store(m, b, w) = Store(m, b, w)
  /\ \A m, b : Swap!Load(m, b) = Load(m, b)
  /\ \A w, i : Swap!Lsr(w, i) = Lsr(w, i) /\ Swap!Lsl(w, i) = Lsl(w, i)
  /\ \A a, b, c : Swap!Holds(a, b, c) <=> Holds(a, b, c)
  /\ \A i : Swap!ShiftDefined(i) <=> ShiftDefined(i)
<1>1. /\ Swap!BitPos = BitPos /\ Swap!MemBits = MemBits /\ Swap!Addr = Addr
      /\ \A a : Swap!Pos(a) = Pos(a) /\ Swap!Base(a) = Base(a)
  BY DEF Swap!BitPos, Swap!MemBits, Swap!Addr, Swap!Pos, Swap!Base, BitPos, MemBits, Addr, Pos, Base
<1>2. /\ \A m, b, w : Swap!Store(m, b, w) = Store(m, b, w)
      /\ \A m, b : Swap!Load(m, b) = Load(m, b)
      /\ \A w, i : Swap!Lsr(w, i) = Lsr(w, i) /\ Swap!Lsl(w, i) = Lsl(w, i)
  BY <1>1 DEF Swap!Store, Swap!Load, Swap!Lsr, Swap!Lsl, Store, Load, Lsr, Lsl
<1> QED BY <1>1, <1>2 DEF Swap!Holds, Swap!ShiftDefined, Holds, ShiftDefined

Xor(v, w) == (v \ w) \cup (w \ v)

LEMMA XorTwice == \A v, w : Xor(w, Xor(v, w)) = v /\ Xor(Xor(v, w), v) = w
BY DEF Xor

LEMMA XorZero == \A v : Xor(v, Zero) = v
BY EmptyAssumption DEF Xor

\* r is the memory m with the bits [x, x + len) those exclusive or those from y on.
Xored(m, r, x, y, len) ==
  /\ Memory(r)
  /\ \A a \in Addr : r[a] = IF x <= a /\ a < x + len THEN Xor(m[a], m[a + (y - x)]) ELSE m[a]

LEMMA XorFieldIs ==
  ASSUME NEW m, Memory(m), NEW b0 \in Int, NEW b1 \in Int, NEW s0 \in Nat, NEW s1 \in Nat,
         NEW len \in Nat, s0 + len <= W, s1 + len <= W
  PROVE  Xored(m, Swap!XorField(m, b0, b1, s0, s1, len), b0 + s0, b1 + s1, len)
<1> DEFINE sh == Swap!Shifted(Load(m, b1), s0 - s1)
           f  == Swap!Field(sh, s0, len)
           w  == Swap!BitXor(Load(m, b0), f)
           r  == Store(m, b0, w)
<1>1. r = Swap!XorField(m, b0, b1, s0, s1, len)
  BY SwapWords DEF Swap!XorField
<1>2. Memory(r)
  BY DEF Store, Memory
<1>3. ASSUME NEW i \in BitPos
      PROVE  w[i] = IF s0 <= i /\ i < s0 + len THEN Xor(m[b0 + i], m[(b0 + i) + ((b1 + s1) - (b0 + s0))])
                    ELSE m[b0 + i]
  <2>1. i \in Int /\ 0 <= i /\ i < W
    BY Widths DEF BitPos
  <2>2. w[i] = Xor(Load(m, b0)[i], f[i])
    BY SwapWords DEF Swap!BitXor, Xor
  <2>3. f[i] = IF s0 <= i /\ i < s0 + len THEN sh[i] ELSE Zero
    BY SwapWords DEF Swap!Field
  <2>4. Load(m, b0)[i] = m[b0 + i]
    BY LoadBit
  <2>5. CASE s0 <= i /\ i < s0 + len
    <3> DEFINE j == i - (s0 - s1)
    <3>1. j \in BitPos /\ j \in Int
      BY <2>1, <2>5, Widths DEF BitPos
    <3>2. sh[i] = Load(m, b1)[j]
      <4>1. CASE s0 - s1 >= 0
        <5>1. sh = Lsl(Load(m, b1), s0 - s1)
          BY <4>1, SwapWords DEF Swap!Shifted
        <5>2. s0 - s1 <= i
          BY <2>1, <2>5
        <5> QED BY <5>1, <5>2, LslBit
      <4>2. CASE ~(s0 - s1 >= 0)
        <5>1. sh = Lsr(Load(m, b1), -(s0 - s1))
          BY <4>2, SwapWords DEF Swap!Shifted
        <5>2. i + (-(s0 - s1)) = j /\ j < W
          BY <2>1, <2>5, <3>1, Widths DEF BitPos
        <5> HIDE DEF j
        <5> QED BY <5>1, <5>2, LsrBit
      <4> QED BY <4>1, <4>2
    <3>3. b1 + j = (b0 + i) + ((b1 + s1) - (b0 + s0))
      BY <2>1
    <3> HIDE DEF j
    <3>4. Load(m, b1)[j] = m[b1 + j]
      BY <3>1, LoadBit
    <3> QED BY <2>2, <2>3, <2>4, <2>5, <3>2, <3>3, <3>4
  <2>6. CASE ~(s0 <= i /\ i < s0 + len)
    BY <2>2, <2>3, <2>4, <2>6, XorZero
  <2> QED BY <2>5, <2>6
<1> HIDE DEF w
<1>4. ASSUME NEW a \in Addr
      PROVE  r[a] = IF b0 + s0 <= a /\ a < (b0 + s0) + len
                    THEN Xor(m[a], m[a + ((b1 + s1) - (b0 + s0))]) ELSE m[a]
  <2>1. a \in Int /\ DOMAIN m = Addr
    BY Widths DEF Memory
  <2>2. r[a] = IF b0 <= a /\ a < b0 + W THEN w[a - b0] ELSE m[a]
    BY <2>1, StoreBit
  <2>3. CASE b0 <= a /\ a < b0 + W
    <3> DEFINE i == a - b0
    <3>1. /\ i \in BitPos /\ b0 + i = a
          /\ (s0 <= i) <=> (b0 + s0 <= a)
          /\ (i < s0 + len) <=> (a < (b0 + s0) + len)
      BY <2>1, <2>3, Widths DEF BitPos
    <3>2. r[a] = w[i]
      BY <2>2, <2>3
    <3> HIDE DEF i, r
    <3> QED BY <1>3, <3>1, <3>2
  <2>4. CASE ~(b0 <= a /\ a < b0 + W)
    <3>1. ~(b0 + s0 <= a /\ a < (b0 + s0) + len)
      BY <2>1, <2>4, Widths
    <3> QED BY <2>2, <2>4, <3>1
  <2> QED BY <2>3, <2>4
<1> HIDE DEF r
<1>5. Xored(m, r, b0 + s0, b1 + s1, len)
  BY <1>2, <1>4 DEF Xored
<1> QED BY <1>1, <1>5

\* Three exclusive ors exchange two fields that do not overlap, also when they are
\* in the same word.
LEMMA ExchangeSwaps ==
  ASSUME NEW m, Memory(m), NEW b0 \in Int, NEW b1 \in Int, NEW s0 \in Nat, NEW s1 \in Nat,
         NEW len \in Nat, s0 + len <= W, s1 + len <= W, Apart(b0 + s0, b1 + s1, len)
  PROVE  Swap!Exchange(m, b0, b1, s0, s1, len) = Swapped(m, b0 + s0, b1 + s1, len)
<1> DEFINE x  == b0 + s0
           y  == b1 + s1
           m1 == Swap!XorField(m,  b0, b1, s0, s1, len)
           m2 == Swap!XorField(m1, b1, b0, s1, s0, len)
           m3 == Swap!XorField(m2, b0, b1, s0, s1, len)
<1>1. Xored(m, m1, x, y, len)
  BY XorFieldIs
<1>2. Xored(m1, m2, y, x, len)
  <2>1. Memory(m1)
    BY <1>1 DEF Xored
  <2> HIDE DEF m1
  <2> QED BY <2>1, XorFieldIs
<1>3. Xored(m2, m3, x, y, len)
  <2>1. Memory(m2)
    BY <1>2 DEF Xored
  <2> HIDE DEF m2
  <2> QED BY <2>1, XorFieldIs
<1>4. Swap!Exchange(m, b0, b1, s0, s1, len) = m3
  BY DEF Swap!Exchange
<1>5. x \in Int /\ y \in Int /\ Apart(x, y, len)
  OBVIOUS
<1> HIDE DEF m1, m2, m3, x, y
<1>6. ASSUME NEW a \in Addr
      PROVE  m3[a] = IF x <= a /\ a < x + len THEN m[a + (y - x)]
                     ELSE IF y <= a /\ a < y + len THEN m[a - (y - x)] ELSE m[a]
  <2>1. a \in Int
    BY Widths
  <2>2. CASE x <= a /\ a < x + len
    <3> DEFINE b == a + (y - x)
    <3>1. /\ b \in Addr /\ y <= b /\ b < y + len /\ ~(x <= b /\ b < x + len)
          /\ ~(y <= a /\ a < y + len) /\ b + (x - y) = a
      BY <1>5, <2>1, <2>2, Widths DEF Apart
    <3>2. m1[a] = Xor(m[a], m[b])
      BY <1>1, <2>2 DEF Xored
    <3> HIDE DEF b
    <3>3. m1[b] = m[b] /\ m2[a] = m1[a]
      BY <1>1, <1>2, <3>1 DEF Xored
    <3>4. m2[b] = Xor(m1[b], m1[a])
      BY <1>2, <3>1 DEF Xored
    <3>5. m3[a] = Xor(m2[a], m2[b])
      BY <1>3, <2>2 DEF Xored, b
    <3>6. m2[b] = m[a]
      BY <3>2, <3>3, <3>4, XorTwice, Zenon
    <3>7. m3[a] = Xor(Xor(m[a], m[b]), m[a])
      BY <3>2, <3>3, <3>5, <3>6
    <3>8. m3[a] = m[b]
      BY <3>7, XorTwice
    <3> QED BY <2>2, <3>8 DEF b
  <2>3. CASE y <= a /\ a < y + len
    <3> DEFINE b == a - (y - x)
    <3>1. /\ b \in Addr /\ x <= b /\ b < x + len /\ ~(x <= a /\ a < x + len)
          /\ ~(y <= b /\ b < y + len) /\ a + (x - y) = b /\ b + (y - x) = a
      BY <1>5, <2>1, <2>3, Widths DEF Apart
    <3> HIDE DEF b
    <3>2. m1[a] = m[a] /\ m2[b] = m1[b] /\ m3[a] = m2[a]
      BY <1>1, <1>2, <1>3, <3>1 DEF Xored
    <3>3. m1[b] = Xor(m[b], m[a])
      BY <1>1, <3>1 DEF Xored
    <3>4. m2[a] = Xor(m1[a], m1[b])
      BY <1>2, <2>3, <3>1 DEF Xored
    <3>5. m3[a] = Xor(m[a], Xor(m[b], m[a]))
      BY <3>2, <3>3, <3>4
    <3>6. m3[a] = m[b]
      BY <3>5, XorTwice
    <3> QED BY <2>3, <3>1, <3>6 DEF b
  <2>4. CASE ~(x <= a /\ a < x + len) /\ ~(y <= a /\ a < y + len)
    BY <1>1, <1>2, <1>3, <2>4 DEF Xored
  <2> QED BY <2>2, <2>3, <2>4
<1>7. m3 = [a \in Addr |-> m3[a]]
  BY <1>3 DEF Xored, Memory
<1>8. m3 = Swapped(m, x, y, len)
  BY <1>6, <1>7 DEF Swapped
<1> QED BY <1>4, <1>8 DEF x, y

----------------------------------------------------------------------------
(* swap_ranges                                                             *)

\* The next word of the first range is i, all before it has been exchanged.
Exchanged(i) ==
  /\ i \in Int /\ Pos(i) = 0 /\ first <= i /\ i <= Base(first + n)
  /\ mem = Swapped(orig, first, second, i - first)

SwapInv ==
  /\ orig \in [Addr -> Bit]
  /\ first \in Nat /\ second \in Nat /\ n \in Nat /\ Apart(first, second, n)
  /\ pc \in {"start", "same", "words", "done"}
  /\ used \in SUBSET Int /\ shifts \in SUBSET Int
  /\ Swap!AccessInRange /\ Swap!ShiftsDefined
  /\ pc = "start" => /\ mem = orig /\ it1 = Base(first) /\ it2 = Base(second)
                     /\ p = second /\ ret = second
  /\ pc = "same"  => /\ Exchanged(it1) /\ it2 = second + (it1 - first)
                     /\ Pos(first) = Pos(second) /\ p = second /\ ret = second
  /\ pc = "words" => /\ Exchanged(it1)
                     /\ it2 \in Int /\ Pos(it2) = 0 /\ it2 + Pos(p) = second + (it1 - first)
                     /\ p = second + (W - Pos(first)) /\ W - Pos(first) <= n /\ Pos(p) # 0
                     /\ ret = second
  /\ pc = "done"  => /\ mem = Swapped(orig, first, second, n) /\ ret = second + n
                     /\ p \in second .. (second + n)
                     /\ it1 \in 0 .. MemBits /\ it2 \in 0 .. MemBits

LEMMA SwapFacts ==
  ASSUME SwapInv
  PROVE  /\ orig \in [Addr -> Bit] /\ Memory(orig)
         /\ first \in Nat /\ second \in Nat /\ n \in Nat /\ first + n \in Nat /\ second + n \in Nat
         /\ Apart(first, second, n) /\ MemBits \in Nat
         /\ first + n <= MemBits /\ second + n <= MemBits
         /\ W \in Nat /\ W > 0
         /\ Pos(first) \in 0 .. (W - 1) /\ Base(first) \in Nat /\ first = Base(first) + Pos(first)
         /\ Pos(second) \in 0 .. (W - 1) /\ Base(second) \in Nat
         /\ second = Base(second) + Pos(second)
         /\ Pos(first + n) \in 0 .. (W - 1) /\ Base(first + n) \in Nat
         /\ first + n = Base(first + n) + Pos(first + n)
<1>1. /\ orig \in [Addr -> Bit] /\ Memory(orig)
      /\ first \in Nat /\ second \in Nat /\ n \in Nat /\ first + n \in Nat /\ second + n \in Nat
      /\ Apart(first, second, n)
  BY MemoryOf DEF SwapInv
<1>2. first + n <= MemBits /\ second + n <= MemBits /\ MemBits \in Nat /\ W \in Nat /\ W > 0
  BY <1>1, Widths DEF Apart
<1>3. /\ Pos(first) \in 0 .. (W - 1) /\ Base(first) \in Nat /\ first = Base(first) + Pos(first)
      /\ Pos(second) \in 0 .. (W - 1) /\ Base(second) \in Nat
      /\ second = Base(second) + Pos(second)
  BY <1>1, RangeFacts, BaseNat
<1> DEFINE e == first + n
<1>4. e \in Nat
  BY <1>1
<1> HIDE DEF e
<1>5. Pos(e) \in 0 .. (W - 1) /\ Base(e) \in Nat /\ e = Base(e) + Pos(e)
  BY <1>4, RangeFacts, BaseNat
<1> QED BY <1>1, <1>2, <1>3, <1>5 DEF e

LEMMA SwapImplies ==
  ASSUME SwapInv
  PROVE  Swap!TypeOK /\ Swap!SwapCorrect /\ Swap!PairsKept /\ Swap!AccessInRange
         /\ Swap!ShiftsDefined
<1> USE SwapFacts
<1>1. /\ pc \in {"start", "same", "words", "done"} /\ used \in SUBSET Int /\ shifts \in SUBSET Int
      /\ Swap!AccessInRange /\ Swap!ShiftsDefined
  BY DEF SwapInv
<1>2. \E d \in 0 .. n : mem = Swapped(orig, first, second, d)
  <2>1. CASE pc = "start"
    BY <2>1, SwappedNone DEF SwapInv
  <2>2. CASE pc \in {"same", "words"}
    <3>1. Exchanged(it1)
      BY <2>2 DEF SwapInv
    <3>2. it1 - first \in 0 .. n
      BY <3>1 DEF Exchanged
    <3> QED BY <3>1, <3>2 DEF Exchanged
  <2>3. CASE pc = "done"
    BY <2>3 DEF SwapInv
  <2> QED BY <1>1, <2>1, <2>2, <2>3
<1>3. PICK d \in 0 .. n : mem = Swapped(orig, first, second, d)
  BY <1>2
<1>4. d \in Nat /\ d <= n /\ Apart(first, second, d)
  BY <1>3 DEF Apart
<1>5. mem \in [Addr -> Bit]
  <2>1. first \in Int /\ second \in Int
    OBVIOUS
  <2> QED BY <1>3, <1>4, <2>1, SwappedType
<1>6. /\ p \in second .. (second + n) /\ ret \in second .. (second + n)
      /\ it1 \in 0 .. MemBits /\ it2 \in 0 .. MemBits
  <2>1. CASE pc = "start"
    BY <2>1 DEF SwapInv
  <2>2. CASE pc = "same"
    BY <2>2 DEF SwapInv, Exchanged
  <2>3. CASE pc = "words"
    <3>1. Pos(p) \in 0 .. (W - 1)
      BY <2>3, RangeFacts DEF SwapInv
    <3>2. it2 > -W
      BY <2>3, <3>1 DEF SwapInv, Exchanged
    <3>3. it2 >= 0
      <4> SUFFICES ASSUME it2 < 0 PROVE FALSE
        BY <2>3 DEF SwapInv
      <4>1. it2 \in Int /\ Pos(it2) = 0 /\ 0 \in Int
        BY <2>3 DEF SwapInv
      <4>2. Pos(0) = 0
        BY Widths DEF Pos
      <4>3. Base(0) = 0
        BY <4>2 DEF Base
      <4>4. it2 = 0 \/ it2 + W <= 0
        BY <4>1, <4>3, AlignedGap
      <4> QED BY <3>2, <4>1, <4>4
    <3> QED BY <2>3, <3>1, <3>3 DEF SwapInv, Exchanged
  <2>4. CASE pc = "done"
    BY <2>4 DEF SwapInv
  <2> QED BY <1>1, <2>1, <2>2, <2>3, <2>4
<1>7. Swap!TypeOK
  BY <1>1, <1>5, <1>6, SwapWords DEF Swap!TypeOK
<1>8. Swap!SwapCorrect
  <2> SUFFICES ASSUME pc = "done"
               PROVE  /\ mem = [a \in Addr |-> IF Swap!In1(a) THEN orig[second + (a - first)]
                                               ELSE IF Swap!In2(a) THEN orig[first + (a - second)]
                                               ELSE orig[a]]
                      /\ ret = second + n
    BY SwapWords DEF Swap!SwapCorrect
  <2>1. mem = Swapped(orig, first, second, n) /\ ret = second + n
    BY DEF SwapInv
  <2>2. ASSUME NEW a \in Addr
        PROVE  a + (second - first) = second + (a - first) /\ a - (second - first) = first + (a - second)
    <3>1. a \in Int /\ first \in Int /\ second \in Int
      BY Widths
    <3> QED BY <3>1
  <2> QED BY <2>1, <2>2 DEF Swapped, Swap!In1, Swap!In2
<1>9. Swap!PairsKept
  <2>1. ASSUME NEW i \in 0 .. (n - 1)
        PROVE  {mem[first + i], mem[second + i]} = {orig[first + i], orig[second + i]}
    <3>0. /\ i \in Int /\ 0 <= i /\ i < n /\ first \in Int /\ second \in Int /\ n \in Int
          /\ first >= 0 /\ second >= 0 /\ first + n <= MemBits /\ second + n <= MemBits
      OBVIOUS
    <3>1. /\ first + i \in Addr /\ second + i \in Addr
          /\ (first + i) + (second - first) = second + i
          /\ (second + i) - (second - first) = first + i
      BY <3>0, Widths
    <3>2. /\ mem[first + i] = IF i < d THEN orig[second + i] ELSE orig[first + i]
          /\ mem[second + i] = IF i < d THEN orig[first + i] ELSE orig[second + i]
      BY <1>3, <1>4, <3>1 DEF Swapped, Apart
    <3> QED BY <3>2
  <2>2. ASSUME NEW a \in Addr, ~Swap!In1(a), ~Swap!In2(a)
        PROVE  mem[a] = orig[a]
    <3>1. a \in Int /\ first \in Int /\ second \in Int /\ n \in Int
      BY Widths
    <3>2. ~(first <= a /\ a < first + d) /\ ~(second <= a /\ a < second + d)
      BY <1>4, <2>2, <3>1 DEF Swap!In1, Swap!In2
    <3> QED BY <1>3, <3>2 DEF Swapped
  <2> QED BY <2>1, <2>2, SwapWords DEF Swap!PairsKept
<1> QED BY <1>1, <1>7, <1>8, <1>9

\* The words and shifts of one exchange of l bits, when they are bits of the ranges.
LEMMA ExchangeSafe ==
  ASSUME NEW s0 \in Nat, NEW s1 \in Nat, s0 < W, s1 < W
  PROVE  \A i \in Swap!ExchangeShifts(s0, s1) : i \in Int /\ ShiftDefined(i)
<1>1. /\ s0 \in 0 .. (W - 1) /\ s1 \in 0 .. (W - 1)
      /\ (IF s0 >= s1 THEN s0 - s1 ELSE s1 - s0) \in 0 .. (W - 1)
  BY Widths
<1>2. Swap!ExchangeShifts(s0, s1) \subseteq 0 .. (W - 1)
  BY <1>1 DEF Swap!ExchangeShifts
<1> QED BY <1>2, ShiftIs

\* What every step has to show of the words and shifts.
SafeStep ==
  /\ used' \in SUBSET Int /\ shifts' \in SUBSET Int
  /\ \A b \in used' : Holds(b, first, first + n) \/ Holds(b, second, second + n)
  /\ \A i \in shifts' : ShiftDefined(i)

LEMMA SafeStepIs ==
  ASSUME SafeStep, first' = first, second' = second, n' = n
  PROVE  used' \in SUBSET Int /\ shifts' \in SUBSET Int /\ Swap!AccessInRange' /\ Swap!ShiftsDefined'
BY SwapWords DEF SafeStep, Swap!AccessInRange, Swap!ShiftsDefined

LEMMA NoAccessSafe == used' = {} /\ shifts' = {} => SafeStep
BY DEF SafeStep

\* The len bits d on from x are a field of the word at b0, those d on from y one of
\* that at b1.
Fields(x, y, d, b0, b1, s0, s1, len) ==
  /\ s0 + len <= W /\ s1 + len <= W
  /\ b0 + s0 = x + d /\ b1 + s1 = y + d
  /\ Apart(x, y, d + len)

\* Exchanging the fields that come next.
LEMMA ExchangeNext ==
  ASSUME NEW m, NEW x \in Int, NEW y \in Int, NEW d \in Nat, NEW b0 \in Int, NEW b1 \in Int,
         NEW s0 \in Nat, NEW s1 \in Nat, NEW len \in Nat, Fields(x, y, d, b0, b1, s0, s1, len)
  PROVE  Swap!Exchange(Swapped(m, x, y, d), b0, b1, s0, s1, len) = Swapped(m, x, y, d + len)
<1> DEFINE s == Swapped(m, x, y, d)
<1>1. Memory(s)
  BY DEF Swapped, Memory
<1>2. /\ s0 + len <= W /\ s1 + len <= W /\ b0 + s0 = x + d /\ b1 + s1 = y + d
      /\ Apart(x, y, d + len)
  BY DEF Fields
<1>3. Apart(b0 + s0, b1 + s1, len)
  BY <1>2, Widths DEF Apart
<1> HIDE DEF s
<1>4. Swap!Exchange(s, b0, b1, s0, s1, len) = Swapped(s, b0 + s0, b1 + s1, len)
  BY <1>1, <1>2, <1>3, ExchangeSwaps
<1>5. Swapped(Swapped(m, x, y, d), x + d, y + d, len) = Swapped(m, x, y, d + len)
  BY <1>2, SwappedGrows
<1> QED BY <1>2, <1>4, <1>5 DEF s

\* The next l bits, which are s0 on from it1, and s1 on from it2, in one word each.
LEMMA OnePieceStep ==
  ASSUME SwapInv, NEW d \in Nat, mem = Swapped(orig, first, second, d), it1 \in Int, it2 \in Int,
         NEW s0 \in Nat, NEW s1 \in Nat, NEW l \in Nat, l > 0, d + l <= n,
         it1 + s0 = first + d, it2 + s1 = second + d, s0 + l <= W, s1 + l <= W,
         Swap!OnePiece(s0, s1, l)
  PROVE  mem' = Swapped(orig, first, second, d + l) /\ SafeStep
<1>1. /\ mem' = Swap!Exchange(mem, it1, it2, s0, s1, l)
      /\ used' = {it1, it2} /\ shifts' = Swap!ExchangeShifts(s0, s1)
  BY DEF Swap!OnePiece
<1>2. /\ first \in Int /\ second \in Int /\ n \in Int /\ W \in Int /\ MemBits \in Int
      /\ Apart(first, second, n)
  BY SwapFacts
<1>3. Fields(first, second, d, it1, it2, s0, s1, l)
  BY <1>2 DEF Apart, Fields
<1>4. mem' = Swapped(orig, first, second, d + l)
  BY <1>1, <1>2, <1>3, ExchangeNext
<1>5. SafeStep
  <2>1. \A b \in used' : b \in Int /\ (Holds(b, first, first + n) \/ Holds(b, second, second + n))
    BY <1>1, <1>2, HoldsIs
  <2>2. \A i \in shifts' : i \in Int /\ ShiftDefined(i)
    BY <1>1, <1>2, ExchangeSafe
  <2> QED BY <2>1, <2>2 DEF SafeStep
<1> QED BY <1>4, <1>5

\* The same, when those s1 on from it2 go on in the next word.
LEMMA TwoPiecesStep ==
  ASSUME SwapInv, NEW d \in Nat, mem = Swapped(orig, first, second, d), it1 \in Int, it2 \in Int,
         NEW s0 \in Nat, NEW s1 \in Nat, NEW l \in Nat, d + l <= n,
         it1 + s0 = first + d, it2 + s1 = second + d, s0 + l <= W, s1 < W, W - s1 < l,
         Swap!TwoPieces(s0, s1, l)
  PROVE  mem' = Swapped(orig, first, second, d + l) /\ SafeStep
<1> DEFINE l1 == W - s1
           l2 == l - l1
<1>1. /\ mem' = Swap!Exchange(Swap!Exchange(mem, it1, it2, s0, s1, l1), it1, it2 + W, s0 + l1, 0, l2)
      /\ used' = {it1, it2, it2 + W}
      /\ shifts' = Swap!ExchangeShifts(s0, s1) \cup Swap!ExchangeShifts(s0 + l1, 0)
  BY DEF Swap!TwoPieces
<1>2. /\ first \in Int /\ second \in Int /\ n \in Int /\ W \in Int /\ MemBits \in Int
      /\ Apart(first, second, n)
  BY SwapFacts
<1>3. /\ l1 \in Nat /\ l1 > 0 /\ l2 \in Nat /\ l2 > 0 /\ l1 + l2 = l /\ s1 + l1 = W
      /\ s0 + l1 \in Nat /\ s0 + l1 < W /\ l2 <= W /\ s0 < W /\ W > 0
      /\ s0 + (l1 + l2) <= W
  BY <1>2
<1> HIDE DEF l1, l2
<1>4. Apart(first, second, d + (l1 + l2))
  BY <1>2, <1>3 DEF Apart
<1>5. ASSUME NEW i \in Nat, NEW j \in Nat, NEW c \in Int, NEW s \in Nat, NEW x \in Int, NEW y \in Int,
             NEW u \in Int, NEW v \in Int, NEW e \in Nat, NEW z \in Nat,
             i = l1, j = l2, c = it2 + W, s = s0 + l1, x = first, y = second, u = it1, v = it2,
             e = d + l1, z = 0
      PROVE  mem' = Swapped(orig, first, second, d + l)
  <2> DEFINE m1 == Swap!Exchange(Swapped(orig, x, y, d), u, v, s0, s1, i)
  <2>1. Fields(x, y, d, u, v, s0, s1, i) /\ e = d + i /\ e + j = d + l
    BY <1>2, <1>3, <1>4, <1>5 DEF Apart, Fields
  <2>2. Fields(x, y, e, u, c, s, z, j)
    BY <1>2, <1>3, <1>4, <1>5 DEF Apart, Fields
  <2>3. mem' = Swap!Exchange(m1, u, c, s, z, j)
    BY <1>1, <1>5
  <2>4. m1 = Swapped(orig, x, y, d + i)
    BY <2>1, ExchangeNext
  <2>5. Swap!Exchange(Swapped(orig, x, y, e), u, c, s, z, j) = Swapped(orig, x, y, e + j)
    BY <2>2, ExchangeNext
  <2> QED BY <1>5, <2>1, <2>3, <2>4, <2>5
<1>6. mem' = Swapped(orig, first, second, d + l)
  <2>1. it2 + W \in Int /\ d + l1 \in Nat
    BY <1>2, <1>3
  <2> QED BY <1>2, <1>3, <1>5, <2>1
<1>7. SafeStep
  <2>1. \A b \in used' : b \in Int /\ (Holds(b, first, first + n) \/ Holds(b, second, second + n))
    BY <1>1, <1>2, <1>3, HoldsIs
  <2>2. \A i \in Swap!ExchangeShifts(s0, s1) : i \in Int /\ ShiftDefined(i)
    BY <1>3, ExchangeSafe
  <2>3. \A i \in Swap!ExchangeShifts(s0 + l1, 0) : i \in Int /\ ShiftDefined(i)
    BY <1>3, ExchangeSafe
  <2> QED BY <1>1, <2>1, <2>2, <2>3 DEF SafeStep
<1> QED BY <1>6, <1>7

\* The call returns.
LEMMA SwapReturns ==
  ASSUME SwapInv, SafeStep, UNCHANGED <<orig, first, second, n, it1, it2, p>>, pc' = "done",
         ret' = second + n, mem' = Swapped(orig, first, second, n),
         p \in second .. (second + n), it1 \in 0 .. MemBits, it2 \in 0 .. MemBits
  PROVE  SwapInv'
<1>1. used' \in SUBSET Int /\ shifts' \in SUBSET Int /\ Swap!AccessInRange' /\ Swap!ShiftsDefined'
  BY SafeStepIs
<1> QED BY <1>1 DEF SwapInv, Apart

LEMMA EmptyStep ==
  ASSUME SwapInv, Swap!Empty
  PROVE  SwapInv'
<1>1. /\ n = 0 /\ pc = "start" /\ pc' = "done" /\ ret' = second /\ mem' = mem
      /\ UNCHANGED <<orig, first, second, n, it1, it2, p>> /\ used' = {} /\ shifts' = {}
  BY DEF Swap!Empty, Swap!Return, Swap!Call
<1>2. mem' = Swapped(orig, first, second, n) /\ ret' = second + n
  BY <1>1, SwapFacts, SwappedNone DEF SwapInv
<1>3. p \in second .. (second + n) /\ it1 \in 0 .. MemBits /\ it2 \in 0 .. MemBits
  BY <1>1, SwapFacts DEF SwapInv
<1> QED BY <1>1, <1>2, <1>3, NoAccessSafe, SwapReturns

\* A range of several words, or of one.
LEMMA WordsOfRange ==
  ASSUME SwapInv, pc = "start", n # 0
  PROVE  /\ Swap!SingleWord => Pos(first) + n <= W
         /\ ~Swap!SingleWord => Base(first) + W <= Base(first + n)
<1>1. /\ n \in Nat /\ first \in Nat /\ first < first + n /\ it1 = Base(first) /\ W \in Nat /\ W > 0
      /\ Pos(first) \in 0 .. (W - 1) /\ Base(first) \in Int /\ first = Base(first) + Pos(first)
      /\ Pos(first + n) \in 0 .. (W - 1) /\ Base(first + n) \in Int
      /\ first + n = Base(first + n) + Pos(first + n)
  BY SwapFacts DEF SwapInv
<1>2. Swap!SingleWord <=> it1 + (IF Pos(first + n) = 0 THEN W ELSE 0) = Base(first + n)
  BY SwapWords DEF Swap!SingleWord, Swap!last1
<1> DEFINE e == first + n
<1>3. Base(first) = Base(e) \/ Base(first) + W <= Base(e)
  <2>1. Pos(Base(first)) = 0 /\ Base(first) < e /\ e \in Int
    BY <1>1, BaseAligned
  <2> HIDE DEF e
  <2> QED BY <1>1, <2>1, AlignedGap
<1> QED BY <1>1, <1>2, <1>3

LEMMA InOneWordStep ==
  ASSUME SwapInv, Swap!InOneWord
  PROVE  SwapInv'
<1>1. /\ pc = "start" /\ n # 0 /\ Swap!SingleWord
      /\ IF Swap!BothInOne THEN Swap!OnePiece(Pos(first), Pos(second), n)
                           ELSE Swap!TwoPieces(Pos(first), Pos(second), n)
      /\ pc' = "done" /\ ret' = second + n
      /\ UNCHANGED <<orig, first, second, n, it1, it2, p>>
  BY SwapWords DEF Swap!InOneWord, Swap!Return, Swap!Call
<1>2. Pos(first) + n <= W
  BY <1>1, WordsOfRange
<1>3. Swap!BothInOne <=> Pos(first) >= Pos(second) \/ n <= W - Pos(second)
  BY SwapWords DEF Swap!BothInOne
<1>4. /\ it1 = Base(first) /\ it2 = Base(second) /\ p = second
      /\ mem = Swapped(orig, first, second, 0)
  BY <1>1, SwapFacts, SwappedNone DEF SwapInv
<1>5. /\ it1 \in Int /\ it2 \in Int /\ Pos(first) \in Nat /\ Pos(second) \in Nat /\ n \in Nat /\ n > 0
      /\ 0 + n = n /\ it1 + Pos(first) = first + 0 /\ it2 + Pos(second) = second + 0
      /\ Pos(second) < W /\ W \in Nat
  BY <1>1, <1>4, SwapFacts
<1>6. CASE Swap!BothInOne
  <2>1. Pos(second) + n <= W
    BY <1>2, <1>3, <1>5, <1>6
  <2>2. mem' = Swapped(orig, first, second, 0 + n) /\ SafeStep
    BY <1>1, <1>2, <1>4, <1>5, <1>6, <2>1, OnePieceStep
  <2> QED BY <1>1, <1>4, <1>5, <2>2, SwapFacts, SwapReturns
<1>7. CASE ~Swap!BothInOne
  <2>1. W - Pos(second) < n
    BY <1>3, <1>5, <1>7
  <2>2. mem' = Swapped(orig, first, second, 0 + n) /\ SafeStep
    BY <1>1, <1>2, <1>4, <1>5, <1>7, <2>1, TwoPiecesStep
  <2> QED BY <1>1, <1>4, <1>5, <2>2, SwapFacts, SwapReturns
<1> QED BY <1>6, <1>7

\* A word boundary and a position.
LEMMA PosOf ==
  ASSUME NEW b \in Int, Pos(b) = 0, NEW r \in 0 .. (W - 1)
  PROVE  Pos(b + r) = r
<1> DEFINE u == b \div W
<1>1. u \in Int /\ b = u * W + 0 /\ r \in BitPos /\ r \in Int
  BY Widths DEF Pos, BitPos
<1> HIDE DEF u
<1>2. Pos(u * W + r) = r
  BY <1>1, PosUnique
<1>3. u * W + r = b + r
  BY <1>1, Widths
<1> QED BY <1>2, <1>3

\* The loop of several words goes on.
LEMMA SwapGoesOn ==
  ASSUME SwapInv, SafeStep, UNCHANGED <<orig, first, second, n, ret>>, ret = second,
         NEW i \in Int, Pos(i) = 0, first <= i, i <= Base(first + n), it1' = i,
         mem' = Swapped(orig, first, second, i - first),
         \/ /\ pc' = "same" /\ it2' = second + (i - first)
            /\ Pos(first) = Pos(second) /\ p' = second
         \/ /\ pc' = "words" /\ it2' \in Int /\ Pos(it2') = 0 /\ it2' + Pos(p') = second + (i - first)
            /\ p' = second + (W - Pos(first)) /\ W - Pos(first) <= n /\ Pos(p') # 0
  PROVE  SwapInv'
<1>1. used' \in SUBSET Int /\ shifts' \in SUBSET Int /\ Swap!AccessInRange' /\ Swap!ShiftsDefined'
  BY SafeStepIs
<1>2. /\ Exchanged(it1)'
      /\ pc' \in {"same", "words"}
  BY DEF Exchanged
<1>3. /\ orig' \in [Addr -> Bit]
      /\ first' \in Nat /\ second' \in Nat /\ n' \in Nat /\ Apart(first, second, n)'
  BY SwapFacts DEF Apart
<1> QED BY <1>1, <1>2, <1>3 DEF SwapInv

LEMMA SameHeadStep ==
  ASSUME SwapInv, Swap!SameHead
  PROVE  SwapInv'
<1>1. /\ pc = "start" /\ n # 0 /\ ~Swap!SingleWord /\ Pos(first) = Pos(second)
      /\ Swap!OnePiece(Pos(first), Pos(first), W - Pos(first))
      /\ it1' = it1 + W /\ it2' = it2 + W /\ pc' = "same"
      /\ UNCHANGED <<orig, first, second, n, p, ret>>
  BY SwapWords DEF Swap!SameHead, Swap!Call
<1>2. /\ it1 = Base(first) /\ it2 = Base(second) /\ p = second /\ ret = second
      /\ mem = Swapped(orig, first, second, 0)
      /\ Base(first) + W <= Base(first + n)
  BY <1>1, SwapFacts, SwappedNone, WordsOfRange DEF SwapInv
<1> DEFINE s == Pos(first)
           l == W - s
<1>3. /\ it1 \in Int /\ it2 \in Int /\ s \in Nat /\ l \in Nat /\ l > 0 /\ 0 + l <= n /\ 0 + l = l
      /\ it1 + s = first + 0 /\ it2 + s = second + 0 /\ s + l <= W
      /\ (it1 + W) - first = l /\ it2 + W = second + l /\ first <= it1 + W
  BY <1>1, <1>2, SwapFacts
<1> HIDE DEF s, l
<1>4. mem' = Swapped(orig, first, second, 0 + l) /\ SafeStep
  BY <1>1, <1>2, <1>3, OnePieceStep DEF s, l
<1>5. it1 + W \in Int /\ Pos(it1 + W) = 0
  BY <1>2, SwapFacts, BaseAligned, AlignedStep
<1> QED BY <1>1, <1>2, <1>3, <1>4, <1>5, SwapGoesOn

\* std::swap_ranges of one word.
LEMMA WordSwaps ==
  ASSUME NEW m, Memory(m), NEW x \in Int, NEW y \in Int, Apart(x, y, W)
  PROVE  Store(Store(m, x, Load(m, y)), y, Load(m, x)) = Swapped(m, x, y, W)
<1> DEFINE m1 == Store(m, x, Load(m, y))
           m2 == Store(m1, y, Load(m, x))
<1>1. DOMAIN m = Addr /\ W \in Nat
  BY Widths DEF Memory
<1>2. DOMAIN m1 = Addr
  BY <1>1 DEF Store
<1>3. m2 = [a \in Addr |-> m2[a]]
  BY <1>2 DEF Store
<1>4. ASSUME NEW a \in Addr
      PROVE  m2[a] = IF x <= a /\ a < x + W THEN m[a + (y - x)]
                     ELSE IF y <= a /\ a < y + W THEN m[a - (y - x)] ELSE m[a]
  <2>1. a \in Int
    BY Widths
  <2>2. m1[a] = IF x <= a /\ a < x + W THEN Load(m, y)[a - x] ELSE m[a]
    BY <1>1, StoreBit
  <2>3. m2[a] = IF y <= a /\ a < y + W THEN Load(m, x)[a - y] ELSE m1[a]
    BY <1>2, StoreBit
  <2>4. x <= a /\ a < x + W => Load(m, y)[a - x] = m[a + (y - x)] /\ ~(y <= a /\ a < y + W)
    <3> HAVE x <= a /\ a < x + W
    <3>1. a - x \in BitPos /\ y + (a - x) = a + (y - x) /\ ~(y <= a /\ a < y + W)
      BY <1>1, <2>1 DEF BitPos, Apart
    <3>2. Load(m, y)[a - x] = m[y + (a - x)]
      BY <3>1, LoadBit
    <3> QED BY <3>1, <3>2
  <2>5. y <= a /\ a < y + W => Load(m, x)[a - y] = m[a - (y - x)]
    <3> HAVE y <= a /\ a < y + W
    <3>1. a - y \in BitPos /\ x + (a - y) = a - (y - x)
      BY <1>1, <2>1 DEF BitPos
    <3>2. Load(m, x)[a - y] = m[x + (a - y)]
      BY <3>1, LoadBit
    <3> QED BY <3>1, <3>2
  <2> HIDE DEF m1, m2
  <2> QED BY <2>2, <2>3, <2>4, <2>5
<1> HIDE DEF m2
<1>5. m2 = Swapped(m, x, y, W)
  BY <1>3, <1>4 DEF Swapped
<1> QED BY <1>5 DEF m2

\* There is a whole word left, unless the next one is last's.
LEMMA WordLeft ==
  ASSUME SwapInv, Exchanged(it1), it1 # Base(first + n)
  PROVE  it1 + W <= Base(first + n)
<1> DEFINE e == Base(first + n)
<1>1. e \in Int /\ Base(e) = e /\ first + n \in Int
  <2>1. first + n \in Int /\ e \in Int /\ Pos(e) = 0
    BY SwapFacts, BaseAligned
  <2> HIDE DEF e
  <2> QED BY <2>1 DEF Base
<1>2. it1 \in Int /\ Pos(it1) = 0 /\ it1 <= e /\ it1 # e
  BY DEF Exchanged
<1> HIDE DEF e
<1>3. it1 + W <= e
  BY <1>1, <1>2, AlignedGap, Widths
<1> QED BY <1>3 DEF e

LEMMA SameWordStep ==
  ASSUME SwapInv, Swap!SameWord
  PROVE  SwapInv'
<1>1. /\ pc = "same" /\ it1 # Base(first + n)
      /\ mem' = Store(Store(mem, it1, Load(mem, it2)), it2, Load(mem, it1))
      /\ used' = {it1, it2} /\ shifts' = {}
      /\ it1' = it1 + W /\ it2' = it2 + W /\ pc' = "same"
      /\ UNCHANGED <<orig, first, second, n, p, ret>>
  BY SwapWords DEF Swap!SameWord, Swap!Call, Swap!last1
<1>2. /\ Exchanged(it1) /\ it2 = second + (it1 - first)
      /\ Pos(first) = Pos(second) /\ p = second /\ ret = second
  BY <1>1 DEF SwapInv
<1>3. it1 + W <= Base(first + n)
  BY <1>1, <1>2, WordLeft
<1> DEFINE d == it1 - first
<1>4. /\ it1 \in Int /\ Pos(it1) = 0 /\ first <= it1 /\ mem = Swapped(orig, first, second, d)
  BY <1>2 DEF Exchanged
<1>5. /\ d \in Nat /\ it1 = first + d /\ it2 = second + d /\ d + W <= n /\ W \in Nat /\ W > 0
      /\ (it1 + W) - first = d + W /\ it2 + W = second + (d + W) /\ first <= it1 + W
      /\ it1 + W \in Int /\ first \in Int /\ second \in Int /\ it2 \in Int /\ n \in Int
  BY <1>2, <1>3, <1>4, SwapFacts
<1> HIDE DEF d
<1>6. Apart(it1, it2, W) /\ Apart(first, second, d + W)
  BY <1>5, SwapFacts DEF Apart
<1>7. Memory(mem)
  BY <1>4 DEF Swapped, Memory
<1>8. mem' = Swapped(mem, it1, it2, W)
  BY <1>1, <1>5, <1>6, <1>7, WordSwaps
<1>9. mem' = Swapped(orig, first, second, d + W)
  <2>1. Swapped(Swapped(orig, first, second, d), first + d, second + d, W)
          = Swapped(orig, first, second, d + W)
    BY <1>5, <1>6, SwappedGrows
  <2> QED BY <1>4, <1>5, <1>8, <2>1
<1>10. SafeStep
  <2>1. \A b \in used' : b \in Int /\ (Holds(b, first, first + n) \/ Holds(b, second, second + n))
    BY <1>1, <1>5, HoldsIs
  <2> QED BY <1>1, <2>1 DEF SafeStep
<1>11. Pos(it1 + W) = 0
  BY <1>4, AlignedStep
<1> QED BY <1>1, <1>2, <1>3, <1>5, <1>9, <1>10, <1>11, SwapGoesOn

LEMMA SameTailStep ==
  ASSUME SwapInv, Swap!SameTail
  PROVE  SwapInv'
<1>1. /\ pc = "same" /\ it1 = Base(first + n)
      /\ IF Pos(first + n) # 0 THEN Swap!OnePiece(0, 0, Pos(first + n))
                               ELSE used' = {} /\ shifts' = {} /\ mem' = mem
      /\ pc' = "done" /\ ret' = it2 + Pos(first + n)
      /\ UNCHANGED <<orig, first, second, n, it1, it2, p>>
  BY SwapWords DEF Swap!SameTail, Swap!Return, Swap!Call, Swap!last1
<1>2. /\ Exchanged(it1) /\ it2 = second + (it1 - first) /\ p = second
  BY <1>1 DEF SwapInv
<1> DEFINE d == it1 - first
           l == Pos(first + n)
<1>3. /\ it1 \in Int /\ first <= it1 /\ mem = Swapped(orig, first, second, d)
  BY <1>2 DEF Exchanged
<1>4. /\ d \in Nat /\ l \in Nat /\ d + l = n /\ l <= W /\ it2 \in Int
      /\ it1 + 0 = first + d /\ it2 + 0 = second + d /\ ret' = second + n /\ 0 + l <= W
      /\ p \in second .. (second + n) /\ it1 \in 0 .. MemBits /\ it2 \in 0 .. MemBits
  BY <1>1, <1>2, <1>3, SwapFacts
<1> HIDE DEF d
<1>5. mem' = Swapped(orig, first, second, n) /\ SafeStep
  <2>1. CASE l # 0
    <3>1. Swap!OnePiece(0, 0, l) /\ l > 0 /\ 0 \in Nat /\ d + l <= n
      BY <1>1, <1>4, <2>1, SwapFacts
    <3> HIDE DEF l
    <3>2. mem' = Swapped(orig, first, second, d + l) /\ SafeStep
      BY <1>3, <1>4, <3>1, OnePieceStep
    <3> QED BY <1>4, <3>2
  <2>2. CASE l = 0
    <3>1. d = n
      BY <1>4, <2>2, SwapFacts
    <3> QED BY <1>1, <1>3, <2>2, <3>1, NoAccessSafe
  <2> QED BY <2>1, <2>2
<1> QED BY <1>1, <1>4, <1>5, SwapReturns

LEMMA HeadStep ==
  ASSUME SwapInv, Swap!Head
  PROVE  SwapInv'
<1> DEFINE s0 == Pos(first)
           s1 == Pos(second)
           l  == W - s0
<1>1. /\ pc = "start" /\ n # 0 /\ ~Swap!SingleWord /\ s0 # s1
      /\ IF s0 > s1 THEN Swap!OnePiece(s0, s1, l) /\ it2' = it2
                    ELSE Swap!TwoPieces(s0, s1, l) /\ it2' = it2 + W
      /\ it1' = it1 + W /\ p' = p + l /\ pc' = "words"
      /\ UNCHANGED <<orig, first, second, n, ret>>
  BY SwapWords DEF Swap!Head, Swap!Call
<1>2. /\ it1 = Base(first) /\ it2 = Base(second) /\ p = second /\ ret = second
      /\ mem = Swapped(orig, first, second, 0)
      /\ Base(first) + W <= Base(first + n)
  BY <1>1, SwapFacts, SwappedNone, WordsOfRange DEF SwapInv
<1>3. /\ it1 \in Int /\ it2 \in Int /\ s0 \in Nat /\ s1 \in Nat /\ l \in Nat /\ l > 0
      /\ s0 < W /\ s1 < W /\ 0 + l <= n /\ 0 + l = l /\ l <= n /\ W \in Nat
      /\ it1 + s0 = first + 0 /\ it2 + s1 = second + 0 /\ s0 + l = W
      /\ (it1 + W) - first = l /\ first <= it1 + W
  BY <1>1, <1>2, SwapFacts
<1>4. Pos(it2) = 0 /\ Pos(it2 + W) = 0 /\ it1 + W \in Int /\ Pos(it1 + W) = 0
  BY <1>2, <1>3, SwapFacts, BaseAligned, AlignedStep
<1> HIDE DEF s0, s1, l
<1>5. /\ mem' = Swapped(orig, first, second, 0 + l) /\ SafeStep
      /\ it2' \in Int /\ Pos(it2') = 0 /\ it2' + Pos(p') = second + l /\ Pos(p') # 0
  <2>1. CASE s0 > s1
    <3>1. s1 + l <= W /\ s0 + l <= W
      BY <1>3, <2>1
    <3>2. mem' = Swapped(orig, first, second, 0 + l) /\ SafeStep
      BY <1>1, <1>2, <1>3, <2>1, <3>1, OnePieceStep
    <3>3. p' = it2 + (s1 + l) /\ s1 + l \in 0 .. (W - 1) /\ s1 + l # 0 /\ p' = second + l
      <4>1. p' = second + l /\ second \in Int
        BY <1>1, <1>2, SwapFacts
      <4>2. s1 + l < W
        BY <1>3, <2>1
      <4> QED BY <1>3, <4>1, <4>2
    <3>4. Pos(p') = s1 + l
      BY <1>3, <1>4, <3>3, PosOf
    <3> QED BY <1>1, <1>3, <1>4, <2>1, <3>2, <3>3, <3>4
  <2>2. CASE ~(s0 > s1)
    <3>1. W - s1 < l /\ s0 + l <= W
      BY <1>1, <1>3, <2>2
    <3>2. mem' = Swapped(orig, first, second, 0 + l) /\ SafeStep
      BY <1>1, <1>2, <1>3, <2>2, <3>1, TwoPiecesStep
    <3>3. /\ p' = (it2 + W) + (s1 - s0) /\ s1 - s0 \in 0 .. (W - 1) /\ s1 - s0 # 0
          /\ it2 + W \in Int /\ p' = second + l
      <4>1. p' = second + l /\ second \in Int
        BY <1>1, <1>2, SwapFacts
      <4>2. s1 - s0 > 0
        BY <1>1, <1>3, <2>2
      <4> QED BY <1>3, <4>1, <4>2
    <3>4. Pos(p') = s1 - s0
      BY <1>4, <3>3, PosOf
    <3> QED BY <1>1, <1>3, <1>4, <2>2, <3>2, <3>3, <3>4
  <2> QED BY <2>1, <2>2
<1>6. p' = second + (W - Pos(first)) /\ W - Pos(first) <= n
  BY <1>1, <1>2, <1>3 DEF l, s0
<1> QED BY <1>1, <1>2, <1>3, <1>4, <1>5, <1>6, SwapGoesOn

LEMMA FullWordStep ==
  ASSUME SwapInv, Swap!FullWord
  PROVE  SwapInv'
<1> DEFINE d == it1 - first
           s == Pos(p)
<1>1. /\ pc = "words" /\ it1 # Base(first + n) /\ Swap!TwoPieces(0, s, W)
      /\ it1' = it1 + W /\ it2' = it2 + W /\ pc' = "words"
      /\ UNCHANGED <<orig, first, second, n, p, ret>>
  BY SwapWords DEF Swap!FullWord, Swap!Call, Swap!last1
<1>2. /\ Exchanged(it1) /\ it2 \in Int /\ Pos(it2) = 0 /\ it2 + s = second + d
      /\ p = second + (W - Pos(first)) /\ W - Pos(first) <= n /\ s # 0 /\ ret = second
  BY <1>1 DEF SwapInv
<1>3. it1 + W <= Base(first + n)
  BY <1>1, <1>2, WordLeft
<1>4. /\ it1 \in Int /\ Pos(it1) = 0 /\ first <= it1 /\ mem = Swapped(orig, first, second, d)
  BY <1>2 DEF Exchanged
<1>5. s \in 0 .. (W - 1)
  BY <1>2, SwapFacts, RangeFacts
<1>6. /\ d \in Nat /\ it1 + 0 = first + d /\ d + W <= n /\ W \in Nat /\ W > 0 /\ 0 + W <= W
      /\ (it1 + W) - first = d + W /\ first <= it1 + W /\ it1 + W \in Int /\ it2 + W \in Int
      /\ s \in Nat /\ s < W /\ W - s < W /\ (it2 + W) + s = second + (d + W) /\ 0 \in Nat
  BY <1>2, <1>3, <1>4, <1>5, SwapFacts
<1>7. Pos(it1 + W) = 0 /\ Pos(it2 + W) = 0
  BY <1>2, <1>4, AlignedStep
<1> HIDE DEF d, s
<1>8. mem' = Swapped(orig, first, second, d + W) /\ SafeStep
  BY <1>1, <1>2, <1>4, <1>6, TwoPiecesStep
<1>9. Pos(p') = s
  BY <1>1 DEF s
<1> QED BY <1>1, <1>2, <1>3, <1>6, <1>7, <1>8, <1>9, SwapGoesOn

LEMMA TailStep ==
  ASSUME SwapInv, Swap!Tail
  PROVE  SwapInv'
<1> DEFINE d == it1 - first
           s == Pos(p)
           l == Pos(first + n)
<1>1. /\ pc = "words" /\ it1 = Base(first + n)
      /\ IF l = 0 THEN used' = {} /\ shifts' = {} /\ mem' = mem
         ELSE IF l <= W - s THEN Swap!OnePiece(0, s, l) ELSE Swap!TwoPieces(0, s, l)
      /\ pc' = "done" /\ ret' = it2 + s + l
      /\ UNCHANGED <<orig, first, second, n, it1, it2, p>>
  BY SwapWords DEF Swap!Tail, Swap!Return, Swap!Call, Swap!last1
<1>2. /\ Exchanged(it1) /\ it2 \in Int /\ it2 + s = second + d
      /\ p = second + (W - Pos(first)) /\ W - Pos(first) <= n
  BY <1>1 DEF SwapInv
<1>3. /\ it1 \in Int /\ first <= it1 /\ mem = Swapped(orig, first, second, d)
  BY <1>2 DEF Exchanged
<1>4. s \in 0 .. (W - 1)
  BY <1>2, SwapFacts, RangeFacts
<1>5. p \in second .. (second + n) /\ it1 \in 0 .. MemBits /\ it2 \in 0 .. MemBits
  BY SwapImplies, SwapWords DEF Swap!TypeOK
<1>6. /\ d \in Nat /\ l \in Nat /\ d + l = n /\ d + l <= n /\ 0 + l <= W /\ s \in Nat /\ s < W
      /\ it1 + 0 = first + d /\ ret' = second + n /\ 0 \in Nat /\ W \in Nat
  BY <1>1, <1>2, <1>3, <1>4, SwapFacts
<1> HIDE DEF d, s, l
<1>7. mem' = Swapped(orig, first, second, n) /\ SafeStep
  <2>1. CASE l = 0
    <3>1. d = n
      BY <1>6, <2>1, SwapFacts
    <3> QED BY <1>1, <1>3, <2>1, <3>1, NoAccessSafe
  <2>2. CASE l # 0 /\ l <= W - s
    <3>1. s + l <= W /\ l > 0
      BY <1>6, <2>2
    <3>2. mem' = Swapped(orig, first, second, d + l) /\ SafeStep
      BY <1>1, <1>2, <1>3, <1>6, <2>2, <3>1, OnePieceStep
    <3> QED BY <1>6, <3>2
  <2>3. CASE l # 0 /\ ~(l <= W - s)
    <3>1. W - s < l
      BY <1>6, <2>3
    <3>2. mem' = Swapped(orig, first, second, d + l) /\ SafeStep
      BY <1>1, <1>2, <1>3, <1>6, <2>3, <3>1, TwoPiecesStep
    <3> QED BY <1>6, <3>2
  <2> QED BY <2>1, <2>2, <2>3
<1> QED BY <1>1, <1>5, <1>6, <1>7, SwapReturns

LEMMA SwapInit == Swap!Init => SwapInv
<1> SUFFICES ASSUME Swap!Init PROVE SwapInv
  OBVIOUS
<1>1. /\ orig \in [Addr -> Bit] /\ mem = orig
      /\ first \in 0 .. MemBits /\ second \in 0 .. MemBits /\ n \in 0 .. MemBits
      /\ first + n <= MemBits /\ second + n <= MemBits
      /\ first + n <= second \/ second + n <= first
      /\ p = second /\ it1 = Base(first) /\ it2 = Base(second) /\ ret = second
      /\ pc = "start" /\ used = {} /\ shifts = {}
  BY SwapWords DEF Swap!Init
<1>2. Apart(first, second, n)
  BY <1>1, Widths DEF Apart
<1>3. Swap!AccessInRange /\ Swap!ShiftsDefined
  BY <1>1 DEF Swap!AccessInRange, Swap!ShiftsDefined
<1> QED BY <1>1, <1>2, <1>3, Widths DEF SwapInv

LEMMA SwapNext == SwapInv /\ (Swap!Next \/ UNCHANGED Swap!vars) => SwapInv'
<1> SUFFICES ASSUME SwapInv, Swap!Next \/ UNCHANGED Swap!vars PROVE SwapInv'
  OBVIOUS
<1>1. CASE UNCHANGED Swap!vars
  BY <1>1, SwapWords DEF Swap!vars, SwapInv, Exchanged, Apart, Swap!AccessInRange, Swap!ShiftsDefined
<1> QED BY <1>1, EmptyStep, InOneWordStep, SameHeadStep, SameWordStep, SameTailStep, HeadStep,
           FullWordStep, TailStep DEF Swap!Next, Swap!Finished

----------------------------------------------------------------------------
(* reverse                                                                 *)

LEMMA ReverseWord ==
  /\ Reverse!BitPos = BitPos /\ Reverse!MemBits = MemBits /\ Reverse!Addr = Addr
  /\ Reverse!Word = Word
  /\ \A a : Reverse!Pos(a) = Pos(a) /\ Reverse!Base(a) = Base(a)
  /\ \A m, b, w : Reverse!Store(m, b, w) = Store(m, b, w)
  /\ \A m, b : Reverse!Load(m, b) = Load(m, b)
  /\ \A w, i : Reverse!Lsr(w, i) = Lsr(w, i)
  /\ \A v, w, s, l : Reverse!BitBlend(v, w, s, l) = BitBlend(v, w, s, l)
  /\ \A a, b, c : Reverse!Holds(a, b, c) <=> Holds(a, b, c)
  /\ \A i : Reverse!ShiftDefined(i) <=> ShiftDefined(i)
<1>1. /\ Reverse!BitPos = BitPos /\ Reverse!MemBits = MemBits /\ Reverse!Addr = Addr
      /\ \A a : Reverse!Pos(a) = Pos(a) /\ Reverse!Base(a) = Base(a)
  BY DEF Reverse!BitPos, Reverse!MemBits, Reverse!Addr, Reverse!Pos, Reverse!Base,
         BitPos, MemBits, Addr, Pos, Base
<1>2. /\ Reverse!Word = Word
      /\ \A m, b, w : Reverse!Store(m, b, w) = Store(m, b, w)
      /\ \A m, b : Reverse!Load(m, b) = Load(m, b)
      /\ \A w, i : Reverse!Lsr(w, i) = Lsr(w, i)
  BY <1>1 DEF Reverse!Word, Reverse!Store, Reverse!Load, Reverse!Lsr, Word, Store, Load, Lsr
<1>3. \A v, w, s, l : Reverse!BitBlend(v, w, s, l) = BitBlend(v, w, s, l)
  BY <1>1 DEF Reverse!BitBlend, BitBlend
<1> QED BY <1>1, <1>2, <1>3 DEF Reverse!Holds, Reverse!ShiftDefined, Holds, ShiftDefined

\* The memory with the bits [x, y) in reverse.
Mirrored(m, x, y) == [a \in Addr |-> IF x <= a /\ a < y THEN m[x + y - 1 - a] ELSE m[a]]

\* The end of the words that hold the bits before x.
EndOf(x) == Base(x) + (IF Pos(x) = 0 THEN 0 ELSE W)

\* What reverse has done of the words at Base(first) to EndOf(last).
RevInv ==
  /\ orig \in [Addr -> Bit] /\ mem \in [Addr -> Bit]
  /\ first \in Nat /\ last \in Nat /\ first <= last /\ last <= MemBits
  /\ first_value \in Word /\ last_value \in Word
  /\ pc \in {"start", "shift", "first", "last", "done"}
  /\ used \in SUBSET Int /\ shifts \in SUBSET Int
  /\ Reverse!AccessInRange /\ Reverse!ShiftsDefined
  /\ pc = "start" => mem = orig
  /\ pc \in {"shift", "first", "last"} =>
       /\ Base(first) # Base(last)
       /\ first_value = Load(orig, Base(first)) /\ last_value = Load(orig, EndOf(last) - W)
  /\ pc = "shift" => mem = Mirrored(orig, Base(first), EndOf(last))
  /\ pc \in {"first", "last"} =>
       \A a \in Addr : /\ first <= a /\ a < last => mem[a] = orig[first + last - 1 - a]
                       /\ ~(Base(first) <= a /\ a < EndOf(last)) => mem[a] = orig[a]
  /\ pc = "last" => \A a \in Addr : Base(first) <= a /\ a < first => mem[a] = orig[a]
  /\ pc = "done" => mem = Mirrored(orig, first, last)

\* Where the words of the range begin and end.
LEMMA EndOfIs ==
  ASSUME NEW x \in Nat, x <= MemBits
  PROVE  /\ EndOf(x) \in Nat /\ x <= EndOf(x) /\ EndOf(x) <= MemBits /\ EndOf(x) - x < W
         /\ Pos(EndOf(x)) = 0
         /\ EndOf(x) - x = IF Pos(x) = 0 THEN 0 ELSE W - Pos(x)
<1>1. /\ x \in Int /\ W \in Nat /\ W > 0 /\ Base(x) \in Nat /\ Pos(x) \in 0 .. (W - 1)
      /\ x = Base(x) + Pos(x) /\ MemBits \in Nat /\ Pos(Base(x)) = 0 /\ Base(x) \in Int
  <2>1. x \in Int
    OBVIOUS
  <2>2. Base(x) \in Nat /\ Pos(x) \in 0 .. (W - 1) /\ x = Base(x) + Pos(x) /\ Pos(Base(x)) = 0
    BY <2>1, RangeFacts, BaseNat, BaseAligned
  <2> QED BY <2>1, <2>2, Widths
<1>2. Pos(Base(x) + W) = 0
  BY <1>1, AlignedStep
<1>3. CASE Pos(x) = 0
  BY <1>1, <1>3 DEF EndOf
<1>4. CASE Pos(x) # 0
  <2>1. MemBits = NumWords * W + 0 /\ MemBits = NumWords * W
    BY <1>1, Widths DEF MemBits
  <2>2. Pos(MemBits) = 0
    <3>1. NumWords \in Int /\ 0 \in BitPos
      BY Widths DEF BitPos
    <3>2. Pos(NumWords * W + 0) = 0
      BY <3>1, PosUnique
    <3> QED BY <2>1, <3>2
  <2>3. x < MemBits
    BY <1>1, <1>4, <2>2
  <2>4. Base(x) + W <= NumWords * W
    BY <1>1, <2>1, <2>3, Widths, AlignedEnd
  <2> QED BY <1>1, <1>2, <1>4, <2>1, <2>4 DEF EndOf
<1> QED BY <1>3, <1>4

LEMMA RevFacts ==
  ASSUME RevInv
  PROVE  /\ orig \in [Addr -> Bit] /\ Memory(orig) /\ mem \in [Addr -> Bit] /\ Memory(mem)
         /\ first \in Nat /\ last \in Nat /\ first <= last /\ last <= MemBits
         /\ W \in Nat /\ W > 0 /\ MemBits \in Nat
         /\ Base(first) \in Nat /\ Pos(first) \in 0 .. (W - 1) /\ first = Base(first) + Pos(first)
         /\ Pos(Base(first)) = 0
         /\ Base(last) \in Nat /\ Pos(last) \in 0 .. (W - 1) /\ last = Base(last) + Pos(last)
         /\ Base(first) <= Base(last)
         /\ Base(first) # Base(last) => Base(first) + W <= Base(last)
         /\ EndOf(last) \in Nat /\ last <= EndOf(last) /\ EndOf(last) <= MemBits
         /\ Pos(EndOf(last)) = 0
<1>1. /\ orig \in [Addr -> Bit] /\ Memory(orig) /\ mem \in [Addr -> Bit] /\ Memory(mem)
      /\ first \in Nat /\ last \in Nat /\ first <= last /\ last <= MemBits
      /\ W \in Nat /\ W > 0 /\ MemBits \in Nat /\ first \in Int /\ last \in Int
  BY MemoryOf, Widths DEF RevInv
<1>2. /\ Base(first) \in Nat /\ Pos(first) \in 0 .. (W - 1) /\ first = Base(first) + Pos(first)
      /\ Pos(Base(first)) = 0
      /\ Base(last) \in Nat /\ Pos(last) \in 0 .. (W - 1) /\ last = Base(last) + Pos(last)
      /\ Base(first) <= Base(last) /\ Pos(Base(last)) = 0
  BY <1>1, RangeFacts, BaseNat, BaseAligned, BaseMonotone
<1>3. Base(first) # Base(last) => Base(first) + W <= Base(last)
  <2> DEFINE b == Base(first)
             e == Base(last)
  <2>1. b \in Int /\ e \in Int /\ Pos(b) = 0 /\ Pos(e) = 0 /\ b <= e
    BY <1>2
  <2> HIDE DEF b, e
  <2>2. Base(e) = e
    BY <2>1 DEF Base
  <2>3. b # e => b + W <= e
    BY <2>1, <2>2, AlignedGap, Widths
  <2> QED BY <2>3 DEF b, e
<1>4. /\ EndOf(last) \in Nat /\ last <= EndOf(last) /\ EndOf(last) <= MemBits
      /\ Pos(EndOf(last)) = 0
  BY <1>1, EndOfIs
<1> QED BY <1>1, <1>2, <1>3, <1>4

LEMMA RevImplies ==
  ASSUME RevInv
  PROVE  Reverse!TypeOK /\ Reverse!ReverseCorrect /\ Reverse!RangeInPlace /\ Reverse!AccessInRange
         /\ Reverse!ShiftsDefined
<1>1. Reverse!TypeOK /\ Reverse!AccessInRange /\ Reverse!ShiftsDefined
  BY ReverseWord DEF RevInv, Reverse!TypeOK
<1>2. Reverse!ReverseCorrect
  BY ReverseWord DEF RevInv, Reverse!ReverseCorrect, Mirrored
<1>3. Reverse!RangeInPlace
  <2> SUFFICES ASSUME pc \in {"first", "last"}, NEW a \in first .. (last - 1)
               PROVE  mem[a] = orig[first + last - 1 - a]
    BY DEF Reverse!RangeInPlace
  <2>1. a \in Addr /\ first <= a /\ a < last
    BY RevFacts, Widths
  <2> QED BY <2>1 DEF RevInv
<1> QED BY <1>1, <1>2, <1>3

\* The words reversed as a whole.
LEMMA InWords ==
  ASSUME RevInv
  PROVE  /\ Reverse!WordsEnd = EndOf(last)
         /\ \A a \in Addr : Base(a) \in Reverse!Words <=> (Base(first) <= a /\ a < EndOf(last))
         /\ \A b \in Reverse!Words : b \in Int /\ Holds(b, first, last)
<1>1. Reverse!WordsEnd = EndOf(last)
  BY ReverseWord DEF Reverse!WordsEnd, Reverse!is_last_aligned, EndOf
<1> DEFINE x == Base(first)
           e == EndOf(last)
<1>2. Reverse!Words = {b \in Addr : x <= b /\ b < e /\ Pos(b) = 0}
  BY <1>1, ReverseWord DEF Reverse!Words
<1>3. /\ x \in Nat /\ e \in Nat /\ x \in Int /\ e \in Int /\ Pos(x) = 0 /\ Pos(e) = 0
      /\ x <= first /\ first < x + W /\ last <= e /\ e <= MemBits /\ W \in Nat
      /\ first \in Int /\ last \in Int
  BY RevFacts
<1>4. Base(x) = x /\ Base(e) = e
  BY <1>3 DEF Base
<1>5. \A b \in Int : Pos(b) = 0 /\ b < e => b + W <= e
  BY <1>3, <1>4, AlignedGap
<1>6. e = last \/ (e = Base(last) + W /\ Base(last) < last)
  <2>1. Pos(last) \in 0 .. (W - 1) /\ last = Base(last) + Pos(last) /\ Base(last) \in Nat
    BY RevFacts
  <2> QED BY <1>3, <2>1 DEF EndOf
<1>7. Base(last) \in Int
  BY RevFacts
<1> HIDE DEF x, e
<1>8. ASSUME NEW a \in Addr
      PROVE  Base(a) \in Reverse!Words <=> (x <= a /\ a < e)
  <2>1. a \in Nat /\ a \in Int /\ a < MemBits
    BY Widths
  <2>2. Base(a) \in Nat /\ Base(a) <= a /\ a < Base(a) + W /\ Pos(Base(a)) = 0 /\ Base(a) \in Int
    BY <2>1, BaseNat, PosRange, BaseAligned
  <2>3. Base(a) \in Addr
    BY <2>1, <2>2, Widths
  <2>4. x <= a => x <= Base(a)
    BY <1>3, <1>4, <2>1, BaseMonotone
  <2>5. Base(a) < e => Base(a) + W <= e
    BY <1>5, <2>2
  <2> QED BY <1>2, <1>3, <2>1, <2>2, <2>3, <2>4, <2>5
<1>9. ASSUME NEW b \in Reverse!Words
      PROVE  b \in Int /\ Holds(b, first, last)
  <2>1. b \in Int /\ x <= b /\ b < e /\ Pos(b) = 0
    BY <1>2, Widths
  <2>2. b + W <= e
    BY <1>5, <2>1
  <2>3. first < b + W /\ b < last
    BY <1>3, <1>6, <1>7, <2>1, <2>2, Widths
  <2> QED BY <2>1, <2>3, HoldsIs
<1> QED BY <1>1, <1>8, <1>9 DEF x, e

LEMMA ReverseWordsIs ==
  ASSUME RevInv, NEW m
  PROVE  Reverse!ReverseWords(m) = Mirrored(m, Base(first), EndOf(last))
<1> DEFINE x == Base(first)
           e == EndOf(last)
           r == Reverse!ReverseWords(m)
<1>1. r = [a \in Addr |-> r[a]]
  BY ReverseWord DEF Reverse!ReverseWords
<1>2. ASSUME NEW a \in Addr
      PROVE  r[a] = IF Base(a) \in Reverse!Words
                    THEN Reverse!BitSwap(Load(m, e - W - (Base(a) - x)))[Pos(a)] ELSE m[a]
  BY ReverseWord, InWords DEF Reverse!ReverseWords
<1> HIDE DEF r
<1>3. x \in Int /\ e \in Int /\ W \in Int
  BY RevFacts
<1>4. ASSUME NEW a \in Addr
      PROVE  r[a] = IF x <= a /\ a < e THEN m[x + e - 1 - a] ELSE m[a]
  <2>1. CASE x <= a /\ a < e
    <3>1. a \in Int
      BY Widths
    <3>2. Pos(a) \in BitPos /\ Base(a) \in Int /\ Pos(a) \in Int /\ a = Base(a) + Pos(a)
          /\ W - 1 - Pos(a) \in BitPos
      <4> DEFINE u == Pos(a)
      <4>1. u \in 0 .. (W - 1) /\ Base(a) \in Int /\ a = Base(a) + u
        BY <3>1, RangeFacts
      <4> HIDE DEF u
      <4>2. u \in BitPos /\ u \in Int /\ W - 1 - u \in BitPos
        BY <4>1, Widths DEF BitPos
      <4> QED BY <4>1, <4>2 DEF u
    <3> DEFINE b == e - W - (Base(a) - x)
    <3>3. b + (W - 1 - Pos(a)) = x + e - 1 - a
      BY <1>3, <3>2
    <3>4. r[a] = Reverse!BitSwap(Load(m, b))[Pos(a)]
      BY <1>2, <2>1, InWords
    <3> HIDE DEF b
    <3>5. r[a] = Load(m, b)[W - 1 - Pos(a)]
      BY <3>2, <3>4, ReverseWord DEF Reverse!BitSwap
    <3>6. Load(m, b)[W - 1 - Pos(a)] = m[b + (W - 1 - Pos(a))]
      BY <3>2, LoadBit
    <3> QED BY <2>1, <3>3, <3>5, <3>6
  <2>2. CASE ~(x <= a /\ a < e)
    BY <1>2, <2>2, InWords
  <2> QED BY <2>1, <2>2
<1> HIDE DEF x, e
<1>5. r = Mirrored(m, x, e)
  BY <1>1, <1>4 DEF Mirrored
<1> QED BY <1>5 DEF r, x, e

\* What a step of reverse keeps and shows of its words and shifts.
RevSafe ==
  /\ UNCHANGED <<orig, first, last>>
  /\ mem' \in [Addr -> Bit]
  /\ used' \in SUBSET Int /\ shifts' \in SUBSET Int
  /\ \A b \in used' : first # last => Holds(b, first, last)
  /\ \A i \in shifts' : ShiftDefined(i)

LEMMA RevSafeIs ==
  ASSUME RevInv, RevSafe
  PROVE  /\ orig' \in [Addr -> Bit] /\ mem' \in [Addr -> Bit]
         /\ first' \in Nat /\ last' \in Nat /\ first' <= last' /\ last' <= MemBits
         /\ used' \in SUBSET Int /\ shifts' \in SUBSET Int
         /\ Reverse!AccessInRange' /\ Reverse!ShiftsDefined'
BY RevFacts, ReverseWord DEF RevSafe, Reverse!AccessInRange, Reverse!ShiftsDefined

LEMMA MirroredType ==
  ASSUME NEW m \in [Addr -> Bit], NEW x \in Nat, NEW y \in Nat, y <= MemBits
  PROVE  Mirrored(m, x, y) \in [Addr -> Bit]
<1>1. ASSUME NEW a \in Addr, x <= a, a < y
      PROVE  x + y - 1 - a \in Addr
  BY <1>1, Widths
<1> QED BY <1>1 DEF Mirrored

LEMMA RevAlignedStep ==
  ASSUME RevInv, Reverse!Aligned
  PROVE  RevInv'
<1>1. /\ pc = "start" /\ Pos(first) = 0 /\ Pos(last) = 0
      /\ mem' = Reverse!ReverseWords(mem) /\ used' = Reverse!Words /\ shifts' = {}
      /\ pc' = "done" /\ UNCHANGED <<orig, first, last, first_value, last_value>>
  BY ReverseWord DEF Reverse!Aligned, Reverse!Call, Reverse!Saved, Reverse!Accessed,
                     Reverse!is_first_aligned, Reverse!is_last_aligned
<1>2. Base(first) = first /\ EndOf(last) = last
  BY <1>1, RevFacts DEF EndOf
<1>3. mem' = Mirrored(orig, first, last)
  BY <1>1, <1>2, ReverseWordsIs DEF RevInv
<1>4. RevSafe
  <2>1. mem' \in [Addr -> Bit]
    BY <1>3, RevFacts, MirroredType
  <2> QED BY <1>1, <2>1, InWords DEF RevSafe
<1> QED BY <1>1, <1>3, <1>4, RevSafeIs DEF RevInv

\* The bits of a range in one word, reversed in place.
LEMMA InWordBit ==
  ASSUME NEW v, NEW s \in Nat, NEW e \in Nat, s < W, e < W, NEW i \in Nat, i < e - s
  PROVE  Lsr(Reverse!BitSwap(Lsr(v, s)), W - e)[s + i] = v[e - 1 - i]
<1> DEFINE x == Lsr(v, s)
           y == Reverse!BitSwap(x)
           j == s + i + (W - e)
<1>1. /\ s + i \in BitPos /\ j < W /\ j \in BitPos /\ W - 1 - j \in BitPos
      /\ (W - 1 - j) + s < W /\ (W - 1 - j) + s = e - 1 - i
  BY Widths DEF BitPos
<1>2. Lsr(y, W - e)[s + i] = y[j]
  <2> HIDE DEF y
  <2> QED BY <1>1, LsrBit
<1>3. y[j] = x[W - 1 - j]
  <2> HIDE DEF x, j
  <2> QED BY <1>1, ReverseWord DEF Reverse!BitSwap
<1>4. x[W - 1 - j] = v[(W - 1 - j) + s]
  <2> HIDE DEF j
  <2> QED BY <1>1, LsrBit
<1> QED BY <1>1, <1>2, <1>3, <1>4

LEMMA RevInWordStep ==
  ASSUME RevInv, Reverse!InWord
  PROVE  RevInv'
<1> DEFINE b == Base(first)
           s == Pos(first)
           e == Pos(last)
           w == Lsr(Reverse!BitSwap(Lsr(Load(mem, b), s)), Reverse!gap)
<1>1. /\ pc = "start" /\ ~(s = 0 /\ e = 0) /\ b = Base(last)
      /\ mem' = Store(mem, b, BitBlend(Load(mem, b), w, s, last - first))
      /\ used' = {b} /\ shifts' = {s, Reverse!gap}
      /\ pc' = "done" /\ UNCHANGED <<orig, first, last, first_value, last_value>>
  BY ReverseWord DEF Reverse!InWord, Reverse!Call, Reverse!Saved, Reverse!Accessed,
                     Reverse!is_first_aligned, Reverse!is_last_aligned
<1>2. /\ b \in Nat /\ s \in 0 .. (W - 1) /\ e \in 0 .. (W - 1) /\ first = b + s /\ last = b + e
      /\ W \in Nat /\ W > 0 /\ first \in Nat /\ last \in Nat /\ first <= last /\ last <= MemBits
      /\ MemBits \in Nat /\ Memory(mem) /\ mem = orig
  BY <1>1, RevFacts DEF RevInv
<1>3. e # 0
  BY <1>1, <1>2
<1>4. Reverse!gap = W - e
  BY <1>3, ReverseWord DEF Reverse!gap, Reverse!is_last_aligned
<1> HIDE DEF b, s, e
<1> DEFINE len == last - first
           v == [i \in Nat |-> orig[last - 1 - i]]
<1>5. len \in Nat /\ s \in Nat /\ e \in Nat /\ s < W /\ e < W /\ s + len <= W /\ len = e - s /\ b \in Int
      /\ b + s = first
  BY <1>2
<1>6. ASSUME NEW i \in 0 .. (len - 1) PROVE w[s + i] = v[i]
  <2>1. i \in Nat /\ i < e - s
    BY <1>5
  <2>2. w[s + i] = Load(mem, b)[e - 1 - i]
    BY <1>4, <1>5, <2>1, InWordBit
  <2>3. e - 1 - i \in BitPos /\ b + (e - 1 - i) = last - 1 - i
    BY <1>2, <1>5, <2>1 DEF BitPos
  <2>4. Load(mem, b)[e - 1 - i] = mem[b + (e - 1 - i)]
    BY <2>3, LoadBit
  <2> QED BY <1>2, <2>1, <2>2, <2>3, <2>4
<1>7. DOMAIN mem = Addr
  BY <1>2 DEF Memory
<1> HIDE DEF w, len, v
<1>8. Puts(mem, mem', first, len, v)
  <2>1. Puts(mem, Store(mem, b, BitBlend(Load(mem, b), w, s, len)), b + s, len, v)
    BY <1>5, <1>6, <1>7, BlendPuts
  <2> QED BY <1>1, <1>5, <2>1 DEF len
<1>9. ASSUME NEW a \in Addr
      PROVE  mem'[a] = IF first <= a /\ a < last THEN orig[first + last - 1 - a] ELSE orig[a]
  <2>1. mem'[a] = IF first <= a /\ a < first + len THEN v[a - first] ELSE orig[a]
    BY <1>2, <1>8 DEF Puts
  <2>2. a \in Int /\ (a < first + len <=> a < last)
    BY <1>2, Widths DEF len
  <2>3. first <= a /\ a < last => v[a - first] = orig[first + last - 1 - a]
    <3> HAVE first <= a /\ a < last
    <3>1. a - first \in Nat /\ last - 1 - (a - first) = first + last - 1 - a
      BY <1>2, <2>2
    <3> QED BY <3>1 DEF v
  <2> QED BY <2>1, <2>2, <2>3
<1>10. mem' = [a \in Addr |-> mem'[a]]
  BY <1>8 DEF Puts
<1>11. mem' = Mirrored(orig, first, last)
  BY <1>9, <1>10 DEF Mirrored
<1>12. RevSafe
  <2>1. mem' \in [Addr -> Bit]
    BY <1>2, <1>11, RevFacts, MirroredType
  <2>2. first # last => Holds(b, first, last)
    BY <1>2, <1>5, HoldsIs
  <2>3. ShiftDefined(s) /\ ShiftDefined(Reverse!gap) /\ s \in Int /\ Reverse!gap \in Int
    BY <1>2, <1>3, <1>4, ShiftIs
  <2> QED BY <1>1, <1>5, <2>1, <2>2, <2>3 DEF RevSafe
<1> QED BY <1>1, <1>11, <1>12, RevSafeIs DEF RevInv

LEMMA LoadWord ==
  ASSUME NEW m \in [Addr -> Bit], NEW b \in Nat, b + W <= MemBits
  PROVE  Load(m, b) \in Word
<1>1. \A i \in BitPos : b + i \in Addr
  BY Widths DEF BitPos
<1> QED BY <1>1 DEF Load, Word

LEMMA SaveAndReverseStep ==
  ASSUME RevInv, Reverse!SaveAndReverse
  PROVE  RevInv'
<1> DEFINE b == Base(first)
           e == EndOf(last)
<1>1. /\ pc = "start" /\ b # Base(last)
      /\ first_value' = Load(mem, b) /\ last_value' = Load(mem, e - W)
      /\ mem' = Reverse!ReverseWords(mem) /\ used' = Reverse!Words /\ shifts' = {}
      /\ pc' = "shift" /\ UNCHANGED <<orig, first, last>>
  BY ReverseWord, InWords DEF Reverse!SaveAndReverse, Reverse!Call, Reverse!Accessed
<1>2. /\ b \in Nat /\ e \in Nat /\ b + W <= e /\ e <= MemBits /\ W \in Nat /\ MemBits \in Nat
  BY <1>1, RevFacts
<1>3. mem' = Mirrored(orig, b, e) /\ mem = orig
  BY <1>1, ReverseWordsIs DEF RevInv
<1>4. first_value' \in Word /\ last_value' \in Word
  <2>1. e - W \in Nat /\ (e - W) + W <= MemBits /\ b + W <= MemBits
    BY <1>2
  <2> HIDE DEF b, e
  <2>2. Load(mem, b) \in Word /\ Load(mem, e - W) \in Word
    BY <1>2, <2>1, RevFacts, LoadWord
  <2> QED BY <1>1, <2>2
<1>5. RevSafe
  <2>1. mem' \in [Addr -> Bit]
    BY <1>2, <1>3, RevFacts, MirroredType
  <2> QED BY <1>1, <2>1, InWords DEF RevSafe
<1>6. Base(first)' = b /\ Base(last)' = Base(last) /\ EndOf(last)' = e
  BY <1>1
<1> QED BY <1>1, <1>3, <1>4, <1>5, <1>6, RevSafeIs DEF RevInv

LEMMA ShiftBackStep ==
  ASSUME RevInv, Reverse!ShiftBack
  PROVE  RevInv'
<1> DEFINE x == Base(first)
           e == EndOf(last)
           d == Reverse!gap - Pos(first)
<1>1. /\ pc = "shift" /\ mem' = Reverse!ShiftedWords(mem, d)
      /\ used' = (IF Reverse!gap = Pos(first) THEN {} ELSE Reverse!Words) /\ shifts' = {}
      /\ pc' = "first" /\ UNCHANGED <<orig, first, last, first_value, last_value>>
  BY ReverseWord DEF Reverse!ShiftBack, Reverse!Call, Reverse!Saved, Reverse!Accessed
<1>2. /\ Base(first) # Base(last) /\ mem = Mirrored(orig, x, e)
      /\ first_value = Load(orig, Base(first)) /\ last_value = Load(orig, EndOf(last) - W)
  BY <1>1 DEF RevInv
<1>3. /\ x \in Nat /\ e \in Nat /\ first \in Nat /\ last \in Nat /\ first <= last /\ e <= MemBits
      /\ x <= first /\ last <= e /\ MemBits \in Nat
      /\ d \in Int /\ first + d = x + (e - last) /\ last + d = e - (first - x)
  <2>1. Reverse!gap = e - last
    BY RevFacts, EndOfIs, ReverseWord DEF Reverse!gap, Reverse!is_last_aligned
  <2>2. first = x + Pos(first) /\ Pos(first) \in Int
    BY RevFacts
  <2> QED BY <2>1, <2>2, RevFacts
<1>4. ASSUME NEW a \in Addr
      PROVE  mem'[a] = IF ~(x <= a /\ a < e) THEN mem[a]
                       ELSE IF x <= a + d /\ a + d < e THEN mem[a + d] ELSE Zero
  BY <1>1, ReverseWord, InWords DEF Reverse!ShiftedWords
<1>5. mem' = [a \in Addr |-> mem'[a]]
  BY <1>1, ReverseWord DEF Reverse!ShiftedWords
<1> HIDE DEF x, e, d
<1>6. \A a \in Addr : x <= a + d /\ a + d < e => a + d \in Addr /\ a \in Int
  BY <1>3, Widths
<1>7. mem' \in [Addr -> Bit]
  <2>1. \A a \in Addr : mem'[a] \in Bit
    BY <1>4, <1>6, RevFacts, BitAssumption
  <2> QED BY <1>5, <2>1
<1>8. ASSUME NEW a \in Addr
      PROVE  /\ first <= a /\ a < last => mem'[a] = orig[first + last - 1 - a]
             /\ ~(x <= a /\ a < e) => mem'[a] = orig[a]
  <2>1. a \in Int
    BY Widths
  <2>2. CASE first <= a /\ a < last
    <3>1. /\ x <= a /\ a < e /\ x <= a + d /\ a + d < e
          /\ x + e - 1 - (a + d) = first + last - 1 - a
      BY <1>3, <2>1, <2>2
    <3>2. mem'[a] = mem[a + d] /\ a + d \in Addr
      BY <1>4, <1>6, <3>1
    <3>3. mem[a + d] = orig[x + e - 1 - (a + d)]
      BY <1>2, <3>1, <3>2 DEF Mirrored
    <3> QED BY <3>1, <3>2, <3>3
  <2>3. CASE ~(x <= a /\ a < e)
    <3>1. mem'[a] = mem[a] /\ mem[a] = orig[a]
      BY <1>2, <1>4, <2>3 DEF Mirrored
    <3>2. ~(first <= a /\ a < last)
      BY <1>3, <2>1, <2>3
    <3> QED BY <3>1, <3>2
  <2> QED BY <2>2, <2>3
<1>9. RevSafe
  BY <1>1, <1>7, InWords DEF RevSafe
<1>10. /\ Base(first)' = x /\ Base(last)' = Base(last) /\ EndOf(last)' = e
       /\ first_value' \in Word /\ last_value' \in Word
  BY <1>1 DEF x, e, RevInv
<1> QED BY <1>1, <1>2, <1>8, <1>9, <1>10, RevSafeIs DEF RevInv, x, e

LEMMA BlendFirstStep ==
  ASSUME RevInv, Reverse!BlendFirst
  PROVE  RevInv'
<1> DEFINE x == Base(first)
           e == EndOf(last)
           s == Pos(first)
           w == BitBlend(first_value, Load(mem, x), s, W - s)
<1>1. /\ pc = "first" /\ pc' = "last" /\ UNCHANGED <<orig, first, last, first_value, last_value>>
      /\ IF s = 0 THEN used' = {} /\ shifts' = {} /\ mem' = mem
         ELSE mem' = Store(mem, x, w) /\ used' = {x} /\ shifts' = {s}
  BY ReverseWord DEF Reverse!BlendFirst, Reverse!Call, Reverse!Saved, Reverse!Accessed,
                     Reverse!is_first_aligned
<1>2. /\ Base(first) # Base(last)
      /\ first_value = Load(orig, Base(first)) /\ last_value = Load(orig, EndOf(last) - W)
      /\ first_value \in Word /\ last_value \in Word
      /\ \A a \in Addr : /\ first <= a /\ a < last => mem[a] = orig[first + last - 1 - a]
                         /\ ~(x <= a /\ a < e) => mem[a] = orig[a]
  BY <1>1 DEF RevInv
<1>3. /\ x \in Nat /\ e \in Nat /\ first \in Nat /\ last \in Nat /\ first = x + s /\ s \in 0 .. (W - 1)
      /\ W \in Nat /\ W > 0 /\ x + W <= last /\ last <= e /\ e <= MemBits /\ first <= last
      /\ MemBits \in Nat /\ x \in Int
  BY <1>2, RevFacts
<1>4. Memory(mem) /\ DOMAIN mem = Addr /\ mem \in [Addr -> Bit] /\ orig \in [Addr -> Bit]
  BY RevFacts DEF Memory
<1>5. ASSUME NEW a \in Addr
      PROVE  mem'[a] = IF x <= a /\ a < first THEN orig[a] ELSE mem[a]
  <2>1. a \in Int
    BY Widths
  <2>2. CASE s = 0
    BY <1>1, <1>3, <2>1, <2>2
  <2>3. CASE s # 0
    <3>1. mem'[a] = IF x <= a /\ a < x + W THEN w[a - x] ELSE mem[a]
      <4> HIDE DEF w, x, s
      <4> QED BY <1>1, <1>3, <1>4, <2>3, StoreBit
    <3>2. CASE x <= a /\ a < x + W
      <4> DEFINE i == a - x
      <4>1. /\ i \in BitPos /\ x + i = a /\ i \in Int
            /\ (s <= i /\ i < s + (W - s)) <=> ~(a < first)
        BY <1>3, <2>1, <3>2 DEF BitPos
      <4> HIDE DEF i
      <4>2. w[i] = IF s <= i /\ i < s + (W - s) THEN Load(mem, x)[i] ELSE Load(orig, x)[i]
        BY <1>2, <4>1, BlendBit
      <4>3. Load(mem, x)[i] = mem[a] /\ Load(orig, x)[i] = orig[a]
        BY <4>1, LoadBit
      <4> QED BY <3>1, <3>2, <4>1, <4>2, <4>3 DEF i
    <3>3. CASE ~(x <= a /\ a < x + W)
      <4>1. ~(x <= a /\ a < first)
        BY <1>3, <2>1, <3>3
      <4> QED BY <3>1, <3>3, <4>1
    <3> QED BY <3>2, <3>3
  <2> QED BY <2>2, <2>3
<1>6. mem' = [a \in Addr |-> mem'[a]]
  BY <1>1, <1>4 DEF Store, Memory
<1>7. mem' \in [Addr -> Bit]
  <2>1. \A a \in Addr : mem'[a] \in Bit
    BY <1>4, <1>5
  <2> QED BY <1>6, <2>1
<1>8. RevSafe
  <2>1. s # 0 => Holds(x, first, last) /\ ShiftDefined(s) /\ s \in Int
    BY <1>3, HoldsIs, ShiftIs
  <2> HIDE DEF x, s, w
  <2> QED BY <1>1, <1>3, <1>7, <2>1 DEF RevSafe
<1>9. \A a \in Addr : /\ first <= a /\ a < last => mem'[a] = orig[first + last - 1 - a]
                      /\ ~(x <= a /\ a < e) => mem'[a] = orig[a]
                      /\ x <= a /\ a < first => mem'[a] = orig[a]
  <2> HIDE DEF x, e
  <2>1. \A a \in Addr : a \in Int
    BY Widths
  <2> QED BY <1>2, <1>3, <1>5, <2>1
<1>10. Base(first)' = x /\ Base(last)' = Base(last) /\ EndOf(last)' = e
  BY <1>1
<1> HIDE DEF w, s
<1> QED BY <1>1, <1>2, <1>8, <1>9, <1>10, RevSafeIs DEF RevInv

LEMMA BlendLastStep ==
  ASSUME RevInv, Reverse!BlendLast
  PROVE  RevInv'
<1> DEFINE x == Base(first)
           e == EndOf(last)
           b == Base(last)
           s == Pos(last)
           len == W - s
           w == BitBlend(Load(mem, b), last_value, s, len)
           v == [i \in Nat |-> orig[last + i]]
<1>1. /\ pc = "last" /\ pc' = "done" /\ UNCHANGED <<orig, first, last, first_value, last_value>>
      /\ IF s = 0 THEN used' = {} /\ shifts' = {} /\ mem' = mem
         ELSE mem' = Store(mem, b, w) /\ used' = {b} /\ shifts' = {s}
  BY ReverseWord DEF Reverse!BlendLast, Reverse!Call, Reverse!Saved, Reverse!Accessed,
                     Reverse!is_last_aligned
<1>2. /\ Base(first) # b /\ last_value = Load(orig, e - W)
      /\ \A a \in Addr : /\ first <= a /\ a < last => mem[a] = orig[first + last - 1 - a]
                         /\ ~(x <= a /\ a < e) => mem[a] = orig[a]
      /\ \A a \in Addr : x <= a /\ a < first => mem[a] = orig[a]
  BY <1>1 DEF RevInv
<1>3. /\ x \in Nat /\ e \in Nat /\ first \in Nat /\ last \in Nat /\ s \in 0 .. (W - 1) /\ b \in Nat
      /\ W \in Nat /\ W > 0 /\ x <= first /\ x + W <= b /\ last <= e /\ e <= MemBits /\ first <= last
      /\ first < x + W /\ last = b + s /\ MemBits \in Nat /\ b \in Int
      /\ e = IF s = 0 THEN last ELSE b + W
  BY <1>2, RevFacts DEF EndOf
<1>4. Memory(mem) /\ DOMAIN mem = Addr /\ mem \in [Addr -> Bit] /\ orig \in [Addr -> Bit]
  BY RevFacts DEF Memory
<1>5. last_value \in Word
  BY DEF RevInv
<1> HIDE DEF x, e, b, s
<1>6. ASSUME NEW a \in Addr
      PROVE  mem'[a] = IF last <= a /\ a < e THEN orig[a] ELSE mem[a]
  <2>1. a \in Int
    BY Widths
  <2>2. CASE s = 0
    BY <1>1, <1>3, <2>1, <2>2
  <2>3. CASE s # 0
    <3>1. len \in Nat /\ s \in Nat /\ s + len <= W /\ e - W = b /\ last + len = e
      BY <1>3, <2>3
    <3>2. ASSUME NEW i \in 0 .. (len - 1) PROVE last_value[s + i] = v[i]
      <4>1. s + i \in BitPos /\ b + (s + i) = last + i /\ i \in Nat
        BY <1>3, <3>1 DEF BitPos
      <4> QED BY <1>2, <3>1, <4>1, LoadBit
    <3> HIDE DEF len, v
    <3>3. Puts(mem, Store(mem, b, w), b + s, len, v)
      BY <1>3, <1>4, <3>1, <3>2, BlendPuts
    <3>4. mem'[a] = IF last <= a /\ a < last + len THEN v[a - last] ELSE mem[a]
      BY <1>1, <1>3, <2>3, <3>3 DEF Puts
    <3>5. last <= a => v[a - last] = orig[a]
      <4> HAVE last <= a
      <4>1. a - last \in Nat /\ last + (a - last) = a
        BY <1>3, <2>1
      <4> QED BY <4>1 DEF v
    <3> QED BY <3>1, <3>4, <3>5
  <2> QED BY <2>2, <2>3
<1>7. mem' = [a \in Addr |-> mem'[a]]
  BY <1>1, <1>4 DEF Store, Memory
<1>8. mem' \in [Addr -> Bit]
  <2>1. \A a \in Addr : mem'[a] \in Bit
    BY <1>4, <1>6
  <2> QED BY <1>7, <2>1
<1>9. RevSafe
  <2>1. s # 0 => Holds(b, first, last) /\ ShiftDefined(s) /\ s \in Int
    BY <1>3, HoldsIs, ShiftIs
  <2> HIDE DEF w
  <2> QED BY <1>1, <1>3, <1>8, <2>1 DEF RevSafe
<1>10. ASSUME NEW a \in Addr
       PROVE  mem'[a] = IF first <= a /\ a < last THEN orig[first + last - 1 - a] ELSE orig[a]
  <2>1. a \in Int
    BY Widths
  <2> QED BY <1>2, <1>3, <1>6, <2>1
<1>11. mem' = Mirrored(orig, first, last)
  BY <1>7, <1>10 DEF Mirrored
<1> QED BY <1>1, <1>5, <1>9, <1>11, RevSafeIs DEF RevInv

LEMMA RevInit == Reverse!Init => RevInv
<1> SUFFICES ASSUME Reverse!Init PROVE RevInv
  OBVIOUS
<1>1. /\ orig \in [Addr -> Bit] /\ mem = orig
      /\ first \in 0 .. MemBits /\ last \in 0 .. MemBits /\ first <= last
      /\ first_value = [i \in BitPos |-> Zero] /\ last_value = [i \in BitPos |-> Zero]
      /\ pc = "start" /\ used = {} /\ shifts = {}
  BY ReverseWord DEF Reverse!Init, Reverse!NoWord
<1>2. first_value \in Word /\ last_value \in Word
  BY <1>1, BitAssumption DEF Word
<1>3. Reverse!AccessInRange /\ Reverse!ShiftsDefined
  BY <1>1 DEF Reverse!AccessInRange, Reverse!ShiftsDefined
<1> QED BY <1>1, <1>2, <1>3, Widths DEF RevInv

LEMMA RevNext == RevInv /\ (Reverse!Next \/ UNCHANGED Reverse!vars) => RevInv'
<1> SUFFICES ASSUME RevInv, Reverse!Next \/ UNCHANGED Reverse!vars PROVE RevInv'
  OBVIOUS
<1>1. CASE UNCHANGED Reverse!vars
  BY <1>1 DEF Reverse!vars, RevInv, Reverse!AccessInRange, Reverse!ShiftsDefined
<1> QED BY <1>1, RevAlignedStep, RevInWordStep, SaveAndReverseStep, ShiftBackStep, BlendFirstStep,
           BlendLastStep DEF Reverse!Next, Reverse!Finished

----------------------------------------------------------------------------
(* rotate                                                                  *)

\* The remainder of a division.
LEMMA RemainderIs ==
  ASSUME NEW b \in Nat, b > 0, NEW c \in Int, NEW r \in 0 .. (b - 1)
  PROVE  (c * b + r) % b = r
<1> DEFINE a == c * b + r
           u == a \div b
           s == a % b
<1>1. a \in Int /\ u \in Int /\ s \in Int /\ 0 <= s /\ s < b /\ a = u * b + s /\ r \in Int /\ 0 <= r /\ r < b
  OBVIOUS
<1>2. (c - u) * b = s - r
  BY <1>1
<1> HIDE DEF u, s
<1>3. CASE c - u >= 1
  <2>1. (c - u) * b >= b
    BY <1>1, <1>3
  <2> QED BY <1>1, <1>2, <2>1
<1>4. CASE c - u <= -1
  <2>1. (c - u) * b <= -b
    BY <1>1, <1>4
  <2> QED BY <1>1, <1>2, <2>1
<1>5. CASE c = u
  <2>1. s = r
    BY <1>1, <1>2, <1>5
  <2> QED BY <2>1 DEF s
<1> QED BY <1>1, <1>3, <1>4, <1>5

\* The bits [x, x + len) of m rotated by r.
Turned(m, x, len, r) ==
  [a \in Addr |-> IF x <= a /\ a < x + len
                  THEN m[IF a + r < x + len THEN a + r ELSE (a + r) - len] ELSE m[a]]

LEMMA RotatedIs ==
  ASSUME NEW m, NEW x \in Int, NEW len \in Nat, NEW r \in 0 .. len
  PROVE  Rotate!Rotated(m, x, len, r) = Turned(m, x, len, r)
<1>1. ASSUME NEW a \in Int, x <= a, a < x + len
      PROVE  x + (((a - x) + r) % len) = IF a + r < x + len THEN a + r ELSE (a + r) - len
  <2> DEFINE y == (a - x) + r
  <2>1. y \in Nat /\ len > 0 /\ y < 2 * len /\ r \in Int
    BY <1>1
  <2>2. CASE y < len
    <3>1. y \in 0 .. (len - 1) /\ 0 \in Int
      BY <2>1, <2>2
    <3> HIDE DEF y
    <3>2. (0 * len + y) % len = y
      BY <2>1, <3>1, RemainderIs
    <3>3. y % len = y
      BY <2>1, <3>2
    <3> QED BY <1>1, <2>1, <2>2, <3>3 DEF y
  <2>3. CASE ~(y < len)
    <3>1. y - len \in 0 .. (len - 1) /\ 1 \in Int
      BY <2>1, <2>3
    <3> HIDE DEF y
    <3>2. (1 * len + (y - len)) % len = y - len
      BY <2>1, <3>1, RemainderIs
    <3>3. 1 * len + (y - len) = y
      BY <2>1
    <3>4. y % len = y - len
      BY <3>2, <3>3
    <3>5. y = (a - x) + r
      BY DEF y
    <3> QED BY <1>1, <2>1, <2>3, <3>4, <3>5
  <2> QED BY <2>2, <2>3
<1>2. \A a \in Addr : a \in Int
  BY Widths
<1>3. Rotate!Addr = Addr /\ \A a, b, e : Rotate!In(a, b, e) <=> b <= a /\ a < e
  BY DEF Rotate!Addr, Rotate!MemBits, Addr, MemBits, Rotate!In
<1> QED BY <1>1, <1>2, <1>3 DEF Rotate!Rotated, Turned

LEMMA TurnedNone ==
  ASSUME NEW m, Memory(m), NEW x \in Int, NEW len \in Nat, NEW r \in {0, len}
  PROVE  Turned(m, x, len, r) = m
<1>1. \A a \in Addr : a \in Int
  BY Widths
<1>2. ASSUME NEW a \in Addr
      PROVE  (IF x <= a /\ a < x + len
              THEN m[IF a + r < x + len THEN a + r ELSE (a + r) - len] ELSE m[a]) = m[a]
  <2> SUFFICES ASSUME x <= a, a < x + len
               PROVE  (IF a + r < x + len THEN a + r ELSE (a + r) - len) = a
    OBVIOUS
  <2> QED BY <1>1
<1>3. Turned(m, x, len, r) = [a \in Addr |-> m[a]]
  BY <1>2 DEF Turned
<1> QED BY <1>3 DEF Memory

LEMMA TurnedType ==
  ASSUME NEW m \in [Addr -> Bit], NEW x \in Nat, NEW len \in Nat, NEW r \in 0 .. len, x + len <= MemBits
  PROVE  Turned(m, x, len, r) \in [Addr -> Bit]
<1>1. ASSUME NEW a \in Addr, x <= a, a < x + len
      PROVE  (IF a + r < x + len THEN a + r ELSE (a + r) - len) \in Addr
  <2>1. a \in Int
    BY Widths
  <2> QED BY <1>1, <2>1, Widths
<1> QED BY <1>1 DEF Turned

LEMMA SwapRangesIs ==
  ASSUME NEW m, NEW x \in Int, NEW y \in Int, NEW len \in Nat
  PROVE  Rotate!SwapRanges(m, x, y, len) = Swapped(m, x, y, len)
<1>1. Rotate!Addr = Addr
  BY DEF Rotate!Addr, Rotate!MemBits, Addr, MemBits
<1>2. \A a \in Addr : y + (a - x) = a + (y - x) /\ x + (a - y) = a - (y - x)
  <2>1. \A a \in Addr : a \in Int
    BY Widths
  <2> QED BY <2>1
<1> QED BY <1>1, <1>2 DEF Rotate!SwapRanges, Swapped

\* The len bits at x begin with a block of l bits, and end with another; y is where
\* the first ends, rest the bits after it.
TwoBlocks(x, y, l, rest, len) ==
  /\ l > 0 /\ 2 * l <= len /\ x + len <= MemBits
  /\ y = x + l /\ rest = len - l

\* A block of l bits at x and a rest of r bits at y, len in all.
BlockAndRest(x, y, l, r, len) == r < l /\ y = x + l /\ len = l + r /\ y + r <= MemBits

\* A block is brought behind the one after it: the first bits of the range are in
\* their places for good, the rest is left to be rotated by the same count.
LEMMA TurnUp ==
  ASSUME NEW m, NEW x \in Nat, NEW l \in Nat, NEW len \in Nat,
         NEW y, NEW rest, TwoBlocks(x, y, l, rest, len)
  PROVE  Turned(Swapped(m, x, y, l), y, rest, l) = Turned(m, x, len, l)
<1> USE DEF TwoBlocks
<1>0. y = x + l /\ rest = len - l
  OBVIOUS
<1> DEFINE s == Swapped(m, x, x + l, l)
<1>1. \A a \in Addr : s[a] = IF x <= a /\ a < x + l THEN m[a + l]
                             ELSE IF x + l <= a /\ a < x + l + l THEN m[a - l] ELSE m[a]
  <2>1. (x + l) - x = l /\ \A a \in Addr : a \in Int
    BY Widths
  <2> QED BY <2>1 DEF Swapped
<1> HIDE DEF s
<1>2. ASSUME NEW a \in Addr
      PROVE  (IF x + l <= a /\ a < (x + l) + (len - l)
              THEN s[IF a + l < (x + l) + (len - l) THEN a + l ELSE (a + l) - (len - l)] ELSE s[a])
             = IF x <= a /\ a < x + len
               THEN m[IF a + l < x + len THEN a + l ELSE (a + l) - len] ELSE m[a]
  <2>1. a \in Int /\ (x + l) + (len - l) = x + len
    BY Widths
  <2>2. CASE x + l <= a /\ a < x + len /\ a + l < x + len
    <3> DEFINE j == a + l
    <3>1. j \in Addr /\ ~(x <= j /\ j < x + l) /\ ~(x + l <= j /\ j < x + l + l)
          /\ x <= a /\ j < x + len
      BY <2>1, <2>2, Widths
    <3> HIDE DEF j
    <3>2. s[j] = m[j]
      BY <1>1, <3>1
    <3> QED BY <2>1, <2>2, <3>1, <3>2 DEF j
  <2>3. CASE x + l <= a /\ a < x + len /\ ~(a + l < x + len)
    <3> DEFINE j == (a + l) - (len - l)
    <3>1. /\ j \in Addr /\ ~(x <= j /\ j < x + l) /\ x + l <= j /\ j < x + l + l
          /\ x <= a /\ j - l = (a + l) - len
      BY <2>1, <2>3, Widths
    <3> HIDE DEF j
    <3>2. s[j] = m[j - l]
      BY <1>1, <3>1
    <3> QED BY <2>1, <2>3, <3>1, <3>2 DEF j
  <2>4. CASE x <= a /\ a < x + l
    <3>1. ~(x + l <= a) /\ a < x + len /\ a + l < x + len
      BY <2>1, <2>4
    <3> QED BY <1>1, <2>4, <3>1
  <2>5. CASE ~(x <= a /\ a < x + len)
    <3>1. ~(x <= a /\ a < x + l) /\ ~(x + l <= a /\ a < x + len) /\ ~(x + l <= a /\ a < x + l + l)
      BY <2>1, <2>5
    <3> QED BY <1>1, <2>1, <2>5, <3>1
  <2> QED BY <2>1, <2>2, <2>3, <2>4, <2>5
<1>3. Turned(s, x + l, len - l, l) = Turned(m, x, len, l)
  BY <1>2 DEF Turned
<1> QED BY <1>0, <1>3 DEF s

\* A last block of fewer bits.
LEMMA TurnRestUp ==
  ASSUME NEW m, NEW x \in Nat, NEW l \in Nat, NEW r \in Nat,
         NEW y, NEW len, BlockAndRest(x, y, l, r, len), NEW z, z = x + r, NEW d, d = l - r
  PROVE  Turned(Swapped(m, x, y, r), z, l, d) = Turned(m, x, len, l)
<1> USE DEF BlockAndRest
<1>0. y = x + l /\ len = l + r
  OBVIOUS
<1> DEFINE s == Swapped(m, x, x + l, r)
<1>1. \A a \in Addr : s[a] = IF x <= a /\ a < x + r THEN m[a + l]
                             ELSE IF x + l <= a /\ a < x + l + r THEN m[a - l] ELSE m[a]
  <2>1. (x + l) - x = l /\ \A a \in Addr : a \in Int
    BY Widths
  <2> QED BY <2>1 DEF Swapped
<1> HIDE DEF s
<1>2. ASSUME NEW a \in Addr
      PROVE  (IF x + r <= a /\ a < (x + r) + l
              THEN s[IF a + (l - r) < (x + r) + l THEN a + (l - r) ELSE (a + (l - r)) - l] ELSE s[a])
             = IF x <= a /\ a < x + (l + r)
               THEN m[IF a + l < x + (l + r) THEN a + l ELSE (a + l) - (l + r)] ELSE m[a]
  <2>1. a \in Int /\ (x + r) + l = x + (l + r) /\ x + l + r = x + (l + r)
    BY Widths
  <2>2. CASE x + r <= a /\ a < x + (l + r) /\ a + (l - r) < (x + r) + l
    <3> DEFINE j == a + (l - r)
    <3>1. /\ j \in Addr /\ ~(x <= j /\ j < x + r) /\ x + l <= j /\ j < x + l + r
          /\ x <= a /\ ~(a + l < x + (l + r)) /\ j - l = (a + l) - (l + r)
      BY <2>1, <2>2, Widths
    <3> HIDE DEF j
    <3>2. s[j] = m[j - l]
      BY <1>1, <3>1
    <3> QED BY <2>1, <2>2, <3>1, <3>2 DEF j
  <2>3. CASE x + r <= a /\ a < x + (l + r) /\ ~(a + (l - r) < (x + r) + l)
    <3> DEFINE j == (a + (l - r)) - l
    <3>1. /\ j \in Addr /\ ~(x <= j /\ j < x + r) /\ ~(x + l <= j /\ j < x + l + r)
          /\ x <= a /\ ~(a + l < x + (l + r)) /\ j = (a + l) - (l + r)
      BY <2>1, <2>3, Widths
    <3> HIDE DEF j
    <3>2. s[j] = m[j]
      BY <1>1, <3>1
    <3> QED BY <2>1, <2>3, <3>1, <3>2 DEF j
  <2>4. CASE x <= a /\ a < x + r
    <3>1. ~(x + r <= a) /\ a < x + (l + r) /\ a + l < x + (l + r)
      BY <2>1, <2>4
    <3> QED BY <1>1, <2>4, <3>1
  <2>5. CASE ~(x <= a /\ a < x + (l + r))
    <3>1. ~(x <= a /\ a < x + r) /\ ~(x + r <= a /\ a < (x + r) + l) /\ ~(x + l <= a /\ a < x + l + r)
      BY <2>1, <2>5
    <3> QED BY <1>1, <2>5, <3>1
  <2> QED BY <2>1, <2>2, <2>3, <2>4, <2>5
<1>3. Turned(s, x + r, l, l - r) = Turned(m, x, l + r, l)
  BY <1>2 DEF Turned
<1> QED BY <1>0, <1>3 DEF s

\* A block is brought before the one in front of it.
LEMMA TurnDown ==
  ASSUME NEW m, NEW x \in Nat, NEW l \in Nat, NEW len \in Nat,
         NEW u, NEW rest, TwoBlocks(x, u, l, rest, len),
         NEW y, y = x + (rest - l), NEW z, z = x + rest, NEW r, r = rest - l
  PROVE  Turned(Swapped(m, y, z, l), x, rest, r) = Turned(m, x, len, rest)
<1> USE DEF TwoBlocks
<1>0. /\ y = x + (len - 2 * l) /\ z = x + (len - l)
      /\ rest = len - l /\ r = len - 2 * l /\ y \in Int /\ z \in Int
  OBVIOUS
<1> DEFINE s == Swapped(m, y, z, l)
<1>1. \A a \in Addr : s[a] = IF y <= a /\ a < z THEN m[a + l]
                             ELSE IF z <= a /\ a < x + len THEN m[a - l] ELSE m[a]
  <2>1. z - y = l /\ y + l = z /\ z + l = x + len
    BY <1>0
  <2> QED BY <2>1 DEF Swapped
<1> HIDE DEF s
<1>2. ASSUME NEW a \in Addr
      PROVE  (IF x <= a /\ a < x + (len - l)
              THEN s[IF a + (len - 2 * l) < x + (len - l) THEN a + (len - 2 * l)
                     ELSE (a + (len - 2 * l)) - (len - l)] ELSE s[a])
             = IF x <= a /\ a < x + len
               THEN m[IF a + (len - l) < x + len THEN a + (len - l) ELSE (a + (len - l)) - len] ELSE m[a]
  <2>1. a \in Int
    BY Widths
  <2>2. CASE x <= a /\ a < x + (len - l) /\ a + (len - 2 * l) < x + (len - l)
    <3> DEFINE j == a + (len - 2 * l)
    <3>1. /\ j \in Addr /\ y <= j /\ j < z /\ a < x + len /\ a + (len - l) < x + len
          /\ j + l = a + (len - l)
      BY <1>0, <2>1, <2>2, Widths
    <3> HIDE DEF j
    <3>2. s[j] = m[j + l]
      BY <1>1, <3>1
    <3> QED BY <2>1, <2>2, <3>1, <3>2 DEF j
  <2>3. CASE x <= a /\ a < x + (len - l) /\ ~(a + (len - 2 * l) < x + (len - l))
    <3> DEFINE j == (a + (len - 2 * l)) - (len - l)
    <3>1. /\ j \in Addr /\ ~(y <= j /\ j < z) /\ ~(z <= j /\ j < x + len)
          /\ a < x + len /\ ~(a + (len - l) < x + len) /\ j = (a + (len - l)) - len
      BY <1>0, <2>1, <2>3, Widths
    <3> HIDE DEF j
    <3>2. s[j] = m[j]
      BY <1>1, <3>1
    <3> QED BY <2>1, <2>3, <3>1, <3>2 DEF j
  <2>4. CASE z <= a /\ a < x + len
    <3>1. /\ ~(a < x + (len - l)) /\ ~(a + (len - l) < x + len) /\ x <= a /\ ~(y <= a /\ a < z)
          /\ (a + (len - l)) - len = a - l
      BY <1>0, <2>1, <2>4
    <3> QED BY <1>1, <2>4, <3>1
  <2>5. CASE ~(x <= a /\ a < x + len)
    <3>1. ~(x <= a /\ a < x + (len - l)) /\ ~(y <= a /\ a < z) /\ ~(z <= a /\ a < x + len)
      BY <1>0, <2>1, <2>5
    <3> QED BY <1>1, <2>5, <3>1
  <2> QED BY <1>0, <2>1, <2>2, <2>3, <2>4, <2>5
<1>3. Turned(s, x, len - l, len - 2 * l) = Turned(m, x, len, len - l)
  BY <1>2 DEF Turned
<1> QED BY <1>0, <1>3 DEF s

\* A last block of fewer bits.
LEMMA TurnRestDown ==
  ASSUME NEW m, NEW x \in Nat, NEW l \in Nat, NEW r \in Nat,
         NEW y, NEW len, BlockAndRest(x, y, l, r, len)
  PROVE  Turned(Swapped(m, x, y, r), x, l, r) = Turned(m, x, len, r)
<1> USE DEF BlockAndRest
<1>0. y = x + l /\ len = l + r
  OBVIOUS
<1> DEFINE s == Swapped(m, x, x + l, r)
<1>1. \A a \in Addr : s[a] = IF x <= a /\ a < x + r THEN m[a + l]
                             ELSE IF x + l <= a /\ a < x + l + r THEN m[a - l] ELSE m[a]
  <2>1. (x + l) - x = l /\ \A a \in Addr : a \in Int
    BY Widths
  <2> QED BY <2>1 DEF Swapped
<1> HIDE DEF s
<1>2. ASSUME NEW a \in Addr
      PROVE  (IF x <= a /\ a < x + l
              THEN s[IF a + r < x + l THEN a + r ELSE (a + r) - l] ELSE s[a])
             = IF x <= a /\ a < x + (l + r)
               THEN m[IF a + r < x + (l + r) THEN a + r ELSE (a + r) - (l + r)] ELSE m[a]
  <2>1. a \in Int /\ x + l + r = x + (l + r)
    BY Widths
  <2>2. CASE x <= a /\ a < x + l /\ a + r < x + l
    <3> DEFINE j == a + r
    <3>1. /\ j \in Addr /\ ~(x <= j /\ j < x + r) /\ ~(x + l <= j /\ j < x + l + r)
          /\ a < x + (l + r) /\ j < x + (l + r)
      BY <2>1, <2>2, Widths
    <3> HIDE DEF j
    <3>2. s[j] = m[j]
      BY <1>1, <3>1
    <3> QED BY <2>1, <2>2, <3>1, <3>2 DEF j
  <2>3. CASE x <= a /\ a < x + l /\ ~(a + r < x + l)
    <3> DEFINE j == (a + r) - l
    <3>1. /\ j \in Addr /\ x <= j /\ j < x + r /\ a < x + (l + r) /\ a + r < x + (l + r)
          /\ j + l = a + r
      BY <2>1, <2>3, Widths
    <3> HIDE DEF j
    <3>2. s[j] = m[j + l]
      BY <1>1, <3>1
    <3> QED BY <2>1, <2>3, <3>1, <3>2 DEF j
  <2>4. CASE x + l <= a /\ a < x + (l + r)
    <3>1. ~(a < x + l) /\ ~(a < x + r) /\ x <= a /\ ~(a + r < x + (l + r)) /\ (a + r) - (l + r) = a - l
      BY <2>1, <2>4
    <3> QED BY <1>1, <2>1, <2>4, <3>1
  <2>5. CASE ~(x <= a /\ a < x + (l + r))
    <3>1. ~(x <= a /\ a < x + r) /\ ~(x <= a /\ a < x + l) /\ ~(x + l <= a /\ a < x + l + r)
      BY <2>1, <2>5
    <3> QED BY <1>1, <2>5, <3>1
  <2> QED BY <2>1, <2>2, <2>3, <2>4, <2>5
<1>3. Turned(s, x, l, r) = Turned(m, x, l + r, r)
  BY <1>2 DEF Turned
<1> QED BY <1>0, <1>3 DEF s

\* Two halves.
LEMMA TurnHalves ==
  ASSUME NEW m, NEW x \in Nat, NEW l \in Nat
  PROVE  Swapped(m, x, x + l, l) = Turned(m, x, l + l, l)
<1>1. ASSUME NEW a \in Addr
      PROVE  (IF x <= a /\ a < x + l THEN m[a + ((x + l) - x)]
              ELSE IF x + l <= a /\ a < (x + l) + l THEN m[a - ((x + l) - x)] ELSE m[a])
             = IF x <= a /\ a < x + (l + l)
               THEN m[IF a + l < x + (l + l) THEN a + l ELSE (a + l) - (l + l)] ELSE m[a]
  <2>1. a \in Int /\ a + ((x + l) - x) = a + l /\ a - ((x + l) - x) = a - l /\ (a + l) - (l + l) = a - l
    BY Widths
  <2>2. /\ (x <= a /\ a < x + l) => (a < x + (l + l) /\ a + l < x + (l + l))
        /\ (x + l <= a /\ a < (x + l) + l) <=> (x <= a /\ a < x + (l + l) /\ ~(a < x + l))
        /\ ~(a < x + l) => ~(a + l < x + (l + l))
    BY <2>1
  <2> QED BY <2>1, <2>2
<1> QED BY <1>1 DEF Swapped, Turned

LEMMA RotateWords ==
  /\ Rotate!BitPos = BitPos /\ Rotate!MemBits = MemBits /\ Rotate!Addr = Addr
  /\ \A a : Rotate!Pos(a) = Pos(a) /\ Rotate!Base(a) = Base(a)
  /\ \A m, b, w : Rotate!Store(m, b, w) = Store(m, b, w)
  /\ \A m, b : Rotate!Load(m, b) = Load(m, b)
  /\ \A w, i : Rotate!Lsr(w, i) = Lsr(w, i) /\ Rotate!Lsl(w, i) = Lsl(w, i)
  /\ \A v, w : Rotate!BitOr(v, w) = BitOr(v, w)
  /\ \A v, w, s, l : Rotate!BitBlend(v, w, s, l) = BitBlend(v, w, s, l)
  /\ \A a, b, c : Rotate!Holds(a, b, c) <=> Holds(a, b, c)
  /\ \A i : Rotate!ShiftDefined(i) <=> ShiftDefined(i)
<1>1. /\ Rotate!BitPos = BitPos /\ Rotate!MemBits = MemBits /\ Rotate!Addr = Addr
      /\ \A a : Rotate!Pos(a) = Pos(a) /\ Rotate!Base(a) = Base(a)
  BY DEF Rotate!BitPos, Rotate!MemBits, Rotate!Addr, Rotate!Pos, Rotate!Base,
         BitPos, MemBits, Addr, Pos, Base
<1>2. /\ \A m, b, w : Rotate!Store(m, b, w) = Store(m, b, w)
      /\ \A m, b : Rotate!Load(m, b) = Load(m, b)
      /\ \A w, i : Rotate!Lsr(w, i) = Lsr(w, i) /\ Rotate!Lsl(w, i) = Lsl(w, i)
  BY <1>1 DEF Rotate!Store, Rotate!Load, Rotate!Lsr, Rotate!Lsl, Store, Load, Lsr, Lsl
<1>3. /\ \A v, w : Rotate!BitOr(v, w) = BitOr(v, w)
      /\ \A v, w, s, l : Rotate!BitBlend(v, w, s, l) = BitBlend(v, w, s, l)
  BY <1>1 DEF Rotate!BitBlend, BitBlend, Rotate!BitOr, BitOr
<1> QED BY <1>1, <1>2, <1>3 DEF Rotate!Holds, Rotate!ShiftDefined, Holds, ShiftDefined

LEMMA RotateAccess ==
  /\ \A m, a, l : Rotate!GetWord(m, a, l) = GetWord(m, a, l)
  /\ \A m, w, a, l : Rotate!WriteWord(m, w, a, l) = WriteWord(m, w, a, l)
  /\ \A a, l : /\ Rotate!GetWordLoads(a, l) = GetWordLoads(a, l)
               /\ Rotate!GetWordShifts(a, l) = GetWordShifts(a, l)
               /\ Rotate!WriteWordWords(a, l) = WriteWordWords(a, l)
               /\ Rotate!WriteWordShifts(a, l) = WriteWordShifts(a, l)
               /\ Rotate!IsWithin(a, l) <=> IsWithin(a, l)
<1>1. \A a, l : (Rotate!Spans(a, l) <=> Spans(a, l)) /\ Rotate!Least(a, l) = Least(a, l)
  BY RotateWords DEF Rotate!Spans, Spans, Rotate!Least, Least
<1>2. \A m, a, l : Rotate!GetWord(m, a, l) = GetWord(m, a, l)
  BY <1>1, RotateWords DEF Rotate!GetWord, GetWord
<1>3. \A m, w, a, l : Rotate!WriteWord(m, w, a, l) = WriteWord(m, w, a, l)
  BY <1>1, RotateWords DEF Rotate!WriteWord, WriteWord
<1>4. \A a, l : /\ Rotate!GetWordLoads(a, l) = GetWordLoads(a, l)
                /\ Rotate!GetWordShifts(a, l) = GetWordShifts(a, l)
                /\ Rotate!WriteWordWords(a, l) = WriteWordWords(a, l)
                /\ Rotate!WriteWordShifts(a, l) = WriteWordShifts(a, l)
  BY <1>1, RotateWords DEF Rotate!GetWordLoads, Rotate!GetWordShifts, Rotate!WriteWordWords,
     Rotate!WriteWordShifts, GetWordLoads, GetWordShifts, WriteWordWords, WriteWordShifts
<1>5. \A a, l : Rotate!IsWithin(a, l) <=> IsWithin(a, l)
  BY RotateWords DEF Rotate!IsWithin, Rotate!IsWithin0, IsWithin, IsWithin0
<1> QED BY <1>2, <1>3, <1>4, <1>5

LEMMA WithinIs ==
  ASSUME NEW a \in Int, NEW b \in Int, IsWithin(a, b)
  PROVE  b - a <= W
<1>1. /\ Pos(a) \in 0 .. (W - 1) /\ Base(a) \in Int /\ a = Base(a) + Pos(a)
      /\ Pos(b) \in 0 .. (W - 1) /\ Base(b) \in Int /\ b = Base(b) + Pos(b) /\ W \in Nat
      /\ Pos(a + W) = Pos(a)
  BY RangeFacts, AlignedStep, Widths
<1>2. Base(a + W) = Base(a) + W
  BY <1>1 DEF Base
<1> QED BY <1>1, <1>2 DEF IsWithin, IsWithin0

\* Writing no bits at all.
LEMMA WriteNothing ==
  ASSUME NEW m, Memory(m), NEW w, NEW to \in Nat
  PROVE  WriteWord(m, w, to, 0) = m
<1> DEFINE b == Base(to)
           s == Pos(to)
           x == Lsl(w, s)
           r == Store(m, b, BitBlend(Load(m, b), x, s, 0))
<1>1. s \in 0 .. (W - 1) /\ b \in Int /\ W \in Nat /\ W > 0 /\ to \in Int
  <2>1. to \in Int
    OBVIOUS
  <2> QED BY <2>1, RangeFacts, Widths
<1>2. WriteWord(m, w, to, 0) = r
  <2>1. ~Spans(to, 0) /\ Least(W - s, 0) = 0 /\ ~(s = 0 /\ 0 = W)
    BY <1>1 DEF Spans, Least
  <2> QED BY <2>1 DEF WriteWord
<1>3. DOMAIN m = Addr
  BY DEF Memory
<1>4. \A i \in 0 .. (0 - 1) : x[s + i] = w[i]
  OBVIOUS
<1> HIDE DEF s, b, x
<1>5. Puts(m, r, b + s, 0, w)
  <2>1. s \in Nat /\ s + 0 <= W /\ 0 \in Nat
    BY <1>1
  <2> QED BY <1>1, <1>3, <1>4, <2>1, BlendPuts
<1>6. \A a \in Addr : r[a] = m[a]
  <2>1. \A a \in Addr : ~(b + s <= a /\ a < (b + s) + 0)
    BY <1>1, Widths
  <2> QED BY <1>5, <2>1 DEF Puts
<1>7. r = [a \in Addr |-> r[a]]
  BY <1>5 DEF Puts
<1>8. r = m
  BY <1>6, <1>7 DEF Memory
<1> QED BY <1>2, <1>8

\* The left part is kept in a word while the rest is shifted down.
LEMMA KeepLeftIs ==
  ASSUME NEW m, Memory(m), NEW x \in Nat, NEW y \in Nat, y <= MemBits,
         NEW l \in 1 .. W, x + l <= y, NEW to \in Nat, to = y - l
  PROVE  WriteWord(Rotate!ShiftLeft(m, x, y, l), GetWord(m, x, l), to, l) = Turned(m, x, y - x, l)
<1> DEFINE g == GetWord(m, x, l)
           s == Rotate!ShiftLeft(m, x, y, l)
           r == WriteWord(s, g, to, l)
<1>1. DOMAIN s = Addr
  BY RotateWords DEF Rotate!ShiftLeft
<1>2. ASSUME NEW a \in Addr
      PROVE  s[a] = IF ~(x <= a /\ a < y /\ 0 < l /\ l < y - x) THEN m[a]
                    ELSE IF a + l < y THEN m[a + l] ELSE Zero
  BY RotateWords DEF Rotate!ShiftLeft
<1>3. ASSUME NEW i \in 0 .. (l - 1) PROVE g[i] = m[x + i]
  <2>1. l \in 0 .. W
    BY Widths
  <2> QED BY <2>1, GetWordBit
<1> HIDE DEF g, s
<1>4. Puts(s, r, to, l, g)
  BY <1>1, WriteWordPuts
<1>5. ASSUME NEW a \in Addr
      PROVE  r[a] = IF x <= a /\ a < x + (y - x)
                    THEN m[IF a + l < x + (y - x) THEN a + l ELSE (a + l) - (y - x)] ELSE m[a]
  <2>1. a \in Int /\ W \in Nat /\ l \in Nat /\ 0 < l /\ x + (y - x) = y
    BY Widths
  <2>2. r[a] = IF to <= a /\ a < to + l THEN g[a - to] ELSE s[a]
    BY <1>4 DEF Puts
  <2> HIDE DEF r
  <2>3. CASE to <= a /\ a < to + l
    <3>1. a - to \in 0 .. (l - 1) /\ x + (a - to) = (a + l) - (y - x) /\ x <= a /\ a < y /\ ~(a + l < y)
      BY <2>1, <2>3
    <3> QED BY <1>3, <2>1, <2>2, <2>3, <3>1
  <2>4. CASE x <= a /\ a < to
    <3>1. a < y /\ l < y - x /\ a + l < y /\ ~(to <= a)
      BY <2>1, <2>4
    <3> QED BY <1>2, <2>1, <2>2, <2>4, <3>1
  <2>5. CASE ~(x <= a /\ a < y)
    <3>1. ~(to <= a /\ a < to + l)
      BY <2>1, <2>5
    <3> QED BY <1>2, <2>1, <2>2, <2>5, <3>1
  <2> QED BY <2>1, <2>3, <2>4, <2>5
<1>6. r = [a \in Addr |-> r[a]]
  BY <1>4 DEF Puts
<1> HIDE DEF r
<1>7. r = Turned(m, x, y - x, l)
  BY <1>5, <1>6 DEF Turned
<1> QED BY <1>7 DEF r, g, s

\* The right part is kept in a word while the rest is shifted up.
LEMMA KeepRightIs ==
  ASSUME NEW m, Memory(m), NEW x \in Nat, NEW y \in Nat, y <= MemBits,
         NEW l \in 0 .. W, x + l <= y, NEW from \in Nat, from = y - l
  PROVE  WriteWord(Rotate!ShiftRight(m, x, y, l), GetWord(m, from, l), x, l)
           = Turned(m, x, y - x, from - x)
<1> DEFINE g == GetWord(m, from, l)
           s == Rotate!ShiftRight(m, x, y, l)
           r == WriteWord(s, g, x, l)
<1>1. DOMAIN s = Addr /\ s = [a \in Addr |-> s[a]]
  BY RotateWords DEF Rotate!ShiftRight
<1>2. ASSUME NEW a \in Addr
      PROVE  s[a] = IF ~(x <= a /\ a < y /\ 0 < l /\ l < y - x) THEN m[a]
                    ELSE IF x <= a - l THEN m[a - l] ELSE Zero
  BY RotateWords DEF Rotate!ShiftRight
<1>3. ASSUME NEW i \in 0 .. (l - 1) PROVE g[i] = m[from + i]
  BY GetWordBit, Widths
<1> HIDE DEF g, s
<1>4. Puts(s, r, x, l, g)
  <2>1. CASE l = 0
    <3>1. x \in Int /\ Memory(s)
      BY <1>1 DEF Memory
    <3>2. Puts(s, s, x, 0, g)
      BY <1>1, <3>1, PutsNothing
    <3> QED BY <2>1, <3>1, <3>2, WriteNothing
  <2>2. CASE l # 0
    <3>1. l \in 1 .. W
      BY <2>2, Widths
    <3> QED BY <1>1, <3>1, WriteWordPuts
  <2> QED BY <2>1, <2>2
<1>5. ASSUME NEW a \in Addr
      PROVE  r[a] = IF x <= a /\ a < x + (y - x)
                    THEN m[IF a + (from - x) < x + (y - x) THEN a + (from - x)
                           ELSE (a + (from - x)) - (y - x)] ELSE m[a]
  <2>1. a \in Int /\ W \in Nat /\ l \in Nat /\ x + (y - x) = y
        /\ (a + (from - x)) - (y - x) = a - l /\ (a + (from - x) < y <=> a < x + l)
    BY Widths
  <2>2. r[a] = IF x <= a /\ a < x + l THEN g[a - x] ELSE s[a]
    BY <1>4 DEF Puts
  <2> HIDE DEF r
  <2>3. CASE x <= a /\ a < x + l
    <3>1. a - x \in 0 .. (l - 1) /\ from + (a - x) = a + (from - x) /\ a < y
      BY <2>1, <2>3
    <3> QED BY <1>3, <2>1, <2>2, <2>3, <3>1
  <2>4. CASE x + l <= a /\ a < y
    <3>1. x <= a /\ ~(a < x + l) /\ l < y - x /\ x <= a - l
      BY <2>1, <2>4
    <3>2. CASE l = 0
      <4>1. a - l = a
        BY <2>1, <3>2
      <4> QED BY <1>2, <2>1, <2>2, <2>4, <3>1, <3>2, <4>1
    <3>3. CASE 0 < l
      BY <1>2, <2>1, <2>2, <2>4, <3>1, <3>3
    <3> QED BY <2>1, <3>2, <3>3
  <2>5. CASE ~(x <= a /\ a < y)
    <3>1. ~(x <= a /\ a < x + l)
      BY <2>1, <2>5
    <3> QED BY <1>2, <2>1, <2>2, <2>5, <3>1
  <2> QED BY <2>1, <2>3, <2>4, <2>5
<1>6. r = [a \in Addr |-> r[a]]
  BY <1>4 DEF Puts
<1> HIDE DEF r
<1>7. r = Turned(m, x, y - x, from - x)
  BY <1>5, <1>6 DEF Turned
<1> QED BY <1>7 DEF r, g, s

\* The call: a middle at the end of the range is not at the end of a word, unless
\* the range is empty.
RotCall ==
  /\ orig \in [Addr -> Bit]
  /\ first \in Nat /\ second \in Nat /\ last \in Nat
  /\ first <= second /\ second <= last /\ last <= MemBits
  /\ second = last /\ Pos(last) = 0 => first = last

\* The memory when rotate returns.
Rotation == Turned(orig, first, last - first, second - first)

\* What rotate has left to do: to rotate n bits at p by k; in a round, to rotate
\* the blocks and the rest that the block at p, or the one at q, has yet to pass.
RotInv ==
  /\ RotCall
  /\ mem \in [Addr -> Bit]
  /\ pc \in {"start", "loop", "up", "down", "done"}
  /\ used \in SUBSET Int /\ shifts \in SUBSET Int
  /\ Rotate!AccessInRange /\ Rotate!ShiftsDefined
  /\ p \in first .. last /\ q \in first .. last
  /\ n \in 0 .. (last - first) /\ k \in 0 .. (last - first)
  /\ full_swaps \in Nat /\ remainder \in Nat
  /\ pc = "start" => /\ mem = orig /\ p = first /\ n = last - first /\ k = second - first
                     /\ ret = first
  /\ pc # "start" => ret = first + (last - second)
  /\ pc = "loop"  => /\ p + n <= last /\ 0 < k /\ k < n
                     /\ Turned(mem, p, n, k) = Rotation
  /\ pc = "up"    => /\ q = p + k /\ q + full_swaps * k + remainder <= last
                     /\ 0 < k /\ remainder < k /\ remainder = n % k
                     /\ Turned(mem, p, k + (full_swaps * k + remainder), k) = Rotation
  /\ pc = "down"  => /\ q = p + k /\ first + full_swaps * k + remainder <= p
                     /\ 0 < k /\ remainder < k /\ remainder = n % k
                     /\ Turned(mem, p - (full_swaps * k + remainder),
                               k + (full_swaps * k + remainder), full_swaps * k + remainder) = Rotation
  /\ pc = "done"  => mem = Rotation

LEMMA RotFacts ==
  ASSUME RotInv
  PROVE  /\ orig \in [Addr -> Bit] /\ Memory(orig) /\ mem \in [Addr -> Bit] /\ Memory(mem)
         /\ first \in Nat /\ second \in Nat /\ last \in Nat
         /\ first <= second /\ second <= last /\ last <= MemBits
         /\ W \in Nat /\ W > 0 /\ MemBits \in Nat
         /\ p \in Nat /\ first <= p /\ p <= last /\ q \in Nat /\ n \in Nat /\ k \in Nat
         /\ full_swaps \in Nat /\ remainder \in Nat
BY MemoryOf, Widths DEF RotInv, RotCall

LEMMA RotImplies ==
  ASSUME RotInv
  PROVE  Rotate!TypeOK /\ Rotate!RotateCorrect /\ Rotate!RoundsConverge /\ Rotate!ReturnsMiddle
         /\ Rotate!BlocksApart /\ Rotate!AccessInRange /\ Rotate!ShiftsDefined
<1>1. Rotate!Final = Rotation
  <2>1. first \in Int /\ last - first \in Nat /\ second - first \in 0 .. (last - first)
    BY RotFacts
  <2> QED BY <2>1, RotatedIs DEF Rotate!Final, Rotation
<1>2. Rotate!TypeOK
  <2>1. ret \in first .. last
    BY RotFacts DEF RotInv
  <2> QED BY <2>1, RotFacts, RotateWords DEF RotInv, Rotate!TypeOK
<1>3. Rotate!RotateCorrect
  BY <1>1 DEF RotInv, Rotate!RotateCorrect
<1>4. Rotate!RoundsConverge
  <2> SUFFICES ASSUME pc = "loop" PROVE 0 < k /\ k < n /\ Rotate!Rotated(mem, p, n, k) = Rotation
    BY <1>1 DEF Rotate!RoundsConverge
  <2>1. 0 < k /\ k < n /\ Turned(mem, p, n, k) = Rotation
    BY DEF RotInv
  <2>2. p \in Int /\ n \in Nat /\ k \in 0 .. n
    BY <2>1, RotFacts
  <2> QED BY <2>1, <2>2, RotatedIs
<1>5. Rotate!ReturnsMiddle /\ Rotate!BlocksApart
  BY DEF RotInv, Rotate!ReturnsMiddle, Rotate!BlocksApart
<1> QED BY <1>2, <1>3, <1>4, <1>5 DEF RotInv

\* What a step of rotate keeps and shows of its words and shifts.
RotSafe ==
  /\ UNCHANGED <<orig, first, second, last>>
  /\ used' \in SUBSET Int /\ shifts' \in SUBSET Int
  /\ \A b \in used' : Holds(b, first, last)
  /\ \A i \in shifts' : ShiftDefined(i)

LEMMA RotSafeIs ==
  ASSUME RotInv, RotSafe
  PROVE  /\ RotCall' /\ Rotation' = Rotation
         /\ used' \in SUBSET Int /\ shifts' \in SUBSET Int
         /\ Rotate!AccessInRange' /\ Rotate!ShiftsDefined'
<1>1. RotCall'
  BY DEF RotInv, RotCall, RotSafe
<1>2. Rotation' = Rotation
  BY DEF RotSafe, Rotation
<1>3. Rotate!AccessInRange' /\ Rotate!ShiftsDefined'
  BY RotateWords DEF RotSafe, Rotate!AccessInRange, Rotate!ShiftsDefined
<1> QED BY <1>1, <1>2, <1>3 DEF RotSafe

\* The call returns.
LEMMA RotReturns ==
  ASSUME RotInv, RotSafe, mem' = Rotation, pc' = "done", ret' = first + (last - second),
         UNCHANGED <<p, n, q, full_swaps, remainder>>, k' \in 0 .. (last - first)
  PROVE  RotInv'
<1>1. Rotation \in [Addr -> Bit]
  <2>1. /\ last - first \in Nat /\ second - first \in 0 .. (last - first)
        /\ first + (last - first) <= MemBits
    BY RotFacts
  <2> QED BY <2>1, RotFacts, TurnedType DEF Rotation
<1>2. first' = first /\ last' = last /\ second' = second
  BY DEF RotSafe
<1> QED BY <1>1, <1>2, RotSafeIs DEF RotInv

\* The words and shifts of a part that is kept, and those of the loop.
LEMMA SaveSafe ==
  ASSUME RotInv, NEW m, NEW l \in 1 .. W, NEW from \in Nat, NEW to \in Nat,
         first <= from, from + l <= last, first <= to, to + l <= last,
         Rotate!SaveAround(from, m, to, l), UNCHANGED <<orig, first, second, last>>
  PROVE  RotSafe /\ mem' = WriteWord(m, GetWord(mem, from, l), to, l)
<1>1. /\ mem' = WriteWord(m, GetWord(mem, from, l), to, l)
      /\ used' = GetWordLoads(from, l) \cup WriteWordWords(to, l)
      /\ shifts' = GetWordShifts(from, l) \cup WriteWordShifts(to, l)
  BY RotateAccess DEF Rotate!SaveAround
<1>2. /\ \A b \in GetWordLoads(from, l) : b \in Int /\ b < from + l /\ from < b + W
      /\ \A i \in GetWordShifts(from, l) : i \in Int /\ ShiftDefined(i)
      /\ \A b \in WriteWordWords(to, l) : b \in Int /\ b < to + l /\ to < b + W
      /\ \A i \in WriteWordShifts(to, l) : i \in Int /\ ShiftDefined(i)
  BY GetWordAccess, WriteWordAccess
<1>3. \A b \in used' : b \in Int /\ b < last /\ first < b + W
  BY <1>1, <1>2, RotFacts
<1> QED BY <1>1, <1>2, <1>3, HoldsIs DEF RotSafe

LEMMA NothingSafe ==
  ASSUME UNCHANGED <<orig, first, second, last>>, used' = {}, shifts' = {}
  PROVE  RotSafe
BY DEF RotSafe

LEMMA NothingStep ==
  ASSUME RotInv, Rotate!Nothing
  PROVE  RotInv'
<1>1. /\ pc = "start" /\ first = second /\ mem' = mem /\ used' = {} /\ shifts' = {}
      /\ pc' = "done" /\ ret' = last
      /\ UNCHANGED <<orig, first, second, last, p, n, k, q, full_swaps, remainder>>
  BY DEF Rotate!Nothing, Rotate!NoAccess, Rotate!Return, Rotate!Call, Rotate!Round
<1>2. mem' = Rotation
  <2>1. second - first = 0 /\ last - first \in Nat /\ first \in Int
    BY <1>1, RotFacts
  <2>2. mem = orig
    BY <1>1 DEF RotInv
  <2>3. Turned(orig, first, last - first, 0) = orig
    BY <2>1, RotFacts, TurnedNone
  <2> QED BY <1>1, <2>1, <2>2, <2>3 DEF Rotation
<1>3. ret' = first + (last - second) /\ k' \in 0 .. (last - first)
  BY <1>1, RotFacts DEF RotInv
<1> QED BY <1>1, <1>2, <1>3, NothingSafe, RotReturns

\* Where the range lies that is in one word.
LEMMA OneWord ==
  ASSUME RotInv, pc = "start", first # second, Rotate!SingleWord
  PROVE  /\ first < second /\ first < last /\ mem = orig
         /\ Base(first) \in Nat /\ Pos(first) \in 0 .. (W - 1) /\ first = Base(first) + Pos(first)
         /\ last = Base(first) + (IF Pos(last) = 0 THEN W ELSE Pos(last))
         /\ Pos(last) \in 0 .. (W - 1)
         /\ Pos(second) = second - Base(first) /\ Pos(second) \in 0 .. (W - 1)
<1>1. /\ first \in Nat /\ second \in Nat /\ last \in Nat /\ first <= second /\ second <= last
      /\ W \in Nat /\ W > 0 /\ first \in Int /\ last \in Int
  BY RotFacts
<1>2. /\ Base(first) \in Nat /\ Pos(first) \in 0 .. (W - 1) /\ first = Base(first) + Pos(first)
      /\ Pos(Base(first)) = 0
      /\ Base(last) \in Nat /\ Pos(last) \in 0 .. (W - 1) /\ last = Base(last) + Pos(last)
  BY <1>1, RangeFacts, BaseNat, BaseAligned
<1>3. Base(first) + (IF Pos(last) = 0 THEN W ELSE 0) = Base(last)
  BY RotateWords DEF Rotate!SingleWord
<1>4. last = Base(first) + (IF Pos(last) = 0 THEN W ELSE Pos(last))
  BY <1>1, <1>2, <1>3
<1>5. first < second /\ first < last /\ mem = orig
  BY <1>1 DEF RotInv
<1>6. second = last => Pos(last) # 0
  BY <1>5, <1>1 DEF RotInv, RotCall
<1> DEFINE b == Base(first)
           r == second - b
<1>7. r \in 0 .. (W - 1) /\ b \in Int /\ Pos(b) = 0 /\ b + r = second
  BY <1>1, <1>2, <1>4, <1>6
<1> HIDE DEF b, r
<1>8. Pos(b + r) = r
  BY <1>7, PosOf
<1> QED BY <1>1, <1>2, <1>4, <1>5, <1>7, <1>8 DEF b, r

LEMMA ShiftsIs == \A i : ShiftDefined(i) => Rotate!Shifts(i) = {i}
BY RotateWords DEF Rotate!Shifts

\* The bits of a word rotated in a register.
LEMMA TurnedWordBit ==
  ASSUME NEW v, NEW d \in 1 .. (W - 1), NEW i \in BitPos
  PROVE  BitOr(Lsr(v, d), Lsl(v, W - d))[i] = v[IF i + d < W THEN i + d ELSE (i + d) - W]
<1> DEFINE x == Lsr(v, d)
           y == Lsl(v, W - d)
<1>1. i \in Int /\ 0 <= i /\ i < W /\ d \in Int /\ W \in Int
  BY Widths DEF BitPos
<1>2. x[i] = IF i + d < W THEN v[i + d] ELSE Zero
  BY LsrBit
<1>3. y[i] = IF W - d <= i THEN v[i - (W - d)] ELSE Zero
  BY LslBit
<1> HIDE DEF x, y
<1>4. BitOr(x, y)[i] = IF x[i] = Zero THEN y[i] ELSE x[i]
  BY DEF BitOr
<1>5. (i + d < W <=> ~(W - d <= i)) /\ i - (W - d) = (i + d) - W
  BY <1>1
<1>6. BitOr(x, y)[i] = v[IF i + d < W THEN i + d ELSE (i + d) - W]
  BY <1>2, <1>3, <1>4, <1>5
<1> QED BY <1>6 DEF x, y

LEMMA RotateWordStep ==
  ASSUME RotInv, Rotate!RotateWord
  PROVE  RotInv'
<1> DEFINE d == Pos(second)
           v == Load(mem, first)
           w == BitOr(Lsr(v, d), Lsl(v, W - d))
<1>1. pc = "start" /\ first # second /\ Rotate!SingleWord /\ Pos(first) = 0 /\ Pos(last) = 0
  BY RotateWords DEF Rotate!RotateWord
<1>2. /\ first < second /\ first < last /\ mem = orig /\ Base(first) = first
      /\ last = first + W /\ d = second - first /\ d \in 0 .. (W - 1)
  BY <1>1, OneWord
<1>3. first \in Nat /\ second \in Nat /\ W \in Nat /\ W > 0 /\ first \in Int
  BY RotFacts
<1>4. d \in 1 .. (W - 1) /\ W - d \in 1 .. (W - 1) /\ d \in Int
  BY <1>2, <1>3
<1>5. ShiftDefined(d) /\ ShiftDefined(W - d)
  BY <1>3, <1>4, ShiftIs
<1>6. Rotate!Shifts(W - d) = {W - d}
  BY <1>5, ShiftsIs
<1>7. /\ \E s \in Rotate!Shifts(W - d) : mem' = Store(mem, first, BitOr(Lsr(v, d), Lsl(v, s)))
      /\ used' = {first} /\ shifts' = {d, W - d}
      /\ pc' = "done" /\ ret' = first + (W - d)
      /\ UNCHANGED <<orig, first, second, last, p, n, k, q, full_swaps, remainder>>
  BY <1>2, RotateWords DEF Rotate!RotateWord, Rotate!Return, Rotate!Call, Rotate!Round
<1>8. mem' = Store(mem, first, w)
  BY <1>6, <1>7
<1>9. Memory(mem) /\ DOMAIN mem = Addr
  BY RotFacts DEF Memory
<1>10. \A i \in BitPos : w[i] = v[IF i + d < W THEN i + d ELSE (i + d) - W]
  BY <1>4, TurnedWordBit
<1> HIDE DEF w
<1>11. ASSUME NEW a \in Addr
       PROVE  mem'[a] = IF first <= a /\ a < first + W
                        THEN orig[IF a + d < first + W THEN a + d ELSE (a + d) - W] ELSE orig[a]
  <2>1. a \in Int
    BY Widths
  <2>2. mem'[a] = IF first <= a /\ a < first + W THEN w[a - first] ELSE orig[a]
    BY <1>2, <1>3, <1>8, <1>9, StoreBit
  <2>3. CASE first <= a /\ a < first + W
    <3> DEFINE i == a - first
               j == IF i + d < W THEN i + d ELSE (i + d) - W
    <3>1. i \in BitPos /\ j \in BitPos
          /\ first + j = IF a + d < first + W THEN a + d ELSE (a + d) - W
      <4> HIDE DEF d
      <4> QED BY <1>3, <1>4, <2>1, <2>3 DEF BitPos
    <3>2. w[i] = v[j]
      BY <1>10, <3>1
    <3> HIDE DEF i, j
    <3>3. v[j] = mem[first + j]
      BY <3>1, LoadBit
    <3> QED BY <1>2, <2>2, <2>3, <3>1, <3>2, <3>3 DEF i
  <2> QED BY <2>2, <2>3
<1>12. mem' = [a \in Addr |-> mem'[a]]
  BY <1>8, <1>9 DEF Store
<1>13. mem' = Rotation
  <2>1. last - first = W /\ second - first = d
    BY <1>2, <1>3
  <2> HIDE DEF d
  <2> QED BY <1>11, <1>12, <2>1 DEF Rotation, Turned
<1>14. RotSafe
  <2>1. Holds(first, first, last)
    BY <1>2, <1>3, HoldsIs
  <2> QED BY <1>3, <1>4, <1>5, <1>7, <2>1 DEF RotSafe
<1>15. ret' = first + (last - second) /\ k' \in 0 .. (last - first)
  <2>1. W - d = last - second
    BY <1>2, <1>3
  <2> QED BY <1>7, <2>1 DEF RotInv
<1> QED BY <1>7, <1>13, <1>14, <1>15, RotReturns

\* The bits [s, e) of a word, cut out and rotated: bit s + i.
LEMMA TurnedPartBit ==
  ASSUME NEW v, NEW s \in Nat, NEW e \in Nat, e <= W, NEW r \in Nat, NEW l \in Nat, s + (r + l) = e,
         NEW i \in 0 .. (e - s - 1), NEW cut,
         \A j \in BitPos : cut[j] = IF s <= j /\ j < e THEN v[j] ELSE Zero
  PROVE  BitOr(Lsr(cut, r), Lsl(cut, l))[s + i] =
           v[s + (IF i + r < r + l THEN i + r ELSE (i + r) - (r + l))]
<1> DEFINE x == Lsr(cut, r)
           y == Lsl(cut, l)
           j == s + i
<1>1. /\ j \in BitPos /\ j \in Int /\ j < e /\ i \in Int /\ 0 <= i /\ i < r + l /\ W \in Int
  BY Widths DEF BitPos
<1>2. x[j] = IF j + r < W THEN cut[j + r] ELSE Zero
  BY <1>1, LsrBit
<1>3. y[j] = IF l <= j THEN cut[j - l] ELSE Zero
  BY <1>1, LslBit
<1> HIDE DEF x, y
<1>4. BitOr(x, y)[j] = IF x[j] = Zero THEN y[j] ELSE x[j]
  BY <1>1 DEF BitOr
<1>5. CASE i < l
  <2>1. /\ j + r \in BitPos /\ j + r < W /\ s <= j + r /\ j + r < e /\ i + r < r + l
        /\ j + r = s + (i + r)
    BY <1>1, <1>5 DEF BitPos
  <2>2. x[j] = v[s + (i + r)]
    BY <1>2, <2>1
  <2>3. y[j] = Zero
    <3>1. l <= j => j - l \in BitPos /\ ~(s <= j - l)
      BY <1>1, <1>5 DEF BitPos
    <3> QED BY <1>3, <3>1
  <2>4. BitOr(x, y)[j] = v[s + (i + r)]
    BY <1>4, <2>2, <2>3
  <2> QED BY <2>1, <2>4 DEF x, y, j
<1>6. CASE ~(i < l)
  <2>1. /\ l <= j /\ j - l \in BitPos /\ s <= j - l /\ j - l < e /\ ~(i + r < r + l)
        /\ j - l = s + ((i + r) - (r + l))
    BY <1>1, <1>6 DEF BitPos
  <2>2. y[j] = v[s + ((i + r) - (r + l))]
    BY <1>3, <2>1
  <2>3. x[j] = Zero
    <3>1. j + r < W => j + r \in BitPos /\ ~(j + r < e)
      BY <1>1, <1>6 DEF BitPos
    <3> QED BY <1>2, <3>1
  <2>4. BitOr(x, y)[j] = v[s + ((i + r) - (r + l))]
    BY <1>4, <2>2, <2>3
  <2> QED BY <2>1, <2>4 DEF x, y, j
<1> QED BY <1>5, <1>6

LEMMA RotateInWordStep ==
  ASSUME RotInv, Rotate!RotateInWord
  PROVE  RotInv'
<1> DEFINE b   == Base(first)
           s   == Pos(first)
           e   == IF Pos(last) = 0 THEN W ELSE Pos(last)
           v   == Load(mem, b)
           cut == [i \in BitPos |-> IF s <= i /\ i < e THEN v[i] ELSE Zero]
           r   == Pos(second) - s
           l   == e - Pos(second)
           w   == BitOr(Lsr(cut, r), Lsl(cut, l))
           len == last - first
           u   == [i \in Nat |-> orig[first + (IF i + r < r + l THEN i + r ELSE (i + r) - (r + l))]]
<1>1. pc = "start" /\ first # second /\ Rotate!SingleWord /\ (s # 0 \/ Pos(last) # 0)
  BY RotateWords DEF Rotate!RotateInWord
<1>2. /\ first < second /\ first < last /\ mem = orig /\ b \in Nat /\ s \in 0 .. (W - 1)
      /\ first = b + s /\ last = b + e /\ Pos(last) \in 0 .. (W - 1)
      /\ Pos(second) = second - b /\ Pos(second) \in 0 .. (W - 1)
  BY <1>1, OneWord
<1>3. /\ first \in Nat /\ second \in Nat /\ last \in Nat /\ W \in Nat /\ W > 0 /\ second <= last
  BY RotFacts
<1>4. e \in 0 .. W /\ (s # 0 \/ e < W)
  BY <1>1, <1>2, <1>3
<1>5. /\ \E i \in Rotate!Shifts(r), j \in Rotate!Shifts(l) :
           mem' = Store(mem, b, BitBlend(v, BitOr(Lsr(cut, i), Lsl(cut, j)), s, e - s))
      /\ used' = {b} /\ shifts' = {r, l, e - s, s}
      /\ pc' = "done" /\ ret' = first + l
      /\ UNCHANGED <<orig, first, second, last, p, n, k, q, full_swaps, remainder>>
  BY RotateWords DEF Rotate!RotateInWord, Rotate!Return, Rotate!Call, Rotate!Round
<1>6. \A j \in BitPos : cut[j] = IF s <= j /\ j < e THEN v[j] ELSE Zero
  OBVIOUS
<1>7. r = second - first /\ l = last - second
  BY <1>2, <1>3, <1>4
<1> HIDE DEF b, s, e, cut, r, l
<1>8. /\ r \in Nat /\ l \in Nat /\ r < W /\ l < W /\ s + (r + l) = e /\ s \in Nat /\ e \in Nat
      /\ e <= W /\ len \in Nat /\ len = e - s /\ len = r + l /\ s + len <= W /\ e - s < W /\ s < W
      /\ b \in Int /\ b + s = first
  BY <1>2, <1>3, <1>4, <1>7
<1>9. ShiftDefined(r) /\ ShiftDefined(l) /\ ShiftDefined(e - s) /\ ShiftDefined(s)
  BY <1>3, <1>8, ShiftIs
<1>10. Rotate!Shifts(r) = {r} /\ Rotate!Shifts(l) = {l}
  BY <1>9, ShiftsIs
<1>11. mem' = Store(mem, b, BitBlend(v, w, s, len))
  BY <1>5, <1>8, <1>10
<1>12. ASSUME NEW i \in 0 .. (len - 1) PROVE w[s + i] = u[i]
  <2> DEFINE j == IF i + r < r + l THEN i + r ELSE (i + r) - (r + l)
  <2>1. i \in 0 .. (e - s - 1) /\ i \in Nat
    BY <1>8
  <2>2. w[s + i] = v[s + j]
    BY <1>6, <1>8, <2>1, TurnedPartBit
  <2>3. s + j \in BitPos /\ b + (s + j) = first + j
    BY <1>2, <1>3, <1>8, <2>1 DEF BitPos
  <2>4. u[i] = orig[first + j]
    BY <2>1
  <2> HIDE DEF j, w, u
  <2>5. v[s + j] = mem[b + (s + j)]
    BY <2>3, LoadBit
  <2> QED BY <1>2, <2>2, <2>3, <2>4, <2>5
<1>13. DOMAIN mem = Addr
  BY RotFacts DEF Memory
<1> HIDE DEF w, len
<1>14. Puts(mem, mem', first, len, u)
  <2> HIDE DEF u
  <2>1. Puts(mem, Store(mem, b, BitBlend(Load(mem, b), w, s, len)), b + s, len, u)
    BY <1>8, <1>12, <1>13, BlendPuts
  <2> QED BY <1>8, <1>11, <2>1
<1>15. ASSUME NEW a \in Addr
       PROVE  mem'[a] = IF first <= a /\ a < first + len
                        THEN orig[IF a + r < first + len THEN a + r ELSE (a + r) - len] ELSE orig[a]
  <2>1. a \in Int
    BY Widths
  <2>2. mem'[a] = IF first <= a /\ a < first + len THEN u[a - first] ELSE orig[a]
    <3> HIDE DEF u
    <3> QED BY <1>2, <1>14 DEF Puts
  <2>3. CASE first <= a /\ a < first + len
    <3> DEFINE i == a - first
    <3>1. /\ i \in Nat
          /\ first + (IF i + r < r + l THEN i + r ELSE (i + r) - (r + l))
               = IF a + r < first + len THEN a + r ELSE (a + r) - len
      BY <1>3, <1>8, <2>1, <2>3
    <3>2. u[i] = orig[first + (IF i + r < r + l THEN i + r ELSE (i + r) - (r + l))]
      BY <3>1
    <3> HIDE DEF u
    <3> QED BY <2>2, <2>3, <3>1, <3>2
  <2> HIDE DEF u
  <2> QED BY <2>2, <2>3
<1>16. mem' = [a \in Addr |-> mem'[a]]
  BY <1>14 DEF Puts
<1>17. mem' = Rotation
  BY <1>7, <1>15, <1>16 DEF Rotation, Turned, len
<1>18. RotSafe
  <2>1. Holds(b, first, last)
    BY <1>2, <1>3, <1>8, HoldsIs
  <2> QED BY <1>5, <1>8, <1>9, <2>1 DEF RotSafe
<1>19. ret' = first + (last - second) /\ k' \in 0 .. (last - first)
  BY <1>5, <1>7 DEF RotInv
<1> QED BY <1>5, <1>17, <1>18, <1>19, RotReturns

LEMMA KeepLeftStep ==
  ASSUME RotInv, Rotate!KeepLeft
  PROVE  RotInv'
<1> DEFINE l  == second - first
           to == IF l < last - first THEN last - l ELSE first
<1>1. /\ pc = "start" /\ first # second /\ IsWithin(first, second)
      /\ Rotate!SaveAround(first, Rotate!ShiftLeft(mem, first, last, l), to, l)
      /\ pc' = "done" /\ ret' = to
      /\ UNCHANGED <<orig, first, second, last, p, n, k, q, full_swaps, remainder>>
  BY RotateAccess DEF Rotate!KeepLeft, Rotate!Return, Rotate!Call, Rotate!Round
<1>2. /\ first \in Nat /\ second \in Nat /\ last \in Nat /\ first <= second /\ second <= last
      /\ last <= MemBits /\ W \in Nat /\ Memory(mem) /\ first \in Int /\ second \in Int
  BY RotFacts
<1>3. l <= W
  BY <1>1, <1>2, WithinIs
<1>4. /\ l \in 1 .. W /\ l \in Nat /\ to \in Nat /\ to = last - l /\ first + l <= last /\ first <= to
      /\ to + l <= last /\ to = first + (last - second)
  BY <1>1, <1>2, <1>3
<1>5. mem = orig
  BY <1>1 DEF RotInv
<1> DEFINE m == Rotate!ShiftLeft(mem, first, last, l)
<1>6. Rotate!SaveAround(first, m, to, l)
  BY <1>1
<1> HIDE DEF l, to, m
<1>7. RotSafe /\ mem' = WriteWord(m, GetWord(mem, first, l), to, l)
  BY <1>1, <1>2, <1>4, <1>6, SaveSafe
<1>8. WriteWord(m, GetWord(mem, first, l), to, l) = Turned(mem, first, last - first, l)
  BY <1>2, <1>4, KeepLeftIs DEF m
<1>9. mem' = Rotation
  BY <1>5, <1>7, <1>8 DEF Rotation, l
<1>10. ret' = first + (last - second) /\ k' \in 0 .. (last - first)
  BY <1>1, <1>4 DEF RotInv
<1> QED BY <1>1, <1>7, <1>9, <1>10, RotReturns

LEMMA KeepRightStep ==
  ASSUME RotInv, Rotate!KeepRight
  PROVE  RotInv'
<1> DEFINE l == last - second
           m == Rotate!ShiftRight(mem, first, last, l)
<1>1. /\ pc = "start" /\ first # second /\ IsWithin(second, last)
      /\ Rotate!SaveAround(second, m, first, l)
      /\ pc' = "done" /\ ret' = first + l
      /\ UNCHANGED <<orig, first, second, last, p, n, k, q, full_swaps, remainder>>
  BY RotateAccess DEF Rotate!KeepRight, Rotate!Return, Rotate!Call, Rotate!Round
<1>2. /\ first \in Nat /\ second \in Nat /\ last \in Nat /\ first <= second /\ second <= last
      /\ last <= MemBits /\ W \in Nat /\ W > 0 /\ Memory(mem) /\ last \in Int /\ second \in Int
      /\ first \in Int
  BY RotFacts
<1>3. l <= W
  BY <1>1, <1>2, WithinIs
<1>4. l \in 0 .. W /\ l \in Nat /\ second = last - l /\ first + l <= last /\ second + l <= last
  BY <1>2, <1>3
<1>5. mem = orig
  BY <1>1 DEF RotInv
<1> HIDE DEF m
<1>6. RotSafe /\ mem' = WriteWord(m, GetWord(mem, second, l), first, l)
  <2>1. CASE l # 0
    <3>1. l \in 1 .. W
      BY <1>4, <2>1
    <3> HIDE DEF l
    <3> QED BY <1>1, <1>2, <1>4, <3>1, SaveSafe
  <2>2. CASE l = 0
    <3>1. /\ mem' = WriteWord(m, GetWord(mem, second, l), first, l)
          /\ used' = GetWordLoads(second, 0) \cup WriteWordWords(first, 0)
          /\ shifts' = GetWordShifts(second, 0) \cup WriteWordShifts(first, 0)
      BY <1>1, <2>2, RotateAccess DEF Rotate!SaveAround
    <3>2. /\ second = last /\ Pos(last) # 0
      BY <1>1, <1>2, <2>2 DEF RotInv, RotCall
    <3>3. /\ Pos(first) \in 0 .. (W - 1) /\ Base(first) \in Int /\ first = Base(first) + Pos(first)
          /\ Pos(last) \in 0 .. (W - 1) /\ Base(last) \in Int /\ last = Base(last) + Pos(last)
      BY <1>2, RangeFacts
    <3>4. ~Spans(second, 0) /\ ~Spans(first, 0) /\ ~(Pos(first) = 0 /\ 0 = W)
      BY <1>2, <3>2, <3>3 DEF Spans
    <3>5. used' = {Base(last), Base(first)} /\ shifts' = {Pos(last), Pos(first)}
      BY <3>1, <3>2, <3>4 DEF GetWordLoads, WriteWordWords, GetWordShifts, WriteWordShifts
    <3>6. Holds(Base(last), first, last) /\ Holds(Base(first), first, last)
      BY <1>1, <1>2, <3>2, <3>3, HoldsIs
    <3>7. ShiftDefined(Pos(first)) /\ ShiftDefined(Pos(last)) /\ Pos(first) \in Int /\ Pos(last) \in Int
      BY <3>3, ShiftIs
    <3> HIDE DEF l
    <3> QED BY <1>1, <3>1, <3>3, <3>5, <3>6, <3>7 DEF RotSafe
  <2> QED BY <2>1, <2>2
<1>7. WriteWord(m, GetWord(mem, second, l), first, l) = Turned(mem, first, last - first, second - first)
  <2> HIDE DEF l
  <2> QED BY <1>2, <1>4, KeepRightIs DEF m
<1>8. mem' = Rotation
  BY <1>5, <1>6, <1>7 DEF Rotation
<1>9. ret' = first + (last - second) /\ k' \in 0 .. (last - first)
  BY <1>1 DEF RotInv
<1> QED BY <1>1, <1>6, <1>8, <1>9, RotReturns

\* What is left is rotated by k, in a loop.
LEMMA RotLoops ==
  ASSUME RotInv, RotSafe, mem' \in [Addr -> Bit], pc' = "loop", ret' = first + (last - second),
         p' \in first .. last, q' \in first .. last, n' \in 0 .. (last - first), k' \in 0 .. (last - first),
         full_swaps' \in Nat, remainder' \in Nat,
         p' + n' <= last, 0 < k', k' < n', Turned(mem', p', n', k') = Rotation
  PROVE  RotInv'
<1>1. first' = first /\ last' = last /\ second' = second
  BY DEF RotSafe
<1> QED BY <1>1, RotSafeIs DEF RotInv

LEMMA RawStep ==
  ASSUME RotInv, Rotate!Raw
  PROVE  RotInv'
<1>1. /\ pc = "start" /\ first # second /\ ~IsWithin(second, last) /\ used' = {} /\ shifts' = {}
      /\ IF k = n - k
         THEN mem' = Rotate!SwapRanges(mem, first, second, k) /\ pc' = "done" /\ ret' = second
         ELSE ret' = first + (last - second) /\ pc' = "loop" /\ mem' = mem
      /\ UNCHANGED <<orig, first, second, last, p, n, k, q, full_swaps, remainder>>
  BY RotateAccess DEF Rotate!Raw, Rotate!Return, Rotate!Call, Rotate!Round
<1>2. /\ first \in Nat /\ second \in Nat /\ last \in Nat /\ first <= second /\ second <= last
      /\ mem = orig /\ p = first /\ n = last - first /\ k = second - first /\ last <= MemBits
      /\ p \in first .. last /\ q \in first .. last
      /\ n \in 0 .. (last - first) /\ k \in 0 .. (last - first)
      /\ full_swaps \in Nat /\ remainder \in Nat
  BY <1>1, RotFacts DEF RotInv
<1>3. second # last
  BY <1>1 DEF IsWithin
<1>4. RotSafe
  BY <1>1, NothingSafe
<1>5. CASE k = n - k
  <2>1. k \in Nat /\ first + k = second /\ k + k = last - first /\ second \in Int /\ first \in Int
    BY <1>2, <1>5
  <2>2. mem' = Swapped(mem, first, first + k, k)
    BY <1>1, <1>5, <2>1, SwapRangesIs
  <2>3. Swapped(mem, first, first + k, k) = Turned(mem, first, k + k, k)
    BY <1>2, <2>1, TurnHalves
  <2>4. mem' = Rotation
    BY <1>2, <2>1, <2>2, <2>3 DEF Rotation
  <2>5. ret' = first + (last - second)
    BY <1>1, <1>2, <1>5
  <2> QED BY <1>1, <1>2, <1>4, <1>5, <2>4, <2>5, RotReturns
<1>6. CASE k # n - k
  <2>1. p + n <= last /\ 0 < k /\ k < n
    BY <1>1, <1>2, <1>3
  <2>2. Turned(mem, p, n, k) = Rotation
    BY <1>2 DEF Rotation
  <2>3. mem' \in [Addr -> Bit]
    BY <1>1, <1>6, RotFacts
  <2> QED BY <1>1, <1>2, <1>4, <1>6, <2>1, <2>2, <2>3, RotLoops
<1> QED BY <1>5, <1>6

LEMMA LoopFacts ==
  ASSUME RotInv, pc = "loop"
  PROVE  /\ ret = first + (last - second) /\ p + n <= last /\ 0 < k /\ k < n
         /\ Turned(mem, p, n, k) = Rotation
         /\ p \in first .. last /\ q \in first .. last
         /\ n \in 0 .. (last - first) /\ k \in 0 .. (last - first)
         /\ full_swaps \in Nat /\ remainder \in Nat
BY DEF RotInv

LEMMA LoopLeftStep ==
  ASSUME RotInv, Rotate!LoopLeft
  PROVE  RotInv'
<1> DEFINE m  == Rotate!ShiftLeft(mem, p, p + n, k)
           to == p + n - k
<1>1. /\ pc = "loop" /\ k < n - k /\ k <= W
      /\ Rotate!SaveAround(p, m, to, k) /\ pc' = "done" /\ ret' = ret
      /\ UNCHANGED <<orig, first, second, last, p, n, k, q, full_swaps, remainder>>
  BY DEF Rotate!LoopLeft, Rotate!Return, Rotate!Call, Rotate!Round
<1>2. /\ ret = first + (last - second) /\ p + n <= last /\ 0 < k /\ k < n
      /\ Turned(mem, p, n, k) = Rotation /\ p \in first .. last /\ k \in 0 .. (last - first)
      /\ p \in Nat /\ n \in Nat /\ k \in Nat /\ first \in Nat /\ last \in Nat /\ last <= MemBits
      /\ W \in Nat /\ Memory(mem) /\ first <= p /\ MemBits \in Nat
  BY <1>1, LoopFacts, RotFacts
<1>3. /\ k \in 1 .. W /\ to \in Nat /\ to = (p + n) - k /\ p + k <= last /\ first <= to /\ to + k <= last
      /\ p + n \in Nat /\ p + n <= MemBits /\ p + k <= p + n /\ (p + n) - p = n
  BY <1>1, <1>2
<1> HIDE DEF m, to
<1>4. RotSafe /\ mem' = WriteWord(m, GetWord(mem, p, k), to, k)
  BY <1>1, <1>2, <1>3, SaveSafe
<1>5. WriteWord(m, GetWord(mem, p, k), to, k) = Turned(mem, p, n, k)
  <2> DEFINE y == p + n
  <2>1. y \in Nat /\ y <= MemBits /\ p + k <= y /\ to = y - k /\ m = Rotate!ShiftLeft(mem, p, y, k) /\ y - p = n
    BY <1>3 DEF m
  <2> HIDE DEF y
  <2>2. WriteWord(m, GetWord(mem, p, k), to, k) = Turned(mem, p, y - p, k)
    BY <1>2, <1>3, <2>1, KeepLeftIs
  <2> QED BY <2>1, <2>2
<1>6. mem' = Rotation
  BY <1>2, <1>4, <1>5
<1> QED BY <1>1, <1>2, <1>4, <1>6, RotReturns

LEMMA LoopRightStep ==
  ASSUME RotInv, Rotate!LoopRight
  PROVE  RotInv'
<1> DEFINE l    == n - k
           m    == Rotate!ShiftRight(mem, p, p + n, l)
           from == p + n - l
<1>1. /\ pc = "loop" /\ k >= l /\ l <= W /\ k' = l
      /\ Rotate!SaveAround(from, m, p, l) /\ pc' = "done" /\ ret' = ret
      /\ UNCHANGED <<orig, first, second, last, p, n, q, full_swaps, remainder>>
  BY DEF Rotate!LoopRight, Rotate!Return, Rotate!Call
<1>2. /\ ret = first + (last - second) /\ p + n <= last /\ 0 < k /\ k < n
      /\ Turned(mem, p, n, k) = Rotation /\ n \in 0 .. (last - first)
      /\ p \in Nat /\ n \in Nat /\ k \in Nat /\ first \in Nat /\ last \in Nat /\ last <= MemBits
      /\ W \in Nat /\ Memory(mem) /\ first <= p /\ MemBits \in Nat
  BY <1>1, LoopFacts, RotFacts
<1>3. /\ l \in 1 .. W /\ l \in 0 .. W /\ from \in Nat /\ from = (p + n) - l /\ p + l <= last
      /\ first <= from /\ from + l <= last
      /\ p + n \in Nat /\ p + n <= MemBits /\ p + l <= p + n /\ (p + n) - p = n /\ from - p = k
      /\ l \in 0 .. (last - first)
  BY <1>1, <1>2
<1> HIDE DEF m, from, l
<1>4. RotSafe /\ mem' = WriteWord(m, GetWord(mem, from, l), p, l)
  BY <1>1, <1>2, <1>3, SaveSafe
<1>5. WriteWord(m, GetWord(mem, from, l), p, l) = Turned(mem, p, n, k)
  <2> DEFINE y == p + n
  <2>1. y \in Nat /\ y <= MemBits /\ p + l <= y /\ from = y - l /\ m = Rotate!ShiftRight(mem, p, y, l)
        /\ y - p = n
    BY <1>3 DEF m
  <2> HIDE DEF y
  <2>2. WriteWord(m, GetWord(mem, from, l), p, l) = Turned(mem, p, y - p, from - p)
    BY <1>2, <1>3, <2>1, KeepRightIs
  <2> QED BY <1>3, <2>1, <2>2
<1>6. mem' = Rotation
  BY <1>2, <1>4, <1>5
<1> QED BY <1>1, <1>2, <1>3, <1>4, <1>6, RotReturns

LEMMA NatProduct == \A a, b \in Nat : a * b \in Nat
OBVIOUS

\* The f whole blocks and the rest of r bits that follow one of k0 bits.
Blocks(n0, k0, f, r) == 0 < k0 /\ k0 < n0 /\ f = (n0 - k0) \div k0 /\ r = (n0 - k0) - f * k0

LEMMA BlocksIs ==
  ASSUME NEW n0 \in Nat, NEW k0 \in Nat, NEW f, NEW r, Blocks(n0, k0, f, r)
  PROVE  f \in Nat /\ r \in Nat /\ r < k0 /\ r = n0 % k0 /\ f * k0 + r = n0 - k0 /\ f * k0 \in Nat
<1> USE DEF Blocks
<1> DEFINE x == n0 - k0
<1>1. x \in Nat /\ f = x \div k0 /\ 0 < k0
  OBVIOUS
<1>2. f \in Int /\ (x % k0) \in 0 .. (k0 - 1) /\ x = f * k0 + (x % k0)
  BY <1>1
<1> DEFINE g == f * k0
<1>3. g \in Int
  BY <1>2
<1>4. x = g + (x % k0) /\ r = x - g
  BY <1>2
<1>5. r \in 0 .. (k0 - 1) /\ g + r = x
  <2> HIDE DEF g, x
  <2> QED BY <1>1, <1>2, <1>3, <1>4
<1>6. f \in Nat
  <2> SUFFICES ASSUME f <= -1 PROVE FALSE
    BY <1>2
  <2>1. g <= -k0
    BY <1>2
  <2> HIDE DEF g, x
  <2> QED BY <1>1, <1>3, <1>5, <2>1
<1>7. g \in Nat
  BY <1>6
<1>8. r = n0 % k0
  <2>1. (f + 1) * k0 = g + k0
    BY <1>2
  <2>2. n0 = (f + 1) * k0 + r
    <3> HIDE DEF g
    <3> QED BY <1>3, <1>5, <2>1
  <2>3. f + 1 \in Int
    BY <1>2
  <2>4. ((f + 1) * k0 + r) % k0 = r
    BY <1>5, <2>3, RemainderIs
  <2> QED BY <2>2, <2>4
<1> QED BY <1>5, <1>6, <1>7, <1>8

LEMMA LoopUpStep ==
  ASSUME RotInv, Rotate!LoopUp
  PROVE  RotInv'
<1>1. /\ pc = "loop" /\ k < n - k /\ q' = p + k
      /\ full_swaps' = (n - k) \div k /\ remainder' = (n - k) - full_swaps' * k
      /\ pc' = "up" /\ used' = {} /\ shifts' = {} /\ mem' = mem
      /\ UNCHANGED <<orig, first, second, last, p, n, k, ret>>
  BY DEF Rotate!LoopUp, Rotate!NoAccess, Rotate!Call
<1>2. /\ ret = first + (last - second) /\ p + n <= last /\ 0 < k /\ k < n
      /\ Turned(mem, p, n, k) = Rotation /\ p \in first .. last
      /\ n \in 0 .. (last - first) /\ k \in 0 .. (last - first)
      /\ p \in Nat /\ n \in Nat /\ k \in Nat /\ first \in Nat /\ last \in Nat /\ first <= p
  BY <1>1, LoopFacts, RotFacts
<1> DEFINE f == full_swaps'
           r == remainder'
           g == f * k
<1>3. f \in Nat /\ r \in Nat /\ r < k /\ r = n % k /\ g + r = n - k /\ g \in Nat
  <2>1. Blocks(n, k, f, r)
    BY <1>1, <1>2 DEF Blocks
  <2> HIDE DEF f, r
  <2> QED BY <1>2, <2>1, BlocksIs
<1> HIDE DEF f, r, g
<1>4. /\ q' \in first .. last /\ (p + k) + g + r <= last /\ k + (g + r) = n
  BY <1>1, <1>2, <1>3
<1>5. RotSafe
  BY <1>1, NothingSafe
<1>6. mem' \in [Addr -> Bit]
  BY <1>1, RotFacts
<1>7. f * k = g
  BY DEF g
<1>8. Turned(mem', p', k' + (f * k + r), k') = Rotation /\ q' + f * k + r <= last'
  BY <1>1, <1>2, <1>4, <1>7
<1> QED BY <1>1, <1>2, <1>3, <1>4, <1>5, <1>6, <1>8, RotSafeIs DEF RotInv, f, r

LEMMA LoopDownStep ==
  ASSUME RotInv, Rotate!LoopDown
  PROVE  RotInv'
<1>1. /\ pc = "loop" /\ k >= n - k /\ k' = n - k /\ q' = p + n /\ p' = q' - k'
      /\ full_swaps' = (n - k') \div k' /\ remainder' = (n - k') - full_swaps' * k'
      /\ pc' = "down" /\ used' = {} /\ shifts' = {} /\ mem' = mem
      /\ UNCHANGED <<orig, first, second, last, n, ret>>
  BY DEF Rotate!LoopDown, Rotate!NoAccess, Rotate!Call
<1>2. /\ ret = first + (last - second) /\ p + n <= last /\ 0 < k /\ k < n
      /\ Turned(mem, p, n, k) = Rotation /\ n \in 0 .. (last - first)
      /\ p \in Nat /\ n \in Nat /\ k \in Nat /\ first \in Nat /\ last \in Nat /\ first <= p
  BY <1>1, LoopFacts, RotFacts
<1> DEFINE f == full_swaps'
           r == remainder'
           l == k'
           g == f * l
<1>3. l \in Nat /\ 0 < l /\ l < n /\ l = n - k
  BY <1>1, <1>2
<1>4. f \in Nat /\ r \in Nat /\ r < l /\ r = n % l /\ g + r = n - l /\ g \in Nat
  <2>1. Blocks(n, l, f, r)
    BY <1>1, <1>3 DEF Blocks
  <2> HIDE DEF f, r, l
  <2> QED BY <1>2, <1>3, <2>1, BlocksIs
<1> HIDE DEF f, r, g, l
<1>5. f * l = g /\ l = k'
  BY DEF g, l
<1>6. /\ p' \in first .. last /\ q' \in first .. last /\ q' = p' + l /\ first + g + r <= p'
      /\ p' - (g + r) = p /\ l + (g + r) = n /\ g + r = k /\ l \in 0 .. (last - first)
  BY <1>1, <1>2, <1>3, <1>4, <1>5
<1>7. RotSafe
  BY <1>1, NothingSafe
<1>8. mem' \in [Addr -> Bit]
  BY <1>1, RotFacts
<1>9. /\ Turned(mem', p' - (f * l + r), l + (f * l + r), f * l + r) = Rotation
      /\ first + f * l + r <= p'
  BY <1>1, <1>2, <1>5, <1>6
<1>10. first' = first /\ last' = last /\ second' = second
  BY <1>1
<1> QED BY <1>1, <1>2, <1>3, <1>4, <1>5, <1>6, <1>7, <1>8, <1>9, <1>10, RotSafeIs DEF RotInv, f, r, l

\* In a round: what is left of it is g whole blocks' bits and a rest.
LEMMA UpFacts ==
  ASSUME RotInv, pc = "up"
  PROVE  /\ ret = first + (last - second) /\ q = p + k /\ q + full_swaps * k + remainder <= last
         /\ 0 < k /\ remainder < k /\ remainder = n % k
         /\ Turned(mem, p, k + (full_swaps * k + remainder), k) = Rotation
         /\ p \in Nat /\ n \in Nat /\ k \in Nat /\ first \in Nat /\ last \in Nat /\ first <= p
         /\ full_swaps \in Nat /\ remainder \in Nat /\ full_swaps * k \in Nat
         /\ n \in 0 .. (last - first) /\ k \in 0 .. (last - first)
         /\ last <= MemBits /\ MemBits \in Nat /\ mem \in [Addr -> Bit] /\ Memory(mem)
         /\ RotCall
<1>1. full_swaps \in Nat /\ k \in Nat
  BY RotFacts
<1>2. full_swaps * k \in Nat
  BY <1>1
<1> QED BY <1>2, RotFacts DEF RotInv

LEMMA SwapUpStep ==
  ASSUME RotInv, Rotate!SwapUp
  PROVE  RotInv'
<1> DEFINE g == full_swaps * k
           h == full_swaps' * k
           r == remainder
           len == k + (g + r)
<1>1. /\ pc = "up" /\ full_swaps > 0 /\ mem' = Rotate!SwapRanges(mem, p, q, k)
      /\ p' = p + k /\ q' = q + k /\ full_swaps' = full_swaps - 1
      /\ used' = {} /\ shifts' = {}
      /\ UNCHANGED <<orig, first, second, last, n, k, remainder, ret, pc>>
  BY DEF Rotate!SwapUp, Rotate!Call
<1>2. /\ ret = first + (last - second) /\ q = p + k /\ q + g + r <= last
      /\ 0 < k /\ r < k /\ r = n % k /\ Turned(mem, p, len, k) = Rotation
      /\ p \in Nat /\ n \in Nat /\ k \in Nat /\ first \in Nat /\ last \in Nat /\ first <= p
      /\ full_swaps \in Nat /\ r \in Nat /\ g \in Nat
      /\ n \in 0 .. (last - first) /\ k \in 0 .. (last - first)
      /\ last <= MemBits /\ MemBits \in Nat /\ mem \in [Addr -> Bit] /\ RotCall
  BY <1>1, UpFacts
<1>3. full_swaps' \in Nat /\ h = g - k
  <2>1. full_swaps \in Int /\ k \in Int /\ full_swaps' = full_swaps - 1
    BY <1>1, <1>2
  <2> QED BY <1>1, <2>1
<1>4. h \in Nat
  BY <1>2, <1>3, NatProduct
<1> HIDE DEF g, h, r
<1>5. /\ len \in Nat /\ 2 * k <= len /\ p + len <= MemBits /\ len - k = k + (h + r)
      /\ p + len <= last
  BY <1>2, <1>3, <1>4
<1> HIDE DEF len
<1>6. mem' = Swapped(mem, p, p + k, k)
  BY <1>1, <1>2, SwapRangesIs
<1>7. Turned(mem', p + k, len - k, k) = Rotation
  <2>1. Turned(Swapped(mem, p, p + k, k), p + k, len - k, k) = Turned(mem, p, len, k)
    <3>1. TwoBlocks(p, p + k, k, len - k, len)
      BY <1>2, <1>5 DEF TwoBlocks
    <3> QED BY <1>2, <1>5, <3>1, TurnUp
  <2> QED BY <1>2, <1>6, <2>1
<1>8. mem' \in [Addr -> Bit]
  <2>1. Apart(p, p + k, k) /\ p \in Int /\ p + k \in Int
    BY <1>2, <1>5 DEF Apart
  <2> QED BY <1>2, <1>6, <2>1, SwappedType
<1>9. RotSafe
  BY <1>1, NothingSafe
<1>10. /\ p' \in first .. last /\ q' \in first .. last /\ q' = p' + k /\ q' + h + r <= last
  BY <1>1, <1>2, <1>3, <1>4, <1>5
<1>11. h = full_swaps' * k /\ r = remainder
  BY DEF h, r
<1>12. q' + full_swaps' * k + remainder <= last
       /\ Turned(mem', p', k + (full_swaps' * k + remainder), k) = Rotation
  BY <1>1, <1>5, <1>7, <1>10, <1>11
<1>13. first' = first /\ last' = last /\ second' = second /\ k' = k /\ remainder' = remainder /\ n' = n
       /\ pc' = "up" /\ ret' = ret
  BY <1>1
<1> QED BY <1>2, <1>3, <1>8, <1>9, <1>10, <1>11, <1>12, <1>13, RotSafeIs DEF RotInv

\* The round ends: nothing is left, or less than before.
LEMMA RoundEnds ==
  ASSUME RotInv, RotSafe, mem' \in [Addr -> Bit], ret = first + (last - second), ret' = ret,
         p' \in first .. last, q' \in first .. last, 0 < k, k \in 0 .. (last - first), p' + k <= last,
         full_swaps' \in Nat, remainder' \in Nat, NEW r \in 0 .. k, Turned(mem', p', k, r) = Rotation,
         IF r \in {0, k} THEN pc' = "done" /\ n' = 0 /\ k' = k
                         ELSE pc' = "loop" /\ n' = k /\ k' = r
  PROVE  RotInv'
<1>1. first' = first /\ last' = last /\ second' = second
  BY DEF RotSafe
<1>2. first \in Nat /\ last \in Nat /\ k \in Nat /\ p' \in Int /\ first <= last
  BY RotFacts
<1>3. CASE r \in {0, k}
  <2>1. Memory(mem')
    BY MemoryOf
  <2>2. Turned(mem', p', k, r) = mem'
    BY <1>2, <1>3, <2>1, TurnedNone
  <2>3. mem' = Rotation /\ n' \in 0 .. (last - first) /\ k' \in 0 .. (last - first)
    BY <1>2, <1>3, <2>2
  <2> QED BY <1>1, <1>3, <2>3, RotSafeIs DEF RotInv
<1>4. CASE ~(r \in {0, k})
  <2>1. 0 < k' /\ k' < n' /\ n' \in 0 .. (last - first) /\ k' \in 0 .. (last - first)
    BY <1>2, <1>4
  <2>2. Turned(mem', p', n', k') = Rotation /\ p' + n' <= last /\ pc' = "loop"
    BY <1>4
  <2> QED BY <2>1, <2>2, RotLoops
<1> QED BY <1>3, <1>4

LEMMA RestUpStep ==
  ASSUME RotInv, Rotate!RestUp
  PROVE  RotInv'
<1> DEFINE r == remainder
<1>1. /\ pc = "up" /\ full_swaps = 0 /\ mem' = Rotate!SwapRanges(mem, p, q, r)
      /\ p' = p + r /\ q' = q + r
      /\ IF n % k = 0 THEN pc' = "done" /\ n' = 0 /\ k' = k
                      ELSE pc' = "loop" /\ n' = k /\ k' = k - (n % k)
      /\ used' = {} /\ shifts' = {}
      /\ UNCHANGED <<orig, first, second, last, full_swaps, remainder, ret>>
  BY DEF Rotate!RestUp, Rotate!Call
<1>2. /\ ret = first + (last - second) /\ q = p + k /\ q + full_swaps * k + r <= last
      /\ 0 < k /\ r < k /\ r = n % k
      /\ Turned(mem, p, k + (full_swaps * k + r), k) = Rotation
      /\ p \in Nat /\ k \in Nat /\ first \in Nat /\ last \in Nat /\ first <= p
      /\ full_swaps \in Nat /\ r \in Nat /\ k \in 0 .. (last - first)
      /\ last <= MemBits /\ MemBits \in Nat /\ mem \in [Addr -> Bit]
  BY <1>1, UpFacts
<1>3. full_swaps * k = 0
  BY <1>1, <1>2
<1>4. (p + k) + r <= last /\ k + (full_swaps * k + r) = k + r
  BY <1>2, <1>3
<1> HIDE DEF r
<1>5. mem' = Swapped(mem, p, p + k, r)
  BY <1>1, <1>2, SwapRangesIs
<1>6. (p + k) + r <= MemBits
  BY <1>2, <1>4
<1>7. Turned(mem', p + r, k, k - r) = Rotation
  <2>1. Turned(Swapped(mem, p, p + k, r), p + r, k, k - r) = Turned(mem, p, k + r, k)
    <3>1. BlockAndRest(p, p + k, k, r, k + r)
      BY <1>2, <1>6 DEF BlockAndRest
    <3> QED BY <1>2, <3>1, TurnRestUp
  <2> QED BY <1>2, <1>4, <1>5, <2>1
<1>8. mem' \in [Addr -> Bit]
  <2>1. Apart(p, p + k, r) /\ p \in Int /\ p + k \in Int
    BY <1>2, <1>6 DEF Apart
  <2> QED BY <1>2, <1>5, <2>1, SwappedType
<1>9. RotSafe
  BY <1>1, NothingSafe
<1>10. /\ p' \in first .. last /\ q' \in first .. last /\ p' + k <= last
       /\ k - r \in 0 .. k /\ (k - r \in {0, k} <=> r = 0)
  BY <1>1, <1>2, <1>4
<1>11. full_swaps' \in Nat /\ remainder' \in Nat /\ ret' = ret
  BY <1>1, <1>2 DEF r
<1>12. IF k - r \in {0, k} THEN pc' = "done" /\ n' = 0 /\ k' = k
                           ELSE pc' = "loop" /\ n' = k /\ k' = k - r
  BY <1>1, <1>2, <1>10
<1>13. Turned(mem', p', k, k - r) = Rotation
  BY <1>1, <1>7
<1> QED BY <1>2, <1>8, <1>9, <1>10, <1>11, <1>12, <1>13, RoundEnds

LEMMA DownFacts ==
  ASSUME RotInv, pc = "down"
  PROVE  /\ ret = first + (last - second) /\ q = p + k /\ first + full_swaps * k + remainder <= p
         /\ 0 < k /\ remainder < k /\ remainder = n % k
         /\ Turned(mem, p - (full_swaps * k + remainder), k + (full_swaps * k + remainder),
                   full_swaps * k + remainder) = Rotation
         /\ p \in Nat /\ n \in Nat /\ k \in Nat /\ first \in Nat /\ last \in Nat /\ first <= p
         /\ q \in Nat /\ q <= last
         /\ full_swaps \in Nat /\ remainder \in Nat /\ full_swaps * k \in Nat
         /\ n \in 0 .. (last - first) /\ k \in 0 .. (last - first)
         /\ last <= MemBits /\ MemBits \in Nat /\ mem \in [Addr -> Bit]
<1>1. full_swaps \in Nat /\ k \in Nat
  BY RotFacts
<1>2. full_swaps * k \in Nat
  BY <1>1
<1>3. q \in Nat /\ q <= last
  BY RotFacts DEF RotInv
<1> QED BY <1>2, <1>3, RotFacts DEF RotInv

LEMMA SwapDownStep ==
  ASSUME RotInv, Rotate!SwapDown
  PROVE  RotInv'
<1> DEFINE g == full_swaps * k
           h == full_swaps' * k
           r == remainder
           len == k + (g + r)
           x == p - (g + r)
<1>1. /\ pc = "down" /\ full_swaps > 0 /\ p' = p - k /\ q' = q - k
      /\ mem' = Rotate!SwapRanges(mem, p', q', k) /\ full_swaps' = full_swaps - 1
      /\ used' = {} /\ shifts' = {}
      /\ UNCHANGED <<orig, first, second, last, n, k, remainder, ret, pc>>
  BY DEF Rotate!SwapDown, Rotate!Call
<1>2. /\ ret = first + (last - second) /\ q = p + k /\ first + g + r <= p
      /\ 0 < k /\ r < k /\ r = n % k /\ Turned(mem, x, len, g + r) = Rotation
      /\ p \in Nat /\ n \in Nat /\ k \in Nat /\ first \in Nat /\ last \in Nat /\ first <= p
      /\ q \in Nat /\ q <= last
      /\ full_swaps \in Nat /\ r \in Nat /\ g \in Nat
      /\ n \in 0 .. (last - first) /\ k \in 0 .. (last - first)
      /\ last <= MemBits /\ MemBits \in Nat /\ mem \in [Addr -> Bit]
  BY <1>1, DownFacts
<1>3. full_swaps' \in Nat /\ h = g - k
  <2>1. full_swaps \in Int /\ k \in Int /\ full_swaps' = full_swaps - 1
    BY <1>1, <1>2
  <2> QED BY <1>1, <2>1
<1>4. h \in Nat
  BY <1>2, <1>3, NatProduct
<1> HIDE DEF g, h, r
<1>5. /\ len \in Nat /\ 2 * k <= len /\ x \in Nat /\ x + len <= MemBits /\ len - k = g + r
      /\ len - k = k + (h + r) /\ len - 2 * k = h + r /\ p - k = x + (len - 2 * k) /\ p = x + (len - k)
      /\ p - k \in Nat /\ first <= p - k /\ q - k = p /\ (p - k) - (h + r) = x /\ first + h + r <= p - k
  BY <1>2, <1>3, <1>4
<1> HIDE DEF len, x
<1>6. mem' = Swapped(mem, p - k, p, k)
  <2>1. mem' = Rotate!SwapRanges(mem, p - k, p, k)
    BY <1>1, <1>5
  <2> QED BY <1>2, <1>5, <2>1, SwapRangesIs
<1>7. Turned(mem', x, len - k, len - 2 * k) = Rotation
  <2>1. Turned(Swapped(mem, p - k, p, k), x, len - k, len - 2 * k) = Turned(mem, x, len, len - k)
    <3>1. TwoBlocks(x, x + k, k, len - k, len)
      BY <1>2, <1>5 DEF TwoBlocks
    <3>2. p - k = x + ((len - k) - k) /\ p = x + (len - k) /\ len - 2 * k = (len - k) - k
      BY <1>2, <1>5
    <3> QED BY <1>2, <1>5, <3>1, <3>2, TurnDown
  <2> QED BY <1>2, <1>5, <1>6, <2>1
<1>8. mem' \in [Addr -> Bit]
  <2>1. Apart(p - k, p, k) /\ p \in Int /\ p - k \in Int
    BY <1>2, <1>5 DEF Apart
  <2> QED BY <1>2, <1>6, <2>1, SwappedType
<1>9. RotSafe
  BY <1>1, NothingSafe
<1>10. p' \in first .. last /\ q' \in first .. last /\ q' = p' + k
  BY <1>1, <1>2, <1>5
<1>11. h = full_swaps' * k /\ r = remainder
  BY DEF h, r
<1>12. /\ first + full_swaps' * k + remainder <= p'
       /\ Turned(mem', p' - (full_swaps' * k + remainder), k + (full_swaps' * k + remainder),
                 full_swaps' * k + remainder) = Rotation
  BY <1>1, <1>5, <1>7, <1>11
<1>13. first' = first /\ last' = last /\ second' = second /\ k' = k /\ remainder' = remainder /\ n' = n
       /\ pc' = "down" /\ ret' = ret
  BY <1>1
<1> QED BY <1>2, <1>3, <1>8, <1>9, <1>10, <1>11, <1>12, <1>13, RotSafeIs DEF RotInv

LEMMA RestDownStep ==
  ASSUME RotInv, Rotate!RestDown
  PROVE  RotInv'
<1> DEFINE r == remainder
           x == p - r
<1>1. /\ pc = "down" /\ full_swaps = 0 /\ p' = p - r /\ q' = q - r
      /\ mem' = Rotate!SwapRanges(mem, p', q', r)
      /\ IF n % k = 0 THEN pc' = "done" /\ n' = 0 /\ k' = k
                      ELSE pc' = "loop" /\ n' = k /\ k' = n % k
      /\ used' = {} /\ shifts' = {}
      /\ UNCHANGED <<orig, first, second, last, full_swaps, remainder, ret>>
  BY DEF Rotate!RestDown, Rotate!Call
<1>2. /\ ret = first + (last - second) /\ q = p + k /\ first + full_swaps * k + r <= p
      /\ 0 < k /\ r < k /\ r = n % k
      /\ Turned(mem, p - (full_swaps * k + r), k + (full_swaps * k + r), full_swaps * k + r) = Rotation
      /\ p \in Nat /\ k \in Nat /\ first \in Nat /\ last \in Nat
      /\ q \in Nat /\ q <= last /\ full_swaps \in Nat /\ r \in Nat /\ k \in 0 .. (last - first)
      /\ last <= MemBits /\ MemBits \in Nat /\ mem \in [Addr -> Bit]
  BY <1>1, DownFacts
<1>3. full_swaps * k = 0
  BY <1>1, <1>2
<1>4. full_swaps * k + r = r
  BY <1>2, <1>3
<1>5. Turned(mem, x, k + r, r) = Rotation
  BY <1>2, <1>4
<1> HIDE DEF r
<1>6. /\ x \in Nat /\ first <= x /\ q - r = x + k /\ (x + k) + r <= MemBits /\ x + k <= last
      /\ r <= k /\ x + k \in Int /\ x \in Int /\ p' = x /\ q' = x + k /\ q' \in first .. last
      /\ p' \in first .. last
  BY <1>1, <1>2, <1>3
<1> HIDE DEF x
<1>7. mem' = Swapped(mem, x, x + k, r)
  <2>1. mem' = Rotate!SwapRanges(mem, x, x + k, r)
    BY <1>1, <1>6
  <2> QED BY <1>2, <1>6, <2>1, SwapRangesIs
<1>8. Turned(mem', x, k, r) = Rotation
  <2>1. Turned(Swapped(mem, x, x + k, r), x, k, r) = Turned(mem, x, k + r, r)
    <3>1. BlockAndRest(x, x + k, k, r, k + r)
      BY <1>2, <1>6 DEF BlockAndRest
    <3> QED BY <1>2, <1>6, <3>1, TurnRestDown
  <2> QED BY <1>5, <1>7, <2>1
<1>9. mem' \in [Addr -> Bit]
  <2>1. Apart(x, x + k, r)
    BY <1>2, <1>6 DEF Apart
  <2> QED BY <1>2, <1>6, <1>7, <2>1, SwappedType
<1>10. RotSafe
  BY <1>1, NothingSafe
<1>11. r \in 0 .. k /\ (r \in {0, k} <=> r = 0)
  BY <1>2
<1>12. full_swaps' \in Nat /\ remainder' \in Nat /\ ret' = ret
  BY <1>1, <1>2 DEF r
<1>13. IF r \in {0, k} THEN pc' = "done" /\ n' = 0 /\ k' = k
                       ELSE pc' = "loop" /\ n' = k /\ k' = r
  BY <1>1, <1>2, <1>11
<1>14. Turned(mem', p', k, r) = Rotation /\ p' + k <= last
  BY <1>6, <1>8
<1> QED BY <1>2, <1>6, <1>9, <1>10, <1>11, <1>12, <1>13, <1>14, RoundEnds

LEMMA RotInit ==
  ASSUME Rotate!Init, second = last /\ Pos(last) = 0 => first = last
  PROVE  RotInv
<1>1. /\ orig \in [Addr -> Bit] /\ mem = orig
      /\ first \in 0 .. (MemBits - W) /\ last \in first .. (MemBits - W) /\ second \in first .. last
      /\ p = first /\ n = last - first /\ k = second - first
      /\ q = first /\ full_swaps = 0 /\ remainder = 0 /\ ret = first
      /\ pc = "start" /\ used = {} /\ shifts = {}
  BY RotateWords DEF Rotate!Init
<1>2. RotCall
  BY <1>1, Widths DEF RotCall
<1>3. Rotate!AccessInRange /\ Rotate!ShiftsDefined
  BY <1>1 DEF Rotate!AccessInRange, Rotate!ShiftsDefined
<1> QED BY <1>1, <1>2, <1>3, Widths DEF RotInv

LEMMA RotNext == RotInv /\ (Rotate!Next \/ UNCHANGED Rotate!vars) => RotInv'
<1> SUFFICES ASSUME RotInv, Rotate!Next \/ UNCHANGED Rotate!vars PROVE RotInv'
  OBVIOUS
<1>1. CASE UNCHANGED Rotate!vars
  BY <1>1 DEF Rotate!vars, RotInv, RotCall, Rotation, Rotate!AccessInRange, Rotate!ShiftsDefined
<1> QED BY <1>1, NothingStep, RotateWordStep, RotateInWordStep, KeepLeftStep, KeepRightStep, RawStep,
           LoopLeftStep, LoopUpStep, SwapUpStep, RestUpStep, LoopRightStep, LoopDownStep,
           SwapDownStep, RestDownStep DEF Rotate!Next, Rotate!Finished

----------------------------------------------------------------------------
(* The three of them                                                       *)

IInv ==
  /\ algorithm \in {"swap_ranges", "reverse", "rotate"}
  /\ algorithm = "swap_ranges" => SwapInv
  /\ algorithm = "reverse"     => RevInv
  /\ algorithm = "rotate"      => RotInv

LEMMA InitIInv == Init => IInv
BY SwapInit, RevInit, RotInit DEF Init, AnyInit, IInv

LEMMA NextIInv == IInv /\ [Next]_vars => IInv'
<1> SUFFICES ASSUME IInv, [Next]_vars
             PROVE  IInv'
  OBVIOUS
<1>1. CASE algorithm = "swap_ranges" /\ algorithm' = algorithm /\ Swap!Next
  BY <1>1, SwapNext DEF IInv
<1>2. CASE algorithm = "reverse" /\ algorithm' = algorithm /\ Reverse!Next
  BY <1>2, RevNext DEF IInv
<1>3. CASE algorithm = "rotate" /\ algorithm' = algorithm /\ Rotate!Next
  BY <1>3, RotNext DEF IInv
<1>4. CASE UNCHANGED vars
  <2>1. UNCHANGED Swap!vars /\ UNCHANGED Reverse!vars /\ UNCHANGED Rotate!vars
        /\ algorithm' = algorithm
    BY <1>4 DEF vars, Swap!vars, Reverse!vars, Rotate!vars
  <2> QED BY <2>1, SwapNext, RevNext, RotNext DEF IInv
<1> QED BY <1>1, <1>2, <1>3, <1>4 DEF Next

LEMMA IInvImplies == IInv => TypeOK /\ ExchangeCorrect /\ NothingLost /\ InstructionsSafe
BY SwapImplies, RevImplies, RotImplies
   DEF IInv, TypeOK, ExchangeCorrect, ReturnsMiddle, NothingLost, InstructionsSafe

\* The invariant the others follow from holds of every run of swap_ranges, reverse
\* and rotate.
THEOREM Inductive == Spec => []IInv
BY InitIInv, NextIInv, PTL DEF Spec

\* The variables keep their types, and the iterators of swap_ranges and rotate stay
\* within their ranges (swap_ranges.hpp, reverse.hpp, rotate.hpp).
THEOREM TypeCorrect == Spec => []TypeOK
BY Inductive, IInvImplies, PTL

\* When it returns, swap_ranges has exchanged its two ranges, reverse has reversed
\* its range and rotate has brought the middle to the front: every bit is in its
\* place, every other bit is as before, and the iterator is the standard's.
THEOREM Correct == Spec => []ExchangeCorrect
BY Inductive, IInvImplies, PTL

\* Between two steps no bit is lost: swap_ranges has only exchanged whole pairs,
\* reverse has shifted its range back into place, and each round of
\* _rotate_via_raw leaves a smaller range whose rotation gives the result.
THEOREM NoBitLost == Spec => []NothingLost
BY Inductive, IInvImplies, PTL

\* The three dereference only words that hold a bit of their ranges, shift only by
\* counts C++ defines, and rotate calls swap_ranges on blocks that lie apart.
THEOREM Safe == Spec => []InstructionsSafe
BY Inductive, IInvImplies, PTL
=============================================================================
