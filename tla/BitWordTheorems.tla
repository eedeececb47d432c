-------------------------- MODULE BitWordTheorems --------------------------
(* What the instructions and accessors of BitWord compute, bit by bit and   *)
(* for every word width, and the arithmetic of word boundaries; and general *)
(* facts about numbers: induction, powers of two and division.              *)
EXTENDS BitWord, FiniteSetTheorems, TLAPS

\* The width of a word and the addresses are integers.
LEMMA Widths == /\ W \in Nat /\ W > 0 /\ NumWords \in Nat
                /\ MemBits \in Nat /\ Addr = 0 .. (MemBits - 1) /\ Addr \subseteq Int
  <1>1. W \in Nat /\ W > 0 /\ NumWords \in Nat
    BY WAssumption, NumWordsAssumption
  <1>2. NumWords * W \in Nat
    BY <1>1
  <1> QED BY <1>1, <1>2 DEF MemBits, Addr

\* The position of an address is one of its word's, and its base is at most a
\* word below it.
LEMMA PosRange ==
  ASSUME NEW a \in Int
  PROVE  Pos(a) \in BitPos /\ Base(a) \in Int /\ Base(a) <= a /\ a < Base(a) + W
  BY WAssumption DEF Pos, BitPos, Base

\* Bit i of lsr(w, k) is bit i + k of w, or the zero shifted in.
LEMMA LsrBit ==
  ASSUME NEW w, NEW k, NEW i \in BitPos
  PROVE  Lsr(w, k)[i] = IF i + k < W THEN w[i + k] ELSE Zero
  BY DEF Lsr

\* Bit i of lsl(w, k) is bit i - k of w, or the zero shifted in.
LEMMA LslBit ==
  ASSUME NEW w, NEW k, NEW i \in BitPos
  PROVE  Lsl(w, k)[i] = IF k <= i THEN w[i - k] ELSE Zero
  BY DEF Lsl

\* _bitblend takes the len bits from start on from its second word, the others
\* from the first.
LEMMA BlendBit ==
  ASSUME NEW v, NEW w, NEW start, NEW len, NEW i \in BitPos
  PROVE  BitBlend(v, w, start, len)[i] = IF start <= i /\ i < start + len THEN w[i] ELSE v[i]
  BY DEF BitBlend

\* Bit i of the word at b is the bit at address b + i.
LEMMA LoadBit ==
  ASSUME NEW m, NEW b, NEW i \in BitPos
  PROVE  Load(m, b)[i] = m[b + i]
  BY DEF Load

\* get_word returns the len bits of the memory from first on, in order, in the
\* low end of the word, whether they lie in one word or two.
LEMMA GetWordBit ==
  ASSUME NEW m, NEW first \in Nat, NEW len \in 0 .. W, NEW i \in 0 .. (len - 1)
  PROVE  GetWord(m, first, len)[i] = m[first + i]
  <1> DEFINE p    == Pos(first)
             low  == Lsr(Load(m, Base(first)), p)
             high == Lsl(Load(m, Base(first) + W), W - p)
  <1>1. /\ i \in BitPos /\ i \in Int
        /\ p \in BitPos /\ p \in Int /\ W \in Int
        /\ Base(first) \in Int /\ Base(first) + p = first
    BY PosRange, WAssumption DEF BitPos, Base
  <1>2. i + p < W => low[i] = m[first + i]
    <2> HAVE i + p < W
    <2>1. i + p \in BitPos
      BY <1>1 DEF BitPos
    <2>2. low[i] = Load(m, Base(first))[i + p]
      BY <1>1, LsrBit
    <2>3. Load(m, Base(first))[i + p] = m[Base(first) + (i + p)]
      BY <2>1, LoadBit
    <2>4. Base(first) + (i + p) = first + i
      BY <1>1
    <2> QED BY <2>2, <2>3, <2>4
  <1>3. i + p >= W => high[i] = m[first + i]
    <2> HAVE i + p >= W
    <2>1. i - (W - p) \in BitPos /\ W - p <= i
      BY <1>1 DEF BitPos
    <2>2. high[i] = Load(m, Base(first) + W)[i - (W - p)]
      BY <1>1, <2>1, LslBit
    <2>3. Load(m, Base(first) + W)[i - (W - p)] = m[Base(first) + W + (i - (W - p))]
      BY <2>1, LoadBit
    <2>4. Base(first) + W + (i - (W - p)) = first + i
      BY <1>1
    <2> QED BY <2>2, <2>3, <2>4
  <1>4. CASE Spans(first, len)
    <2>1. GetWord(m, first, len) = BitBlend(low, high, W - p, len - (W - p))
      BY <1>4 DEF GetWord
    <2>2. GetWord(m, first, len)[i] = IF W - p <= i /\ i < (W - p) + (len - (W - p)) THEN high[i] ELSE low[i]
      BY <2>1, <1>1, BlendBit
    <2> QED BY <1>1, <1>2, <1>3, <2>2
  <1>5. CASE ~Spans(first, len)
    <2>1. GetWord(m, first, len) = low
      BY <1>5 DEF GetWord
    <2> QED BY <1>1, <1>2, <1>5, <2>1 DEF Spans
  <1> QED BY <1>4, <1>5

\* The word of an address inside a memory of n whole words is inside it too.
LEMMA AlignedEnd ==
  ASSUME NEW n \in Nat, NEW a \in Int, a < n * W
  PROVE  Base(a) + W <= n * W
  <1> DEFINE q == a \div W
  <1>1. q \in Int /\ Base(a) = q * W
    BY WAssumption DEF Base, Pos
  <1>2. q < n
    BY WAssumption, <1>1
  <1> QED BY <1>1, <1>2, WAssumption

\* The position of a word boundary plus r is r.
LEMMA PosUnique ==
  ASSUME NEW q \in Int, NEW r \in BitPos
  PROVE  Pos(q * W + r) = r
  <1> DEFINE a == q * W + r
             k == a \div W
             s == a % W
  <1>1. W \in Int /\ W > 0 /\ r \in Int /\ 0 <= r /\ r < W
    BY WAssumption DEF BitPos
  <1>2. a \in Int /\ k \in Int /\ s \in Int /\ 0 <= s /\ s < W /\ a = k * W + s
    BY <1>1
  <1>3. (q - k) * W = s - r
    BY <1>1, <1>2
  <1> HIDE DEF a, k, s
  <1>4. CASE q - k >= 1
    <2>1. (q - k) * W >= W
      BY <1>1, <1>2, <1>4
    <2> QED BY <1>1, <1>2, <1>3, <2>1
  <1>5. CASE q - k <= -1
    <2>1. (q - k) * W <= -W
      BY <1>1, <1>2, <1>5
    <2> QED BY <1>1, <1>2, <1>3, <2>1
  <1>6. CASE q = k
    <2>1. s = r
      BY <1>1, <1>2, <1>3, <1>6
    <2> QED BY <2>1 DEF Pos, s, a
  <1> QED BY <1>2, <1>4, <1>5, <1>6

\* A word boundary has position 0.
LEMMA BaseAligned ==
  ASSUME NEW a \in Int
  PROVE  Pos(Base(a)) = 0
  <1> DEFINE q == a \div W
  <1>1. q \in Int /\ W \in Int /\ Base(a) = q * W /\ 0 \in BitPos
    BY WAssumption DEF Base, Pos, BitPos
  <1> HIDE DEF q
  <1>2. Pos(q * W + 0) = 0
    BY <1>1, PosUnique
  <1>3. q * W + 0 = Base(a)
    BY <1>1
  <1> QED BY <1>2, <1>3

\* Moving on by a word keeps the position in the word.
LEMMA AlignedStep ==
  ASSUME NEW a \in Int
  PROVE  Pos(a + W) = Pos(a)
  <1> DEFINE q == a \div W
  <1>1. q \in Int /\ Pos(a) \in BitPos /\ W \in Int /\ Pos(a) \in Int /\ a = q * W + Pos(a)
    BY WAssumption DEF Pos, BitPos
  <1> DEFINE r == Pos(a)
  <1>2. q \in Int /\ q + 1 \in Int /\ r \in BitPos /\ r \in Int /\ W \in Int /\ a = q * W + r
    BY <1>1
  <1> HIDE DEF q, r
  <1>3. a + W = (q + 1) * W + r
    BY <1>2
  <1>4. Pos((q + 1) * W + r) = r
    BY <1>2, PosUnique
  <1>5. Pos(a + W) = r
    BY <1>3, <1>4
  <1> QED BY <1>5 DEF r

\* Two word boundaries are a word apart, or the same.
LEMMA AlignedGap ==
  ASSUME NEW a \in Int, NEW b \in Int, Pos(a) = 0, a < b
  PROVE  a = Base(b) \/ a + W <= Base(b)
  <1> DEFINE p == a \div W
             q == b \div W
  <1>1. p \in Int /\ q \in Int /\ W \in Int /\ W > 0 /\ a = p * W /\ Base(b) = q * W /\ b < q * W + W
    BY WAssumption DEF Pos, Base
  <1> HIDE DEF p, q
  <1>2. p * W < (q + 1) * W
    BY <1>1
  <1>3. p < q + 1
    <2> SUFFICES ASSUME p >= q + 1 PROVE FALSE
      BY <1>1
    <2>1. (p - (q + 1)) * W >= 0
      BY <1>1
    <2> QED BY <1>1, <1>2, <2>1
  <1>4. CASE p = q
    BY <1>1, <1>4
  <1>5. CASE p < q
    <2>1. (q - p) * W >= W
      BY <1>1, <1>5
    <2> QED BY <1>1, <2>1
  <1> QED BY <1>1, <1>3, <1>4, <1>5
\* get_word(first, len) dereferences only words that hold a bit of
\* [first, first + len), and shifts only by counts C++ defines.
LEMMA GetWordAccess ==
  ASSUME NEW first \in Nat, NEW len \in 1 .. W
  PROVE  /\ \A b \in GetWordLoads(first, len) : b \in Int /\ b < first + len /\ first < b + W
         /\ \A k \in GetWordShifts(first, len) : k \in Int /\ ShiftDefined(k)
  <1> DEFINE p == Pos(first)
             b == Base(first)
  <1>1. /\ p \in Int /\ 0 <= p /\ p < W /\ W \in Int /\ len \in Int /\ 1 <= len /\ len <= W
        /\ b \in Int /\ first = b + p
    BY PosRange, WAssumption DEF BitPos, Base
  <1>2. Spans(first, len) <=> len > W - p
    BY DEF Spans
  <1>3. GetWordLoads(first, len) = IF Spans(first, len) THEN {b, b + W} ELSE {b}
    BY DEF GetWordLoads
  <1>4. GetWordShifts(first, len) = IF Spans(first, len) THEN {p, W - p} ELSE {p}
    BY DEF GetWordShifts
  <1> HIDE DEF p, b
  <1>5. \A k \in Int : ShiftDefined(k) <=> 0 <= k /\ k <= W - 1
    BY <1>1 DEF ShiftDefined
  <1>6. CASE Spans(first, len)
    BY <1>1, <1>2, <1>3, <1>4, <1>5, <1>6
  <1>7. CASE ~Spans(first, len)
    BY <1>1, <1>2, <1>3, <1>4, <1>5, <1>7
  <1> QED BY <1>6, <1>7

\* Storing a word changes the bits of that word only.
LEMMA StoreBit ==
  ASSUME NEW m, NEW b \in Int, NEW w, NEW a \in DOMAIN m
  PROVE  Store(m, b, w)[a] = IF b <= a /\ a < b + W THEN w[a - b] ELSE m[a]
  BY DEF Store

\* A read-modify-write of len bits from position start of the word at b puts
\* them at the addresses [b + start, b + start + len) ...
LEMMA StoreBlendIn ==
  ASSUME NEW m, NEW b \in Int, NEW w, NEW start \in Nat, NEW len \in Nat,
         start + len <= W, NEW a \in Int, a \in DOMAIN m, b + start <= a, a < b + start + len
  PROVE  Store(m, b, BitBlend(Load(m, b), w, start, len))[a] = w[a - b]
  <1> DEFINE v == BitBlend(Load(m, b), w, start, len)
  <1>1. /\ b <= a /\ a < b + W /\ a - b \in BitPos
        /\ start <= a - b /\ a - b < start + len
    BY WAssumption DEF BitPos
  <1>2. v[a - b] = w[a - b]
    BY <1>1, BlendBit
  <1> HIDE DEF v
  <1>3. Store(m, b, v)[a] = v[a - b]
    BY <1>1, StoreBit
  <1> QED BY <1>2, <1>3 DEF v

\* ... and leaves every other bit alone.
LEMMA StoreBlendOut ==
  ASSUME NEW m, NEW b \in Int, NEW w, NEW start \in Nat, NEW len \in Nat,
         start + len <= W, NEW a \in Int, a \in DOMAIN m, ~(b + start <= a /\ a < b + start + len)
  PROVE  Store(m, b, BitBlend(Load(m, b), w, start, len))[a] = m[a]
  <1> DEFINE v == BitBlend(Load(m, b), w, start, len)
  <1>1. CASE b <= a /\ a < b + W
    <2>1. /\ a - b \in BitPos /\ b + (a - b) = a
          /\ ~(start <= a - b /\ a - b < start + len)
      BY <1>1, WAssumption DEF BitPos
    <2>2. v[a - b] = Load(m, b)[a - b]
      BY <2>1, BlendBit
    <2>3. Load(m, b)[a - b] = m[a]
      BY <2>1, LoadBit
    <2> HIDE DEF v
    <2>4. Store(m, b, v)[a] = v[a - b]
      BY <1>1, StoreBit
    <2> QED BY <2>2, <2>3, <2>4 DEF v
  <1>2. CASE ~(b <= a /\ a < b + W)
    <2> HIDE DEF v
    <2>1. Store(m, b, v)[a] = m[a]
      BY <1>2, StoreBit
    <2> QED BY <2>1 DEF v
  <1> QED BY <1>1, <1>2

\* An address is its word's and a position in it.
LEMMA RangeFacts ==
  ASSUME NEW a \in Int
  PROVE  Pos(a) \in 0 .. (W - 1) /\ Base(a) \in Int /\ a = Base(a) + Pos(a)
<1>1. Pos(a) \in 0 .. (W - 1) /\ Base(a) \in Int
  BY PosRange DEF BitPos
<1>2. a = Base(a) + Pos(a)
  BY <1>1, Widths DEF Base
<1> QED BY <1>1, <1>2

LEMMA LeastIs ==
  ASSUME NEW a \in Int, NEW b \in Int
  PROVE  /\ Least(a, b) \in Int /\ Least(a, b) <= a /\ Least(a, b) <= b
         /\ Least(a, b) = a \/ Least(a, b) = b
BY DEF Least

LEMMA HoldsIs == \A b, f, l : Holds(b, f, l) <=> f < b + W /\ b < l
BY DEF Holds

LEMMA ShiftIs == \A k : ShiftDefined(k) <=> k \in 0 .. (W - 1)
BY DEF ShiftDefined

LEMMA BaseMonotone ==
  ASSUME NEW a \in Int, NEW b \in Int, a <= b
  PROVE  Base(a) <= Base(b)
<1>1. Base(a) <= a /\ Base(a) \in Int /\ Base(b) \in Int /\ Pos(Base(a)) = 0 /\ W \in Nat
  BY PosRange, BaseAligned, Widths
<1>2. CASE Base(a) < b
  BY <1>1, <1>2, AlignedGap
<1>3. CASE Base(a) = b
  <2>1. Base(b) = b - 0
    BY <1>1, <1>3 DEF Base
  <2> QED BY <1>1, <1>3, <2>1
<1> QED BY <1>1, <1>2, <1>3

LEMMA BaseNat ==
  ASSUME NEW a \in Nat
  PROVE  Base(a) \in Nat
<1>1. Pos(0) = 0
  BY Widths DEF Pos
<1>2. Base(0) <= Base(a) /\ Base(a) \in Int /\ Base(0) \in Int /\ 0 = Base(0) + Pos(0)
  BY BaseMonotone, RangeFacts
<1> QED BY <1>1, <1>2

----------------------------------------------------------------------------
(* Writing to the memory.                                                  *)

\* new is the memory old with the n bits at from replaced by the bits of v.
Puts(old, new, from, n_bits, v) ==
  /\ DOMAIN new = Addr /\ new = [a \in Addr |-> new[a]]
  /\ \A a \in Addr : new[a] = IF from <= a /\ a < from + n_bits THEN v[a - from] ELSE old[a]

\* A store of a whole word.
LEMMA StorePuts ==
  ASSUME NEW m, DOMAIN m = Addr, NEW b \in Int, NEW w
  PROVE  Puts(m, Store(m, b, w), b, W, w)
<1> DEFINE s == Store(m, b, w)
<1>1. DOMAIN s = Addr /\ s = [a \in Addr |-> s[a]]
  BY DEF Store
<1>2. \A a \in Addr : s[a] = IF b <= a /\ a < b + W THEN w[a - b] ELSE m[a]
  BY DEF Store
<1> QED BY <1>1, <1>2 DEF Puts

\* A read-modify-write of part of a word.
LEMMA BlendPuts ==
  ASSUME NEW m, DOMAIN m = Addr, NEW b \in Int, NEW start \in Nat, NEW k \in Nat, start + k <= W,
         NEW w, NEW v, \A i \in 0 .. (k - 1) : w[start + i] = v[i]
  PROVE  Puts(m, Store(m, b, BitBlend(Load(m, b), w, start, k)), b + start, k, v)
<1> DEFINE s == Store(m, b, BitBlend(Load(m, b), w, start, k))
<1>1. DOMAIN s = Addr /\ s = [a \in Addr |-> s[a]]
  BY DEF Store
<1>2. ASSUME NEW a \in Addr
      PROVE  s[a] = IF b + start <= a /\ a < (b + start) + k THEN v[a - (b + start)] ELSE m[a]
  <2>1. a \in Int /\ a \in DOMAIN m
    BY Widths
  <2>2. CASE b + start <= a /\ a < (b + start) + k
    <3>1. s[a] = w[a - b]
      BY <2>1, <2>2, StoreBlendIn
    <3>2. a - (b + start) \in 0 .. (k - 1) /\ start + (a - (b + start)) = a - b
      BY <2>1, <2>2
    <3> HIDE DEF s
    <3> QED BY <2>2, <3>1, <3>2
  <2>3. CASE ~(b + start <= a /\ a < (b + start) + k)
    <3>1. ~(b + start <= a /\ a < b + start + k)
      BY <2>1, <2>3
    <3>2. s[a] = m[a]
      BY <2>1, <3>1, StoreBlendOut
    <3> HIDE DEF s
    <3> QED BY <2>3, <3>2
  <2> QED BY <2>2, <2>3
<1> HIDE DEF s
<1>3. Puts(m, s, b + start, k, v)
  BY <1>1, <1>2 DEF Puts
<1> QED BY <1>3 DEF s

\* Two writes, one after the other.
LEMMA PutsTwice ==
  ASSUME NEW m, NEW m1, NEW m2, NEW from \in Int, NEW k \in Nat, NEW l \in Nat, NEW v, NEW u,
         Puts(m, m1, from, k, v), Puts(m1, m2, from + k, l, u),
         \A i \in 0 .. (l - 1) : u[i] = v[k + i]
  PROVE  Puts(m, m2, from, k + l, v)
<1>1. ASSUME NEW a \in Addr
      PROVE  m2[a] = IF from <= a /\ a < from + (k + l) THEN v[a - from] ELSE m[a]
  <2>1. a \in Int
    BY Widths
  <2>2. /\ m1[a] = IF from <= a /\ a < from + k THEN v[a - from] ELSE m[a]
        /\ m2[a] = IF from + k <= a /\ a < (from + k) + l THEN u[a - (from + k)] ELSE m1[a]
    BY DEF Puts
  <2>3. CASE from + k <= a /\ a < (from + k) + l
    <3>1. a - (from + k) \in 0 .. (l - 1) /\ k + (a - (from + k)) = a - from
      BY <2>1, <2>3
    <3>2. m2[a] = v[a - from]
      BY <2>2, <2>3, <3>1
    <3> QED BY <2>1, <2>3, <3>2
  <2>4. CASE ~(from + k <= a /\ a < (from + k) + l)
    <3>1. (from <= a /\ a < from + (k + l)) <=> (from <= a /\ a < from + k)
      BY <2>1, <2>4
    <3> QED BY <2>2, <2>4, <3>1
  <2> QED BY <2>3, <2>4
<1> QED BY <1>1 DEF Puts

\* write_word puts the low bits of its word at the address, in one word or two.
LEMMA WriteWordPuts ==
  ASSUME NEW m, DOMAIN m = Addr, NEW w, NEW to \in Nat, NEW k \in 1 .. W
  PROVE  Puts(m, WriteWord(m, w, to, k), to, k, w)
<1> DEFINE b    == Base(to)
           p    == Pos(to)
           room == W - p
           m1   == Store(m, b, BitBlend(Load(m, b), Lsl(w, p), p, Least(room, k)))
           m2   == Store(m1, b + W, BitBlend(Load(m1, b + W), Lsr(w, room), 0, k - room))
<1>1. /\ p \in Nat /\ p < W /\ b \in Int /\ b + p = to /\ room \in Nat /\ b + W \in Int
      /\ W \in Nat /\ k \in Nat /\ k <= W /\ 0 < k
  <2>1. p \in 0 .. (W - 1) /\ b \in Int /\ to = b + p
    BY RangeFacts
  <2> HIDE DEF p, b
  <2> QED BY <2>1, Widths
<1>2. ASSUME NEW i \in 0 .. (room - 1) PROVE Lsl(w, p)[p + i] = w[i]
  <2>1. p + i \in BitPos /\ p <= p + i /\ (p + i) - p = i
    BY <1>1 DEF BitPos
  <2> QED BY <2>1, LslBit
<1>3. Least(room, k) \in Nat /\ p + Least(room, k) <= W /\ Least(room, k) <= room
      /\ Puts(m, m1, to, Least(room, k), w)
  <2> DEFINE x == Lsl(w, p)
             h == Least(room, k)
  <2>1. h \in Nat /\ p + h <= W /\ h <= room
    BY <1>1 DEF Least
  <2>2. \A i \in 0 .. (h - 1) : x[p + i] = w[i]
    BY <1>1, <1>2, <2>1
  <2> HIDE DEF x, h, b, p, room
  <2>3. Puts(m, Store(m, b, BitBlend(Load(m, b), x, p, h)), b + p, h, w)
    BY <1>1, <2>1, <2>2, BlendPuts
  <2> QED BY <1>1, <2>1, <2>3 DEF x, h, room
<1>4. CASE p = 0 /\ k = W
  <2>1. WriteWord(m, w, to, k) = Store(m, b, w)
    BY <1>4 DEF WriteWord
  <2> QED BY <1>1, <1>4, <2>1, StorePuts
<1>5. CASE ~(p = 0 /\ k = W) /\ Spans(to, k)
  <2>1. WriteWord(m, w, to, k) = m2
    BY <1>5 DEF WriteWord
  <2>2. k - room \in Nat /\ k - room <= W /\ Least(room, k) = room /\ room + (k - room) = k
    BY <1>1, <1>5 DEF Spans, Least
  <2>3. ASSUME NEW i \in 0 .. ((k - room) - 1) PROVE Lsr(w, room)[i] = w[room + i]
    <3>1. i \in BitPos /\ i + room < W /\ i + room = room + i
      BY <1>1, <2>2 DEF BitPos
    <3> QED BY <3>1, LsrBit
  <2>4. DOMAIN m1 = Addr
    BY DEF Store
  <2>5. Puts(m1, m2, to + room, k - room, Lsr(w, room))
    <3> DEFINE x == Lsr(w, room)
               h == k - room
    <3>1. \A i \in 0 .. (h - 1) : x[0 + i] = x[i]
      OBVIOUS
    <3>2. h \in Nat /\ 0 + h <= W /\ 0 \in Nat /\ b + W \in Int /\ (b + W) + 0 = to + room
      BY <1>1, <2>2
    <3> HIDE DEF x, h, m1, b, room
    <3>3. Puts(m1, Store(m1, b + W, BitBlend(Load(m1, b + W), x, 0, h)), (b + W) + 0, h, x)
      BY <2>4, <3>1, <3>2, BlendPuts
    <3> QED BY <3>2, <3>3 DEF x, h
  <2> HIDE DEF m1, m2, room
  <2>6. Puts(m, m2, to, room + (k - room), w)
    BY <1>1, <1>3, <2>2, <2>3, <2>5, PutsTwice
  <2> QED BY <2>1, <2>2, <2>6
<1>6. CASE ~(p = 0 /\ k = W) /\ ~Spans(to, k)
  <2>1. WriteWord(m, w, to, k) = m1
    BY <1>6 DEF WriteWord
  <2>2. Least(room, k) = k
    BY <1>1, <1>6 DEF Spans, Least
  <2> QED BY <1>3, <2>1, <2>2
<1> QED BY <1>4, <1>5, <1>6

\* The words write_word dereferences hold bits of the range it writes.
LEMMA WriteWordAccess ==
  ASSUME NEW to \in Nat, NEW k \in 1 .. W
  PROVE  /\ \A b \in WriteWordWords(to, k) : b \in Int /\ b < to + k /\ to < b + W
         /\ \A i \in WriteWordShifts(to, k) : i \in Int /\ ShiftDefined(i)
<1>1. WriteWordWords(to, k) = GetWordLoads(to, k)
  BY DEF WriteWordWords, GetWordLoads
<1>2. WriteWordShifts(to, k) \subseteq GetWordShifts(to, k)
  BY DEF WriteWordShifts, GetWordShifts
<1> QED BY <1>1, <1>2, GetWordAccess

\* Writing nothing.
LEMMA PutsNothing ==
  ASSUME NEW m, NEW from \in Int, NEW v, DOMAIN m = Addr, m = [a \in Addr |-> m[a]]
  PROVE  Puts(m, m, from, 0, v)
<1>1. \A a \in Addr : ~(from <= a /\ a < from + 0)
  BY Widths
<1> QED BY <1>1 DEF Puts

\* A memory that bits were put into is one still.
LEMMA PutsType ==
  ASSUME NEW m \in [Addr -> Bit], NEW new, NEW from \in Int, NEW k \in Nat, NEW v,
         Puts(m, new, from, k, v), \A i \in 0 .. (k - 1) : v[i] \in Bit
  PROVE  new \in [Addr -> Bit]
<1>1. ASSUME NEW a \in Addr PROVE new[a] \in Bit
  <2>1. CASE from <= a /\ a < from + k
    <3>1. a - from \in 0 .. (k - 1)
      BY <2>1, Widths
    <3> QED BY <2>1, <3>1 DEF Puts
  <2>2. CASE ~(from <= a /\ a < from + k)
    BY <2>2 DEF Puts
  <2> QED BY <2>1, <2>2
<1> QED BY <1>1 DEF Puts

----------------------------------------------------------------------------
(* Induction on the natural numbers, for sets.                             *)

LEMMA LeastOf ==
  ASSUME NEW S \in SUBSET Nat, S # {}
  PROVE  \E x \in S : \A y \in S : x <= y
<1>1. \E x \in S : \A y \in S : ~ (<<y, x>> \in OpToRel(<, Nat))
  BY WFMin, NatLessThanWellFounded
<1>2. ASSUME NEW x \in Nat, NEW y \in Nat, ~ (<<y, x>> \in OpToRel(<, Nat))
      PROVE  x <= y
  BY <1>2 DEF OpToRel
<1> QED BY <1>1, <1>2

\* A set that holds 0 and the successor of each number it holds holds them all.
LEMMA Induction ==
  ASSUME NEW S, 0 \in S, \A n \in Nat : n \in S => n + 1 \in S
  PROVE  \A n \in Nat : n \in S
<1> DEFINE T == {n \in Nat : n \notin S}
<1>1. SUFFICES ASSUME T # {} PROVE FALSE
  OBVIOUS
<1>2. PICK x \in T : \A y \in T : x <= y
  BY <1>1, LeastOf
<1>3. x \in Nat /\ x # 0 /\ x \notin S
  BY <1>2
<1>4. x - 1 \in Nat /\ ~(x <= x - 1) /\ (x - 1) + 1 = x
  BY <1>3
<1>5. x - 1 \in S
  BY <1>2, <1>4
<1> QED BY <1>3, <1>4, <1>5

----------------------------------------------------------------------------
(* Powers of two.                                                          *)

Power(n) == 2 ^ n

\* There are 2^n subsets of n numbers, and twice as many of n + 1.
LEMMA PowerIs ==
  ASSUME NEW n \in Nat
  PROVE  /\ IsFiniteSet(SUBSET (1 .. n)) /\ Cardinality(SUBSET (1 .. n)) = Power(n)
         /\ Power(n) \in Nat
<1>1. IsFiniteSet(1 .. n) /\ Cardinality(1 .. n) = n
  <2>1. IsFiniteSet(1 .. n) /\ Cardinality(1 .. n) = IF 1 > n THEN 0 ELSE n - 1 + 1
    BY FS_Interval
  <2> QED BY <2>1
<1>2. IsFiniteSet(SUBSET (1 .. n)) /\ Cardinality(SUBSET (1 .. n)) = 2 ^ n
  BY <1>1, FS_SUBSET
<1> QED BY <1>2, FS_CardinalityType DEF Power

LEMMA PowerZero == Power(0) = 1
BY DEF Power

LEMMA PowerStep ==
  ASSUME NEW n \in Nat
  PROVE  Power(n + 1) = 2 * Power(n)
<1> DEFINE A == SUBSET (1 .. n)
           B == {s \cup {n + 1} : s \in A}
           C == SUBSET (1 .. (n + 1))
           f == [s \in A |-> s \cup {n + 1}]
<1>1. /\ IsFiniteSet(A) /\ Cardinality(A) = Power(n) /\ Power(n) \in Nat
      /\ Cardinality(C) = Power(n + 1) /\ n + 1 \in Nat
  BY PowerIs, n + 1 \in Nat
<1>2. \A s \in A : n + 1 \notin s
  OBVIOUS
<1>3. f \in Bijection(A, B)
  <2>1. f \in [A -> B] /\ \A t \in B : \E s \in A : f[s] = t
    OBVIOUS
  <2>2. ASSUME NEW s \in A, NEW t \in A, f[s] = f[t] PROVE s = t
    BY <1>2, <2>2
  <2> HIDE DEF f, A, B
  <2>3. f \in Injection(A, B)
    BY <2>1, <2>2 DEF Injection, IsInjective
  <2> QED BY <2>1, <2>3 DEF Bijection, Surjection
<1>4. IsFiniteSet(B) /\ Cardinality(B) = Power(n)
  <2>1. ExistsBijection(A, B)
    BY <1>3 DEF ExistsBijection
  <2> QED BY <1>1, <2>1, FS_Bijection
<1>5. A \cap B = {}
  BY <1>2
<1>6. A \cup B = C
  <2>1. ASSUME NEW s \in C PROVE s \in A \cup B
    <3>1. s \ {n + 1} \in A
      OBVIOUS
    <3>2. s = s \ {n + 1} \/ s = (s \ {n + 1}) \cup {n + 1}
      OBVIOUS
    <3> QED BY <3>1, <3>2
  <2>2. 1 .. n \subseteq 1 .. (n + 1) /\ n + 1 \in 1 .. (n + 1)
    OBVIOUS
  <2>3. A \subseteq C /\ B \subseteq C
    BY <2>2
  <2> QED BY <2>1, <2>3
<1> HIDE DEF A, B, C
<1>7. Cardinality(A \cup B) = Cardinality(A) + Cardinality(B) - Cardinality(A \cap B)
  BY <1>1, <1>4, FS_Union
<1>8. Cardinality(A \cap B) = 0
  BY <1>5, FS_EmptySet
<1>9. Cardinality(C) = Power(n) + Power(n) - 0
  BY <1>1, <1>4, <1>6, <1>7, <1>8
<1> HIDE DEF f
<1> QED BY <1>1, <1>9

LEMMA PowerNat == \A n \in Nat : Power(n) \in Nat
BY PowerIs

LEMMA PowerPositive ==
  ASSUME NEW n \in Nat
  PROVE  Power(n) \in Nat /\ Power(n) >= 1
<1> DEFINE S == {k \in Nat : Power(k) >= 1}
<1>1. 0 \in S
  BY PowerZero
<1>2. ASSUME NEW k \in Nat, k \in S PROVE k + 1 \in S
  <2>1. Power(k + 1) = 2 * Power(k) /\ Power(k) \in Nat /\ Power(k) >= 1
    BY <1>2, PowerNat, PowerStep
  <2> QED BY <2>1
<1> HIDE DEF S
<1>3. n \in S
  BY <1>1, <1>2, Induction
<1> QED BY <1>3, PowerNat DEF S

LEMMA PowerSum ==
  ASSUME NEW a \in Nat, NEW b \in Nat
  PROVE  Power(a + b) = Power(a) * Power(b)
<1> DEFINE S == {k \in Nat : Power(a + k) = Power(a) * Power(k)}
<1>1. 0 \in S
  <2>1. Power(a) \in Nat /\ a + 0 = a
    BY PowerNat
  <2> QED BY <2>1, PowerZero
<1>2. ASSUME NEW k \in Nat, k \in S PROVE k + 1 \in S
  <2>1. Power(a + k) = Power(a) * Power(k)
    BY <1>2
  <2>2. Power((a + k) + 1) = 2 * Power(a + k) /\ Power(k + 1) = 2 * Power(k)
    BY PowerStep, a + k \in Nat
  <2>3. Power(a) \in Nat /\ Power(k) \in Nat /\ (a + k) + 1 = a + (k + 1)
    BY PowerNat
  <2>4. 2 * (Power(a) * Power(k)) = Power(a) * (2 * Power(k))
    BY <2>3
  <2> QED BY <2>1, <2>2, <2>3, <2>4
<1> HIDE DEF S
<1>3. b \in S
  BY <1>1, <1>2, Induction
<1> QED BY <1>3 DEF S

----------------------------------------------------------------------------
(* Division and products.                                                  *)

\* What determines a quotient and a remainder.
LEMMA Divided ==
  ASSUME NEW v \in Int, NEW p \in Nat, p > 0, NEW q \in Int, NEW r \in 0 .. (p - 1), v = p * q + r
  PROVE  v \div p = q /\ v % p = r
<1> DEFINE k == v \div p
           t == v % p
<1>1. k \in Int /\ t \in 0 .. (p - 1) /\ v = p * k + t
  OBVIOUS
<1> HIDE DEF k, t
<1>2. p * (k - q) = r - t
  BY <1>1
<1>3. CASE k - q >= 1
  <2>1. p * (k - q) >= p
    BY <1>1, <1>3
  <2> QED BY <1>1, <1>2, <2>1
<1>4. CASE k - q <= -1
  <2>1. p * (k - q) <= -p
    BY <1>1, <1>4
  <2> QED BY <1>1, <1>2, <2>1
<1>5. CASE k = q
  <2>1. r = t
    BY <1>1, <1>2, <1>5
  <2> QED BY <1>5, <2>1 DEF k, t
<1> QED BY <1>1, <1>3, <1>4, <1>5

LEMMA Dividing ==
  ASSUME NEW v \in Int, NEW p \in Nat, p > 0
  PROVE  /\ v \div p \in Int /\ v % p \in Nat /\ v % p < p
         /\ v = p * (v \div p) + (v % p)
         /\ v >= 0 => v \div p >= 0
<1>1. v \div p \in Int /\ v % p \in 0 .. (p - 1) /\ v = p * (v \div p) + (v % p)
  OBVIOUS
<1> DEFINE q == v \div p
           r == v % p
<1> HIDE DEF q, r
<1>2. q \in Int /\ r \in 0 .. (p - 1) /\ v = p * q + r
  BY <1>1 DEF q, r
<1>3. ASSUME v >= 0, q <= -1 PROVE FALSE
  <2>1. p * q <= -p
    BY <1>2, <1>3
  <2> QED BY <1>2, <1>3, <2>1
<1>4. v >= 0 => q >= 0
  BY <1>2, <1>3
<1> QED BY <1>2, <1>4 DEF q, r

\* The lowest bit of what is above p.
LEMMA DigitStep ==
  ASSUME NEW v \in Nat, NEW p \in Nat, p >= 1
  PROVE  /\ (v \div p) % 2 \in {0, 1}
         /\ v % (2 * p) = (v % p) + ((v \div p) % 2) * p
<1> DEFINE q == v \div p
           r == v % p
           h == q \div 2
           c == q % 2
           s == c * p + r
           P == 2 * p
<1>1. q \in Int /\ r \in Nat /\ r < p /\ v = p * q + r
  BY Dividing
<1>2. h \in Int /\ c \in {0, 1} /\ q = 2 * h + c
  BY <1>1
<1> HIDE DEF q, r, h, c
<1>3. v = P * h + s
  <2>1. p * q = p * (2 * h + c)
    BY <1>2
  <2>2. p * (2 * h + c) = (2 * p) * h + c * p
    BY <1>2
  <2> QED BY <1>1, <1>2, <2>1, <2>2
<1>4. s \in 0 .. (P - 1)
  <2>1. c * p = 0 \/ c * p = p
    BY <1>2
  <2> QED BY <1>1, <2>1
<1>5. v % P = s
  <2>1. P \in Nat /\ P > 0
    OBVIOUS
  <2> HIDE DEF s, P
  <2> QED BY <1>2, <1>3, <1>4, <2>1, Divided
<1> QED BY <1>1, <1>2, <1>5 DEF c, q, r

LEMMA TimesMonotone ==
  ASSUME NEW a \in Nat, NEW b \in Int, NEW c \in Int, b <= c
  PROVE  a * b <= a * c
BY SMTT(30)

\* The remainder by a power of two, of a remainder by a larger one.
LEMMA ModTwice ==
  ASSUME NEW v \in Nat, NEW a \in Nat, NEW b \in Nat
  PROVE  (v % Power(a + b)) % Power(a) = v % Power(a)
<1> DEFINE P == Power(a)
           Q == Power(b)
           R == Power(a + b)
           k == v \div R
           t == v % R
           h == t \div P
           s == t % P
<1>1. P \in Nat /\ P > 0 /\ Q \in Nat /\ R \in Nat /\ R > 0 /\ R = P * Q
  <2>1. a + b \in Nat
    OBVIOUS
  <2>2. R \in Nat /\ R >= 1 /\ P \in Nat /\ P >= 1 /\ Q \in Nat
    BY <2>1, PowerPositive
  <2>3. R = P * Q
    BY PowerSum
  <2> HIDE DEF P, Q, R
  <2> QED BY <2>2, <2>3
<1> HIDE DEF P, Q, R
<1>2. k \in Int /\ t \in Nat /\ v = R * k + t
  BY <1>1, Dividing
<1> HIDE DEF k, t
<1>3. h \in Int /\ s \in 0 .. (P - 1) /\ t = P * h + s
  BY <1>1, <1>2, Dividing
<1> HIDE DEF h, s
<1>4. v = P * (Q * k + h) + s
  <2>1. R * k = P * (Q * k)
    BY <1>1, <1>2
  <2>2. P * (Q * k + h) = P * (Q * k) + P * h
    BY <1>1, <1>2, <1>3
  <2>3. P * (Q * k) \in Int /\ P * h \in Int
    BY <1>1, <1>2, <1>3
  <2> QED BY <1>2, <1>3, <2>1, <2>2, <2>3
<1> DEFINE z == Q * k + h
<1>5. z \in Int /\ v = P * z + s
  BY <1>1, <1>2, <1>3, <1>4
<1> HIDE DEF z
<1>6. v % P = s
  BY <1>1, <1>3, <1>5, Divided
<1> QED BY <1>6 DEF s, t, R, P

LEMMA Remainder ==
  ASSUME NEW v \in Nat, NEW n \in Nat
  PROVE  v % Power(n) \in Nat /\ v % Power(n) < Power(n)
<1>1. Power(n) \in Nat /\ Power(n) > 0 /\ v \in Int
  BY PowerPositive
<1> QED BY <1>1, Dividing

LEMMA SmallRemainder ==
  ASSUME NEW v \in Nat, NEW p \in Nat, v < p
  PROVE  v \div p = 0 /\ v % p = v
<1>1. v \in Int /\ p > 0 /\ 0 \in Int /\ v \in 0 .. (p - 1) /\ v = p * 0 + v
  OBVIOUS
<1> QED BY <1>1, Divided

\* A quotient rounded up.
LEMMA RoundedUp ==
  ASSUME NEW v \in Nat, NEW p \in Nat, p >= 1
  PROVE  /\ (v + p - 1) \div p \in Nat /\ p * ((v + p - 1) \div p) >= v
         /\ v \div p + (IF v % p # 0 THEN 1 ELSE 0) \in Nat
         /\ p * (v \div p + (IF v % p # 0 THEN 1 ELSE 0)) >= v
<1> DEFINE u == v + p - 1
           q == u \div p
           r == u % p
           x == v \div p
           y == v % p
<1>1. u \in Nat /\ u >= 0 /\ p > 0 /\ u \in Int /\ v \in Int
  OBVIOUS
<1> HIDE DEF u
<1>2. q \in Int /\ r \in Nat /\ r < p /\ u = p * q + r /\ q >= 0
  BY <1>1, Dividing
<1>3. x \in Int /\ y \in Nat /\ y < p /\ v = p * x + y /\ x >= 0
  BY <1>1, Dividing
<1> HIDE DEF q, r, x, y
<1>4. p * q \in Int /\ p * q >= v
  BY <1>1, <1>2 DEF u
<1> DEFINE z == x + (IF y # 0 THEN 1 ELSE 0)
<1>5. z \in Nat /\ p * z >= v
  <2>1. CASE y = 0
    BY <1>3, <2>1
  <2>2. CASE y # 0
    <3>1. z = x + 1 /\ p * (x + 1) = p * x + p /\ p * x \in Int
      BY <1>3, <2>2
    <3> QED BY <1>3, <3>1
  <2> QED BY <2>1, <2>2
<1> HIDE DEF z
<1>6. q \in Nat
  BY <1>2
<1> QED BY <1>4, <1>5, <1>6 DEF q, u, x, y, z

LEMMA PowerMonotone ==
  ASSUME NEW a \in Nat, NEW b \in Nat, a <= b
  PROVE  Power(a) \in Nat /\ Power(b) \in Nat /\ Power(a) >= 1 /\ Power(a) <= Power(b)
<1> DEFINE c == b - a
<1>1. c \in Nat /\ a + c = b
  OBVIOUS
<1> HIDE DEF c
<1>2. Power(b) = Power(a) * Power(c)
  BY <1>1, PowerSum
<1>3. Power(a) \in Nat /\ Power(b) \in Nat /\ Power(c) \in Nat /\ Power(a) >= 1 /\ Power(c) >= 1
  BY <1>1, PowerPositive
<1>4. Power(a) * 1 <= Power(a) * Power(c)
  BY <1>3, TimesMonotone
<1> QED BY <1>2, <1>3, <1>4

\* The least power of two above a number.
LEMMA ShortestPower ==
  ASSUME NEW v \in Nat, NEW m \in Nat, v < Power(m)
  PROVE  \E n \in 0 .. m : v < Power(n) /\ (n = 0 \/ v >= Power(n - 1))
<1> DEFINE S == {n \in Nat : v < Power(n)}
<1>1. PICK k \in S : \A y \in S : k <= y
  BY LeastOf
<1>2. k \in Nat /\ k <= m /\ v < Power(k)
  BY <1>1
<1>3. ASSUME k # 0, ~(v >= Power(k - 1)) PROVE FALSE
  <2>1. k - 1 \in Nat /\ ~(k <= k - 1) /\ Power(k - 1) \in Nat
    BY <1>2, <1>3, PowerNat
  <2>2. k - 1 \in S
    BY <1>3, <2>1
  <2> QED BY <1>1, <2>1, <2>2
<1> QED BY <1>2, <1>3

\* A number below the modulus is its own remainder.
LEMMA Unwrapped ==
  ASSUME NEW m \in Nat, NEW v \in 0 .. (m - 1)
  PROVE  v % m = v /\ v \div m = 0
<1>1. v = m * 0 + v /\ m > 0 /\ v \in Int
  OBVIOUS
<1> QED BY <1>1, Divided

\* A sum of two words that wraps round is below both, and one that does not is
\* below neither.
LEMMA SumCarry ==
  ASSUME NEW m \in Nat, NEW a \in 0 .. (m - 1), NEW b \in 0 .. m
  PROVE  LET s == (a + b) % m
         IN  /\ s \in 0 .. (m - 1)
             /\ b < m => \/ a + b = s /\ ~(s < a) /\ ~(s < b)
                         \/ a + b = s + m /\ s < a /\ s < b
<1> DEFINE s == (a + b) % m
<1>1. CASE a + b < m
  <2>1. a + b \in 0 .. (m - 1)
    BY <1>1
  <2>2. s = a + b
    BY <2>1, Unwrapped
  <2> HIDE DEF s
  <2>3. s \in 0 .. (m - 1) /\ a + b = s /\ ~(s < a) /\ ~(s < b)
    BY <2>1, <2>2
  <2> QED BY <2>3 DEF s
<1>2. CASE a + b >= m
  <2> DEFINE x == a + b
  <2>1. x \in Int /\ x = m * 1 + (a + b - m) /\ a + b - m \in 0 .. (m - 1) /\ m > 0
    BY <1>2
  <2>2. x % m = a + b - m
    <3> HIDE DEF x
    <3> QED BY <2>1, Divided
  <2>3. s = a + b - m
    BY <2>2
  <2> HIDE DEF s
  <2>4. s \in 0 .. (m - 1) /\ (b < m => a + b = s + m /\ s < a /\ s < b)
    BY <2>1, <2>3
  <2> QED BY <2>4 DEF s
<1> QED BY <1>1, <1>2

\* A difference of two words that wraps round has borrowed.
LEMMA DifferenceBorrow ==
  ASSUME NEW m \in Nat, NEW a \in 0 .. (m - 1), NEW b \in 0 .. (m - 1)
  PROVE  LET s == (a - b) % m
         IN  /\ s \in 0 .. (m - 1)
             /\ \/ a - b = s /\ ~(a < b)
                \/ a - b = s - m /\ a < b /\ s >= 1
<1> DEFINE s == (a - b) % m
<1>1. CASE ~(a < b)
  <2>1. a - b \in 0 .. (m - 1)
    BY <1>1
  <2>2. s = a - b
    BY <2>1, Unwrapped
  <2> HIDE DEF s
  <2>3. s \in 0 .. (m - 1) /\ a - b = s
    BY <2>1, <2>2
  <2> QED BY <1>1, <2>3 DEF s
<1>2. CASE a < b
  <2> DEFINE x == a - b
  <2>1. /\ x \in Int /\ x = m * (-1) + (a - b + m) /\ a - b + m \in 0 .. (m - 1) /\ m > 0
        /\ a - b + m >= 1
    BY <1>2
  <2>2. x % m = a - b + m
    <3> HIDE DEF x
    <3> QED BY <2>1, Divided
  <2>3. s = a - b + m
    BY <2>2
  <2> HIDE DEF s
  <2>4. s \in 0 .. (m - 1) /\ a - b = s - m /\ s >= 1
    BY <2>1, <2>3
  <2> QED BY <1>2, <2>4 DEF s
<1> QED BY <1>1, <1>2

\* A product of two half words, one of them shifted, is a word.
LEMMA ProductFits ==
  ASSUME NEW h \in Nat, h >= 2, NEW x \in 0 .. (h - 1), NEW y \in 0 .. (h - 1)
  PROVE  x * y \in 0 .. (h * h - 1) /\ x * h \in 0 .. (h * h - 1)
<1>1. h * (x + 1) <= h * h
  BY TimesMonotone
<1>2. h * (x + 1) = x * h + h
  OBVIOUS
<1>3. x * y <= x * h
  BY TimesMonotone
<1>4. x * y \in Nat /\ x * h \in Nat /\ h * h \in Nat
  BY SMTT(30)
<1> QED BY <1>1, <1>2, <1>3, <1>4

\* The quotient is the only number whose product leaves a remainder: b below a
\* divisor's multiple by y gives a digit of at most h.
LEMMA DigitFits ==
  ASSUME NEW h \in Nat, NEW y \in Nat, NEW a \in Nat, a < y, NEW num \in 0 .. (h - 1),
         NEW q \in Int, NEW r \in 0 .. (y - 1), a * h + num = q * y + r
  PROVE  q \in 0 .. (h - 1)
<1>1. a * h \in Nat /\ q * y \in Int /\ y * h \in Nat
  BY SMTT(30)
<1>2. q >= 0
  <2> SUFFICES ASSUME q <= -1 PROVE FALSE
    OBVIOUS
  <2>1. y * q <= y * (-1)
    BY TimesMonotone
  <2>2. y * q = q * y /\ y * (-1) = -y
    OBVIOUS
  <2> QED BY <1>1, <2>1, <2>2
<1>3. q < h
  <2> SUFFICES ASSUME q >= h PROVE FALSE
    OBVIOUS
  <2>1. y * h <= y * q
    BY TimesMonotone
  <2>2. h * (a + 1) <= h * y
    BY TimesMonotone
  <2>3. y * q = q * y /\ h * (a + 1) = a * h + h /\ h * y = y * h
    OBVIOUS
  <2> QED BY <1>1, <2>1, <2>2, <2>3
<1> QED BY <1>2, <1>3

\* The leading half word of a normalized denominator is itself normalized.
LEMMA LeadingHalf ==
  ASSUME NEW h \in Nat, NEW g \in Nat, h = 2 * g, g >= 1,
         NEW L \in Nat, L = h * h, NEW y \in Nat, y < L, L <= 2 * y,
         NEW y1 \in Int, NEW y0 \in 0 .. (h - 1), y = h * y1 + y0
  PROVE  y1 \in Nat /\ y1 >= g
<1>1. h * y1 \in Int
  OBVIOUS
<1>2. y1 >= g
  <2> SUFFICES ASSUME y1 <= g - 1 PROVE FALSE
    OBVIOUS
  <2>1. h * y1 <= h * (g - 1)
    BY TimesMonotone
  <2>2. h * (g - 1) = h * g - h /\ 2 * (h * g) = L /\ h * g \in Int
    OBVIOUS
  <2> QED BY <1>1, <2>1, <2>2
<1> QED BY <1>2

\* qhat, with the remainder rhat, is the quotient of a by y1, the leading half
\* word of a normalized denominator y, and <<a, num>> is below y.
Estimates(h, g, L, y, y1, y0, a, num, qhat, rhat) ==
  /\ h \in Nat /\ g \in Nat /\ h = 2 * g /\ g >= 1 /\ L \in Nat /\ L = h * h
  /\ y \in Nat /\ y < L /\ L <= 2 * y
  /\ y1 \in Int /\ y0 \in Nat /\ y0 < h /\ y = h * y1 + y0
  /\ a \in Nat /\ a < y /\ num \in Nat /\ num < h
  /\ qhat \in Nat /\ rhat \in Nat /\ rhat < y1 /\ a = y1 * qhat + rhat

\* The estimate of a digit: the digit is qhat, less the excess of qhat * y0 over
\* y, rounded up, and nothing wraps round.
LEMMA EstimateIs ==
  ASSUME NEW h, NEW g, NEW L, NEW y, NEW y1, NEW y0, NEW a, NEW num, NEW qhat, NEW rhat,
         Estimates(h, g, L, y, y1, y0, a, num, qhat, rhat)
  PROVE  /\ qhat * y0 \in 0 .. (L - 1) /\ rhat * h + num \in 0 .. (y - 1)
         /\ qhat * y0 - (rhat * h + num) <= 2 * y
         /\ a * h + num = qhat * y - qhat * y0 + (rhat * h + num)
<1> SUFFICES ASSUME h \in Nat, g \in Nat, h = 2 * g, g >= 1, L \in Nat, L = h * h,
                    y \in Nat, y < L, L <= 2 * y, y1 \in Int, y0 \in 0 .. (h - 1), y = h * y1 + y0,
                    a \in Nat, a < y, num \in 0 .. (h - 1),
                    qhat \in Nat, rhat \in 0 .. (y1 - 1), a = y1 * qhat + rhat
             PROVE  /\ qhat * y0 \in 0 .. (L - 1) /\ rhat * h + num \in 0 .. (y - 1)
                    /\ qhat * y0 - (rhat * h + num) <= 2 * y
                    /\ a * h + num = qhat * y - qhat * y0 + (rhat * h + num)
  BY DEF Estimates
<1>1. y1 \in Int /\ y0 \in Nat /\ y0 < h /\ y = h * y1 + y0
  OBVIOUS
<1>2. L \in Nat /\ y < L /\ L <= 2 * y
  OBVIOUS
<1>3. h * y1 \in Int /\ L = h * h
  BY <1>1
<1>4. y1 >= g
  BY LeadingHalf
<1>5. y1 \in Nat /\ y1 >= 1 /\ y1 > 0
  BY <1>1, <1>4
<1>6. qhat \in Int /\ qhat >= 0 /\ rhat \in Nat /\ rhat < y1 /\ a = y1 * qhat + rhat
  BY <1>5
<1>7. qhat <= h + 1
  <2> SUFFICES ASSUME qhat >= h + 2 PROVE FALSE
    BY <1>6
  <2>1. y1 * (h + 2) <= y1 * qhat
    BY <1>5, <1>6, TimesMonotone
  <2>2. y1 * (h + 2) = h * y1 + 2 * y1 /\ y1 * qhat \in Int
    BY <1>5, <1>6
  <2>3. 2 * y1 >= h
    BY <1>4, <1>5
  <2> QED BY <1>1, <1>3, <1>5, <1>6, <2>1, <2>2, <2>3
<1> DEFINE c1 == qhat * y0
           c2 == rhat * h + num
<1>8. c1 \in Nat /\ c1 <= L - 1
  <2>1. qhat * y0 <= (h + 1) * (h - 1)
    <3>1. qhat * y0 <= qhat * (h - 1)
      BY <1>1, <1>6, TimesMonotone
    <3>2. (h - 1) * qhat <= (h - 1) * (h + 1)
      BY <1>6, <1>7, TimesMonotone, h - 1 \in Nat
    <3>3. (h - 1) * qhat = qhat * (h - 1) /\ (h - 1) * (h + 1) = (h + 1) * (h - 1)
      BY <1>6
    <3>4. qhat * y0 \in Int /\ qhat * (h - 1) \in Int /\ (h + 1) * (h - 1) \in Int
      BY <1>1, <1>6
    <3> DEFINE t1 == qhat * y0
               t2 == qhat * (h - 1)
               t3 == (h + 1) * (h - 1)
    <3>5. t1 <= t2 /\ t2 <= t3 /\ t1 \in Int /\ t2 \in Int /\ t3 \in Int
      BY <3>1, <3>2, <3>3, <3>4
    <3> HIDE DEF t1, t2, t3
    <3>6. t1 <= t3
      BY <3>5
    <3> QED BY <3>6 DEF t1, t3
  <2>2. (h + 1) * (h - 1) = L - 1
    BY <1>3
  <2>3. qhat * y0 \in Nat
    BY <1>1, <1>6, SMTT(30)
  <2> QED BY <1>2, <2>1, <2>2, <2>3
<1>9. c2 \in Nat /\ c2 <= h * y1 - 1
  <2>1. h * (rhat + 1) <= h * y1
    BY <1>1, <1>6, TimesMonotone
  <2>2. h * (rhat + 1) = rhat * h + h /\ rhat * h \in Int
    BY <1>6
  <2>3. rhat * h \in Nat
    BY <1>6, SMTT(30)
  <2> QED BY <1>1, <1>3, <1>6, <2>1, <2>2, <2>3
<1>10. a * h + num = qhat * y - c1 + c2
  <2>1. a * h = h * (y1 * qhat) + rhat * h
    BY <1>1, <1>5, <1>6, SMTT(30)
  <2>2. qhat * y = h * (y1 * qhat) + qhat * y0
    BY <1>1, <1>5, <1>6, SMTT(30)
  <2>3. h * (y1 * qhat) \in Int /\ rhat * h \in Int /\ qhat * y0 \in Int
    BY <1>1, <1>5, <1>6
  <2> DEFINE t1 == h * (y1 * qhat)
             t2 == rhat * h
             t3 == qhat * y0
  <2>4. a * h = t1 + t2 /\ qhat * y = t1 + t3 /\ t1 \in Int /\ t2 \in Int /\ t3 \in Int
    BY <2>1, <2>2, <2>3
  <2> HIDE DEF t1, t2, t3
  <2>5. a * h + num = qhat * y - t3 + (t2 + num)
    BY <2>4
  <2> QED BY <2>5 DEF t2, t3
<1> HIDE DEF c1, c2
<1>11. /\ c1 \in 0 .. (L - 1) /\ c2 \in 0 .. (y - 1) /\ c1 - c2 <= 2 * y
  BY <1>1, <1>2, <1>3, <1>8, <1>9
<1> QED BY <1>10, <1>11 DEF c1, c2
----------------------------------------------------------------------------
(* A sum over the bits of a range is the number of its units.              *)

\* The n cells of m from f on hold zeros and ones.
Binary(m, f, n) == \A i \in 0 .. (n - 1) : m[f + i] \in {0, 1}

\* What the bit at place i of the number at f counts for.
Worth(m, f, i) == m[f + i] * 2 ^ i

\* One pair for each unit the bits at the places s are worth.
Units(m, f, s) == {p \in s \X Nat : p[2] < Worth(m, f, p[1])}

LEMMA WorthNat ==
  ASSUME NEW m, NEW f, NEW i \in Nat, m[f + i] \in {0, 1}
  PROVE  Worth(m, f, i) \in Nat /\ Worth(m, f, i) = m[f + i] * Power(i)
<1>1. Power(i) \in Nat
  BY PowerNat
<1>2. Worth(m, f, i) = m[f + i] * Power(i)
  BY DEF Worth, Power
<1> QED BY <1>1, <1>2

\* The bit at one more place adds what it is worth.
LEMMA UnitsAdd ==
  ASSUME NEW m, NEW f, NEW s \in SUBSET Nat, NEW x \in Nat, x \notin s,
         m[f + x] \in {0, 1}, IsFiniteSet(Units(m, f, s))
  PROVE  /\ IsFiniteSet(Units(m, f, s \cup {x}))
         /\ Cardinality(Units(m, f, s \cup {x})) = Worth(m, f, x) + Cardinality(Units(m, f, s))
<1> DEFINE g == Worth(m, f, x)
           U == Units(m, f, s)
           C == {x} \X (0 .. (g - 1))
<1>1. g \in Nat
  BY WorthNat
<1>2. Units(m, f, s \cup {x}) = C \cup U
  <2>1. \A p \in s \X Nat : p[1] \in s
    OBVIOUS
  <2>2. Units(m, f, s \cup {x}) = {p \in {x} \X Nat : p[2] < Worth(m, f, p[1])} \cup U
    BY DEF Units
  <2>3. \A p \in {x} \X Nat : p[1] = x
    OBVIOUS
  <2>4. {p \in {x} \X Nat : p[2] < Worth(m, f, p[1])} = {p \in {x} \X Nat : p[2] < g}
    BY <2>3
  <2> HIDE DEF g
  <2>5. {p \in {x} \X Nat : p[2] < g} = C
    BY <1>1
  <2> QED BY <2>2, <2>4, <2>5
<1>3. C \cap U = {}
  BY DEF Units
<1>4. IsFiniteSet(C) /\ Cardinality(C) = g
  <2> HIDE DEF g
  <2>1. IsFiniteSet(0 .. (g - 1)) /\ Cardinality(0 .. (g - 1)) = g
    <3>1. /\ IsFiniteSet(0 .. (g - 1))
          /\ Cardinality(0 .. (g - 1)) = IF 0 > g - 1 THEN 0 ELSE (g - 1) - 0 + 1
      BY <1>1, FS_Interval
    <3> QED BY <1>1, <3>1
  <2>2. IsFiniteSet({x}) /\ Cardinality({x}) = 1
    BY FS_Singleton
  <2>3. IsFiniteSet(C) /\ Cardinality(C) = Cardinality({x}) * Cardinality(0 .. (g - 1))
    BY <2>1, <2>2, FS_Product
  <2>4. Cardinality(C) = 1 * g
    BY <2>1, <2>2, <2>3
  <2> QED BY <1>1, <2>3, <2>4
<1> HIDE DEF C, U
<1>5. IsFiniteSet(C \cup U) /\ Cardinality(C \cup U) = Cardinality(C) + Cardinality(U) - Cardinality(C \cap U)
  BY <1>4, FS_Union DEF U
<1>6. Cardinality(C \cap U) = 0
  BY <1>3, FS_EmptySet
<1>7. Cardinality(U) \in Nat
  BY FS_CardinalityType DEF U
<1>8. Cardinality(C \cup U) = g + Cardinality(U)
  <2> HIDE DEF g
  <2> QED BY <1>1, <1>4, <1>5, <1>6, <1>7
<1> QED BY <1>2, <1>5, <1>8 DEF U

LEMMA UnitsNone == \A m, f : IsFiniteSet(Units(m, f, {})) /\ Cardinality(Units(m, f, {})) = 0
<1>1. \A m, f : Units(m, f, {}) = {}
  BY DEF Units
<1> QED BY <1>1, FS_EmptySet

LEMMA UnitsFinite ==
  ASSUME NEW m, NEW f, NEW n \in Nat, Binary(m, f, n), NEW s \in SUBSET (0 .. (n - 1))
  PROVE  IsFiniteSet(Units(m, f, s))
<1> DEFINE S == {k \in Nat : Binary(m, f, k) => IsFiniteSet(Units(m, f, 0 .. (k - 1)))}
<1>1. 0 \in S
  <2>1. 0 .. (0 - 1) = {}
    OBVIOUS
  <2> QED BY <2>1, UnitsNone
<1>2. ASSUME NEW k \in Nat, k \in S PROVE k + 1 \in S
  <2> SUFFICES ASSUME Binary(m, f, k + 1) PROVE IsFiniteSet(Units(m, f, 0 .. ((k + 1) - 1)))
    OBVIOUS
  <2>1. /\ \A i \in 0 .. (k - 1) : i \in 0 .. ((k + 1) - 1)
        /\ k \in 0 .. ((k + 1) - 1) /\ k \notin 0 .. (k - 1)
        /\ 0 .. ((k + 1) - 1) = 0 .. (k - 1) \cup {k}
        /\ 0 .. (k - 1) \in SUBSET Nat
    OBVIOUS
  <2>2. Binary(m, f, k) /\ m[f + k] \in {0, 1}
    BY <2>1 DEF Binary
  <2>3. IsFiniteSet(Units(m, f, 0 .. (k - 1)))
    BY <1>2, <2>2
  <2> DEFINE t == 0 .. (k - 1)
  <2> HIDE DEF t
  <2>4. IsFiniteSet(Units(m, f, t \cup {k}))
    BY <2>1, <2>2, <2>3, UnitsAdd DEF t
  <2> QED BY <2>1, <2>4 DEF t
<1> HIDE DEF S
<1>3. n \in S
  BY <1>1, <1>2, Induction
<1>4. IsFiniteSet(Units(m, f, 0 .. (n - 1)))
  BY <1>3 DEF S
<1>5. Units(m, f, s) \in SUBSET Units(m, f, 0 .. (n - 1))
  BY DEF Units
<1> QED BY <1>4, <1>5, FS_Subset
=============================================================================
