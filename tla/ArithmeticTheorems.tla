------------------------- MODULE ArithmeticTheorems -------------------------
(***************************************************************************)
(* The arithmetic is right for every width of a word and of a half word,   *)
(* every memory, range and operand: transform, addition, multiplication    *)
(* and division leave the number they should, change nothing else and      *)
(* dereference no word outside their ranges, and the double-word           *)
(* instructions are exact.  So are, for every size, to_string and          *)
(* from_string in every base the code supports, the literals, and the      *)
(* conversions between integrals and bit arrays.                           *)
(*                                                                         *)
(* The numbers are sums over the bits of a range.  The lemmas about them   *)
(* need induction, which is had from the least element of a set of numbers *)
(* that refute the claim; and a sum is the number of its units, so that    *)
(* what sums obey follows from cardinalities.  Each algorithm has an       *)
(* invariant, in the arithmetic of numbers, and a lemma for each step.     *)
(***************************************************************************)
EXTENDS MCArithmetic, BitWordTheorems, FiniteSetTheorems, SequenceTheorems

----------------------------------------------------------------------------
(* Numbers in binary.                                                      *)

\* The number the n bits of m at f hold, least significant first.
Number(m, f, n) == Divide!Number(m, f, n)

\* The sum a number is defined as counts the units its bits are worth: the order
\* in which the fold takes the places does not matter.
LEMMA NumberUnits ==
  ASSUME NEW m, NEW f, NEW n \in Nat, Binary(m, f, n)
  PROVE  Number(m, f, n) = Cardinality(Units(m, f, 0 .. (n - 1)))
<1> DEFINE N     == 0 .. (n - 1)
           x(s)  == CHOOSE i \in s : TRUE
           F     == [s \in SUBSET N |-> Cardinality(Units(m, f, s))]
           Eq(G) == G = [s \in SUBSET N |-> IF s = {} THEN 0 ELSE Worth(m, f, x(s)) + G[s \ {x(s)}]]
           G     == CHOOSE g : Eq(g)
<1>1. Number(m, f, n) = G[N]
  BY DEF Number, Divide!Number, Divide!MapThenSumSet, Divide!MapThenFoldSet, Worth
<1>2. ASSUME NEW s \in SUBSET N, s # {}
      PROVE  /\ x(s) \in s /\ s \ {x(s)} \in SUBSET N
             /\ F[s] = Worth(m, f, x(s)) + F[s \ {x(s)}]
  <2>1. x(s) \in s /\ x(s) \in N
    BY <1>2
  <2> DEFINE y == x(s)
             t == s \ {y}
  <2>2. y \in Nat /\ t \in SUBSET Nat /\ y \notin t /\ t \in SUBSET N /\ s = t \cup {y}
    BY <2>1
  <2>3. m[f + y] \in {0, 1}
    BY <2>1 DEF Binary
  <2> HIDE DEF y, t
  <2>4. IsFiniteSet(Units(m, f, t))
    BY <2>2, UnitsFinite
  <2>5. Cardinality(Units(m, f, t \cup {y})) = Worth(m, f, y) + Cardinality(Units(m, f, t))
    BY <2>2, <2>3, <2>4, UnitsAdd
  <2>6. F[s] = Worth(m, f, y) + F[t]
    BY <2>2, <2>5
  <2> HIDE DEF F
  <2> QED BY <2>1, <2>2, <2>6 DEF y, t
<1>3. F[{}] = 0
  BY UnitsNone
<1>4. Eq(F)
  <2> DEFINE R == [s \in SUBSET N |-> IF s = {} THEN 0 ELSE Worth(m, f, x(s)) + F[s \ {x(s)}]]
  <2>1. F = [s \in SUBSET N |-> F[s]]
    OBVIOUS
  <2> HIDE DEF F, x, N
  <2>2. \A s \in SUBSET N : F[s] = R[s]
    BY <1>2, <1>3
  <2>3. R = [s \in SUBSET N |-> R[s]]
    OBVIOUS
  <2> HIDE DEF R
  <2>4. F = R
    BY <2>1, <2>2, <2>3
  <2> QED BY <2>4 DEF R, Eq
<1>5. Eq(G)
  BY <1>4
<1>6. \A s \in SUBSET N : G[s] = IF s = {} THEN 0 ELSE Worth(m, f, x(s)) + G[s \ {x(s)}]
  <2> HIDE DEF G
  <2> QED BY <1>5
<1> DEFINE S == {k \in Nat : \A s \in SUBSET N : Cardinality(s) = k => G[s] = F[s]}
<1> HIDE DEF G, F, x
<1>7. \A s \in SUBSET N : IsFiniteSet(s) /\ Cardinality(s) \in Nat
  <2>1. IsFiniteSet(N)
    BY FS_Interval, n - 1 \in Int, 0 \in Int
  <2> HIDE DEF N
  <2> QED BY <2>1, FS_Subset, FS_CardinalityType
<1> HIDE DEF N
<1>8. 0 \in S
  <2>1. ASSUME NEW s \in SUBSET N, Cardinality(s) = 0 PROVE G[s] = F[s]
    <3>1. s = {}
      BY <1>7, <2>1, FS_EmptySet
    <3> QED BY <1>3, <1>6, <3>1
  <2> QED BY <2>1
<1>9. ASSUME NEW k \in Nat, k \in S PROVE k + 1 \in S
  <2>1. ASSUME NEW s \in SUBSET N, Cardinality(s) = k + 1 PROVE G[s] = F[s]
    <3>1. s # {}
      BY <2>1, FS_EmptySet
    <3>2. x(s) \in s /\ s \ {x(s)} \in SUBSET N /\ F[s] = Worth(m, f, x(s)) + F[s \ {x(s)}]
      BY <1>2, <3>1
    <3>3. Cardinality(s \ {x(s)}) = Cardinality(s) - 1
      BY <1>7, <3>2, FS_RemoveElement
    <3>4. Cardinality(s \ {x(s)}) = k
      BY <2>1, <3>3
    <3>5. G[s \ {x(s)}] = F[s \ {x(s)}]
      BY <1>9, <3>2, <3>4
    <3>6. G[s] = Worth(m, f, x(s)) + G[s \ {x(s)}]
      BY <1>6, <3>1
    <3> QED BY <3>2, <3>5, <3>6
  <2> QED BY <2>1
<1> HIDE DEF S
<1>10. \A k \in Nat : k \in S
  BY <1>8, <1>9, Induction
<1>11. Cardinality(N) \in Nat /\ N \in SUBSET N
  BY <1>7
<1>12. G[N] = F[N]
  BY <1>10, <1>11 DEF S
<1>13. F[N] = Cardinality(Units(m, f, N))
  BY <1>11 DEF F
<1> QED BY <1>1, <1>12, <1>13 DEF N

LEMMA NumberNone == \A m, f : Number(m, f, 0) = 0
<1>1. 0 .. (0 - 1) = {}
  OBVIOUS
<1>2. ASSUME NEW m, NEW f PROVE Number(m, f, 0) = 0
  <2>1. Binary(m, f, 0)
    BY DEF Binary
  <2>2. Number(m, f, 0) = Cardinality(Units(m, f, 0 .. (0 - 1)))
    BY <2>1, NumberUnits
  <2> QED BY <1>1, <2>2, UnitsNone
<1> QED BY <1>2

\* One more bit.
LEMMA NumberStep ==
  ASSUME NEW m, NEW f, NEW n \in Nat, Binary(m, f, n + 1)
  PROVE  /\ Binary(m, f, n) /\ m[f + n] \in {0, 1}
         /\ Number(m, f, n) \in Nat
         /\ Number(m, f, n + 1) = Number(m, f, n) + m[f + n] * Power(n)
<1>1. /\ \A i \in 0 .. (n - 1) : i \in 0 .. ((n + 1) - 1)
      /\ n \in 0 .. ((n + 1) - 1) /\ n \notin 0 .. (n - 1) /\ n + 1 \in Nat
      /\ 0 .. ((n + 1) - 1) = 0 .. (n - 1) \cup {n}
      /\ 0 .. (n - 1) \in SUBSET Nat
  OBVIOUS
<1>2. Binary(m, f, n) /\ m[f + n] \in {0, 1}
  BY <1>1 DEF Binary
<1> DEFINE t == 0 .. (n - 1)
<1> HIDE DEF t
<1>3. IsFiniteSet(Units(m, f, t))
  BY <1>2, UnitsFinite DEF t
<1>4. Cardinality(Units(m, f, t \cup {n})) = Worth(m, f, n) + Cardinality(Units(m, f, t))
  BY <1>1, <1>2, <1>3, UnitsAdd DEF t
<1>5. Number(m, f, n) = Cardinality(Units(m, f, t))
  BY <1>2, NumberUnits DEF t
<1>6. Number(m, f, n + 1) = Cardinality(Units(m, f, t \cup {n}))
  BY <1>1, NumberUnits DEF t
<1>7. Cardinality(Units(m, f, t)) \in Nat
  BY <1>3, FS_CardinalityType
<1>8. Worth(m, f, n) \in Nat /\ Worth(m, f, n) = m[f + n] * Power(n)
  BY <1>2, WorthNat
<1> QED BY <1>2, <1>4, <1>5, <1>6, <1>7, <1>8

LEMMA NumberRange ==
  ASSUME NEW m, NEW f, NEW n \in Nat, Binary(m, f, n)
  PROVE  Number(m, f, n) \in Nat /\ Number(m, f, n) < Power(n)
<1> DEFINE S == {k \in Nat : Binary(m, f, k) => Number(m, f, k) < Power(k)}
<1>1. 0 \in S
  BY NumberNone, PowerZero
<1>2. ASSUME NEW k \in Nat, k \in S PROVE k + 1 \in S
  <2> SUFFICES ASSUME Binary(m, f, k + 1) PROVE Number(m, f, k + 1) < Power(k + 1)
    OBVIOUS
  <2>1. /\ Binary(m, f, k) /\ m[f + k] \in {0, 1} /\ Number(m, f, k) \in Nat
        /\ Number(m, f, k + 1) = Number(m, f, k) + m[f + k] * Power(k)
    BY NumberStep
  <2>2. Number(m, f, k) < Power(k) /\ Power(k) \in Nat /\ Power(k + 1) = 2 * Power(k)
    BY <1>2, <2>1, PowerNat, PowerStep
  <2>3. m[f + k] * Power(k) = 0 \/ m[f + k] * Power(k) = Power(k)
    BY <2>1, <2>2
  <2> QED BY <2>1, <2>2, <2>3
<1> HIDE DEF S
<1>3. n \in S
  BY <1>1, <1>2, Induction
<1>4. Number(m, f, n) \in Nat
  <2>1. IsFiniteSet(Units(m, f, 0 .. (n - 1)))
    BY UnitsFinite
  <2> QED BY <2>1, NumberUnits, FS_CardinalityType
<1> QED BY <1>3, <1>4 DEF S

\* A number is that of its bits, wherever they are.
LEMMA NumberSame ==
  ASSUME NEW m, NEW f, NEW w, NEW g, NEW n \in Nat, Binary(m, f, n),
         \A i \in 0 .. (n - 1) : w[g + i] = m[f + i]
  PROVE  Binary(w, g, n) /\ Number(w, g, n) = Number(m, f, n)
<1> DEFINE S == {k \in Nat : k <= n => Number(w, g, k) = Number(m, f, k)}
<1>1. 0 \in S
  BY NumberNone
<1>2. ASSUME NEW k \in Nat, k \in S PROVE k + 1 \in S
  <2> SUFFICES ASSUME k + 1 <= n PROVE Number(w, g, k + 1) = Number(m, f, k + 1)
    OBVIOUS
  <2>1. k \in 0 .. (n - 1) /\ \A i \in 0 .. ((k + 1) - 1) : i \in 0 .. (n - 1)
    OBVIOUS
  <2>2. Binary(m, f, k + 1) /\ Binary(w, g, k + 1) /\ w[g + k] = m[f + k]
    BY <2>1 DEF Binary
  <2>3. /\ Number(m, f, k + 1) = Number(m, f, k) + m[f + k] * Power(k)
        /\ Number(w, g, k + 1) = Number(w, g, k) + w[g + k] * Power(k)
    BY <2>2, NumberStep
  <2>4. Number(w, g, k) = Number(m, f, k)
    BY <1>2
  <2> QED BY <2>2, <2>3, <2>4
<1> HIDE DEF S
<1>3. n \in S
  BY <1>1, <1>2, Induction
<1> QED BY <1>3 DEF S, Binary

\* The low a bits and the b bits above them.
LEMMA NumberSplit ==
  ASSUME NEW m, NEW f \in Int, NEW a \in Nat, NEW b \in Nat, Binary(m, f, a + b)
  PROVE  /\ Binary(m, f, a) /\ Binary(m, f + a, b)
         /\ Number(m, f, a + b) = Number(m, f, a) + Power(a) * Number(m, f + a, b)
<1>1. Binary(m, f, a)
  <2>1. \A i \in 0 .. (a - 1) : i \in 0 .. ((a + b) - 1)
    OBVIOUS
  <2> QED BY <2>1 DEF Binary
<1>2. ASSUME NEW i \in 0 .. (b - 1) PROVE m[(f + a) + i] = m[f + (a + i)] /\ m[f + (a + i)] \in {0, 1}
  <2>1. a + i \in 0 .. ((a + b) - 1) /\ (f + a) + i = f + (a + i)
    OBVIOUS
  <2> QED BY <2>1 DEF Binary
<1> DEFINE S == {k \in Nat : k <= b =>
                   Number(m, f, a + k) = Number(m, f, a) + Power(a) * Number(m, f + a, k)}
<1>3. Number(m, f, a) \in Nat /\ Power(a) \in Nat
  BY <1>1, NumberRange, PowerNat
<1>4. 0 \in S
  <2>1. a + 0 = a /\ Number(m, f + a, 0) = 0
    BY NumberNone
  <2> QED BY <1>3, <2>1
<1>5. ASSUME NEW k \in Nat, k \in S PROVE k + 1 \in S
  <2> SUFFICES ASSUME k + 1 <= b
               PROVE  Number(m, f, a + (k + 1)) = Number(m, f, a) + Power(a) * Number(m, f + a, k + 1)
    OBVIOUS
  <2>1. /\ \A i \in 0 .. ((k + 1) - 1) : i \in 0 .. (b - 1)
        /\ k \in 0 .. (b - 1) /\ a + k \in Nat /\ (a + k) + 1 = a + (k + 1)
        /\ \A i \in 0 .. (((a + k) + 1) - 1) : i \in 0 .. ((a + b) - 1)
    OBVIOUS
  <2>2. Binary(m, f, (a + k) + 1)
    BY <2>1 DEF Binary
  <2>3. Binary(m, f + a, k + 1) /\ m[(f + a) + k] = m[f + (a + k)] /\ m[f + (a + k)] \in {0, 1}
    BY <2>1, <1>2 DEF Binary
  <2>4. Number(m, f, (a + k) + 1) = Number(m, f, a + k) + m[f + (a + k)] * Power(a + k)
    BY <2>1, <2>2, NumberStep
  <2>5. /\ Number(m, f + a, k) \in Nat
        /\ Number(m, f + a, k + 1) = Number(m, f + a, k) + m[f + (a + k)] * Power(k)
    BY <2>3, NumberStep
  <2>6. Number(m, f, a + k) = Number(m, f, a) + Power(a) * Number(m, f + a, k)
    BY <1>5
  <2>7. Power(a + k) = Power(a) * Power(k) /\ Power(k) \in Nat
    BY PowerSum, PowerNat
  <2> DEFINE A == Number(m, f, a)
             B == Number(m, f + a, k)
             P == Power(a)
             Q == Power(k)
             c == m[f + (a + k)]
  <2> HIDE DEF A, B, P, Q, c
  <2>8. /\ A \in Nat /\ B \in Nat /\ P \in Nat /\ Q \in Nat /\ c \in {0, 1}
        /\ Number(m, f, (a + k) + 1) = (A + P * B) + c * (P * Q)
        /\ Number(m, f + a, k + 1) = B + c * Q
    BY <1>3, <2>3, <2>4, <2>5, <2>6, <2>7 DEF A, B, P, Q, c
  <2>9. (A + P * B) + c * (P * Q) = A + P * (B + c * Q)
    BY <2>8
  <2> QED BY <2>1, <2>8, <2>9 DEF A, P
<1> HIDE DEF S
<1>6. b \in S
  BY <1>4, <1>5, Induction
<1>7. Binary(m, f + a, b)
  BY <1>2 DEF Binary
<1> QED BY <1>1, <1>6, <1>7 DEF S

\* The digits of v, put back together: what ToWord keeps of a number.
LEMMA NumberDigits ==
  ASSUME NEW v \in Nat, NEW w, NEW f, NEW n \in Nat,
         \A i \in 0 .. (n - 1) : w[f + i] = (v \div 2 ^ i) % 2
  PROVE  Binary(w, f, n) /\ Number(w, f, n) = v % Power(n)
<1>1. ASSUME NEW i \in 0 .. (n - 1)
      PROVE  /\ w[f + i] = (v \div Power(i)) % 2 /\ w[f + i] \in {0, 1}
             /\ v % Power(i + 1) = (v % Power(i)) + w[f + i] * Power(i)
  <2>1. w[f + i] = (v \div Power(i)) % 2
    BY DEF Power
  <2>2. i \in Nat /\ Power(i) \in Nat /\ Power(i) >= 1 /\ Power(i + 1) = 2 * Power(i)
    BY PowerPositive, PowerStep
  <2> QED BY <2>1, <2>2, DigitStep
<1> DEFINE S == {k \in Nat : k <= n => Number(w, f, k) = v % Power(k)}
<1>2. 0 \in S
  <2>1. v % 1 = 0
    OBVIOUS
  <2> QED BY <2>1, NumberNone, PowerZero
<1>3. ASSUME NEW k \in Nat, k \in S PROVE k + 1 \in S
  <2> SUFFICES ASSUME k + 1 <= n PROVE Number(w, f, k + 1) = v % Power(k + 1)
    OBVIOUS
  <2>1. k \in 0 .. (n - 1) /\ \A i \in 0 .. ((k + 1) - 1) : i \in 0 .. (n - 1)
    OBVIOUS
  <2>2. Binary(w, f, k + 1)
    BY <1>1, <2>1 DEF Binary
  <2>3. Number(w, f, k + 1) = Number(w, f, k) + w[f + k] * Power(k)
    BY <2>2, NumberStep
  <2>4. Number(w, f, k) = v % Power(k)
    BY <1>3
  <2> QED BY <1>1, <2>1, <2>3, <2>4
<1> HIDE DEF S
<1>4. n \in S
  BY <1>2, <1>3, Induction
<1>5. Binary(w, f, n)
  BY <1>1 DEF Binary
<1> QED BY <1>4, <1>5 DEF S

----------------------------------------------------------------------------
(* The operators of the instances are the same, and those of BitWord.      *)

LEMMA NumberWords ==
  /\ \A m, f, n : /\ Add!Number(m, f, n) = Number(m, f, n)
                  /\ Multiply!Number(m, f, n) = Number(m, f, n)
                  /\ Divide!Number(m, f, n) = Number(m, f, n)
  /\ \A w : Add!Value(w) = Number(w, 0, W) /\ Multiply!Value(w) = Number(w, 0, W)
  /\ Add!Limit = Power(W) /\ Multiply!Limit = Power(W) /\ Divide!Limit = Power(W)
<1>1. \A m, f, n : /\ Add!Number(m, f, n) = Number(m, f, n)
                   /\ Multiply!Number(m, f, n) = Number(m, f, n)
  BY DEF Add!Number, Multiply!Number, Number, Divide!Number, Add!MapThenSumSet,
         Multiply!MapThenSumSet, Divide!MapThenSumSet, Add!MapThenFoldSet,
         Multiply!MapThenFoldSet, Divide!MapThenFoldSet
<1>2. \A m, f, n : Divide!Number(m, f, n) = Number(m, f, n)
  BY DEF Number
<1>3. \A w : Add!Value(w) = Number(w, 0, W) /\ Multiply!Value(w) = Number(w, 0, W)
  BY <1>1 DEF Add!Value, Multiply!Value
<1>4. Add!Limit = Power(W) /\ Multiply!Limit = Power(W) /\ Divide!Limit = Power(W)
  BY DEF Add!Limit, Multiply!Limit, Divide!Limit, Power
<1> QED BY <1>1, <1>2, <1>3, <1>4

----------------------------------------------------------------------------
(* transform with bit_not                                                  *)

LEMMA NotWords ==
  /\ Not!BitPos = BitPos /\ Not!MemBits = MemBits /\ Not!Addr = Addr
  /\ \A a : Not!Pos(a) = Pos(a) /\ Not!Base(a) = Base(a)
  /\ \A m, b, w : Not!Store(m, b, w) = Store(m, b, w)
  /\ \A m, b : Not!Load(m, b) = Load(m, b)
  /\ \A w, k : Not!Lsl(w, k) = Lsl(w, k) /\ Not!MaskLow(w, k) = MaskLow(w, k)
  /\ \A v, w, s, k : Not!BitBlend(v, w, s, k) = BitBlend(v, w, s, k)
  /\ \A a, b : Not!Least(a, b) = Least(a, b)
  /\ \A m, a, k : Not!GetWord(m, a, k) = GetWord(m, a, k)
  /\ \A a, k : Not!GetWordLoads(a, k) = GetWordLoads(a, k)
  /\ \A a, b, c : Not!Holds(a, b, c) <=> Holds(a, b, c)
<1>1. /\ Not!BitPos = BitPos /\ Not!MemBits = MemBits /\ Not!Addr = Addr
      /\ \A a : Not!Pos(a) = Pos(a) /\ Not!Base(a) = Base(a)
  BY DEF Not!BitPos, Not!MemBits, Not!Addr, Not!Pos, Not!Base, BitPos, MemBits, Addr, Pos, Base
<1>2. /\ \A m, b, w : Not!Store(m, b, w) = Store(m, b, w)
      /\ \A m, b : Not!Load(m, b) = Load(m, b)
      /\ \A w, k : /\ Not!Lsr(w, k) = Lsr(w, k) /\ Not!Lsl(w, k) = Lsl(w, k)
                   /\ Not!MaskLow(w, k) = MaskLow(w, k)
      /\ \A v, w, s, k : Not!BitBlend(v, w, s, k) = BitBlend(v, w, s, k)
      /\ \A a, b : Not!Least(a, b) = Least(a, b)
      /\ \A a, k : Not!Spans(a, k) <=> Spans(a, k)
  BY <1>1 DEF Not!Store, Not!Load, Not!Lsr, Not!Lsl, Not!MaskLow, Not!BitBlend, Not!Least,
              Not!Spans, Store, Load, Lsr, Lsl, MaskLow, BitBlend, Least, Spans
<1>3. \A m, a, k : Not!GetWord(m, a, k) = GetWord(m, a, k)
  BY <1>1, <1>2 DEF Not!GetWord, GetWord
<1>4. \A a, k : Not!GetWordLoads(a, k) = GetWordLoads(a, k)
  BY <1>1, <1>2 DEF Not!GetWordLoads, GetWordLoads
<1> QED BY <1>1, <1>2, <1>3, <1>4 DEF Not!Holds, Holds

\* The memory with the first k bits of the destination complemented.
Flipped(k) ==
  [a \in Addr |-> IF d_first <= a /\ a < d_first + k THEN 1 - orig[first + (a - d_first)] ELSE orig[a]]

NotInv ==
  /\ Not!TypeOK /\ Not!AccessInRange
  /\ operand = 0 /\ carry = 0
  /\ d_first <= first \/ last <= d_first
  /\ mem = Flipped(src - first)
  /\ pc = "start" => src = first /\ it = Base(d_first)
  /\ pc \in {"bulk", "shifted"} /\ src < last => it = d_first + (src - first) /\ Pos(it) = 0
  /\ pc = "bulk" => Pos(src) = 0 /\ src <= Base(last)
  /\ pc = "done" => src = last

LEMMA NotFacts ==
  ASSUME NotInv
  PROVE  /\ mem \in [Addr -> {0, 1}] /\ orig \in [Addr -> {0, 1}] /\ DOMAIN mem = Addr
         /\ mem = [a \in Addr |-> mem[a]]
         /\ first \in Nat /\ last \in Nat /\ first <= last /\ last <= MemBits /\ MemBits \in Nat
         /\ d_first \in Nat /\ d_first + (last - first) <= MemBits
         /\ src \in Nat /\ first <= src /\ src <= last
         /\ remaining = last - src /\ remaining \in Nat
         /\ it \in Int /\ 0 <= it /\ it <= MemBits + W
         /\ W \in Nat /\ W > 0
         /\ Pos(d_first) \in 0 .. (W - 1) /\ Base(d_first) \in Int /\ d_first = Base(d_first) + Pos(d_first)
         /\ Pos(last) \in 0 .. (W - 1) /\ Base(last) \in Int /\ last = Base(last) + Pos(last)
<1>1. last \in Nat /\ d_first \in Nat
  BY DEF NotInv, Not!TypeOK
<1>2. /\ Pos(d_first) \in 0 .. (W - 1) /\ Base(d_first) \in Int /\ d_first = Base(d_first) + Pos(d_first)
      /\ Pos(last) \in 0 .. (W - 1) /\ Base(last) \in Int /\ last = Base(last) + Pos(last)
  BY <1>1, RangeFacts
<1> QED BY <1>1, <1>2, Widths, NotWords DEF NotInv, Not!TypeOK

\* The source bits not read yet are those of the call.
LEMMA NotSource ==
  ASSUME NotInv, NEW i \in 0 .. (remaining - 1)
  PROVE  src + i \in Addr /\ mem[src + i] = orig[first + ((src - first) + i)]
<1>1. src + i \in Addr /\ src + i = first + ((src - first) + i)
  <2>1. src + i \in Nat /\ src + i < MemBits /\ src + i = first + ((src - first) + i)
    BY NotFacts
  <2> QED BY <2>1, Widths
<1>2. ~(d_first <= src + i /\ src + i < d_first + (src - first))
  BY NotFacts DEF NotInv
<1>3. mem = Flipped(src - first)
  BY DEF NotInv
<1> QED BY <1>1, <1>2, <1>3 DEF Flipped

\* The l low bits of v are what is to be put after k bits of the destination.
Flips(v, k, l) == \A i \in 0 .. (l - 1) : v[i] = 1 - orig[first + (k + i)]

LEMMA FlippedGrows ==
  ASSUME d_first \in Int, NEW k \in Nat, NEW l \in Nat, NEW new, NEW v,
         Puts(Flipped(k), new, d_first + k, l, v), Flips(v, k, l)
  PROVE  new = Flipped(k + l)
<1>1. ASSUME NEW a \in Addr
      PROVE  new[a] = IF d_first <= a /\ a < d_first + (k + l)
                        THEN 1 - orig[first + (a - d_first)] ELSE orig[a]
  <2>1. a \in Int
    BY Widths
  <2>2. new[a] = IF d_first + k <= a /\ a < (d_first + k) + l THEN v[a - (d_first + k)] ELSE Flipped(k)[a]
    BY DEF Puts
  <2>3. Flipped(k)[a] = IF d_first <= a /\ a < d_first + k
                          THEN 1 - orig[first + (a - d_first)] ELSE orig[a]
    BY DEF Flipped
  <2>4. CASE d_first + k <= a /\ a < (d_first + k) + l
    <3>1. a - (d_first + k) \in 0 .. (l - 1) /\ k + (a - (d_first + k)) = a - d_first
          /\ d_first <= a /\ a < d_first + (k + l)
      BY <2>1, <2>4
    <3>2. v[a - (d_first + k)] = 1 - orig[first + (a - d_first)]
      BY <3>1 DEF Flips
    <3> QED BY <2>2, <2>4, <3>1, <3>2
  <2>5. CASE ~(d_first + k <= a /\ a < (d_first + k) + l)
    <3>1. (d_first <= a /\ a < d_first + (k + l)) <=> (d_first <= a /\ a < d_first + k)
      BY <2>1, <2>5
    <3> QED BY <2>2, <2>3, <2>5, <3>1
  <2> QED BY <2>4, <2>5
<1> QED BY <1>1 DEF Puts, Flipped

LEMMA FlippedType ==
  ASSUME NotInv, NEW k \in Nat, k <= last - first
  PROVE  Flipped(k) \in [Addr -> {0, 1}]
<1>1. ASSUME NEW a \in Addr, d_first <= a, a < d_first + k
      PROVE  1 - orig[first + (a - d_first)] \in {0, 1}
  <2>1. a \in Int
    BY Widths
  <2> DEFINE j == a - d_first
  <2>2. j \in Nat /\ j < last - first
    BY <1>1, <2>1, NotFacts
  <2> HIDE DEF j
  <2>3. first + j \in Nat /\ first + j < MemBits
    BY <2>2, NotFacts
  <2>4. first + j \in Addr
    BY <2>3, Widths
  <2>5. orig[first + j] \in {0, 1}
    BY <2>4, NotFacts
  <2> QED BY <2>5 DEF j
<1> QED BY <1>1, NotFacts DEF Flipped

\* What a step has to show: that it complements the next k bits, and where it
\* leaves the iterators.
LEMMA NotKeeps ==
  ASSUME NotInv, orig' = orig, first' = first, last' = last, d_first' = d_first,
         operand' = operand, carry' = carry,
         NEW k \in 0 .. remaining, NEW v, Puts(mem, mem', d_first + (src - first), k, v),
         \A i \in 0 .. (k - 1) : v[i] = 1 - mem[src + i],
         src' = src + k, remaining' = remaining - k,
         it' \in 0 .. (MemBits + W), pc' \in {"bulk", "shifted", "done"},
         used' \in SUBSET Int, \A b \in used' : Holds(b, first, last),
         d_used' \in SUBSET Int, \A b \in d_used' : Holds(b, d_first, d_first + (last - first)),
         pc' \in {"bulk", "shifted"} /\ k < remaining =>
           it' = d_first + (src - first) + k /\ Pos(it') = 0,
         pc' = "bulk" => Pos(src') = 0 /\ src' <= Base(last),
         pc' = "done" => k = remaining
  PROVE  NotInv'
<1> DEFINE c == src - first
<1>1. c \in Nat /\ k \in Nat /\ src' - first' = c + k /\ c + k <= last - first /\ k <= remaining
  BY NotFacts
<1>2. Flips(v, c, k)
  <2> SUFFICES ASSUME NEW i \in 0 .. (k - 1) PROVE v[i] = 1 - orig[first + (c + i)]
    BY DEF Flips
  <2>1. i \in 0 .. (remaining - 1)
    BY <1>1, NotFacts
  <2> QED BY <2>1, NotSource
<1>3. mem' = Flipped(c + k)
  <2>1. Puts(Flipped(c), mem', d_first + c, k, v)
    BY DEF NotInv
  <2> HIDE DEF c
  <2> QED BY <1>1, <1>2, <2>1, NotFacts, FlippedGrows
<1>4. mem' \in [Addr -> {0, 1}]
  <2> HIDE DEF c
  <2> QED BY <1>1, <1>3, FlippedType, NotFacts
<1>5. Flipped(src - first)' = mem'
  <2> HIDE DEF c
  <2>1. Flipped(src - first)' = Flipped(c + k)
    BY <1>1 DEF Flipped
  <2> QED BY <1>3, <2>1
<1>6. Not!TypeOK'
  <2>1. src' \in first' .. last' /\ remaining' = last' - src'
    BY <1>1, NotFacts
  <2>2. operand \in 0 .. (Not!Limit - 1) /\ carry \in 0 .. (Not!Limit - 1) /\ Not!Limit' = Not!Limit
    BY DEF NotInv, Not!TypeOK, Not!Limit
  <2> QED BY <1>4, <2>1, <2>2, NotFacts, NotWords DEF Not!TypeOK
<1>7. Not!AccessInRange'
  BY NotWords DEF Not!AccessInRange
<1>8. /\ Pos(it)' = Pos(it') /\ Pos(src)' = Pos(src')
      /\ Base(last)' = Base(last) /\ Base(d_first)' = Base(d_first)
  BY DEF Pos, Base
<1>9. /\ src' < last' <=> k < remaining
      /\ d_first' + (src' - first') = d_first + (src - first) + k
      /\ k = remaining => src' = last'
  BY <1>1, NotFacts
<1>10. /\ operand' = 0 /\ carry' = 0
       /\ d_first' <= first' \/ last' <= d_first'
  BY DEF NotInv
<1> QED BY <1>5, <1>6, <1>7, <1>8, <1>9, <1>10 DEF NotInv

\* A step that writes nothing.
LEMMA NotWaits ==
  ASSUME NotInv, orig' = orig, first' = first, last' = last, d_first' = d_first,
         operand' = operand, Not!PutNothing, pc' \in {"bulk", "shifted", "done"},
         pc' \in {"bulk", "shifted"} /\ src < last => it = d_first + (src - first) /\ Pos(it) = 0,
         pc' = "bulk" => Pos(src) = 0 /\ src <= Base(last),
         pc' = "done" => src = last
  PROVE  NotInv'
<1> DEFINE v == [i \in {} |-> Zero]
           c == d_first + (src - first)
<1>1. /\ mem' = mem /\ src' = src /\ carry' = carry /\ remaining' = remaining /\ it' = it
      /\ used' = {} /\ d_used' = {}
  BY DEF Not!PutNothing
<1>2. /\ 0 \in 0 .. remaining /\ src' = src + 0
      /\ remaining' = remaining - 0 /\ it' \in 0 .. (MemBits + W) /\ c \in Int /\ c + 0 = c
  BY <1>1, NotFacts
<1>3. 0 < remaining <=> src < last
  BY NotFacts
<1>4. src = last => 0 = remaining
  BY NotFacts
<1>5. Puts(mem, mem', c, 0, v)
  BY <1>1, <1>2, NotFacts, PutsNothing
<1>6. \A i \in 0 .. (0 - 1) : v[i] = 1 - mem[src + i]
  OBVIOUS
<1> HIDE DEF v
<1>7. pc' \in {"bulk", "shifted"} /\ 0 < remaining =>
        it' = d_first + (src - first) + 0 /\ Pos(it') = 0
  BY <1>1, <1>2, <1>3
<1> QED BY <1>1, <1>2, <1>4, <1>5, <1>6, <1>7, NotKeeps

\* The complements of the next k bits of the source.
NextFlips(k) == [i \in 0 .. (k - 1) |-> 1 - mem[src + i]]

\* Put is given a word that holds the next k bits of the source from p on, and
\* blends their complements into the word of the destination.
LEMMA NotPutIs ==
  ASSUME NotInv, NEW p \in Nat, NEW k \in 1 .. W, k <= remaining, p + k <= W,
         it + p = d_first + (src - first),
         NEW w, \A i \in 0 .. (k - 1) : w[p + i] = mem[src + i], Not!Put(w, p, k)
  PROVE  /\ Puts(mem, mem', d_first + (src - first), k, NextFlips(k))
         /\ \A i \in 0 .. (k - 1) : NextFlips(k)[i] = 1 - mem[src + i]
         /\ src' = src + k /\ remaining' = remaining - k /\ carry' = carry
         /\ it' = it + W /\ it' \in 0 .. (MemBits + W)
         /\ used' \in SUBSET Int /\ \A b \in used' : Holds(b, first, last)
         /\ d_used' \in SUBSET Int /\ \A b \in d_used' : Holds(b, d_first, d_first + (last - first))
<1> DEFINE z == [i \in BitPos |-> 1 - w[i]]
<1>1. /\ mem' = Store(mem, it, BitBlend(Load(mem, it), z, p, k)) /\ carry' = carry
      /\ used' = GetWordLoads(src, k) /\ d_used' = {it}
      /\ src' = src + k /\ it' = it + W /\ remaining' = remaining - k
  <2>1. Not!Apply(w, k) = {[word |-> z, carry |-> carry]}
    BY NotWords DEF Not!Apply, Not!BitNot
  <2> HIDE DEF z
  <2> QED BY <2>1, NotWords DEF Not!Put
<1>2. k \in Nat /\ 0 < k /\ k <= W /\ k \in 0 .. W /\ W \in Nat
  BY Widths
<1>3. ASSUME NEW i \in 0 .. (k - 1) PROVE z[p + i] = NextFlips(k)[i]
  <2>1. p + i \in BitPos
    BY <1>2 DEF BitPos
  <2> QED BY <2>1 DEF NextFlips
<1> HIDE DEF z
<1>4. Puts(mem, mem', it + p, k, NextFlips(k))
  BY <1>1, <1>2, <1>3, NotFacts, BlendPuts
<1>5. \A b \in GetWordLoads(src, k) : b \in Int /\ b < src + k /\ src < b + W
  BY GetWordAccess, NotFacts
<1>6. \A b \in used' : b \in Int /\ Holds(b, first, last)
  <2>1. src + k <= last /\ first <= src /\ src + k \in Int
    BY <1>2, NotFacts
  <2> QED BY <1>1, <1>2, <1>5, <2>1, NotFacts, HoldsIs
<1>7. Holds(it, d_first, d_first + (last - first)) /\ it <= MemBits
  BY <1>2, NotFacts, HoldsIs
<1>8. it' \in 0 .. (MemBits + W) /\ \A i \in 0 .. (k - 1) : NextFlips(k)[i] = 1 - mem[src + i]
  BY <1>1, <1>7, NotFacts DEF NextFlips
<1> QED BY <1>1, <1>4, <1>6, <1>7, <1>8, NotFacts

\* The bits get_word and a shift bring to position p on.
LEMMA NextWord ==
  ASSUME NEW s \in Nat, NEW p \in Nat, NEW k \in 1 .. W, p + k <= W, NEW i \in 0 .. (k - 1)
  PROVE  /\ GetWord(mem, s, k)[i] = mem[s + i]
         /\ MaskLow(GetWord(mem, s, k), k)[i] = mem[s + i]
         /\ Lsl(MaskLow(GetWord(mem, s, k), k), p)[p + i] = mem[s + i]
<1>1. k \in Nat /\ k \in 0 .. W /\ W \in Nat
  BY Widths
<1>2. p + i \in BitPos /\ p <= p + i /\ (p + i) - p = i /\ i \in BitPos /\ i < k
  BY <1>1 DEF BitPos
<1>3. Lsl(MaskLow(GetWord(mem, s, k), k), p)[p + i] = MaskLow(GetWord(mem, s, k), k)[i]
  BY <1>2, LslBit
<1>4. MaskLow(GetWord(mem, s, k), k)[i] = GetWord(mem, s, k)[i]
  BY <1>2 DEF MaskLow
<1>5. GetWord(mem, s, k)[i] = mem[s + i]
  BY <1>1, GetWordBit
<1> QED BY <1>3, <1>4, <1>5

LEMMA NotEmptyStep ==
  ASSUME NotInv, Not!Empty
  PROVE  NotInv'
<1>1. /\ pc = "start" /\ first = last /\ pc' = "done" /\ Not!PutNothing
      /\ orig' = orig /\ first' = first /\ last' = last /\ d_first' = d_first /\ operand' = operand
  BY DEF Not!Empty, Not!Call
<1>2. src = last
  BY <1>1 DEF NotInv
<1> QED BY <1>1, <1>2, NotWaits

\* Where Proceed goes on by whole words the next word is one of those up to last.
LEMMA NotProceeds ==
  ASSUME NotInv, NEW k \in 0 .. remaining, Not!Proceed(src + k, remaining - k)
  PROVE  /\ pc' \in {"bulk", "shifted"}
         /\ pc' = "bulk" => Pos(src + k) = 0 /\ src + k <= Base(last)
<1>1. pc' = IF Pos(src + k) = 0 /\ remaining - k > W THEN "bulk" ELSE "shifted"
  BY NotWords DEF Not!Proceed
<1>2. CASE Pos(src + k) = 0 /\ remaining - k > W
  <2>1. src + k \in Int /\ last \in Int /\ src + k < last
    BY <1>2, NotFacts
  <2>2. src + k = Base(last) \/ (src + k) + W <= Base(last)
    BY <1>2, <2>1, AlignedGap
  <2>3. src + k <= Base(last)
    BY <2>1, <2>2, NotFacts
  <2> QED BY <1>1, <1>2, <2>3
<1>3. CASE ~(Pos(src + k) = 0 /\ remaining - k > W)
  BY <1>1, <1>3
<1> QED BY <1>2, <1>3

LEMMA NotHeadStep ==
  ASSUME NotInv, Not!Head
  PROVE  NotInv'
<1> DEFINE p == Pos(d_first)
           k == IF p = 0 THEN 0 ELSE Least(remaining, W - p)
           w == Lsl(MaskLow(GetWord(mem, src, k), k), p)
<1>1. /\ pc = "start" /\ first # last
      /\ IF k = 0 THEN Not!PutNothing ELSE Not!Put(w, p, k)
      /\ Not!Proceed(src + k, remaining - k)
      /\ orig' = orig /\ first' = first /\ last' = last /\ d_first' = d_first /\ operand' = operand
      /\ src = first /\ it = Base(d_first)
  BY NotWords DEF Not!Head, Not!Call, NotInv
<1>2. /\ p \in Nat /\ p < W /\ it \in Int /\ d_first = it + p /\ d_first + (src - first) = d_first
      /\ remaining \in Nat /\ remaining > 0 /\ W \in Nat /\ d_first \in Nat
  BY <1>1, NotFacts
<1>3. Pos(it) = 0
  BY <1>1, NotFacts, BaseAligned
<1> HIDE DEF p
<1>4. CASE p = 0
  <2>1. k = 0 /\ Not!PutNothing /\ it = d_first + (src - first)
    BY <1>1, <1>2, <1>4
  <2>2. src + k = src /\ k \in 0 .. remaining
    BY <2>1, NotFacts
  <2> HIDE DEF k, w
  <2>3. /\ pc' \in {"bulk", "shifted"}
        /\ pc' = "bulk" => Pos(src) = 0 /\ src <= Base(last)
    BY <1>1, <2>2, NotProceeds
  <2> QED BY <1>1, <1>3, <2>1, <2>3, NotWaits
<1>5. CASE p # 0
  <2>1. /\ k \in 1 .. W /\ k <= remaining /\ p + k <= W /\ k # 0 /\ k \in 0 .. remaining
        /\ k < remaining => k = W - p
    BY <1>2, <1>5, LeastIs DEF Least
  <2> HIDE DEF k
  <2>2. \A i \in 0 .. (k - 1) : w[p + i] = mem[src + i]
    BY <1>2, <2>1, NextWord, NotFacts
  <2> HIDE DEF w
  <2>3. Not!Put(w, p, k) /\ it + p = d_first + (src - first)
    BY <1>1, <1>2, <2>1
  <2>4. /\ Puts(mem, mem', d_first + (src - first), k, NextFlips(k))
        /\ \A i \in 0 .. (k - 1) : NextFlips(k)[i] = 1 - mem[src + i]
        /\ src' = src + k /\ remaining' = remaining - k /\ carry' = carry
        /\ it' = it + W /\ it' \in 0 .. (MemBits + W)
        /\ used' \in SUBSET Int /\ \A b \in used' : Holds(b, first, last)
        /\ d_used' \in SUBSET Int /\ \A b \in d_used' : Holds(b, d_first, d_first + (last - first))
    BY <1>2, <2>1, <2>2, <2>3, NotPutIs
  <2>5. /\ pc' \in {"bulk", "shifted"}
        /\ pc' = "bulk" => Pos(src + k) = 0 /\ src + k <= Base(last)
    BY <1>1, <2>1, NotProceeds
  <2>6. Pos(it') = 0
    BY <1>2, <1>3, <2>4, AlignedStep
  <2>7. k < remaining => it' = d_first + (src - first) + k
    BY <1>2, <2>1, <2>4
  <2> QED BY <1>1, <2>1, <2>4, <2>5, <2>6, <2>7, NotKeeps
<1> QED BY <1>4, <1>5

\* A whole word of the destination.
LEMMA NotWordStep ==
  ASSUME NotInv, pc \in {"bulk", "shifted"}, pc' = pc, remaining >= W,
         pc = "bulk" => src # Base(last),
         orig' = orig, first' = first, last' = last, d_first' = d_first, operand' = operand,
         NEW w, \A i \in 0 .. (W - 1) : w[i] = mem[src + i], Not!Put(w, 0, W)
  PROVE  NotInv'
<1>1. W \in 1 .. W /\ W \in 0 .. remaining /\ 0 + W <= W /\ 0 \in Nat /\ src < last /\ W \in Nat
  BY NotFacts
<1>2. it = d_first + (src - first) /\ Pos(it) = 0
  BY <1>1 DEF NotInv
<1>3. it \in Int /\ it + 0 = d_first + (src - first) /\ W <= remaining
  BY <1>1, <1>2, NotFacts
<1>4. \A i \in 0 .. (W - 1) : w[0 + i] = mem[src + i]
  OBVIOUS
<1>5. /\ Puts(mem, mem', d_first + (src - first), W, NextFlips(W))
      /\ \A i \in 0 .. (W - 1) : NextFlips(W)[i] = 1 - mem[src + i]
      /\ src' = src + W /\ remaining' = remaining - W /\ carry' = carry
      /\ it' = it + W /\ it' \in 0 .. (MemBits + W)
      /\ used' \in SUBSET Int /\ \A b \in used' : Holds(b, first, last)
      /\ d_used' \in SUBSET Int /\ \A b \in d_used' : Holds(b, d_first, d_first + (last - first))
  BY <1>1, <1>3, <1>4, NotPutIs
<1>6. Pos(it') = 0 /\ it' = d_first + (src - first) + W
  BY <1>2, <1>3, <1>5, AlignedStep
<1>7. pc = "bulk" => Pos(src') = 0 /\ src' <= Base(last)
  <2> HAVE pc = "bulk"
  <2>1. Pos(src) = 0 /\ src \in Int /\ last \in Int /\ src < last
    BY <1>1, NotFacts DEF NotInv
  <2>2. src + W <= Base(last)
    BY <2>1, AlignedGap
  <2> QED BY <1>5, <2>1, <2>2, AlignedStep
<1> QED BY <1>1, <1>5, <1>6, <1>7, NotKeeps

LEMMA NotBulkStep ==
  ASSUME NotInv, Not!BulkWord
  PROVE  NotInv'
<1>1. /\ pc = "bulk" /\ pc' = pc /\ src # Base(last) /\ Not!Put(Load(mem, src), 0, W)
      /\ orig' = orig /\ first' = first /\ last' = last /\ d_first' = d_first /\ operand' = operand
      /\ Pos(src) = 0 /\ src <= Base(last)
  BY NotWords DEF Not!BulkWord, Not!Call, NotInv
<1>2. remaining >= W
  <2>1. src \in Int /\ last \in Int /\ src < last
    BY <1>1, NotFacts
  <2>2. src + W <= Base(last)
    BY <1>1, <2>1, AlignedGap
  <2> QED BY <2>2, NotFacts
<1>3. \A i \in 0 .. (W - 1) : Load(mem, src)[i] = mem[src + i]
  BY DEF Load, BitPos
<1> DEFINE w == Load(mem, src)
<1> HIDE DEF w
<1>4. \A i \in 0 .. (W - 1) : w[i] = mem[src + i]
  BY <1>3 DEF w
<1>5. Not!Put(w, 0, W)
  BY <1>1 DEF w
<1> QED BY <1>1, <1>2, <1>4, <1>5, NotWordStep

LEMMA NotShiftedStep ==
  ASSUME NotInv, Not!ShiftedWord
  PROVE  NotInv'
<1> DEFINE w == GetWord(mem, src, W)
<1>1. /\ pc = "shifted" /\ pc' = pc /\ remaining >= W /\ Not!Put(w, 0, W)
      /\ orig' = orig /\ first' = first /\ last' = last /\ d_first' = d_first /\ operand' = operand
  BY NotWords DEF Not!ShiftedWord, Not!Call
<1>2. \A i \in 0 .. (W - 1) : w[i] = mem[src + i]
  <2>1. W \in 1 .. W /\ 0 \in Nat /\ 0 + W <= W /\ src \in Nat
    BY NotFacts
  <2> QED BY <2>1, NextWord
<1> HIDE DEF w
<1> QED BY <1>1, <1>2, NotWordStep

LEMMA NotTailStep ==
  ASSUME NotInv, Not!Tail
  PROVE  NotInv'
<1>1. /\ \/ pc = "bulk" /\ src = Base(last)
         \/ pc = "shifted" /\ remaining < W
      /\ IF remaining > 0 THEN Not!Put(MaskLow(GetWord(mem, src, remaining), remaining), 0, remaining)
                          ELSE Not!PutNothing
      /\ pc' = "done"
      /\ orig' = orig /\ first' = first /\ last' = last /\ d_first' = d_first /\ operand' = operand
  BY NotWords DEF Not!Tail, Not!Call
<1>2. remaining < W
  BY <1>1, NotFacts
<1>3. CASE remaining > 0
  <2> DEFINE k == remaining
             w == MaskLow(GetWord(mem, src, k), k)
  <2>1. /\ k \in 1 .. W /\ k \in 0 .. remaining /\ k <= remaining /\ 0 + k <= W /\ 0 \in Nat
        /\ src < last /\ pc \in {"bulk", "shifted"} /\ Not!Put(w, 0, k) /\ src \in Nat
    BY <1>1, <1>2, <1>3, NotFacts
  <2>2. it = d_first + (src - first)
    BY <2>1 DEF NotInv
  <2>3. it + 0 = d_first + (src - first)
    BY <2>2, NotFacts
  <2>4. \A i \in 0 .. (k - 1) : w[i] = mem[src + i]
    BY <2>1, NextWord
  <2>5. \A i \in 0 .. (k - 1) : w[0 + i] = mem[src + i]
    BY <2>4
  <2> HIDE DEF w
  <2>6. /\ Puts(mem, mem', d_first + (src - first), k, NextFlips(k))
        /\ \A i \in 0 .. (k - 1) : NextFlips(k)[i] = 1 - mem[src + i]
        /\ src' = src + k /\ remaining' = remaining - k /\ carry' = carry
        /\ it' = it + W /\ it' \in 0 .. (MemBits + W)
        /\ used' \in SUBSET Int /\ \A b \in used' : Holds(b, first, last)
        /\ d_used' \in SUBSET Int /\ \A b \in d_used' : Holds(b, d_first, d_first + (last - first))
    BY <2>1, <2>3, <2>5, NotPutIs
  <2>7. k = remaining
    OBVIOUS
  <2> HIDE DEF k
  <2> QED BY <1>1, <2>1, <2>6, <2>7, NotKeeps
<1>4. CASE ~(remaining > 0)
  <2>1. src = last
    <3>1. src \in Nat /\ last \in Nat /\ src <= last /\ remaining = last - src
      BY NotFacts
    <3> QED BY <1>4, <3>1
  <2>2. Not!PutNothing
    BY <1>1, <1>4
  <2> QED BY <1>1, <2>1, <2>2, NotWaits
<1> QED BY <1>3, <1>4

LEMMA NotInit ==
  ASSUME Not!Init
  PROVE  NotInv
<1>1. /\ orig \in [Addr -> {0, 1}] /\ mem = orig
      /\ first \in 0 .. MemBits /\ last \in 0 .. MemBits /\ first <= last
      /\ d_first \in 0 .. (MemBits - (last - first))
      /\ d_first <= first \/ last <= d_first
      /\ operand \in 0 .. 0 /\ carry = 0
      /\ src = first /\ it = Base(d_first) /\ remaining = last - first
      /\ pc = "start" /\ used = {} /\ d_used = {}
  BY NotWords DEF Not!Init, Not!NotAhead
<1>2. /\ first \in Nat /\ last \in Nat /\ d_first \in Nat /\ MemBits \in Nat
      /\ d_first + (last - first) <= MemBits
      /\ src - first = 0 /\ last <= MemBits /\ d_first <= MemBits /\ W \in Nat
      /\ operand = 0
  BY <1>1, Widths
<1>3. Base(d_first) \in 0 .. (MemBits + W)
  <2>1. Base(d_first) \in Nat /\ Base(d_first) <= d_first
    BY <1>2, PosRange, BaseNat
  <2> QED BY <1>2, <2>1
<1>4. mem = Flipped(src - first)
  <2>1. \A a \in Addr : ~(d_first <= a /\ a < d_first + 0)
    BY <1>2, Widths
  <2> QED BY <1>1, <1>2, <2>1 DEF Flipped
<1>5. Not!TypeOK
  <2>1. src \in first .. last /\ remaining = last - src
    BY <1>1, <1>2
  <2>2. operand \in 0 .. (Not!Limit - 1) /\ carry \in 0 .. (Not!Limit - 1)
    <3>1. Not!Limit = Power(W) /\ Power(W) \in Nat /\ Power(W) >= 1
      BY <1>2, PowerPositive DEF Not!Limit, Power
    <3> QED BY <1>1, <1>2, <3>1
  <2> QED BY <1>1, <1>2, <1>3, <2>1, <2>2, NotWords DEF Not!TypeOK
<1>6. Not!AccessInRange
  BY <1>1 DEF Not!AccessInRange
<1> QED BY <1>1, <1>2, <1>4, <1>5, <1>6 DEF NotInv

LEMMA NotNext ==
  ASSUME NotInv, Not!Next
  PROVE  NotInv'
<1>1. CASE Not!Finished
  BY <1>1 DEF Not!Finished, Not!vars, NotInv, Not!TypeOK, Not!AccessInRange, Flipped
<1> QED BY <1>1, NotEmptyStep, NotHeadStep, NotBulkStep, NotShiftedStep, NotTailStep
        DEF Not!Next

LEMMA NotImplies ==
  ASSUME NotInv
  PROVE  Not!TypeOK /\ Not!NotCorrect /\ Not!OutsideIntact /\ Not!AccessInRange
<1> DEFINE c == src - first
<1>1. mem = Flipped(c) /\ c \in Nat /\ c <= last - first
  BY NotFacts DEF NotInv
<1>2. Not!NotCorrect
  BY <1>1, NotWords DEF Not!NotCorrect, Not!Written, Flipped
<1>3. ASSUME NEW a \in Addr, a < d_first \/ d_first + (last - first) <= a PROVE mem[a] = orig[a]
  <2>1. d_first \in Int /\ last - first \in Int
    BY NotFacts
  <2>2. a \in Int
    BY Widths
  <2> HIDE DEF c
  <2>3. ~(d_first <= a /\ a < d_first + c)
    BY <1>1, <1>3, <2>1, <2>2
  <2> QED BY <1>1, <2>3 DEF Flipped
<1>4. Not!OutsideIntact
  BY <1>3, NotWords DEF Not!OutsideIntact
<1> QED BY <1>2, <1>4 DEF NotInv

----------------------------------------------------------------------------
(* What the words of addition, multiplication and division hold.           *)

\* A word made of the digits of a number holds it, if it fits, and so does any
\* part of the word.
LEMMA ToWordIs ==
  ASSUME NEW v \in Nat
  PROVE  /\ \A n \in 0 .. W : Binary(Add!ToWord(v), 0, n) /\ Number(Add!ToWord(v), 0, n) = v % Power(n)
         /\ Multiply!ToWord(v) = Add!ToWord(v) /\ Divide!ToWord(v) = Add!ToWord(v)
<1>1. ASSUME NEW n \in 0 .. W
      PROVE  Binary(Add!ToWord(v), 0, n) /\ Number(Add!ToWord(v), 0, n) = v % Power(n)
  <2>1. n \in Nat /\ W \in Nat
    BY Widths
  <2>2. \A i \in 0 .. (n - 1) : Add!ToWord(v)[0 + i] = (v \div 2 ^ i) % 2
    BY <2>1 DEF Add!ToWord, Add!BitPos
  <2> QED BY <2>1, <2>2, NumberDigits
<1>2. Multiply!ToWord(v) = Add!ToWord(v) /\ Divide!ToWord(v) = Add!ToWord(v)
  BY DEF Multiply!ToWord, Add!ToWord, Divide!ToWord, Multiply!BitPos, Add!BitPos, Divide!BitPos
<1> QED BY <1>1, <1>2

\* The number of zeros.
LEMMA NumberZeros ==
  ASSUME NEW m, NEW f, NEW n \in Nat, \A i \in 0 .. (n - 1) : m[f + i] = 0
  PROVE  Binary(m, f, n) /\ Number(m, f, n) = 0
<1> DEFINE S == {k \in Nat : k <= n => Number(m, f, k) = 0}
<1>1. 0 \in S
  BY NumberNone
<1>2. ASSUME NEW k \in Nat, k \in S PROVE k + 1 \in S
  <2> SUFFICES ASSUME k + 1 <= n PROVE Number(m, f, k + 1) = 0
    OBVIOUS
  <2>1. k \in 0 .. (n - 1) /\ \A i \in 0 .. ((k + 1) - 1) : i \in 0 .. (n - 1)
    OBVIOUS
  <2>2. Binary(m, f, k + 1) /\ m[f + k] = 0
    BY <2>1 DEF Binary
  <2>3. Number(m, f, k + 1) = Number(m, f, k) + 0 * Power(k) /\ Number(m, f, k) = 0
    BY <1>2, <2>2, NumberStep
  <2>4. Power(k) \in Nat
    BY PowerNat
  <2> QED BY <2>3, <2>4
<1> HIDE DEF S
<1>3. n \in S
  BY <1>1, <1>2, Induction
<1> QED BY <1>3 DEF S, Binary

\* The n low bits of a word, and the others, shifted down.
LEMMA HighBits ==
  ASSUME NEW w, NEW n \in 0 .. W, Binary(w, 0, W)
  PROVE  /\ Binary(w, 0, n) /\ Binary(Lsr(w, n), 0, W)
         /\ Number(w, 0, W) = Number(w, 0, n) + Power(n) * Number(Lsr(w, n), 0, W)
<1> DEFINE u == Lsr(w, n)
           l == W - n
<1>1. n \in Nat /\ l \in Nat /\ n + l = W /\ l + n = W /\ W \in Nat
  BY Widths
<1>2. \A i \in 0 .. (l - 1) : u[0 + i] = w[n + i]
  <2> SUFFICES ASSUME NEW i \in 0 .. (l - 1) PROVE u[0 + i] = w[n + i]
    OBVIOUS
  <2>1. i \in BitPos /\ i + n < W /\ i + n = n + i /\ 0 + i = i
    BY <1>1 DEF BitPos
  <2> QED BY <2>1, LsrBit
<1>3. \A i \in 0 .. (n - 1) : u[l + i] = 0
  <2> SUFFICES ASSUME NEW i \in 0 .. (n - 1) PROVE u[l + i] = 0
    OBVIOUS
  <2>1. l + i \in BitPos /\ ~((l + i) + n < W)
    BY <1>1 DEF BitPos
  <2> QED BY <2>1, LsrBit, DigitsAssumption
<1> HIDE DEF u, l
<1>4. /\ Binary(w, 0, n) /\ Binary(w, 0 + n, l)
      /\ Number(w, 0, n + l) = Number(w, 0, n) + Power(n) * Number(w, 0 + n, l)
  <2>1. Binary(w, 0, n + l) /\ 0 \in Int
    BY <1>1
  <2> QED BY <1>1, <2>1, NumberSplit
<1>5. Binary(w, n, l) /\ Number(w, 0, W) = Number(w, 0, n) + Power(n) * Number(w, n, l)
  <2>1. 0 + n = n
    BY <1>1
  <2> QED BY <1>1, <1>4, <2>1
<1>6. Binary(u, 0, l) /\ Number(u, 0, l) = Number(w, n, l)
  BY <1>1, <1>2, <1>5, NumberSame
<1>7. Binary(u, l, n) /\ Number(u, l, n) = 0
  BY <1>1, <1>3, NumberZeros
<1>8. Binary(u, 0, l + n)
  <2> SUFFICES ASSUME NEW i \in 0 .. ((l + n) - 1) PROVE u[0 + i] \in {0, 1}
    BY DEF Binary
  <2>1. CASE i < l
    BY <1>1, <1>6, <2>1 DEF Binary
  <2>2. CASE i >= l
    <3>1. i - l \in 0 .. (n - 1) /\ l + (i - l) = 0 + i
      BY <1>1, <2>2
    <3> QED BY <1>3, <3>1
  <2> QED BY <1>1, <2>1, <2>2
<1>9. Number(u, 0, l + n) = Number(u, 0, l) + Power(l) * Number(u, 0 + l, n)
  BY <1>1, <1>8, NumberSplit
<1>10. Number(u, 0, W) = Number(u, 0, l)
  <2>1. 0 + l = l /\ Power(l) \in Nat /\ Number(u, 0, l) \in Nat
    BY <1>1, <1>6, PowerNat, NumberRange
  <2> QED BY <1>1, <1>7, <1>9, <2>1
<1> QED BY <1>1, <1>4, <1>5, <1>6, <1>8, <1>10 DEF u

\* What get_word hands the function object for the n bits at a: their number.
LEMMA FetchedIs ==
  ASSUME NEW m, NEW a \in Nat, NEW n \in 1 .. W, Binary(m, a, n), NEW w,
         \/ w = MaskLow(GetWord(m, a, n), n)
         \/ n = W /\ w = GetWord(m, a, n)
  PROVE  Binary(w, 0, W) /\ Number(w, 0, W) = Number(m, a, n) /\ Number(m, a, n) \in Nat
<1> DEFINE l == W - n
<1>1. n \in Nat /\ n \in 0 .. W /\ l \in Nat /\ n + l = W /\ W \in Nat
  BY Widths
<1>2. \A i \in 0 .. (n - 1) : w[0 + i] = m[a + i]
  <2> SUFFICES ASSUME NEW i \in 0 .. (n - 1) PROVE w[i] = m[a + i]
    OBVIOUS
  <2>1. i \in BitPos /\ i < n
    BY <1>1 DEF BitPos
  <2>2. GetWord(m, a, n)[i] = m[a + i]
    BY <1>1, GetWordBit
  <2> QED BY <2>1, <2>2 DEF MaskLow
<1>3. \A i \in 0 .. (l - 1) : w[n + i] = 0
  <2> SUFFICES ASSUME NEW i \in 0 .. (l - 1) PROVE w[n + i] = 0
    OBVIOUS
  <2>1. n + i \in BitPos /\ ~(n + i < n) /\ n # W
    BY <1>1 DEF BitPos
  <2> QED BY <2>1, DigitsAssumption DEF MaskLow
<1> HIDE DEF l
<1>4. Binary(w, 0, n) /\ Number(w, 0, n) = Number(m, a, n)
  BY <1>1, <1>2, NumberSame
<1>5. Binary(w, n, l) /\ Number(w, n, l) = 0
  BY <1>1, <1>3, NumberZeros
<1>6. Binary(w, 0, n + l)
  <2> SUFFICES ASSUME NEW i \in 0 .. ((n + l) - 1) PROVE w[0 + i] \in {0, 1}
    BY DEF Binary
  <2>1. CASE i < n
    BY <1>1, <1>4, <2>1 DEF Binary
  <2>2. CASE i >= n
    <3>1. i - n \in 0 .. (l - 1) /\ n + (i - n) = 0 + i
      BY <1>1, <2>2
    <3> QED BY <1>3, <3>1
  <2> QED BY <1>1, <2>1, <2>2
<1>7. Number(w, 0, n + l) = Number(w, 0, n) + Power(n) * Number(w, 0 + n, l)
  BY <1>1, <1>6, NumberSplit
<1>8. 0 + n = n /\ Power(n) \in Nat /\ Number(m, a, n) \in Nat
  BY <1>1, PowerNat, NumberRange
<1> QED BY <1>1, <1>4, <1>5, <1>6, <1>7, <1>8

----------------------------------------------------------------------------
(* addition and multiplication, of a range in one word                     *)

LEMMA AddWords ==
  /\ Add!BitPos = BitPos /\ Add!MemBits = MemBits /\ Add!Addr = Addr
  /\ \A a : Add!Pos(a) = Pos(a) /\ Add!Base(a) = Base(a)
  /\ \A m, b, w : Add!Store(m, b, w) = Store(m, b, w)
  /\ \A m, b : Add!Load(m, b) = Load(m, b)
  /\ \A w, k : Add!Lsr(w, k) = Lsr(w, k) /\ Add!MaskLow(w, k) = MaskLow(w, k)
  /\ \A v, w, s, k : Add!BitBlend(v, w, s, k) = BitBlend(v, w, s, k)
  /\ \A m, a, k : Add!GetWord(m, a, k) = GetWord(m, a, k)
  /\ \A a, k : Add!GetWordLoads(a, k) = GetWordLoads(a, k)
  /\ \A a, b, c : Add!Holds(a, b, c) <=> Holds(a, b, c)
<1>1. /\ Add!BitPos = BitPos /\ Add!MemBits = MemBits /\ Add!Addr = Addr
      /\ \A a : Add!Pos(a) = Pos(a) /\ Add!Base(a) = Base(a)
  BY DEF Add!BitPos, Add!MemBits, Add!Addr, Add!Pos, Add!Base, BitPos, MemBits, Addr, Pos, Base
<1>2. /\ \A m, b, w : Add!Store(m, b, w) = Store(m, b, w)
      /\ \A m, b : Add!Load(m, b) = Load(m, b)
      /\ \A w, k : /\ Add!Lsr(w, k) = Lsr(w, k) /\ Add!Lsl(w, k) = Lsl(w, k)
                   /\ Add!MaskLow(w, k) = MaskLow(w, k)
      /\ \A v, w, s, k : Add!BitBlend(v, w, s, k) = BitBlend(v, w, s, k)
      /\ \A a, k : Add!Spans(a, k) <=> Spans(a, k)
  BY <1>1 DEF Add!Store, Add!Load, Add!Lsr, Add!Lsl, Add!MaskLow, Add!BitBlend, Add!Spans,
              Store, Load, Lsr, Lsl, MaskLow, BitBlend, Spans
<1>3. \A m, a, k : Add!GetWord(m, a, k) = GetWord(m, a, k)
  BY <1>1, <1>2 DEF Add!GetWord, GetWord
<1>4. \A a, k : Add!GetWordLoads(a, k) = GetWordLoads(a, k)
  BY <1>1, <1>2 DEF Add!GetWordLoads, GetWordLoads
<1> QED BY <1>1, <1>2, <1>3, <1>4 DEF Add!Holds, Holds

LEMMA MultiplyWords ==
  /\ Multiply!BitPos = BitPos /\ Multiply!MemBits = MemBits /\ Multiply!Addr = Addr
  /\ \A a : Multiply!Pos(a) = Pos(a) /\ Multiply!Base(a) = Base(a)
  /\ \A m, b, w : Multiply!Store(m, b, w) = Store(m, b, w)
  /\ \A m, b : Multiply!Load(m, b) = Load(m, b)
  /\ \A w, k : Multiply!Lsr(w, k) = Lsr(w, k) /\ Multiply!MaskLow(w, k) = MaskLow(w, k)
  /\ \A v, w, s, k : Multiply!BitBlend(v, w, s, k) = BitBlend(v, w, s, k)
  /\ \A m, a, k : Multiply!GetWord(m, a, k) = GetWord(m, a, k)
  /\ \A a, k : Multiply!GetWordLoads(a, k) = GetWordLoads(a, k)
  /\ \A a, b, c : Multiply!Holds(a, b, c) <=> Holds(a, b, c)
<1>1. /\ Multiply!BitPos = BitPos /\ Multiply!MemBits = MemBits /\ Multiply!Addr = Addr
      /\ \A a : Multiply!Pos(a) = Pos(a) /\ Multiply!Base(a) = Base(a)
  BY DEF Multiply!BitPos, Multiply!MemBits, Multiply!Addr, Multiply!Pos, Multiply!Base, BitPos, MemBits, Addr, Pos, Base
<1>2. /\ \A m, b, w : Multiply!Store(m, b, w) = Store(m, b, w)
      /\ \A m, b : Multiply!Load(m, b) = Load(m, b)
      /\ \A w, k : /\ Multiply!Lsr(w, k) = Lsr(w, k) /\ Multiply!Lsl(w, k) = Lsl(w, k)
                   /\ Multiply!MaskLow(w, k) = MaskLow(w, k)
      /\ \A v, w, s, k : Multiply!BitBlend(v, w, s, k) = BitBlend(v, w, s, k)
      /\ \A a, k : Multiply!Spans(a, k) <=> Spans(a, k)
  BY <1>1 DEF Multiply!Store, Multiply!Load, Multiply!Lsr, Multiply!Lsl, Multiply!MaskLow, Multiply!BitBlend, Multiply!Spans,
              Store, Load, Lsr, Lsl, MaskLow, BitBlend, Spans
<1>3. \A m, a, k : Multiply!GetWord(m, a, k) = GetWord(m, a, k)
  BY <1>1, <1>2 DEF Multiply!GetWord, GetWord
<1>4. \A a, k : Multiply!GetWordLoads(a, k) = GetWordLoads(a, k)
  BY <1>1, <1>2 DEF Multiply!GetWordLoads, GetWordLoads
<1> QED BY <1>1, <1>2, <1>3, <1>4 DEF Multiply!Holds, Holds

\* One word is put in the place of the range, or none when the range is empty.
OneWord ==
  /\ orig \in [Addr -> {0, 1}] /\ DOMAIN mem = Addr /\ mem = [a \in Addr |-> mem[a]]
  /\ first \in Nat /\ last \in Nat /\ first <= last /\ last <= MemBits
  /\ d_first \in Nat /\ d_first + (last - first) <= MemBits
  /\ Pos(d_first) = 0 /\ last - first <= W
  /\ it \in 0 .. (MemBits + W) /\ remaining = last - src
  /\ pc \in {"start", "shifted", "done"}
  /\ used \in SUBSET Int /\ \A b \in used : Holds(b, first, last)
  /\ d_used \in SUBSET Int /\ \A b \in d_used : Holds(b, d_first, d_first + (last - first))
  /\ \A a \in Addr : a < d_first \/ d_first + (last - first) <= a => mem[a] = orig[a]
  /\ src = first \/ (src = last /\ pc # "start")
  /\ src = first => mem = orig /\ carry = 0 /\ it = d_first
  /\ pc = "done" => src = last

OneCall == orig' = orig /\ first' = first /\ last' = last /\ d_first' = d_first /\ operand' = operand

Waited == /\ mem' = mem /\ carry' = carry /\ src' = src /\ it' = it /\ remaining' = remaining
          /\ used' = {} /\ d_used' = {}

\* The word at it gets the bits of one of the results.
OneWordPut(results) ==
  /\ \E r \in results : /\ mem' = Store(mem, it, BitBlend(Load(mem, it), r.word, 0, last - first))
                        /\ carry' = r.carry
  /\ used' = GetWordLoads(src, last - first) /\ d_used' = {it}
  /\ src' = src + (last - first) /\ it' = it + W /\ remaining' = remaining - (last - first)

\* w is the word the range lies in the low end of.
Fetched(w) == /\ Binary(w, 0, W) /\ Number(w, 0, W) = Number(orig, first, last - first)
              /\ Number(orig, first, last - first) \in Nat

\* The destination holds the bits of one of the results, for the first time.
Replaced(results) ==
  /\ src = first /\ carry = 0 /\ first < last /\ src' = last
  /\ \E r \in results : Puts(orig, mem', d_first, last - first, r.word) /\ carry' = r.carry

LEMMA OneWordFacts ==
  ASSUME OneWord
  PROVE  /\ first \in Nat /\ last \in Nat /\ first <= last /\ last <= MemBits /\ MemBits \in Nat
         /\ src \in Nat /\ first <= src /\ src <= last /\ remaining = last - src
         /\ d_first \in Nat /\ d_first + (last - first) <= MemBits
         /\ last - first \in Nat /\ last - first <= W /\ W \in Nat /\ W > 0
BY Widths DEF OneWord

LEMMA OneWordWaits ==
  ASSUME OneWord, OneCall, Waited, pc' \in {"shifted", "done"}, pc' = "done" => src = last
  PROVE  OneWord'
<1>1. Pos(d_first)' = Pos(d_first)
  BY DEF OneCall, Pos
<1> QED BY <1>1 DEF OneWord, OneCall, Waited, Holds

\* The n bits at f of a memory are binary digits.
LEMMA MemoryBinary ==
  ASSUME NEW m \in [Addr -> {0, 1}], NEW f \in Nat, NEW n \in Nat, f + n <= MemBits
  PROVE  Binary(m, f, n)
<1>1. ASSUME NEW i \in 0 .. (n - 1) PROVE f + i \in Addr
  BY Widths
<1> QED BY <1>1 DEF Binary

LEMMA OneWordFetches ==
  ASSUME OneWord, src = first, first < last
  PROVE  /\ Fetched(MaskLow(GetWord(mem, src, last - first), last - first))
         /\ last - first = W => Fetched(GetWord(mem, src, W))
<1> DEFINE n == last - first
<1>1. n \in 1 .. W /\ n \in Nat /\ first + n <= MemBits /\ first \in Nat
  BY OneWordFacts
<1>2. mem = orig /\ orig \in [Addr -> {0, 1}]
  BY DEF OneWord
<1> HIDE DEF n
<1>3. Binary(orig, first, n)
  BY <1>1, <1>2, MemoryBinary
<1>4. Fetched(MaskLow(GetWord(mem, src, n), n))
  BY <1>1, <1>2, <1>3, FetchedIs DEF Fetched, n
<1>5. n = W => Fetched(GetWord(mem, src, W))
  BY <1>1, <1>2, <1>3, FetchedIs DEF Fetched, n
<1> QED BY <1>4, <1>5 DEF n

LEMMA OneWordReplaces ==
  ASSUME OneWord, OneCall, src = first, first < last, NEW results, OneWordPut(results),
         pc' \in {"shifted", "done"}
  PROVE  OneWord' /\ Replaced(results)
<1> DEFINE n == last - first
<1>1. /\ n \in 1 .. W /\ n \in Nat /\ first + n = last /\ 0 + n <= W /\ 0 \in Nat
      /\ first \in Nat /\ last \in Nat /\ d_first \in Nat /\ d_first + n <= MemBits
      /\ MemBits \in Nat /\ W \in Nat /\ 0 < n
  BY OneWordFacts
<1>2. mem = orig /\ DOMAIN orig = Addr /\ carry = 0 /\ it = d_first
  BY DEF OneWord
<1>3. PICK r \in results : /\ mem' = Store(mem, it, BitBlend(Load(mem, it), r.word, 0, n))
                           /\ carry' = r.carry
  BY DEF OneWordPut
<1>4. /\ used' = GetWordLoads(first, n) /\ d_used' = {d_first}
      /\ src' = src + n /\ it' = it + W /\ remaining' = remaining - n
  BY <1>2 DEF OneWordPut
<1> DEFINE u == r.word
<1>5. Puts(orig, mem', d_first, n, u)
  <2>1. \A i \in 0 .. (n - 1) : u[0 + i] = u[i]
    BY <1>1
  <2>2. mem' = Store(orig, d_first, BitBlend(Load(orig, d_first), u, 0, n))
    BY <1>2, <1>3
  <2> HIDE DEF n, u
  <2>3. Puts(orig, mem', d_first + 0, n, u)
    BY <1>1, <1>2, <2>1, <2>2, BlendPuts
  <2>4. d_first + 0 = d_first
    BY <1>1
  <2> QED BY <2>3, <2>4
<1>6. \A b \in used' : b \in Int /\ Holds(b, first, last)
  <2>1. \A b \in GetWordLoads(first, n) : b \in Int /\ b < first + n /\ first < b + W
    BY <1>1, GetWordAccess
  <2> QED BY <1>1, <1>4, <2>1, HoldsIs
<1>7. \A b \in d_used' : b \in Int /\ Holds(b, d_first, d_first + n)
  <2>1. Holds(d_first, d_first, d_first + n)
    BY <1>1, HoldsIs, OneWordFacts
  <2> QED BY <1>1, <1>4, <2>1
<1>8. \A a \in Addr : a < d_first \/ d_first + n <= a => mem'[a] = orig[a]
  <2> SUFFICES ASSUME NEW a \in Addr, a < d_first \/ d_first + n <= a PROVE mem'[a] = orig[a]
    OBVIOUS
  <2>1. a \in Int
    BY Widths
  <2> HIDE DEF n
  <2>2. ~(d_first <= a /\ a < d_first + n)
    BY <1>1, <2>1
  <2> QED BY <1>5, <2>2 DEF Puts
<1>9. DOMAIN mem' = Addr /\ mem' = [a \in Addr |-> mem'[a]]
  BY <1>5 DEF Puts
<1>10. /\ src' = last /\ remaining' = last' - src' /\ it' \in 0 .. (MemBits + W)
       /\ src' # first
  BY <1>1, <1>2, <1>4, OneWordFacts DEF OneCall
<1>11. Pos(d_first)' = Pos(d_first)
  BY DEF OneCall, Pos
<1>12. OneWord'
  BY <1>6, <1>7, <1>8, <1>9, <1>10, <1>11 DEF OneWord, OneCall, Holds
<1>13. Replaced(results)
  BY <1>2, <1>3, <1>5, <1>10 DEF Replaced
<1> QED BY <1>12, <1>13

\* What a step of addition does to a range in one word: it passes on, or
\* puts what the function object makes of the range.
LEMMA AddMoves ==
  ASSUME OneWord, Add!Next
  PROVE  /\ OneWord' /\ OneCall
         /\ \/ mem' = mem /\ carry' = carry /\ src' = src
            \/ \E w : Fetched(w) /\ Replaced(Add!Apply(w, last - first))
<1>1. CASE Add!Empty
  <2>1. Waited /\ OneCall /\ pc' = "done" /\ first = last
    BY <1>1 DEF Add!Empty, Add!PutNothing, Add!Call, Waited, OneCall
  <2>2. src = last
    BY <2>1 DEF OneWord
  <2> QED BY <2>1, <2>2, OneWordWaits DEF Waited
<1>2. CASE Add!Head
  <2>1. Pos(d_first) = 0 /\ last - first <= W /\ src = first /\ remaining = last - src
    BY <1>2 DEF OneWord, Add!Head
  <2>2. Waited /\ OneCall /\ pc = "start"
    BY <1>2, <2>1, AddWords DEF Add!Head, Add!PutNothing, Add!Call, Waited, OneCall
  <2>3. pc' = IF Pos(src + 0) = 0 /\ remaining - 0 > W THEN "bulk" ELSE "shifted"
    BY <1>2, <2>1, AddWords DEF Add!Head, Add!Proceed
  <2>4. ~(remaining - 0 > W)
    BY <2>1, OneWordFacts
  <2> QED BY <2>1, <2>2, <2>3, <2>4, OneWordWaits DEF Waited
<1>3. CASE Add!BulkWord
  BY <1>3 DEF Add!BulkWord, OneWord
<1>4. CASE Add!ShiftedWord
  <2>1. pc = "shifted" /\ remaining >= W
    BY <1>4 DEF Add!ShiftedWord
  <2>2. src = first /\ first < last /\ last - first = W /\ remaining = W
    BY <2>1, OneWordFacts DEF OneWord
  <2> DEFINE w == GetWord(mem, src, W)
  <2>3. Fetched(w)
    BY <2>2, OneWordFetches
  <2>4. /\ OneWordPut(Add!Apply(w, last - first)) /\ OneCall /\ pc' = "shifted"
    BY <1>4, <2>2, AddWords DEF Add!ShiftedWord, Add!Put, Add!Call, OneWordPut, OneCall
  <2> HIDE DEF w
  <2> QED BY <2>2, <2>3, <2>4, OneWordReplaces
<1>5. CASE Add!Tail
  <2>1. pc = "shifted" /\ remaining < W /\ pc' = "done" /\ OneCall
    BY <1>5 DEF Add!Tail, Add!Call, OneCall, OneWord
  <2>2. CASE remaining > 0
    <3>1. src = first /\ first < last /\ remaining = last - first
      BY <2>2, OneWordFacts DEF OneWord
    <3> DEFINE w == MaskLow(GetWord(mem, src, last - first), last - first)
    <3>2. Fetched(w)
      BY <3>1, OneWordFetches
    <3>3. OneWordPut(Add!Apply(w, last - first))
      BY <1>5, <2>2, <3>1, AddWords DEF Add!Tail, Add!Put, OneWordPut
    <3> HIDE DEF w
    <3> QED BY <2>1, <3>1, <3>2, <3>3, OneWordReplaces
  <2>3. CASE ~(remaining > 0)
    <3>1. Waited
      BY <1>5, <2>3 DEF Add!Tail, Add!PutNothing, Waited
    <3>2. src = last
      <4>1. src \in Nat /\ last \in Nat /\ src <= last /\ remaining = last - src
        BY OneWordFacts
      <4> QED BY <2>3, <4>1
    <3> QED BY <2>1, <3>1, <3>2, OneWordWaits DEF Waited
  <2> QED BY <2>2, <2>3
<1>6. CASE Add!Finished
  BY <1>6 DEF Add!Finished, Add!vars, OneWord, OneCall
<1> QED BY <1>1, <1>2, <1>3, <1>4, <1>5, <1>6 DEF Add!Next

\* What a step of multiplication does to a range in one word: it passes on, or
\* puts what the function object makes of the range.
LEMMA MultiplyMoves ==
  ASSUME OneWord, Multiply!Next
  PROVE  /\ OneWord' /\ OneCall
         /\ \/ mem' = mem /\ carry' = carry /\ src' = src
            \/ \E w : Fetched(w) /\ Replaced(Multiply!Apply(w, last - first))
<1>1. CASE Multiply!Empty
  <2>1. Waited /\ OneCall /\ pc' = "done" /\ first = last
    BY <1>1 DEF Multiply!Empty, Multiply!PutNothing, Multiply!Call, Waited, OneCall
  <2>2. src = last
    BY <2>1 DEF OneWord
  <2> QED BY <2>1, <2>2, OneWordWaits DEF Waited
<1>2. CASE Multiply!Head
  <2>1. Pos(d_first) = 0 /\ last - first <= W /\ src = first /\ remaining = last - src
    BY <1>2 DEF OneWord, Multiply!Head
  <2>2. Waited /\ OneCall /\ pc = "start"
    BY <1>2, <2>1, MultiplyWords DEF Multiply!Head, Multiply!PutNothing, Multiply!Call, Waited, OneCall
  <2>3. pc' = IF Pos(src + 0) = 0 /\ remaining - 0 > W THEN "bulk" ELSE "shifted"
    BY <1>2, <2>1, MultiplyWords DEF Multiply!Head, Multiply!Proceed
  <2>4. ~(remaining - 0 > W)
    BY <2>1, OneWordFacts
  <2> QED BY <2>1, <2>2, <2>3, <2>4, OneWordWaits DEF Waited
<1>3. CASE Multiply!BulkWord
  BY <1>3 DEF Multiply!BulkWord, OneWord
<1>4. CASE Multiply!ShiftedWord
  <2>1. pc = "shifted" /\ remaining >= W
    BY <1>4 DEF Multiply!ShiftedWord
  <2>2. src = first /\ first < last /\ last - first = W /\ remaining = W
    BY <2>1, OneWordFacts DEF OneWord
  <2> DEFINE w == GetWord(mem, src, W)
  <2>3. Fetched(w)
    BY <2>2, OneWordFetches
  <2>4. /\ OneWordPut(Multiply!Apply(w, last - first)) /\ OneCall /\ pc' = "shifted"
    BY <1>4, <2>2, MultiplyWords DEF Multiply!ShiftedWord, Multiply!Put, Multiply!Call, OneWordPut, OneCall
  <2> HIDE DEF w
  <2> QED BY <2>2, <2>3, <2>4, OneWordReplaces
<1>5. CASE Multiply!Tail
  <2>1. pc = "shifted" /\ remaining < W /\ pc' = "done" /\ OneCall
    BY <1>5 DEF Multiply!Tail, Multiply!Call, OneCall, OneWord
  <2>2. CASE remaining > 0
    <3>1. src = first /\ first < last /\ remaining = last - first
      BY <2>2, OneWordFacts DEF OneWord
    <3> DEFINE w == MaskLow(GetWord(mem, src, last - first), last - first)
    <3>2. Fetched(w)
      BY <3>1, OneWordFetches
    <3>3. OneWordPut(Multiply!Apply(w, last - first))
      BY <1>5, <2>2, <3>1, MultiplyWords DEF Multiply!Tail, Multiply!Put, OneWordPut
    <3> HIDE DEF w
    <3> QED BY <2>1, <3>1, <3>2, <3>3, OneWordReplaces
  <2>3. CASE ~(remaining > 0)
    <3>1. Waited
      BY <1>5, <2>3 DEF Multiply!Tail, Multiply!PutNothing, Waited
    <3>2. src = last
      <4>1. src \in Nat /\ last \in Nat /\ src <= last /\ remaining = last - src
        BY OneWordFacts
      <4> QED BY <2>3, <4>1
    <3> QED BY <2>1, <3>1, <3>2, OneWordWaits DEF Waited
  <2> QED BY <2>2, <2>3
<1>6. CASE Multiply!Finished
  BY <1>6 DEF Multiply!Finished, Multiply!vars, OneWord, OneCall
<1> QED BY <1>1, <1>2, <1>3, <1>4, <1>5, <1>6 DEF Multiply!Next

----------------------------------------------------------------------------
(* addition                                                                *)

\* What was there before, plus the operand, and what the two calls leave.
Total == Number(orig, first, last - first) + operand

AddResult ==
  /\ mem \in [Addr -> {0, 1}]
  /\ carry \in {0, 1}
  /\ Number(mem, d_first, last - first) = Total % Power(last - first)
  /\ carry = 1 <=> Total >= Power(last - first)

AddInv ==
  /\ OneWord
  /\ operand \in 0 .. (Power(W) - 1)
  /\ src # first => AddResult

\* The word add_carry makes of the range has the digits of the sum, and the
\* carry tells whether the n bits of the range hold it all.
LEMMA AddWordIs ==
  ASSUME NEW w, NEW n \in 1 .. W, Binary(w, 0, W), carry = 0, operand \in Nat,
         NEW r \in Add!Apply(w, n)
  PROVE  LET sum == Number(w, 0, W) + operand
         IN  /\ Binary(r.word, 0, n) /\ Number(r.word, 0, n) = sum % Power(n)
             /\ r.carry \in {0, 1} /\ (r.carry = 1 <=> sum >= Power(n))
<1> DEFINE sum    == Number(w, 0, W) + operand
           L      == Power(W)
           P      == Power(n)
           Q      == Power(W - n)
           t      == sum % L
           result == Add!ToWord(t)
           top    == Number(Lsr(result, n), 0, W)
           over   == sum >= L \/ (n < W /\ top # 0)
<1>1. n \in Nat /\ n \in 0 .. W /\ W \in Nat /\ W - n \in Nat /\ n + (W - n) = W /\ W \in 0 .. W
  BY Widths
<1>2. Number(w, 0, W) \in Nat
  BY <1>1, NumberRange
<1>3. r = [word |-> result, carry |-> IF over THEN 1 ELSE 0]
  <2>1. Add!Apply(w, n) = Add!AddWord(w, n)
    BY DEF Add!Apply
  <2>2. carry + operand + Add!Value(w) = sum /\ Add!Limit = L
    BY <1>2, NumberWords
  <2>3. Add!Value(Add!Lsr(Add!ToWord(sum % Add!Limit), n)) = top
    BY <2>2, NumberWords, AddWords
  <2> QED BY <2>1, <2>2, <2>3 DEF Add!AddWord
<1>4. /\ L \in Nat /\ L >= 1 /\ P \in Nat /\ P >= 1 /\ Q \in Nat /\ Q >= 1 /\ L = P * Q
      /\ sum \in Nat
  <2>1. L \in Nat /\ L >= 1 /\ P \in Nat /\ P >= 1 /\ Q \in Nat /\ Q >= 1
    BY <1>1, PowerPositive
  <2>2. Power(n + (W - n)) = P * Q
    BY <1>1, PowerSum
  <2> QED BY <1>1, <1>2, <2>1, <2>2
<1>5. t \in Nat /\ t < L /\ (sum < L => t = sum)
  <2> HIDE DEF sum, L
  <2> QED BY <1>4
<1> HIDE DEF t
<1>6. /\ \A k \in 0 .. W : Binary(result, 0, k) /\ Number(result, 0, k) = t % Power(k)
  BY <1>5, ToWordIs
<1>7. Number(result, 0, n) = sum % P
  <2>1. (sum % Power(n + (W - n))) % Power(n) = sum % Power(n)
    <3> HIDE DEF sum
    <3> QED BY <1>1, <1>4, ModTwice
  <2> QED BY <1>1, <1>6, <2>1 DEF t
<1>8. t = (t % P) + P * top /\ top \in Nat
  <2>1. /\ Number(result, 0, W) = Number(result, 0, n) + Power(n) * Number(Lsr(result, n), 0, W)
        /\ Binary(Lsr(result, n), 0, W)
    BY <1>1, <1>6, HighBits
  <2>2. Number(result, 0, W) = t % L /\ Number(result, 0, n) = t % P
    BY <1>1, <1>6
  <2>3. t % L = t
    <3> HIDE DEF L
    <3> QED BY <1>4, <1>5
  <2>4. top \in Nat
    BY <1>1, <2>1, NumberRange
  <2> QED BY <2>1, <2>2, <2>3, <2>4
<1>9. t % P \in Nat /\ t % P < P
  <2> HIDE DEF P
  <2> QED BY <1>4, <1>5
<1> DEFINE s == t % P
<1> HIDE DEF top, s
<1>10. over <=> sum >= P
  <2>1. n = W => P = L
    OBVIOUS
  <2> HIDE DEF sum, L, P, Q
  <2>2. L >= P
    <3>1. P * Q >= P
      BY <1>4
    <3> QED BY <1>4, <3>1
  <2>3. top # 0 <=> t >= P
    <3>1. t = s + P * top /\ s \in Nat /\ s < P
      BY <1>8, <1>9 DEF s
    <3>2. top >= 1 => P * top >= P
      BY <1>4, <1>8
    <3>3. top = 0 => P * top = 0
      BY <1>4
    <3>4. P * top \in Nat
      BY <1>4, <1>8
    <3> QED BY <1>4, <1>5, <1>8, <3>1, <3>2, <3>3, <3>4
  <2>4. CASE n = W
    BY <1>1, <1>4, <2>1, <2>4
  <2>5. CASE n < W
    BY <1>4, <1>5, <2>2, <2>3, <2>5
  <2> QED BY <1>1, <2>4, <2>5
<1> QED BY <1>1, <1>3, <1>6, <1>7, <1>10

\* The number in the destination, and the type of the memory, once the bits are put.
LEMMA PutNumber ==
  ASSUME NEW m \in [Addr -> {0, 1}], NEW new, NEW from \in Nat, NEW n \in Nat, NEW v,
         from + n <= MemBits, Puts(m, new, from, n, v), Binary(v, 0, n)
  PROVE  new \in [Addr -> {0, 1}] /\ Binary(new, from, n) /\ Number(new, from, n) = Number(v, 0, n)
<1>1. \A i \in 0 .. (n - 1) : v[i] \in {0, 1}
  BY DEF Binary
<1>2. new \in [Addr -> {0, 1}]
  <2>1. m \in [Addr -> Bit] /\ (\A i \in 0 .. (n - 1) : v[i] \in Bit) /\ from \in Int
    BY <1>1, DigitsAssumption
  <2>2. new \in [Addr -> Bit]
    BY <2>1, PutsType
  <2> QED BY <2>2, DigitsAssumption
<1>3. \A i \in 0 .. (n - 1) : new[from + i] = v[0 + i]
  <2> SUFFICES ASSUME NEW i \in 0 .. (n - 1) PROVE new[from + i] = v[i]
    OBVIOUS
  <2>1. from + i \in Addr /\ from <= from + i /\ from + i < from + n /\ (from + i) - from = i
    BY Widths
  <2> QED BY <2>1 DEF Puts
<1> QED BY <1>2, <1>3, NumberSame

LEMMA AddNext ==
  ASSUME AddInv, Add!Next
  PROVE  AddInv'
<1> DEFINE n == last - first
<1>1. /\ OneWord /\ OneWord' /\ OneCall
      /\ \/ mem' = mem /\ carry' = carry /\ src' = src
         \/ \E w : Fetched(w) /\ Replaced(Add!Apply(w, n))
  BY AddMoves DEF AddInv
<1>2. operand \in 0 .. (Power(W) - 1) /\ operand' = operand /\ Power(W)' = Power(W) /\ operand \in Nat
  BY <1>1, Widths, PowerNat DEF AddInv, OneCall, Power
<1>3. Total' = Total /\ Power(last - first)' = Power(last - first)
  BY <1>1 DEF OneCall, Total, Number, Divide!Number, Divide!MapThenSumSet, Divide!MapThenFoldSet, Power
<1>4. CASE mem' = mem /\ carry' = carry /\ src' = src
  <2>1. AddResult => AddResult'
    BY <1>1, <1>3, <1>4 DEF AddResult, OneCall, Number, Divide!Number, Divide!MapThenSumSet, Divide!MapThenFoldSet
  <2> QED BY <1>1, <1>2, <1>4, <2>1 DEF AddInv, OneCall
<1>5. CASE \E w : Fetched(w) /\ Replaced(Add!Apply(w, n))
  <2>1. PICK w : Fetched(w) /\ Replaced(Add!Apply(w, n))
    BY <1>5
  <2>2. PICK r \in Add!Apply(w, n) : Puts(orig, mem', d_first, n, r.word) /\ carry' = r.carry
    BY <2>1 DEF Replaced
  <2>3. /\ n \in 1 .. W /\ n \in Nat /\ carry = 0 /\ d_first \in Nat /\ d_first + n <= MemBits
        /\ orig \in [Addr -> {0, 1}]
    <3>1. first < last /\ carry = 0 /\ orig \in [Addr -> {0, 1}]
      BY <1>1, <2>1 DEF Replaced, OneWord
    <3> QED BY <1>1, <3>1, OneWordFacts
  <2>4. Binary(w, 0, W) /\ Number(w, 0, W) = Number(orig, first, n)
    BY <2>1 DEF Fetched
  <2> HIDE DEF n
  <2>5. LET sum == Number(w, 0, W) + operand
        IN  /\ Binary(r.word, 0, n) /\ Number(r.word, 0, n) = sum % Power(n)
            /\ r.carry \in {0, 1} /\ (r.carry = 1 <=> sum >= Power(n))
    BY <1>2, <2>3, <2>4, AddWordIs
  <2>6. Number(w, 0, W) + operand = Total
    BY <2>4 DEF Total, n
  <2>7. mem' \in [Addr -> {0, 1}] /\ Number(mem', d_first, n) = Number(r.word, 0, n)
    <3> DEFINE v == r.word
    <3>1. Puts(orig, mem', d_first, n, v) /\ Binary(v, 0, n)
      BY <2>2, <2>5
    <3> HIDE DEF v
    <3>2. mem' \in [Addr -> {0, 1}] /\ Number(mem', d_first, n) = Number(v, 0, n)
      BY <2>3, <3>1, PutNumber
    <3> QED BY <3>2 DEF v
  <2>8. Number(mem, d_first, last - first)' = Number(mem', d_first, n)
    BY <1>1 DEF OneCall, n, Number, Divide!Number, Divide!MapThenSumSet, Divide!MapThenFoldSet
  <2>9. AddResult'
    BY <1>3, <2>2, <2>5, <2>6, <2>7, <2>8 DEF AddResult, n
  <2> QED BY <1>1, <1>2, <2>9 DEF AddInv
<1> QED BY <1>1, <1>4, <1>5

LEMMA AddInit ==
  ASSUME Add!Init, Add!InFirstWord
  PROVE  AddInv
<1>1. /\ orig \in [Addr -> {0, 1}] /\ mem = orig
      /\ first \in 0 .. MemBits /\ last \in 0 .. MemBits /\ first <= last
      /\ d_first \in 0 .. (MemBits - (last - first))
      /\ operand \in 0 .. (Power(W) - 1) /\ carry = 0
      /\ src = first /\ it = Base(d_first) /\ remaining = last - first
      /\ pc = "start" /\ used = {} /\ d_used = {}
      /\ Pos(d_first) = 0 /\ last - first <= W
  BY AddWords, NumberWords DEF Add!Init, Add!InFirstWord, Add!Bits
<1>2. /\ first \in Nat /\ last \in Nat /\ d_first \in Nat /\ MemBits \in Nat
      /\ d_first + (last - first) <= MemBits /\ last <= MemBits /\ W \in Nat
      /\ it = d_first /\ it \in 0 .. (MemBits + W)
  <2>1. /\ first \in Nat /\ last \in Nat /\ d_first \in Nat /\ MemBits \in Nat
        /\ d_first + (last - first) <= MemBits /\ last <= MemBits /\ W \in Nat
    BY <1>1, Widths
  <2>2. d_first = Base(d_first) + 0 /\ Base(d_first) \in Int
    BY <1>1, <2>1, RangeFacts
  <2>3. it = d_first /\ d_first <= MemBits
    BY <1>1, <2>1, <2>2
  <2> QED BY <2>1, <2>3
<1>3. OneWord
  <2>1. DOMAIN mem = Addr /\ mem = [a \in Addr |-> mem[a]]
    BY <1>1
  <2>2. /\ used \in SUBSET Int /\ \A b \in used : Holds(b, first, last)
        /\ d_used \in SUBSET Int /\ \A b \in d_used : Holds(b, d_first, d_first + (last - first))
    BY <1>1
  <2>3. \A a \in Addr : a < d_first \/ d_first + (last - first) <= a => mem[a] = orig[a]
    BY <1>1
  <2>4. remaining = last - src /\ pc \in {"start", "shifted", "done"}
    BY <1>1
  <2>5. /\ src = first \/ (src = last /\ pc # "start")
        /\ src = first => mem = orig /\ carry = 0 /\ it = d_first
        /\ pc = "done" => src = last
    BY <1>1, <1>2
  <2> QED BY <1>1, <1>2, <2>1, <2>2, <2>3, <2>4, <2>5 DEF OneWord
<1> QED BY <1>1, <1>3 DEF AddInv

LEMMA AddImplies ==
  ASSUME AddInv
  PROVE  Add!TypeOK /\ Add!AdditionCorrect /\ Add!OutsideIntact /\ Add!AccessInRange
<1>1. mem \in [Addr -> {0, 1}] /\ carry \in 0 .. (Power(W) - 1)
  <2>1. Power(W) \in Nat /\ Power(W) >= 2
    <3>1. W \in Nat /\ W - 1 \in Nat /\ (W - 1) + 1 = W
      BY Widths
    <3>2. Power(W) = 2 * Power(W - 1) /\ Power(W - 1) \in Nat /\ Power(W - 1) >= 1
      BY <3>1, PowerStep, PowerPositive
    <3> QED BY <3>2
  <2>2. CASE src = first
    BY <2>1, <2>2 DEF AddInv, OneWord
  <2>3. CASE src # first
    BY <2>1, <2>3 DEF AddInv, AddResult
  <2> QED BY <2>2, <2>3
<1>2. Add!TypeOK
  BY <1>1, OneWordFacts, AddWords, NumberWords DEF Add!TypeOK, AddInv, OneWord
<1>3. Add!AdditionCorrect
  <2> DEFINE n == last - first
  <2>1. SUFFICES ASSUME pc = "done", n > 0
                 PROVE  /\ Number(mem, d_first, n) = Total % Power(n)
                        /\ carry = 1 <=> Total >= Power(n)
    BY NumberWords DEF Add!AdditionCorrect, Add!Bits, Total, Power
  <2>2. src # first
    BY <2>1, OneWordFacts DEF AddInv, OneWord
  <2> QED BY <2>2 DEF AddInv, AddResult
<1>4. Add!OutsideIntact
  BY AddWords DEF Add!OutsideIntact, AddInv, OneWord
<1>5. Add!AccessInRange
  BY AddWords DEF Add!AccessInRange, AddInv, OneWord
<1> QED BY <1>2, <1>3, <1>4, <1>5

----------------------------------------------------------------------------
(* multiplication                                                          *)

Product == operand * Number(orig, first, last - first)

MultiplyResult ==
  /\ mem \in [Addr -> {0, 1}]
  /\ carry \in 0 .. (Power(W) - 1)
  /\ Number(mem, d_first, last - first) + carry * Power(last - first) = Product

MultiplyInv ==
  /\ OneWord
  /\ operand \in 0 .. (Power(W) - 1)
  /\ Product < Power(W)
  /\ src # first => MultiplyResult

\* _mulx's low word has the digits of a product that fits it, and what lies above
\* the n bits of the range is the carry, which of its two operands C++ reads first
\* does not matter then.
LEMMA MultiplyWordIs ==
  ASSUME NEW w, NEW n \in 1 .. W, Binary(w, 0, W), carry = 0, operand \in Nat,
         operand * Number(w, 0, W) < Power(W), NEW r \in Multiply!Apply(w, n)
  PROVE  /\ Binary(r.word, 0, n) /\ r.carry \in 0 .. (Power(W) - 1)
         /\ Number(r.word, 0, n) + r.carry * Power(n) = operand * Number(w, 0, W)
<1> DEFINE product == operand * Number(w, 0, W)
           L       == Power(W)
           P       == Power(n)
           high    == product \div L
           result  == Add!ToWord(product)
           top     == Number(Lsr(result, n), 0, W)
<1>1. n \in Nat /\ n \in 0 .. W /\ W \in Nat /\ W \in 0 .. W /\ W - n \in Nat
  BY Widths
<1>2. /\ Number(w, 0, W) \in Nat /\ product \in Nat /\ product < L
      /\ L \in Nat /\ L >= 1 /\ P \in Nat /\ P >= 1
  <2>1. Number(w, 0, W) \in Nat
    BY <1>1, NumberRange
  <2>2. product \in Nat
    BY <2>1
  <2> QED BY <1>1, <2>1, <2>2, PowerPositive
<1>3. high = 0 /\ product % L = product
  <2> HIDE DEF product, L
  <2>1. product = L * 0 + product /\ product \in 0 .. (L - 1) /\ L > 0 /\ 0 \in Int
    BY <1>2
  <2> QED BY <1>2, <2>1, Divided DEF high
<1>4. /\ \A k \in 0 .. W : Binary(result, 0, k) /\ Number(result, 0, k) = product % Power(k)
      /\ Multiply!ToWord(product) = result
  <2> HIDE DEF product
  <2> QED BY <1>2, ToWordIs
<1>5. /\ Number(result, 0, W) = product
      /\ Number(result, 0, W) = Number(result, 0, n) + P * top
      /\ top \in Nat /\ top < L
  <2>1. /\ Number(result, 0, W) = Number(result, 0, n) + Power(n) * Number(Lsr(result, n), 0, W)
        /\ Binary(Lsr(result, n), 0, W)
    BY <1>1, <1>4, HighBits
  <2> QED BY <1>1, <1>3, <1>4, <2>1, NumberRange
<1>6. r = [word |-> result, carry |-> IF n < W THEN ((high * 2 ^ (W - n)) % L) + top ELSE high]
  <2>1. Multiply!Apply(w, n) = Multiply!MultiplyWord(w, n)
    BY DEF Multiply!Apply
  <2>2. /\ operand * Multiply!Value(w) = product /\ Multiply!Limit = L
        /\ Multiply!Value(Multiply!Lsr(result, n)) = top
    BY NumberWords, MultiplyWords
  <2>3. (0 + product) % L = product /\ (carry + product) % L = product
    <3>1. 0 + product = product
      BY <1>2
    <3> HIDE DEF product, L
    <3> QED BY <1>3, <3>1
  <2> HIDE DEF product, L, top, result
  <2>4. PICK read \in {carry, product \div L} :
          r = [word |-> Multiply!ToWord((read + product) % L),
               carry |-> IF n < W THEN ((high * 2 ^ (W - n)) % L)
                                         + Multiply!Value(Multiply!Lsr(Multiply!ToWord((read + product) % L), n))
                                  ELSE high]
    BY <2>1, <2>2 DEF Multiply!MultiplyWord
  <2>5. read = 0
    BY <1>3, <2>4 DEF high
  <2>6. Multiply!ToWord((read + product) % L) = result
    BY <1>4, <2>3, <2>5
  <2> QED BY <2>2, <2>4, <2>6
<1>7. r.carry = IF n < W THEN top ELSE 0
  <2>1. 0 * 2 ^ (W - n) = 0
    <3>1. 2 ^ (W - n) \in Nat
      BY <1>1, PowerNat DEF Power
    <3> QED BY <3>1
  <2>2. 0 % L = 0
    <3> HIDE DEF L
    <3> QED BY <1>2
  <2> HIDE DEF high, top, L
  <2>3. r.carry = IF n < W THEN ((0 * 2 ^ (W - n)) % L) + top ELSE 0
    BY <1>3, <1>6
  <2> QED BY <1>5, <2>1, <2>2, <2>3
<1>8. n = W => Number(result, 0, n) = product
  BY <1>5
<1>9. Number(result, 0, n) \in Nat /\ r.word = result
  BY <1>1, <1>4, <1>6, NumberRange
<1> DEFINE x == Number(result, 0, n)
<1>10. r.carry \in 0 .. (L - 1) /\ x + r.carry * P = product
  <2> HIDE DEF product, L, P, top, x
  <2>1. CASE n < W
    <3>1. r.carry = top /\ product = x + P * top /\ x \in Nat
      BY <1>5, <1>7, <1>9, <2>1 DEF x
    <3>2. P * top = top * P
      BY <1>2, <1>5
    <3> QED BY <1>2, <1>5, <3>1, <3>2
  <2>2. CASE n = W
    <3>1. r.carry = 0 /\ product = x /\ x \in Nat
      BY <1>1, <1>7, <1>8, <1>9, <2>2 DEF x
    <3> QED BY <1>2, <3>1
  <2> QED BY <1>1, <2>1, <2>2
<1> QED BY <1>1, <1>4, <1>9, <1>10

LEMMA MultiplyNext ==
  ASSUME MultiplyInv, Multiply!Next
  PROVE  MultiplyInv'
<1> DEFINE n == last - first
<1>1. /\ OneWord /\ OneWord' /\ OneCall
      /\ \/ mem' = mem /\ carry' = carry /\ src' = src
         \/ \E w : Fetched(w) /\ Replaced(Multiply!Apply(w, n))
  BY MultiplyMoves DEF MultiplyInv
<1>2. operand \in 0 .. (Power(W) - 1) /\ operand' = operand /\ Power(W)' = Power(W) /\ operand \in Nat
  BY <1>1, Widths, PowerNat DEF MultiplyInv, OneCall, Power
<1>3. Product' = Product /\ Power(last - first)' = Power(last - first)
  BY <1>1 DEF OneCall, Product, Number, Divide!Number, Divide!MapThenSumSet, Divide!MapThenFoldSet, Power
<1>4. CASE mem' = mem /\ carry' = carry /\ src' = src
  <2>1. MultiplyResult => MultiplyResult'
    BY <1>1, <1>3, <1>4 DEF MultiplyResult, OneCall, Number, Divide!Number, Divide!MapThenSumSet, Divide!MapThenFoldSet
  <2> QED BY <1>1, <1>2, <1>3, <1>4, <2>1 DEF MultiplyInv, OneCall
<1>5. CASE \E w : Fetched(w) /\ Replaced(Multiply!Apply(w, n))
  <2>1. PICK w : Fetched(w) /\ Replaced(Multiply!Apply(w, n))
    BY <1>5
  <2>2. PICK r \in Multiply!Apply(w, n) : Puts(orig, mem', d_first, n, r.word) /\ carry' = r.carry
    BY <2>1 DEF Replaced
  <2>3. /\ n \in 1 .. W /\ n \in Nat /\ carry = 0 /\ d_first \in Nat /\ d_first + n <= MemBits
        /\ orig \in [Addr -> {0, 1}]
    <3>1. first < last /\ carry = 0 /\ orig \in [Addr -> {0, 1}]
      BY <1>1, <2>1 DEF Replaced, OneWord
    <3> QED BY <1>1, <3>1, OneWordFacts
  <2>4. Binary(w, 0, W) /\ Number(w, 0, W) = Number(orig, first, n)
    BY <2>1 DEF Fetched
  <2> HIDE DEF n
  <2>5. /\ Binary(r.word, 0, n) /\ r.carry \in 0 .. (Power(W) - 1)
        /\ Number(r.word, 0, n) + r.carry * Power(n) = operand * Number(w, 0, W)
    <3>1. operand * Number(w, 0, W) < Power(W)
      BY <2>4 DEF MultiplyInv, Product, n
    <3> QED BY <1>2, <2>3, <2>4, <3>1, MultiplyWordIs
  <2>6. operand * Number(w, 0, W) = Product
    BY <2>4 DEF Product, n
  <2>7. mem' \in [Addr -> {0, 1}] /\ Number(mem', d_first, n) = Number(r.word, 0, n)
    <3> DEFINE v == r.word
    <3>1. Puts(orig, mem', d_first, n, v) /\ Binary(v, 0, n)
      BY <2>2, <2>5
    <3> HIDE DEF v
    <3>2. mem' \in [Addr -> {0, 1}] /\ Number(mem', d_first, n) = Number(v, 0, n)
      BY <2>3, <3>1, PutNumber
    <3> QED BY <3>2 DEF v
  <2>8. Number(mem, d_first, last - first)' = Number(mem', d_first, n)
    BY <1>1 DEF OneCall, n, Number, Divide!Number, Divide!MapThenSumSet, Divide!MapThenFoldSet
  <2>9. MultiplyResult'
    BY <1>2, <1>3, <2>2, <2>5, <2>6, <2>7, <2>8 DEF MultiplyResult, n
  <2> QED BY <1>1, <1>2, <1>3, <2>9 DEF MultiplyInv
<1> QED BY <1>1, <1>4, <1>5

LEMMA MultiplyInit ==
  ASSUME Multiply!Init, Multiply!InFirstWord, Multiply!FitsWord
  PROVE  MultiplyInv
<1>1. /\ orig \in [Addr -> {0, 1}] /\ mem = orig
      /\ first \in 0 .. MemBits /\ last \in 0 .. MemBits /\ first <= last
      /\ d_first \in 0 .. (MemBits - (last - first))
      /\ operand \in 0 .. (Power(W) - 1) /\ carry = 0
      /\ src = first /\ it = Base(d_first) /\ remaining = last - first
      /\ pc = "start" /\ used = {} /\ d_used = {}
      /\ Pos(d_first) = 0 /\ last - first <= W
  BY MultiplyWords, NumberWords DEF Multiply!Init, Multiply!InFirstWord, Multiply!Bits
<1>2. /\ first \in Nat /\ last \in Nat /\ d_first \in Nat /\ MemBits \in Nat
      /\ d_first + (last - first) <= MemBits /\ last <= MemBits /\ W \in Nat
      /\ it = d_first /\ it \in 0 .. (MemBits + W)
  <2>1. /\ first \in Nat /\ last \in Nat /\ d_first \in Nat /\ MemBits \in Nat
        /\ d_first + (last - first) <= MemBits /\ last <= MemBits /\ W \in Nat
    BY <1>1, Widths
  <2>2. d_first = Base(d_first) + 0 /\ Base(d_first) \in Int
    BY <1>1, <2>1, RangeFacts
  <2>3. it = d_first /\ d_first <= MemBits
    BY <1>1, <2>1, <2>2
  <2> QED BY <2>1, <2>3
<1>3. OneWord
  <2>1. DOMAIN mem = Addr /\ mem = [a \in Addr |-> mem[a]]
    BY <1>1
  <2>2. /\ used \in SUBSET Int /\ \A b \in used : Holds(b, first, last)
        /\ d_used \in SUBSET Int /\ \A b \in d_used : Holds(b, d_first, d_first + (last - first))
    BY <1>1
  <2>3. \A a \in Addr : a < d_first \/ d_first + (last - first) <= a => mem[a] = orig[a]
    BY <1>1
  <2>4. remaining = last - src /\ pc \in {"start", "shifted", "done"}
    BY <1>1
  <2>5. /\ src = first \/ (src = last /\ pc # "start")
        /\ src = first => mem = orig /\ carry = 0 /\ it = d_first
        /\ pc = "done" => src = last
    BY <1>1, <1>2
  <2> QED BY <1>1, <1>2, <2>1, <2>2, <2>3, <2>4, <2>5 DEF OneWord
<1>4. operand * Number(orig, first, last - first) < Power(W)
  BY NumberWords DEF Multiply!FitsWord, Multiply!Bits
<1> QED BY <1>1, <1>3, <1>4 DEF MultiplyInv, Product

LEMMA MultiplyImplies ==
  ASSUME MultiplyInv
  PROVE  Multiply!TypeOK /\ Multiply!MultiplicationCorrect /\ Multiply!OutsideIntact /\ Multiply!AccessInRange
<1>1. mem \in [Addr -> {0, 1}] /\ carry \in 0 .. (Power(W) - 1)
  <2>1. Power(W) \in Nat /\ Power(W) >= 2
    <3>1. W \in Nat /\ W - 1 \in Nat /\ (W - 1) + 1 = W
      BY Widths
    <3>2. Power(W) = 2 * Power(W - 1) /\ Power(W - 1) \in Nat /\ Power(W - 1) >= 1
      BY <3>1, PowerStep, PowerPositive
    <3> QED BY <3>2
  <2>2. CASE src = first
    BY <2>1, <2>2 DEF MultiplyInv, OneWord
  <2>3. CASE src # first
    BY <2>1, <2>3 DEF MultiplyInv, MultiplyResult
  <2> QED BY <2>2, <2>3
<1>2. Multiply!TypeOK
  BY <1>1, OneWordFacts, MultiplyWords, NumberWords DEF Multiply!TypeOK, MultiplyInv, OneWord
<1>3. Multiply!MultiplicationCorrect
  <2> DEFINE n == last - first
  <2>1. SUFFICES ASSUME pc = "done"
                 PROVE  Number(mem, d_first, n) + carry * Power(n) = Number(orig, first, n) * operand
    BY NumberWords DEF Multiply!MultiplicationCorrect, Multiply!Bits, Power
  <2>2. Number(orig, first, n) \in Nat /\ operand \in Nat /\ Power(n) \in Nat /\ n \in Nat
    <3>1. n \in Nat /\ first \in Nat /\ first + n <= MemBits /\ orig \in [Addr -> {0, 1}] /\ Power(W) \in Nat
      BY OneWordFacts, PowerNat DEF MultiplyInv, OneWord
    <3> HIDE DEF n
    <3>2. Number(orig, first, n) \in Nat
      BY <3>1, MemoryBinary, NumberRange
    <3> QED BY <3>1, <3>2, PowerNat DEF MultiplyInv
  <2>3. Product = Number(orig, first, n) * operand
    BY <2>2 DEF Product
  <2>4. CASE src # first
    BY <2>3, <2>4 DEF MultiplyInv, MultiplyResult
  <2>5. CASE src = first
    <3>1. n = 0 /\ carry = 0
      BY <2>1, <2>5, OneWordFacts DEF MultiplyInv, OneWord
    <3>2. Number(mem, d_first, n) = 0 /\ Number(orig, first, n) = 0
      BY <3>1, NumberNone
    <3> QED BY <2>2, <3>1, <3>2
  <2> QED BY <2>4, <2>5
<1>4. Multiply!OutsideIntact
  BY MultiplyWords DEF Multiply!OutsideIntact, MultiplyInv, OneWord
<1>5. Multiply!AccessInRange
  BY MultiplyWords DEF Multiply!AccessInRange, MultiplyInv, OneWord
<1> QED BY <1>2, <1>3, <1>4, <1>5

----------------------------------------------------------------------------
(* division                                                                *)

LEMMA DivideWords ==
  /\ Divide!BitPos = BitPos /\ Divide!MemBits = MemBits /\ Divide!Addr = Addr
  /\ \A a : Divide!Pos(a) = Pos(a) /\ Divide!Base(a) = Base(a)
  /\ \A m, b, w : Divide!Store(m, b, w) = Store(m, b, w)
  /\ \A m, b : Divide!Load(m, b) = Load(m, b)
  /\ \A w, k : Divide!MaskLow(w, k) = MaskLow(w, k)
  /\ \A v, w, s, k : Divide!BitBlend(v, w, s, k) = BitBlend(v, w, s, k)
  /\ \A a, b : Divide!Least(a, b) = Least(a, b)
  /\ \A m, a, k : Divide!GetWord(m, a, k) = GetWord(m, a, k)
  /\ \A a, k : Divide!GetWordLoads(a, k) = GetWordLoads(a, k)
  /\ \A a, b, c : Divide!Holds(a, b, c) <=> Holds(a, b, c)
<1>1. /\ Divide!BitPos = BitPos /\ Divide!MemBits = MemBits /\ Divide!Addr = Addr
      /\ \A a : Divide!Pos(a) = Pos(a) /\ Divide!Base(a) = Base(a)
  BY DEF Divide!BitPos, Divide!MemBits, Divide!Addr, Divide!Pos, Divide!Base, BitPos, MemBits,
         Addr, Pos, Base
<1>2. /\ \A m, b, w : Divide!Store(m, b, w) = Store(m, b, w)
      /\ \A m, b : Divide!Load(m, b) = Load(m, b)
      /\ \A w, k : /\ Divide!Lsr(w, k) = Lsr(w, k) /\ Divide!Lsl(w, k) = Lsl(w, k)
                   /\ Divide!MaskLow(w, k) = MaskLow(w, k)
      /\ \A v, w, s, k : Divide!BitBlend(v, w, s, k) = BitBlend(v, w, s, k)
      /\ \A a, b : Divide!Least(a, b) = Least(a, b)
      /\ \A a, k : Divide!Spans(a, k) <=> Spans(a, k)
  BY <1>1 DEF Divide!Store, Divide!Load, Divide!Lsr, Divide!Lsl, Divide!MaskLow, Divide!BitBlend,
              Divide!Least, Divide!Spans, Store, Load, Lsr, Lsl, MaskLow, BitBlend, Least, Spans
<1>3. \A m, a, k : Divide!GetWord(m, a, k) = GetWord(m, a, k)
  BY <1>1, <1>2 DEF Divide!GetWord, GetWord
<1>4. \A a, k : Divide!GetWordLoads(a, k) = GetWordLoads(a, k)
  BY <1>1, <1>2 DEF Divide!GetWordLoads, GetWordLoads
<1> QED BY <1>1, <1>2, <1>3, <1>4 DEF Divide!Holds, Holds

\* src is the code's last, which comes down to first; the bits above it are
\* divided, into the destination's bits above d_first + (src - first).
DivInv ==
  /\ Divide!TypeOK /\ Divide!AccessInRange
  /\ first <= d_first \/ d_first + (last - first) <= first
  /\ Pos(d_first) = 0
  /\ \A a \in Addr :
       a < d_first + (src - first) \/ d_first + (last - first) <= a => mem[a] = orig[a]
  /\ carry + operand * Number(mem, d_first + (src - first), last - src)
       = Number(orig, src, last - src)
  /\ pc = "start" => src = last /\ carry = 0 /\ it = Base(d_first + (last - first))
  /\ pc = "words" => it = d_first + (src - first) /\ src - first = whole_words * W
  /\ pc # "start" => remaining = 0
  /\ pc = "done" => src = first

LEMMA DivFacts ==
  ASSUME DivInv
  PROVE  /\ orig \in [Addr -> {0, 1}] /\ mem \in [Addr -> {0, 1}] /\ DOMAIN mem = Addr
         /\ first \in Nat /\ last \in Nat /\ first <= last /\ last <= MemBits /\ MemBits \in Nat
         /\ d_first \in Nat /\ d_first + (last - first) <= MemBits
         /\ operand \in Nat /\ operand >= 1 /\ operand < Power(W)
         /\ carry \in Nat /\ carry < operand
         /\ src \in Nat /\ first <= src /\ src <= last
         /\ it \in Int /\ -W <= it /\ it <= MemBits
         /\ whole_words \in Nat /\ whole_words <= NumWords /\ NumWords \in Nat
         /\ remaining \in 0 .. (W - 1) /\ W \in Nat /\ W > 0
         /\ pc \in {"start", "words", "done"}
<1>1. Power(W) \in Nat
  BY Widths, PowerNat
<1> QED BY <1>1, Widths, DivideWords, NumberWords DEF DivInv, Divide!TypeOK, Divide!d_last, Divide!Bits

\* The bits of the source below src are those of the call, and of the division
\* nothing is written above d_first + (last - first).
LEMMA DivSource ==
  ASSUME DivInv, NEW k \in Nat, k <= src - first, NEW i \in 0 .. (k - 1)
  PROVE  (src - k) + i \in Addr /\ mem[(src - k) + i] = orig[(src - k) + i]
<1> DEFINE a == (src - k) + i
<1>1. /\ first \in Nat /\ src \in Nat /\ last \in Nat /\ d_first \in Nat /\ first <= src /\ src <= last
      /\ last <= MemBits /\ MemBits \in Nat
  BY DivFacts
<1>2. a \in Nat /\ first <= a /\ a < src /\ a < MemBits
  BY <1>1
<1> HIDE DEF a
<1>3. a < d_first + (src - first) \/ d_first + (last - first) <= a
  BY <1>1, <1>2 DEF DivInv
<1>4. a \in Addr
  BY <1>1, <1>2, Widths
<1> QED BY <1>3, <1>4 DEF DivInv, a

\* One step of long division, in numbers: the digit and the remainder it leaves.
LEMMA DigitOfQuotient ==
  ASSUME NEW c \in Nat, NEW v \in Nat, NEW p \in Nat, NEW y \in Nat, c < y, v < p,
         NEW z, z = c * p + v
  PROVE  /\ z \in Nat /\ z \div y \in Nat /\ z \div y < p /\ z % y \in Nat /\ z % y < y
         /\ z = y * (z \div y) + (z % y)
<1>1. c * p \in Nat /\ z \in Nat
  BY SMTT(30)
<1> DEFINE q == z \div y
           r == z % y
<1>2. q \in Int /\ r \in Nat /\ r < y /\ z = y * q + r /\ q >= 0
  BY <1>1, Dividing
<1> HIDE DEF q, r
<1>3. q < p
  <2> SUFFICES ASSUME q >= p PROVE FALSE
    BY <1>2
  <2>1. y * q >= y * p
    BY <1>2, SMTT(30)
  <2>2. (c + 1) * p <= y * p
    BY SMTT(30)
  <2>3. (c + 1) * p = c * p + p
    OBVIOUS
  <2>4. y * q \in Int /\ y * p \in Int
    BY <1>2
  <2> QED BY <1>1, <1>2, <2>1, <2>2, <2>3, <2>4
<1> QED BY <1>1, <1>2, <1>3 DEF q, r

\* The quotient with one more digit below, the remainder and the part of the
\* number read with it.
LEMMA DigitBroughtDown ==
  ASSUME NEW c \in Nat, NEW y \in Nat, NEW u \in Nat, NEW x \in Nat, c + y * u = x,
         NEW p \in Nat, NEW v \in Nat, NEW q \in Nat, NEW r \in Nat, c * p + v = y * q + r
  PROVE  r + y * (q + p * u) = v + p * x
<1>1. p * x = p * c + p * (y * u)
  BY SMTT(30)
<1>2. y * (q + p * u) = y * q + y * (p * u)
  BY SMTT(30)
<1>3. y * (p * u) = p * (y * u) /\ p * c = c * p
  BY SMTT(30)
<1>4. /\ p * x \in Nat /\ p * c \in Nat /\ p * (y * u) \in Nat /\ y * q \in Nat
      /\ y * (p * u) \in Nat /\ c * p \in Nat
  BY SMTT(30)
<1> QED BY <1>1, <1>2, <1>3, <1>4

\* What a step has to show besides: where it leaves d_it and the counters.
LEMMA DivKeeps ==
  ASSUME DivInv, NEW k \in 1 .. W, k <= src - first, k = W \/ carry = 0,
         NEW b \in Int, b = d_first + (src - first) - k,
         Divide!Divide(b, 0, k), UNCHANGED call_vars,
         it' = b, pc' = "words", remaining' = 0,
         whole_words' \in 0 .. NumWords, src' - first = whole_words' * W
  PROVE  DivInv'
<1> DEFINE n == last - src
           e == d_first + (src - first)
           s == src - k
           w == IF k = W THEN GetWord(mem, s, W) ELSE MaskLow(GetWord(mem, s, k), k)
           v == Number(orig, s, k)
           P == Power(k)
           L == Power(W)
           z == carry * P + v
           q == z \div operand
           r == z % operand
           x == Add!ToWord(q)
<1>1. /\ n \in Nat /\ k \in Nat /\ k >= 1 /\ k <= W /\ s \in Nat /\ s + k = src /\ first <= s /\ src <= last
      /\ b \in Nat /\ b + k = e /\ e \in Nat /\ e + n = d_first + (last - first) /\ e + n <= MemBits
      /\ d_first <= b /\ W \in Nat /\ MemBits \in Nat /\ NumWords \in Nat /\ last <= MemBits
      /\ src \in Nat /\ last \in Nat /\ first \in Nat /\ k \in 0 .. W /\ W - k \in Nat /\ k + (W - k) = W
      /\ s + k <= MemBits /\ src + n <= MemBits /\ src + n = last /\ b + k <= MemBits
      /\ b = d_first + (s - first) /\ n + k = last - s /\ d_first \in Nat
  BY DivFacts
<1>2. /\ mem \in [Addr -> {0, 1}] /\ orig \in [Addr -> {0, 1}] /\ DOMAIN mem = Addr
      /\ operand \in Nat /\ carry \in Nat /\ carry < operand /\ operand >= 1 /\ operand < L
  BY DivFacts
<1>3. Binary(orig, s, k) /\ v \in Nat /\ v < P /\ P \in Nat /\ P >= 1 /\ L \in Nat /\ L >= 1
  <2> HIDE DEF s
  <2>1. Binary(orig, s, k)
    BY <1>1, <1>2, MemoryBinary
  <2> QED BY <1>1, <2>1, NumberRange, PowerPositive
<1>4. Binary(w, 0, W) /\ Number(w, 0, W) = v
  <2>1. \A i \in 0 .. (k - 1) : mem[s + i] = orig[s + i]
    BY <1>1, DivSource
  <2>4. Binary(orig, s, k) /\ Number(orig, s, k) = v
    BY <1>3
  <2> HIDE DEF s, w, v
  <2>2. Binary(mem, s, k) /\ Number(mem, s, k) = v
    <3>0. k \in Nat
      OBVIOUS
    <3>1. Binary(mem, s, k) /\ Number(mem, s, k) = Number(orig, s, k)
      BY <3>0, <2>1, <2>4, NumberSame
    <3> QED BY <2>4, <3>1
  <2>3. w = MaskLow(GetWord(mem, s, k), k) \/ (k = W /\ w = GetWord(mem, s, k))
    BY DEF w
  <2> QED BY <1>1, <2>2, <2>3, FetchedIs
<1>5. carry * L + v = z
  <2>1. CASE k = W
    BY <2>1
  <2>2. CASE carry = 0
    <3> HIDE DEF L, P, v
    <3>1. 0 * L = 0 * P
      BY <1>3
    <3> QED BY <2>2, <3>1
  <2> QED BY <2>1, <2>2
<1>6. /\ z \in Nat /\ q \in Nat /\ q < P /\ r \in Nat /\ r < operand
      /\ z = operand * q + r
  <2> HIDE DEF P, v, z
  <2>1. z = carry * P + v
    BY DEF z
  <2> QED BY <1>2, <1>3, <2>1, DigitOfQuotient
<1>7. q % L = q /\ q % P = q
  <2>1. P <= L
    <3>1. Power(k + (W - k)) = Power(k) * Power(W - k) /\ Power(W - k) \in Nat /\ Power(W - k) >= 1
      BY <1>1, PowerSum, PowerPositive
    <3> DEFINE o == Power(W - k)
    <3>2. L = P * o /\ o \in Nat /\ o >= 1
      BY <1>1, <3>1
    <3> HIDE DEF o, L, P
    <3>3. P * o >= P
      BY <1>3, <3>2
    <3> QED BY <3>2, <3>3
  <2> HIDE DEF q, L, P
  <2>2. q \in Nat /\ q < P /\ q < L /\ L \in Nat /\ P \in Nat
    BY <1>3, <1>6, <2>1
  <2> QED BY <2>2
<1> HIDE DEF q, r
<1>8. /\ mem' = Store(mem, b, BitBlend(Load(mem, b), x, 0, k)) /\ carry' = r
      /\ src' = s /\ used' = GetWordLoads(s, k) /\ d_used' = {b}
  <2>1. Divide!LongDivision(w) = [word |-> x, acc |-> r]
    <3>1. Divide!Number(w, 0, W) = v /\ Divide!Limit = L
      BY <1>4, NumberWords
    <3>2. Divide!ToWord(q % L) = x
      BY <1>6, <1>7, ToWordIs
    <3> HIDE DEF w, v, L, x
    <3> QED BY <1>5, <3>1, <3>2 DEF Divide!LongDivision, q, r
  <2> HIDE DEF x
  <2> QED BY <2>1, DivideWords DEF Divide!Divide
<1>9. Binary(x, 0, k) /\ Number(x, 0, k) = q
  BY <1>1, <1>6, <1>7, ToWordIs
<1>10. Puts(mem, mem', b, k, x)
  <2>1. \A i \in 0 .. (k - 1) : x[0 + i] = x[i]
    BY <1>1
  <2> HIDE DEF x, e, s, n
  <2>2. Puts(mem, mem', b + 0, k, x)
    <3>1. 0 \in Nat /\ 0 + k <= W
      BY <1>1
    <3>2. Puts(mem, Store(mem, b, BitBlend(Load(mem, b), x, 0, k)), b + 0, k, x)
      BY <1>1, <1>2, <3>1, <2>1, BlendPuts
    <3> QED BY <1>8, <3>2
  <2>3. b + 0 = b
    BY <1>1
  <2> QED BY <2>2, <2>3
<1>11. mem' \in [Addr -> {0, 1}] /\ Binary(mem', b, k) /\ Number(mem', b, k) = q
  <2> HIDE DEF x, e, s, n
  <2>1. mem' \in [Addr -> {0, 1}] /\ Binary(mem', b, k) /\ Number(mem', b, k) = Number(x, 0, k)
    BY <1>1, <1>2, <1>9, <1>10, PutNumber
  <2> QED BY <1>9, <2>1
<1> DEFINE u == Number(mem, e, n)
           y == Number(orig, src, n)
<1>12. Binary(mem, e, n) /\ Binary(orig, src, n) /\ u \in Nat /\ y \in Nat /\ carry + operand * u = y
  <2>1. Binary(mem, e, n) /\ Binary(orig, src, n)
    <3> HIDE DEF e, n
    <3> QED BY <1>1, <1>2, MemoryBinary
  <2>2. u \in Nat /\ y \in Nat
    BY <1>1, <2>1, NumberRange
  <2> QED BY <2>1, <2>2 DEF DivInv
<1>13. Number(mem', b, k + n) = q + P * u
  <2>1. \A i \in 0 .. (n - 1) : mem'[e + i] = mem[e + i]
    <3> SUFFICES ASSUME NEW i \in 0 .. (n - 1) PROVE mem'[e + i] = mem[e + i]
      OBVIOUS
    <3> HIDE DEF e, n, x
    <3>1. e + i \in Nat /\ e + i < MemBits /\ ~(e + i < b + k)
      BY <1>1
    <3>2. e + i \in Addr
      BY <3>1, Widths
    <3> QED BY <1>10, <3>1, <3>2 DEF Puts
  <2> HIDE DEF e, n, x
  <2>2. Binary(mem', e, n) /\ Number(mem', e, n) = u
    <3>1. n \in Nat /\ Binary(mem, e, n)
      BY <1>1, <1>12
    <3>2. Binary(mem', e, n) /\ Number(mem', e, n) = Number(mem, e, n)
      BY <2>1, <3>1, NumberSame
    <3> QED BY <3>2
  <2>3. Binary(mem', b, k + n)
    BY <1>1, <1>11, MemoryBinary
  <2>4. Number(mem', b, k + n) = Number(mem', b, k) + Power(k) * Number(mem', b + k, n)
    BY <1>1, <2>3, NumberSplit
  <2> QED BY <1>1, <1>11, <2>2, <2>4
<1>14. Number(orig, s, k + n) = v + P * y
  <2> HIDE DEF s, n
  <2>1. Binary(orig, s, k + n)
    BY <1>1, <1>2, MemoryBinary
  <2>2. Number(orig, s, k + n) = Number(orig, s, k) + Power(k) * Number(orig, s + k, n)
    BY <1>1, <2>1, NumberSplit
  <2> QED BY <1>1, <2>2
<1>15. r + operand * Number(mem', b, k + n) = Number(orig, s, k + n)
  <2>1. z = carry * P + v
    OBVIOUS
  <2> HIDE DEF s, n, e, u, y, v, P, z
  <2>2. carry * P + v = operand * q + r
    BY <1>6, <2>1
  <2>3. r + operand * (q + P * u) = v + P * y
    BY <1>2, <1>3, <1>6, <1>12, <2>2, DigitBroughtDown
  <2> QED BY <1>13, <1>14, <2>3
<1> HIDE DEF w, v, z, x, u, y
<1>16. \A a \in Addr : a < b \/ d_first + (last - first) <= a => mem'[a] = orig[a]
  <2> SUFFICES ASSUME NEW a \in Addr, a < b \/ d_first + (last - first) <= a PROVE mem'[a] = orig[a]
    OBVIOUS
  <2>1. a \in Int
    BY Widths
  <2>2. a < e \/ d_first + (last - first) <= a
    <3> HIDE DEF e
    <3> QED BY <1>1, <2>1
  <2>3. ~(b <= a /\ a < b + k)
    <3> HIDE DEF e, n
    <3> QED BY <1>1, <2>1
  <2> QED BY <1>10, <2>2, <2>3 DEF Puts, DivInv
<1>17. /\ orig' = orig /\ first' = first /\ last' = last /\ d_first' = d_first /\ operand' = operand
  BY DEF call_vars
<1>18. /\ \A a \in used' : a \in Int /\ Holds(a, first, last)
       /\ \A a \in d_used' : a \in Int /\ Holds(a, d_first, d_first + (last - first))
  <2> HIDE DEF s, e, n
  <2>1. \A a \in GetWordLoads(s, k) : a \in Int /\ a < s + k /\ s < a + W
    BY <1>1, GetWordAccess
  <2>2. Holds(b, d_first, d_first + (last - first))
    BY <1>1, HoldsIs
  <2> QED BY <1>1, <1>8, <2>1, <2>2, HoldsIs
<1>19. Divide!AccessInRange'
  BY <1>17, <1>18, DivideWords DEF Divide!AccessInRange, Divide!d_last, Divide!Bits, Divide!Holds, Holds
<1>20. Divide!TypeOK'
  <2>1. Divide!Limit' = L /\ Addr' = Addr
    BY NumberWords DEF Divide!Limit, Power, Addr, MemBits
  <2>2. carry' \in 0 .. (operand' - 1) /\ operand' \in 1 .. (L - 1)
    BY <1>2, <1>3, <1>6, <1>8, <1>17
  <2>3. src' \in first' .. last' /\ it' \in -W .. MemBits /\ remaining' \in 0 .. (W - 1)
    BY <1>1, <1>8, <1>17
  <2>4. used' \in SUBSET Int /\ d_used' \in SUBSET Int
    BY <1>18
  <2> HIDE DEF L, s, e, n
  <2> QED BY <1>1, <1>2, <1>11, <1>17, <2>1, <2>2, <2>3, <2>4, DivideWords
          DEF Divide!TypeOK, Divide!d_last, Divide!Bits
<1>21. last' - src' = k + n /\ d_first' + (src' - first') = b
  BY <1>1, <1>8, <1>17
<1>22. /\ Number(mem, d_first + (src - first), last - src)' = Number(mem', b, k + n)
       /\ Number(orig, src, last - src)' = Number(orig, s, k + n)
  <2>1. src' = s
    BY <1>8
  <2>2. Number(mem, d_first + (src - first), last - src)' = Number(mem', d_first' + (src' - first'), last' - src')
    BY DEF Number, Divide!Number, Divide!MapThenSumSet, Divide!MapThenFoldSet
  <2>3. Number(orig, src, last - src)' = Number(orig', src', last' - src')
    BY DEF Number, Divide!Number, Divide!MapThenSumSet, Divide!MapThenFoldSet
  <2> HIDE DEF s, n
  <2> QED BY <1>17, <1>21, <2>1, <2>2, <2>3
<1>23. Pos(d_first)' = Pos(d_first)
  BY <1>17 DEF Pos
<1> HIDE DEF s, n, e, L, P
<1> QED BY <1>1, <1>8, <1>15, <1>16, <1>17, <1>19, <1>20, <1>21, <1>22, <1>23 DEF DivInv

\* A step that divides nothing.
LEMMA DivWaits ==
  ASSUME DivInv, Divide!DivideNothing, UNCHANGED call_vars,
         pc' \in {"words", "done"}, remaining' = 0, whole_words' \in 0 .. NumWords,
         it' = d_first + (src - first),
         pc' = "words" => src - first = whole_words' * W,
         pc' = "done" => src = first
  PROVE  DivInv'
<1>1. /\ mem' = mem /\ carry' = carry /\ src' = src /\ used' = {} /\ d_used' = {}
      /\ orig' = orig /\ first' = first /\ last' = last /\ d_first' = d_first /\ operand' = operand
  BY DEF Divide!DivideNothing, call_vars
<1>2. it' \in -W .. MemBits
  <2>1. /\ d_first \in Nat /\ src \in Nat /\ first \in Nat /\ first <= src /\ last \in Nat
        /\ src <= last /\ d_first + (last - first) <= MemBits /\ MemBits \in Nat /\ W \in Nat
    BY DivFacts
  <2> QED BY <2>1
<1>3. remaining' \in 0 .. (W - 1)
  BY Widths
<1>4. Divide!TypeOK'
  <2>1. Divide!Limit' = Divide!Limit /\ Addr' = Addr /\ MemBits' = MemBits
    BY DEF Divide!Limit, Addr, MemBits
  <2> QED BY <1>1, <1>2, <1>3, <2>1, DivideWords DEF DivInv, Divide!TypeOK, Divide!d_last, Divide!Bits
<1>5. Divide!AccessInRange'
  BY <1>1 DEF Divide!AccessInRange
<1>6. /\ Number(mem, d_first + (src - first), last - src)' = Number(mem, d_first + (src - first), last - src)
      /\ Number(orig, src, last - src)' = Number(orig, src, last - src)
  BY <1>1 DEF Number, Divide!Number, Divide!MapThenSumSet, Divide!MapThenFoldSet
<1>7. Pos(d_first)' = Pos(d_first)
  BY <1>1 DEF Pos
<1> QED BY <1>1, <1>4, <1>5, <1>6, <1>7 DEF DivInv

\* An address where a word begins is a number of words.
LEMMA AlignedIs ==
  ASSUME NEW a \in Int, Pos(a) = 0
  PROVE  a \div W \in Int /\ a = W * (a \div W)
<1> DEFINE t == a \div W
<1>1. W \in Nat /\ W > 0
  BY Widths
<1>2. a % W = 0
  BY DEF Pos
<1>3. t \in Int /\ a = W * t + (a % W)
  BY <1>1, Dividing
<1> HIDE DEF t
<1>4. W * t \in Int
  BY <1>1, <1>3
<1>5. a = W * t
  BY <1>2, <1>3, <1>4
<1> QED BY <1>3, <1>5 DEF t

\* Of a range that begins with a word the bits up to the last word's are whole
\* words.
LEMMA WholeWords ==
  ASSUME NEW f \in Nat, NEW l \in Nat, f <= l, l <= MemBits, Pos(f) = 0
  PROVE  /\ f <= Base(l) /\ Base(l) \in Nat /\ Base(l) + Pos(l) = l /\ Pos(l) \in 0 .. (W - 1)
         /\ Least(l - f, Pos(l)) = Pos(l)
         /\ \E t \in 0 .. NumWords :
              /\ Base(l) - f = t * W
              /\ (Base(l) - f) \div W = t /\ (Base(l) - f) % W = 0
<1>1. /\ W \in Nat /\ W > 0 /\ MemBits \in Nat /\ NumWords \in Nat
      /\ Pos(l) \in 0 .. (W - 1) /\ Pos(l) \in Nat /\ Base(l) = l - Pos(l) /\ Base(f) = f
  <2>1. W \in Nat /\ W > 0 /\ MemBits \in Nat /\ NumWords \in Nat
    BY Widths
  <2>2. Pos(l) \in BitPos
    BY PosRange
  <2>3. Pos(l) \in 0 .. (W - 1) /\ Pos(l) \in Nat
    BY <2>1, <2>2 DEF BitPos
  <2>4. Base(l) = l - Pos(l) /\ Base(f) = f
    BY DEF Base
  <2> QED BY <2>1, <2>3, <2>4
<1>2. f <= Base(l)
  BY <1>1, BaseMonotone
<1>3. Base(l) \in Nat /\ Base(l) + Pos(l) = l /\ Base(l) <= MemBits
  BY <1>1, <1>2
<1>4. Least(l - f, Pos(l)) = Pos(l)
  <2> DEFINE p == Pos(l)
  <2>1. p \in Nat /\ p <= l - f
    BY <1>1, <1>2
  <2> HIDE DEF p
  <2>2. Least(l - f, p) = p
    BY <2>1 DEF Least
  <2> QED BY <2>2 DEF p
<1> DEFINE u == f \div W
           v == Base(l) \div W
           t == v - u
<1>5. u \in Int /\ f = W * u
  BY AlignedIs
<1>6. v \in Int /\ Base(l) = W * v
  <2>1. Base(l) \in Int /\ Pos(Base(l)) = 0
    BY <1>3, BaseAligned
  <2> QED BY <2>1, AlignedIs
<1>7. t \in Int /\ Base(l) - f = W * t
  <2>1. W * (v - u) = W * v - W * u
    BY <1>1, <1>5, <1>6
  <2> QED BY <1>5, <1>6, <2>1
<1> DEFINE b == Base(l)
<1>8. b \in Nat /\ f <= b /\ b <= MemBits /\ b - f = W * t
  BY <1>2, <1>3, <1>7
<1> HIDE DEF u, v, t, b
<1>9. t >= 0
  <2> SUFFICES ASSUME t <= -1 PROVE FALSE
    BY <1>7
  <2>1. W * t <= W * (-1)
    BY <1>1, <1>7, SMTT(30)
  <2> QED BY <1>1, <1>7, <1>8, <2>1
<1>10. t <= NumWords
  <2> SUFFICES ASSUME t >= NumWords + 1 PROVE FALSE
    BY <1>1, <1>7
  <2>1. W * t >= W * (NumWords + 1)
    BY <1>1, <1>7, SMTT(30)
  <2>2. W * (NumWords + 1) = W * NumWords + W
    BY <1>1
  <2>3. MemBits = W * NumWords
    BY <1>1, SMTT(30) DEF MemBits
  <2> QED BY <1>1, <1>7, <1>8, <2>1, <2>2, <2>3
<1>11. (b - f) \div W = t /\ (b - f) % W = 0
  <2>1. b - f \in Int /\ b - f = W * t + 0 /\ 0 \in 0 .. (W - 1)
    BY <1>1, <1>7, <1>8
  <2> QED BY <1>1, <1>7, <2>1, Divided
<1>12. b - f = t * W /\ t \in 0 .. NumWords
  <2>1. W * t = t * W
    BY <1>1, <1>7
  <2> QED BY <1>1, <1>7, <1>8, <1>9, <1>10, <2>1
<1> QED BY <1>1, <1>2, <1>3, <1>4, <1>11, <1>12 DEF b

LEMMA DivHeadStep ==
  ASSUME DivInv, Divide!Head
  PROVE  DivInv'
<1> DEFINE l == d_first + (last - first)
           n == Least(l - d_first, Pos(l))
<1>1. /\ pc = "start" /\ pc' = "words"
      /\ IF n # 0 THEN Divide!Divide(it, Pos(d_first), n) ELSE Divide!DivideNothing
      /\ whole_words' = ((last - first) - n) \div W /\ remaining' = ((last - first) - n) % W
      /\ orig' = orig /\ first' = first /\ last' = last /\ d_first' = d_first /\ operand' = operand
      /\ it' = it
  <2>1. last - first = l - d_first
    BY DivFacts
  <2> QED BY <2>1, DivideWords DEF Divide!Head, Divide!Call, Divide!d_last, Divide!Bits
<1>2. /\ src = last /\ carry = 0 /\ it = Base(l) /\ Pos(d_first) = 0
  BY <1>1 DEF DivInv
<1>3. /\ first \in Nat /\ last \in Nat /\ first <= last /\ d_first \in Nat /\ l \in Nat
      /\ l <= MemBits /\ d_first <= l /\ W \in Nat /\ W > 0 /\ last - first = l - d_first
      /\ MemBits \in Nat
  BY DivFacts
<1>4. /\ d_first <= Base(l) /\ Base(l) \in Nat /\ Base(l) + Pos(l) = l /\ Pos(l) \in 0 .. (W - 1)
      /\ n = Pos(l)
      /\ \E t \in 0 .. NumWords :
           /\ Base(l) - d_first = t * W
           /\ (Base(l) - d_first) \div W = t /\ (Base(l) - d_first) % W = 0
  <2> HIDE DEF l
  <2> QED BY <1>2, <1>3, WholeWords
<1> DEFINE b == Base(l)
<1>5. n \in 0 .. (W - 1) /\ b \in Nat /\ b = l - n /\ d_first <= b /\ (last - first) - n = b - d_first
  <2> DEFINE p == Pos(l)
  <2>1. p \in 0 .. (W - 1) /\ b \in Nat /\ b + p = l /\ d_first <= b /\ n = p
    BY <1>4
  <2> HIDE DEF p, b, n, l
  <2> QED BY <1>3, <2>1
<1>6. PICK t \in 0 .. NumWords :
        b - d_first = t * W /\ (b - d_first) \div W = t /\ (b - d_first) % W = 0
  BY <1>4
<1> HIDE DEF l, n, b
<1>7. whole_words' = t /\ remaining' = 0
  BY <1>1, <1>5, <1>6
<1>8. UNCHANGED call_vars
  BY <1>1 DEF call_vars
<1>9. CASE n # 0
  <2>1. n \in 1 .. W /\ n <= src - first
    BY <1>2, <1>3, <1>5, <1>9
  <2>2. b \in Int /\ b = d_first + (src - first) - n
    BY <1>2, <1>3, <1>5
  <2>3. Divide!Divide(b, 0, n)
    BY <1>1, <1>2, <1>9 DEF b
  <2>4. src' = src - n
    BY <2>3 DEF Divide!Divide
  <2>5. src' - first = whole_words' * W
    BY <1>2, <1>3, <1>5, <1>6, <1>7, <2>4
  <2>6. it' = b
    BY <1>1, <1>2 DEF b
  <2> QED BY <1>1, <1>2, <1>7, <1>8, <2>1, <2>2, <2>3, <2>5, <2>6, DivKeeps
<1>10. CASE n = 0
  <2>1. Divide!DivideNothing
    BY <1>1, <1>10
  <2>2. it' = d_first + (src - first)
    BY <1>1, <1>2, <1>3, <1>5, <1>10 DEF b
  <2>3. src - first = whole_words' * W
    BY <1>2, <1>3, <1>5, <1>6, <1>7, <1>10
  <2> QED BY <1>1, <1>7, <1>8, <2>1, <2>2, <2>3, DivWaits
<1> QED BY <1>9, <1>10

LEMMA DivWholeWordStep ==
  ASSUME DivInv, Divide!WholeWord
  PROVE  DivInv'
<1> DEFINE b == it - W
<1>1. /\ pc = "words" /\ pc' = pc /\ whole_words > 0 /\ it' = b /\ Divide!Divide(b, 0, W)
      /\ whole_words' = whole_words - 1 /\ remaining' = remaining /\ UNCHANGED call_vars
  BY DEF Divide!WholeWord, Divide!Call, call_vars
<1>2. /\ whole_words \in Nat /\ whole_words <= NumWords /\ NumWords \in Nat /\ W \in Nat /\ W > 0
      /\ src \in Nat /\ first \in Nat /\ first <= src /\ d_first \in Nat
  BY DivFacts
<1>3. it = d_first + (src - first) /\ src - first = whole_words * W /\ remaining = 0
  BY <1>1 DEF DivInv
<1> DEFINE t == whole_words - 1
<1>4. t \in Nat /\ t <= NumWords /\ whole_words = t + 1
  BY <1>1, <1>2
<1> HIDE DEF t
<1>5. (t + 1) * W = t * W + W /\ t * W \in Nat
  <2>1. (t + 1) * W = t * W + W
    BY <1>2, <1>4
  <2>2. t * W \in Nat
    BY <1>2, <1>4, SMTT(30)
  <2> QED BY <2>1, <2>2
<1>6. W \in 1 .. W /\ W <= src - first
  BY <1>2, <1>3, <1>4, <1>5
<1>7. b \in Int /\ b = d_first + (src - first) - W
  BY <1>2, <1>3
<1> HIDE DEF b
<1>8. src' = src - W
  BY <1>1 DEF Divide!Divide
<1>9. whole_words' \in 0 .. NumWords /\ src' - first = whole_words' * W
  BY <1>1, <1>2, <1>3, <1>4, <1>5, <1>8
<1> QED BY <1>1, <1>3, <1>6, <1>7, <1>9, DivKeeps

\* After the whole words nothing is left: the destination begins with a word.
LEMMA DivRestStep ==
  ASSUME DivInv, Divide!Rest
  PROVE  DivInv'
<1>1. /\ pc = "words" /\ remaining = 0 /\ whole_words = 0 /\ pc' = "done"
      /\ it = d_first + (src - first) /\ src - first = whole_words * W
      /\ whole_words' = whole_words /\ remaining' = remaining /\ UNCHANGED call_vars
  BY DEF Divide!Rest, Divide!Call, call_vars, DivInv
<1>2. Divide!DivideNothing /\ it' = it
  BY <1>1 DEF Divide!Rest
<1>3. src = first
  <2>1. src \in Nat /\ first \in Nat /\ W \in Nat
    BY DivFacts
  <2>2. 0 * W = 0
    BY <2>1
  <2> QED BY <1>1, <2>1, <2>2
<1>4. whole_words' \in 0 .. NumWords
  BY <1>1, DivFacts
<1> QED BY <1>1, <1>2, <1>3, <1>4, DivWaits

LEMMA DivNext ==
  ASSUME DivInv, Divide!Next
  PROVE  DivInv'
<1>1. CASE Divide!Finished
  <2>1. /\ mem' = mem /\ carry' = carry /\ src' = src /\ used' = used /\ d_used' = d_used
        /\ orig' = orig /\ first' = first /\ last' = last /\ d_first' = d_first
        /\ operand' = operand /\ it' = it /\ whole_words' = whole_words
        /\ remaining' = remaining /\ pc' = pc
    BY <1>1 DEF Divide!Finished, Divide!vars
  <2>2. Divide!TypeOK' /\ Divide!AccessInRange'
    BY <2>1 DEF DivInv, Divide!TypeOK, Divide!AccessInRange, Divide!Limit, Divide!Addr, Divide!MemBits,
                Divide!d_last, Divide!Bits, Divide!Holds
  <2>3. /\ Number(mem, d_first + (src - first), last - src)' = Number(mem, d_first + (src - first), last - src)
        /\ Number(orig, src, last - src)' = Number(orig, src, last - src)
    BY <2>1 DEF Number, Divide!Number, Divide!MapThenSumSet, Divide!MapThenFoldSet
  <2>4. Pos(d_first)' = Pos(d_first) /\ Base(d_first + (last - first))' = Base(d_first + (last - first))
    BY <2>1 DEF Pos, Base
  <2> QED BY <2>1, <2>2, <2>3, <2>4 DEF DivInv
<1> QED BY <1>1, DivHeadStep, DivWholeWordStep, DivRestStep DEF Divide!Next

LEMMA DivInit ==
  ASSUME Divide!Init, Divide!BeginsWithWord
  PROVE  DivInv
<1> DEFINE l == d_first + (last - first)
<1>1. /\ orig \in [Addr -> {0, 1}] /\ mem = orig
      /\ first \in 0 .. MemBits /\ last \in 0 .. MemBits /\ first <= last
      /\ d_first \in 0 .. (MemBits - (last - first))
      /\ first <= d_first \/ l <= first
      /\ operand \in 1 .. (Power(W) - 1) /\ carry = 0
      /\ src = last /\ it = Base(l) /\ remaining = 0 /\ whole_words = 0
      /\ pc = "start" /\ used = {} /\ d_used = {} /\ Pos(d_first) = 0
  BY DivideWords, NumberWords DEF Divide!Init, Divide!BeginsWithWord, Divide!NotBehind, Divide!d_last,
                                  Divide!Bits
<1>2. /\ first \in Nat /\ last \in Nat /\ d_first \in Nat /\ MemBits \in Nat
      /\ l \in Nat /\ l <= MemBits /\ last <= MemBits /\ W \in Nat /\ W > 0 /\ NumWords \in Nat
      /\ d_first + (src - first) = l /\ last - src = 0
  BY <1>1, Widths
<1>3. Base(l) \in -W .. MemBits
  <2>1. Base(l) \in Nat /\ Base(l) <= l
    BY <1>2, PosRange, BaseNat
  <2> DEFINE b == Base(l)
  <2>2. b \in Nat /\ b <= l
    BY <2>1
  <2> HIDE DEF b, l
  <2>3. b \in -W .. MemBits
    BY <1>2, <2>2
  <2> QED BY <2>3 DEF b
<1>4. Divide!TypeOK
  <2>1. carry \in 0 .. (operand - 1) /\ src \in first .. last
    <3>1. Power(W) \in Nat
      BY <1>2, PowerNat
    <3> QED BY <1>1, <1>2, <3>1
  <2>2. remaining \in 0 .. (W - 1) /\ whole_words \in 0 .. NumWords
    BY <1>1, <1>2
  <2> HIDE DEF l
  <2> QED BY <1>1, <1>2, <1>3, <2>1, <2>2, DivideWords, NumberWords
          DEF Divide!TypeOK, Divide!d_last, Divide!Bits, l
<1>5. Divide!AccessInRange
  BY <1>1 DEF Divide!AccessInRange
<1>6. carry + operand * Number(mem, d_first + (src - first), last - src) = Number(orig, src, last - src)
  <2>1. /\ Number(mem, d_first + (src - first), last - src) = 0
        /\ Number(orig, src, last - src) = 0
    BY <1>2, NumberNone
  <2>2. operand \in Int /\ Power(W) \in Int
    BY <1>1, <1>2, PowerNat
  <2> QED BY <1>1, <2>1, <2>2
<1> QED BY <1>1, <1>2, <1>4, <1>5, <1>6 DEF DivInv

LEMMA DivImplies ==
  ASSUME DivInv
  PROVE  /\ Divide!TypeOK /\ Divide!LongDivisionInvariant /\ Divide!DivisionCorrect
         /\ Divide!OutsideIntact /\ Divide!AccessInRange
<1> DEFINE n == last - src
           l == d_first + (last - first)
<1>1. /\ first \in Nat /\ last \in Nat /\ first <= src /\ src \in Nat /\ src <= last /\ d_first \in Nat
      /\ l \in Nat /\ l <= MemBits /\ MemBits \in Nat /\ n \in Nat
      /\ l - n = d_first + (src - first) /\ l - n \in Nat /\ (l - n) + n <= MemBits
      /\ src + n <= MemBits
  BY DivFacts
<1>2. /\ mem \in [Addr -> {0, 1}] /\ orig \in [Addr -> {0, 1}]
      /\ operand \in Nat /\ operand >= 1 /\ carry \in Nat /\ carry < operand
  BY DivFacts
<1>3. carry + operand * Number(mem, l - n, n) = Number(orig, src, n)
  BY <1>1 DEF DivInv
<1>4. Divide!LongDivisionInvariant
  BY <1>3, NumberWords DEF Divide!LongDivisionInvariant, Divide!d_last, Divide!Bits
<1>5. Divide!DivisionCorrect
  <2> SUFFICES ASSUME pc = "done"
               PROVE  /\ Number(mem, d_first, last - first) = Number(orig, first, last - first) \div operand
                      /\ carry = Number(orig, first, last - first) % operand
    BY NumberWords DEF Divide!DivisionCorrect, Divide!Bits
  <2>1. src = first
    BY DEF DivInv
  <2> DEFINE x == Number(orig, first, last - first)
             u == Number(mem, d_first, last - first)
  <2>2. carry + operand * u = x
    <3>1. l - n = d_first /\ n = last - first
      BY <1>1, <2>1
    <3> HIDE DEF l, n
    <3> QED BY <1>3, <2>1, <3>1
  <2>3. u \in Nat /\ x \in Nat
    <3>1. /\ Binary(orig, first, last - first) /\ Binary(mem, d_first, last - first)
          /\ last - first \in Nat
      <4> DEFINE k == last - first
      <4>1. k \in Nat /\ first + k <= MemBits /\ d_first + k <= MemBits
        BY <1>1
      <4> HIDE DEF k
      <4>2. Binary(orig, first, k) /\ Binary(mem, d_first, k)
        BY <1>1, <1>2, <4>1, MemoryBinary
      <4> QED BY <4>1, <4>2 DEF k
    <3> QED BY <3>1, NumberRange
  <2> HIDE DEF x, u
  <2>4. x = operand * u + carry /\ carry \in 0 .. (operand - 1) /\ operand > 0
    <3>1. operand * u \in Nat
      BY <1>2, <2>3, SMTT(30)
    <3> QED BY <1>2, <2>2, <2>3, <3>1
  <2>5. x \div operand = u /\ x % operand = carry
    BY <1>2, <2>3, <2>4, Divided
  <2> QED BY <2>5 DEF x, u
<1>6. Divide!OutsideIntact
  <2> SUFFICES ASSUME NEW a \in Addr, a < d_first \/ l <= a PROVE mem[a] = orig[a]
    BY DivideWords DEF Divide!OutsideIntact, Divide!d_last, Divide!Bits
  <2>1. a \in Int
    BY Widths
  <2>2. a < d_first + (src - first) \/ l <= a
    <3> HIDE DEF l
    <3> QED BY <1>1, <2>1
  <2> QED BY <2>2 DEF DivInv
<1> QED BY <1>4, <1>5, <1>6 DEF DivInv

----------------------------------------------------------------------------
(* the double-word division                                                *)

LEMMA HalfWords ==
  /\ H \in Nat /\ H >= 1 /\ Wide!Half = Power(H) /\ Wide!Half \in Nat /\ Wide!Half >= 2
  /\ \E g \in Nat : g >= 1 /\ Wide!Half = 2 * g
  /\ Wide!Limit = Wide!Half * Wide!Half /\ Wide!Limit = Power(2 * H)
  /\ Wide!Limit \in Nat /\ Wide!Limit >= 4 /\ Wide!Half <= Wide!Limit
<1>1. H \in Nat /\ H >= 1 /\ H - 1 \in Nat /\ (H - 1) + 1 = H /\ H + H = 2 * H
  BY HAssumption
<1>2. Power(H) = 2 * Power(H - 1) /\ Power(H - 1) \in Nat /\ Power(H - 1) >= 1
  BY <1>1, PowerStep, PowerPositive
<1>3. Power(2 * H) = Power(H) * Power(H)
  BY <1>1, PowerSum
<1> DEFINE h == Power(H)
           g == Power(H - 1)
<1>4. h = 2 * g /\ g \in Nat /\ g >= 1
  BY <1>2
<1> HIDE DEF h, g
<1>5. h \in Nat /\ h >= 2
  BY <1>4
<1>6. h * h \in Nat /\ h * 2 <= h * h
  <2>1. h * 2 <= h * h
    BY <1>5, TimesMonotone
  <2> QED BY <1>5, <2>1, SMTT(30)
<1>7. h * h >= 4 /\ h <= h * h
  BY <1>5, <1>6
<1>8. Wide!Half = h /\ Wide!Limit = h * h
  BY DEF Wide!Half, Wide!Limit, h, Power
<1> QED BY <1>1, <1>3, <1>4, <1>5, <1>6, <1>7, <1>8 DEF h

LEMMA DigitIs ==
  ASSUME den \in Nat, den < Wide!Limit, Wide!Limit <= 2 * den,
         NEW a \in Nat, a < den, NEW num \in 0 .. (Wide!Half - 1),
         NEW q \in Int, NEW r \in 0 .. (den - 1), a * Wide!Half + num = q * den + r
  PROVE  Wide!Digit(a, num) = q /\ q \in 0 .. (Wide!Half - 1)
<1> DEFINE h    == Wide!Half
           L    == Wide!Limit
           y1   == den \div h
           y0   == den % h
           qhat == a \div y1
           c1   == qhat * y0
           c2   == (a % y1) * h + num
<1>1. /\ h \in Nat /\ h >= 2 /\ L = h * h /\ L \in Nat
      /\ num \in 0 .. (h - 1) /\ a * h + num = q * den + r /\ den < L /\ L <= 2 * den
  BY HalfWords
<1>2. PICK g \in Nat : g >= 1 /\ h = 2 * g
  BY HalfWords
<1>3. q \in 0 .. (h - 1)
  <2> HIDE DEF h, L, y1, y0, qhat, c1, c2
  <2> QED BY <1>1, DigitFits
<1>4. /\ y1 \in Nat /\ y1 >= 1 /\ qhat \in Nat
      /\ c1 \in 0 .. (L - 1) /\ c2 \in 0 .. (den - 1) /\ c1 - c2 <= 2 * den
      /\ a * h + num = qhat * den - c1 + c2
  <2> DEFINE rhat == a % y1
  <2> HIDE DEF h, L
  <2>1. y1 \in Int /\ y0 \in 0 .. (h - 1) /\ den = h * y1 + y0
    <3>1. y1 \in Int /\ y0 \in Nat /\ y0 < h /\ den = h * y1 + y0
      BY <1>1, Dividing
    <3> HIDE DEF y1, y0
    <3> QED BY <1>1, <3>1
  <2> HIDE DEF y1, y0
  <2>2. y1 \in Nat /\ y1 >= 1
    <3>1. y1 >= g
      BY <1>1, <1>2, <2>1, LeadingHalf
    <3> QED BY <1>2, <2>1, <3>1
  <2>3. qhat \in Nat /\ rhat \in 0 .. (y1 - 1) /\ a = y1 * qhat + rhat
    <3>1. qhat \in Int /\ qhat >= 0 /\ rhat \in Nat /\ rhat < y1 /\ a = y1 * qhat + rhat
      BY <2>2, Dividing
    <3> HIDE DEF qhat, rhat
    <3> QED BY <2>2, <3>1
  <2> HIDE DEF qhat, rhat
  <2>4. /\ qhat * y0 \in 0 .. (L - 1) /\ rhat * h + num \in 0 .. (den - 1)
        /\ qhat * y0 - (rhat * h + num) <= 2 * den
        /\ a * h + num = qhat * den - qhat * y0 + (rhat * h + num)
    <3>1. Estimates(h, g, L, den, y1, y0, a, num, qhat, rhat)
      BY <1>1, <1>2, <2>1, <2>3 DEF Estimates
    <3> QED BY <3>1, EstimateIs
  <2>5. c2 = rhat * h + num /\ c1 = qhat * y0
    BY DEF rhat
  <2> HIDE DEF c1, c2
  <2> QED BY <2>2, <2>3, <2>4, <2>5
<1>5. c1 % L = c1 /\ c2 % L = c2
  <2>1. c2 \in 0 .. (L - 1)
    <3> HIDE DEF c1, c2, L
    <3> QED BY <1>1, <1>4
  <2> HIDE DEF c1, c2, L
  <2> QED BY <1>1, <1>4, <2>1, Unwrapped
<1>6. Wide!Digit(a, num) = (IF c1 > c2 THEN qhat - (IF c1 - c2 > den THEN 2 ELSE 1) ELSE qhat) % h
  BY <1>5 DEF Wide!Digit, Wide!Wrap, Wide!WrapHalf
<1> HIDE DEF h, L, y1, y0, qhat, c1, c2
<1> DEFINE e == c1 - c2
           x == IF c1 > c2 THEN qhat - (IF e > den THEN 2 ELSE 1) ELSE qhat
<1>7. \E t \in 0 .. (den - 1) : x \in Int /\ q * den + r = x * den + t
  <2>1. c1 \in Int /\ c2 \in Int /\ 0 <= c2 /\ c2 < den /\ c1 >= 0 /\ e <= 2 * den /\ qhat * den \in Int
        /\ q * den + r = qhat * den - e
    <3>1. c1 \in Int /\ c2 \in Int /\ 0 <= c2 /\ c2 < den /\ c1 >= 0 /\ qhat * den \in Int /\ e <= 2 * den
      BY <1>1, <1>4
    <3> DEFINE k == qhat * den
               j == q * den + r
    <3>2. k \in Int /\ j = k - c1 + c2
      BY <1>1, <1>4, <3>1
    <3> HIDE DEF k, j
    <3>3. j = k - e
      BY <3>1, <3>2
    <3> QED BY <3>1, <3>3 DEF k, j
  <2>2. CASE c1 <= c2
    <3>1. x = qhat /\ -e \in 0 .. (den - 1)
      BY <2>1, <2>2
    <3> QED BY <1>4, <2>1, <3>1
  <2>3. CASE c1 > c2 /\ e > den
    <3>1. x = qhat - 2 /\ 2 * den - e \in 0 .. (den - 1) /\ x \in Int
      BY <1>4, <2>1, <2>3
    <3>2. (qhat - 2) * den = qhat * den - 2 * den
      BY <1>4
    <3>3. q * den + r = x * den + (2 * den - e)
      BY <2>1, <3>1, <3>2
    <3> QED BY <3>1, <3>3
  <2>4. CASE c1 > c2 /\ ~(e > den)
    <3>1. x = qhat - 1 /\ den - e \in 0 .. (den - 1) /\ x \in Int
      BY <1>4, <2>1, <2>4
    <3>2. (qhat - 1) * den = qhat * den - den
      BY <1>4
    <3>3. q * den + r = x * den + (den - e)
      BY <2>1, <3>1, <3>2
    <3> QED BY <3>1, <3>3
  <2> QED BY <2>1, <2>2, <2>3, <2>4
<1>8. x = q
  <2>1. PICK t \in 0 .. (den - 1) : x \in Int /\ q * den + r = x * den + t
    BY <1>7
  <2> HIDE DEF x
  <2> DEFINE v == q * den + r
  <2>2. v \in Int /\ v = den * q + r /\ v = den * x + t /\ den > 0
    BY <2>1
  <2> HIDE DEF v
  <2>3. v \div den = q /\ v \div den = x
    BY <2>1, <2>2, Divided
  <2> QED BY <2>3
<1>9. Wide!Digit(a, num) = x % h
  BY <1>6
<1> HIDE DEF x
<1> QED BY <1>1, <1>3, <1>8, <1>9, Unwrapped DEF h

\* The number of leading zeros is one less than the least number of doublings
\* that overflow.
LEMMA Normalization ==
  ASSUME NEW a \in Nat, a >= 1, a < Wide!Limit
  PROVE  /\ Wide!LeadingZeros(a) \in 0 .. (2 * H - 1)
         /\ a * Power(Wide!LeadingZeros(a)) < Wide!Limit
         /\ Wide!Limit <= 2 * (a * Power(Wide!LeadingZeros(a)))
<1> DEFINE L == Wide!Limit
           S == {k \in Nat : L <= a * Power(k)}
           Z(n) == a * Power(n) < L /\ L <= 2 * (a * Power(n))
<1>1. L \in Nat /\ L = Power(2 * H) /\ 2 * H \in Nat
  BY HalfWords
<1>2. 2 * H \in S
  <2>1. L * 1 <= L * a
    BY <1>1, TimesMonotone
  <2> QED BY <1>1, <2>1
<1>3. PICK m \in S : \A k \in S : m <= k
  <2>1. S \in SUBSET Nat /\ S # {}
    BY <1>2
  <2> HIDE DEF S
  <2> QED BY <2>1, LeastOf
<1>4. m \in Nat /\ m <= 2 * H /\ L <= a * Power(m)
  BY <1>2, <1>3
<1>5. m # 0
  <2> SUFFICES ASSUME m = 0 PROVE FALSE
    OBVIOUS
  <2>1. a * Power(m) = a
    BY PowerZero
  <2> QED BY <1>1, <1>4, <2>1
<1> DEFINE n == m - 1
<1>6. n \in Nat /\ n <= 2 * H - 1 /\ n + 1 = m /\ ~(m <= n)
  BY <1>1, <1>4, <1>5
<1> HIDE DEF n
<1>7. Power(m) = 2 * Power(n) /\ Power(n) \in Nat
  BY <1>6, PowerStep, PowerNat
<1>8. a * Power(n) < L
  <2>1. n \notin S
    BY <1>3, <1>6
  <2>2. a * Power(n) \in Nat
    BY <1>7, SMTT(30)
  <2> HIDE DEF L
  <2> QED BY <1>1, <1>6, <2>1, <2>2
<1>9. Z(n)
  <2>1. a * (2 * Power(n)) = 2 * (a * Power(n))
    BY <1>7
  <2> QED BY <1>4, <1>7, <1>8, <2>1
<1> HIDE DEF Z
<1>10. \E k \in 0 .. (2 * H) : Z(k)
  <2>1. n \in 0 .. (2 * H)
    BY <1>1, <1>6
  <2> QED BY <1>9, <2>1
<1>11. Wide!LeadingZeros(a) = CHOOSE k \in 0 .. (2 * H) : Z(k)
  <2>1. ASSUME NEW k \in 0 .. (2 * H)
        PROVE  Z(k) <=> a * 2 ^ k < L /\ (a = 0 \/ 2 * a * 2 ^ k >= L)
    <3>1. Power(k) \in Nat /\ 2 ^ k = Power(k)
      BY <1>1, PowerNat DEF Power
    <3> DEFINE p == Power(k)
    <3>2. p \in Nat
      BY <3>1
    <3> HIDE DEF p, L
    <3>3. 2 * a * p = 2 * (a * p) /\ a * p \in Int
      BY <3>2
    <3>4. (L <= 2 * (a * p)) <=> (2 * a * p >= L)
      BY <1>1, <3>3
    <3>5. Z(k) <=> a * p < L /\ L <= 2 * (a * p)
      BY DEF Z, p
    <3> QED BY <3>1, <3>4, <3>5 DEF p
  <2> QED BY <2>1 DEF Wide!LeadingZeros
<1> DEFINE z == Wide!LeadingZeros(a)
<1>12. z \in 0 .. (2 * H) /\ Z(z)
  BY <1>10, <1>11
<1> HIDE DEF z
<1>13. a * Power(z) < L /\ L <= 2 * (a * Power(z))
  BY <1>12 DEF Z
<1>14. z # 2 * H
  <2> SUFFICES ASSUME z = 2 * H PROVE FALSE
    OBVIOUS
  <2>1. L * 1 <= L * a
    BY <1>1, TimesMonotone
  <2>2. a * L = L * a
    BY <1>1
  <2> QED BY <1>1, <1>13, <2>1, <2>2
<1> QED BY <1>1, <1>12, <1>13, <1>14 DEF z

\* The leading zeros of y let it be multiplied by P, and the others of its word
\* by Q; a is below it.
LeadsWith(L, P, Q, a, b, y) ==
  /\ L \in Nat /\ P \in Nat /\ P >= 1 /\ Q \in Nat /\ Q >= 1 /\ L = P * Q
  /\ a \in Nat /\ b \in Nat /\ b < L /\ y \in Nat /\ a < y /\ y * P < L

\* A double word shifted left by the zeros that lead in a denominator above its
\* high word: no bit is lost, and the low word's high bits come into the high.
LEMMA ShiftedLeft ==
  ASSUME NEW L, NEW P, NEW Q, NEW a, NEW b, NEW y, LeadsWith(L, P, Q, a, b, y)
  PROVE  /\ (a * P) % L = a * P
         /\ (a * P + (b \div Q)) \in 0 .. (y * P - 1)
         /\ (b * P) % L \in 0 .. (L - 1)
         /\ (a * P + (b \div Q)) * L + ((b * P) % L) = (a * L + b) * P
<1> SUFFICES ASSUME L \in Nat, P \in Nat, P >= 1, Q \in Nat, Q >= 1, L = P * Q,
                    a \in Nat, b \in Nat, b < L, y \in Nat, a < y, y * P < L
             PROVE  /\ (a * P) % L = a * P
                    /\ (a * P + (b \div Q)) \in 0 .. (y * P - 1)
                    /\ (b * P) % L \in 0 .. (L - 1)
                    /\ (a * P + (b \div Q)) * L + ((b * P) % L) = (a * L + b) * P
  BY DEF LeadsWith
<1> DEFINE t == b \div Q
           u == b % Q
<1>1. t \in Int /\ t >= 0 /\ u \in Nat /\ u < Q /\ b = Q * t + u
  BY b \in Int, Q > 0, Dividing
<1> HIDE DEF t, u
<1>2. t < P
  <2> SUFFICES ASSUME t >= P PROVE FALSE
    BY <1>1
  <2>1. Q * P <= Q * t
    BY <1>1, TimesMonotone
  <2>2. Q * P = P * Q /\ Q * t \in Int /\ P * Q \in Int
    BY <1>1
  <2> QED BY <1>1, <2>1, <2>2
<1>3. a * P \in Nat /\ a * P + P <= y * P
  <2>1. P * (a + 1) <= P * y
    BY TimesMonotone
  <2>2. P * (a + 1) = a * P + P /\ P * y = y * P
    OBVIOUS
  <2>3. a * P \in Nat
    BY SMTT(30)
  <2> QED BY <2>1, <2>2, <2>3
<1> DEFINE c == a * P
           e == y * P
<1>4. c \in Nat /\ e \in Nat /\ c + P <= e /\ e < L
  BY <1>3, SMTT(30)
<1> HIDE DEF c, e
<1>5. c \in 0 .. (L - 1) /\ c + t \in 0 .. (e - 1)
  BY <1>1, <1>2, <1>4
<1>6. c % L = c
  BY <1>5, Unwrapped
<1>7. b * P = L * t + u * P
  <2>1. b * P = (P * Q) * t + u * P
    BY <1>1, SMTT(30)
  <2> QED BY <2>1
<1>8. u * P \in 0 .. (L - 1)
  <2>1. P * (u + 1) <= P * Q
    BY <1>1, TimesMonotone
  <2>2. P * (u + 1) = u * P + P
    BY <1>1
  <2>3. u * P \in Nat
    BY <1>1, SMTT(30)
  <2> QED BY <2>1, <2>2, <2>3
<1>9. (b * P) % L = u * P
  <2> DEFINE x == b * P
             z == u * P
  <2>1. x \in Int /\ L > 0 /\ x = L * t + z /\ z \in 0 .. (L - 1)
    BY <1>4, <1>7, <1>8
  <2> HIDE DEF x, z
  <2>2. x % L = z
    BY <1>1, <2>1, Divided
  <2> QED BY <2>2 DEF x, z
<1>10. (c + t) * L + u * P = (a * L + b) * P
  <2>1. (c + t) * L = c * L + L * t
    BY <1>1, <1>4
  <2>2. (a * L + b) * P = (a * P) * L + b * P
    BY SMTT(30)
  <2>3. c * L \in Int /\ L * t \in Int /\ u * P \in Int
    BY <1>1, <1>4
  <2>4. c = a * P
    BY DEF c
  <2> DEFINE j == c * L
             k == L * t
             n == u * P
  <2>5. j \in Int /\ k \in Int /\ n \in Int /\ (c + t) * L = j + k /\ (a * L + b) * P = j + (k + n)
    BY <1>7, <2>1, <2>2, <2>3, <2>4
  <2> HIDE DEF j, k, n
  <2>6. (c + t) * L + n = (a * L + b) * P
    BY <2>5
  <2> QED BY <2>6 DEF n
<1> QED BY <1>5, <1>6, <1>8, <1>9, <1>10 DEF c, e, t

\* The numerator and the denominator are those of the call times 2^shift, and of
\* the numerator's first half words the quotient is q1 and the remainder rem.
WideInv ==
  /\ Wide!TypeOK /\ Wide!DivxCorrect /\ Wide!RemainderReduced
  /\ d # 0
  /\ pc \in {"q1", "q0"} =>
       /\ numhi * Wide!Limit + numlo = (hi * Wide!Limit + lo) * Power(shift)
       /\ den = d * Power(shift)
  /\ pc = "q0" => numhi * Wide!Half + (numlo \div Wide!Half) = q1 * den + rem

LEMMA WideFacts ==
  ASSUME WideInv
  PROVE  /\ hi \in Nat /\ hi < Wide!Limit /\ lo \in 0 .. (Wide!Limit - 1) /\ lo \in Nat
         /\ d \in Nat /\ d >= 1 /\ d < Wide!Limit
         /\ shift \in 0 .. (2 * H - 1) /\ shift \in Nat
         /\ numhi \in Nat /\ numlo \in Nat /\ numlo < Wide!Limit /\ den \in Nat /\ den < Wide!Limit
         /\ q1 \in Nat /\ q1 < Wide!Half /\ q0 \in Nat /\ rem \in Nat
         /\ pc \in {"start", "q1", "q0", "overflow", "done"}
         /\ pc \in {"q1", "q0"} => Wide!Limit <= 2 * den /\ den >= 1 /\ numhi < den
BY HalfWords DEF WideInv, Wide!TypeOK, Wide!Words

LEMMA HalvesOf ==
  ASSUME NEW v \in Nat, v < Wide!Limit
  PROVE  /\ v \div Wide!Half \in 0 .. (Wide!Half - 1) /\ v % Wide!Half \in 0 .. (Wide!Half - 1)
         /\ v = Wide!Half * (v \div Wide!Half) + (v % Wide!Half)
<1> DEFINE h == Wide!Half
           t == v \div h
           u == v % h
<1>1. h \in Nat /\ h >= 2 /\ v < h * h
  BY HalfWords
<1> HIDE DEF h
<1>2. t \in Int /\ t >= 0 /\ u \in Nat /\ u < h /\ v = h * t + u
  BY <1>1, Dividing
<1> HIDE DEF t, u
<1>3. t < h
  <2> SUFFICES ASSUME t >= h PROVE FALSE
    BY <1>1, <1>2
  <2>1. h * h <= h * t
    BY <1>1, <1>2, TimesMonotone
  <2>2. h * h \in Int /\ h * t \in Int
    BY <1>1, <1>2
  <2> QED BY <1>1, <1>2, <2>1, <2>2
<1>4. t \in 0 .. (h - 1) /\ u \in 0 .. (h - 1)
  BY <1>1, <1>2, <1>3
<1> QED BY <1>2, <1>4 DEF h, t, u

\* One partial quotient: the digit, and the partial remainder as the code
\* computes it.
LEMMA PartialQuotient ==
  ASSUME den \in Nat, den < Wide!Limit, Wide!Limit <= 2 * den,
         NEW a \in Nat, a < den, NEW num \in 0 .. (Wide!Half - 1)
  PROVE  LET q == Wide!Digit(a, num)
             r == Wide!Wrap(a * Wide!Half + num - q * den)
         IN  q \in 0 .. (Wide!Half - 1) /\ r \in 0 .. (den - 1) /\ a * Wide!Half + num = q * den + r
<1> DEFINE h == Wide!Half
           v == a * h + num
           q == v \div den
           r == v % den
<1>1. /\ h \in Nat /\ h >= 2 /\ Wide!Limit \in Nat /\ Wide!Limit >= 4 /\ num \in 0 .. (h - 1)
      /\ den \in Int /\ den > 0
  <2>1. h \in Nat /\ h >= 2 /\ Wide!Limit \in Nat /\ Wide!Limit >= 4 /\ num \in 0 .. (h - 1)
    BY HalfWords
  <2> QED BY <2>1
<1> HIDE DEF h
<1>2. v \in Int
  BY <1>1
<1> HIDE DEF v
<1>3. q \in Int /\ r \in Nat /\ r < den /\ v = den * q + r
  BY <1>1, <1>2, Dividing
<1> HIDE DEF q, r
<1>4. r \in 0 .. (den - 1) /\ v = q * den + r /\ den * q \in Int /\ den * q = q * den
  BY <1>1, <1>3
<1>5. Wide!Digit(a, num) = q /\ q \in 0 .. (h - 1)
  <2>1. a * Wide!Half + num = q * den + r
    BY <1>4 DEF v, h
  <2> QED BY <1>3, <1>4, <2>1, DigitIs DEF h
<1>6. Wide!Wrap(v - q * den) = r
  <2>1. v - q * den = r
    BY <1>2, <1>3, <1>4
  <2>2. r \in 0 .. (Wide!Limit - 1)
    BY <1>1, <1>4
  <2>3. r % Wide!Limit = r
    BY <1>1, <2>2, Unwrapped
  <2> QED BY <2>1, <2>3 DEF Wide!Wrap
<1>7. Wide!Wrap(a * Wide!Half + num - Wide!Digit(a, num) * den) = r
  <2>1. a * Wide!Half + num = v
    BY DEF v, h
  <2> HIDE DEF v
  <2>2. a * Wide!Half + num - Wide!Digit(a, num) * den = v - q * den
    <3>1. a * Wide!Half \in Int /\ num \in Int /\ q * den \in Int
      BY <1>1, <1>3 DEF h
    <3> DEFINE x == q * den
    <3>2. Wide!Digit(a, num) * den = x /\ x \in Int
      BY <1>5, <3>1
    <3> HIDE DEF x
    <3>3. a * Wide!Half + num - x = v - x
      BY <2>1, <3>1, <3>2
    <3> QED BY <3>2, <3>3 DEF x
  <2> QED BY <1>6, <2>2
<1>8. /\ Wide!Digit(a, num) \in 0 .. (Wide!Half - 1)
      /\ a * Wide!Half + num = Wide!Digit(a, num) * den + r
  BY <1>4, <1>5 DEF v, h
<1> QED BY <1>4, <1>7, <1>8

LEMMA WideOverflowStep ==
  ASSUME WideInv, Wide!Overflow
  PROVE  WideInv'
<1>1. /\ q1' = Wide!Half - 1 /\ q0' = Wide!Half - 1 /\ rem' = Wide!Limit - 1 /\ pc' = "overflow"
      /\ hi' = hi /\ lo' = lo /\ d' = d /\ shift' = shift /\ numhi' = numhi /\ numlo' = numlo
      /\ den' = den
  BY DEF Wide!Overflow, Wide!Call
<1>2. Wide!Half' = Wide!Half /\ Wide!Limit' = Wide!Limit
  BY DEF Wide!Half, Wide!Limit
<1>3. Wide!Half - 1 \in 0 .. (Wide!Half - 1) /\ Wide!Limit - 1 \in 0 .. (Wide!Limit - 1)
  BY HalfWords
<1> QED BY <1>1, <1>2, <1>3 DEF WideInv, Wide!TypeOK, Wide!Words, Wide!DivxCorrect, Wide!RemainderReduced

LEMMA WideNormalizeStep ==
  ASSUME WideInv, Wide!Normalize
  PROVE  WideInv'
<1> DEFINE s == Wide!LeadingZeros(d)
           L == Wide!Limit
           P == Power(s)
           Q == Power(2 * H - s)
           z == ((hi * P) % L) + (IF s = 0 THEN 0 ELSE lo \div Q)
<1>1. /\ hi < d /\ shift' = s /\ den' = (d * P) % L /\ numhi' = z /\ numlo' = (lo * P) % L
      /\ pc' = "q1" /\ hi' = hi /\ lo' = lo /\ d' = d /\ q1' = q1 /\ q0' = q0 /\ rem' = rem
  BY DEF Wide!Normalize, Wide!Call, Wide!Wrap, Power
<1>2. /\ hi \in Nat /\ d \in Nat /\ d >= 1 /\ d < L /\ lo \in 0 .. (L - 1)
      /\ L \in Nat /\ L >= 4 /\ H \in Nat /\ H >= 1 /\ L = Power(2 * H)
  BY WideFacts, HalfWords
<1>3. s \in 0 .. (2 * H - 1) /\ d * P < L /\ L <= 2 * (d * P)
  BY <1>2, Normalization
<1> HIDE DEF s
<1>4. P \in Nat /\ P >= 1 /\ Q \in Nat /\ Q >= 1 /\ L = P * Q
  <2>1. s \in Nat /\ 2 * H - s \in Nat /\ s + (2 * H - s) = 2 * H
    BY <1>2, <1>3
  <2>2. Power(s + (2 * H - s)) = Power(s) * Power(2 * H - s)
    BY <2>1, PowerSum
  <2> QED BY <1>2, <2>1, <2>2, PowerPositive
<1> HIDE DEF P, Q, L
<1>5. /\ (hi * P) % L = hi * P
      /\ (hi * P + (lo \div Q)) \in 0 .. (d * P - 1)
      /\ (lo * P) % L \in 0 .. (L - 1)
      /\ (hi * P + (lo \div Q)) * L + ((lo * P) % L) = (hi * L + lo) * P
  <2>1. LeadsWith(L, P, Q, hi, lo, d)
    BY <1>1, <1>2, <1>3, <1>4 DEF LeadsWith
  <2> QED BY <2>1, ShiftedLeft
<1>6. z = hi * P + (lo \div Q)
  <2>1. s = 0 => lo \div Q = 0
    <3> SUFFICES ASSUME s = 0 PROVE lo \div Q = 0
      OBVIOUS
    <3>1. Q = L
      <4>1. 2 * H - s = 2 * H
        BY <1>2
      <4> QED BY <1>2, <4>1 DEF Q
    <3> QED BY <1>2, <3>1, Unwrapped
  <2> QED BY <1>5, <2>1
<1>7. d * P \in 0 .. (L - 1) /\ d * P \in Nat
  BY <1>2, <1>3, <1>4, SMTT(30)
<1>8. den' = d * P
  BY <1>1, <1>2, <1>7, Unwrapped
<1>9. /\ numhi' \in 0 .. (L - 1) /\ numhi' < den'
      /\ numlo' \in 0 .. (L - 1) /\ den' \in 0 .. (L - 1) /\ 2 * den' >= L
  <2> DEFINE e == d * P
  <2>1. e \in 0 .. (L - 1) /\ den' = e /\ numhi' \in 0 .. (e - 1) /\ L <= 2 * e
    BY <1>1, <1>3, <1>5, <1>6, <1>7, <1>8
  <2> HIDE DEF e
  <2> QED BY <1>1, <1>2, <1>5, <2>1
<1>10. Wide!Limit' = L /\ Wide!Half' = Wide!Half /\ Power(shift)' = P
  BY <1>1 DEF Wide!Limit, Wide!Half, L, Power, P
<1>11. Wide!TypeOK'
  BY <1>1, <1>3, <1>9, <1>10 DEF WideInv, Wide!TypeOK, Wide!Words, L
<1>12. /\ Wide!DivxCorrect' /\ Wide!RemainderReduced'
  BY <1>1 DEF Wide!DivxCorrect, Wide!RemainderReduced
<1>13. numhi' * L + numlo' = (hi' * L + lo') * P
  BY <1>1, <1>5, <1>6
<1> QED BY <1>1, <1>8, <1>10, <1>11, <1>12, <1>13 DEF WideInv

LEMMA WideHighDigitStep ==
  ASSUME WideInv, Wide!HighDigit
  PROVE  WideInv'
<1> DEFINE h == Wide!Half
           L == Wide!Limit
           num == numlo \div h
           q == Wide!Digit(numhi, num)
           r == Wide!Wrap(numhi * h + num - q * den)
<1>1. /\ pc = "q1" /\ q1' = q /\ rem' = Wide!Wrap(numhi * h + num - q1' * den) /\ pc' = "q0"
      /\ hi' = hi /\ lo' = lo /\ d' = d /\ shift' = shift /\ numhi' = numhi /\ numlo' = numlo
      /\ den' = den /\ q0' = q0
  BY DEF Wide!HighDigit, Wide!Call
<1>2. /\ numhi \in Nat /\ numhi < den /\ numlo \in Nat /\ numlo < L /\ den \in Nat /\ den < L
      /\ L <= 2 * den /\ L \in Nat /\ h \in Nat
  BY <1>1, WideFacts, HalfWords
<1>3. num \in 0 .. (h - 1)
  BY <1>2, HalvesOf
<1>4. q \in 0 .. (h - 1) /\ r \in 0 .. (den - 1) /\ numhi * h + num = q * den + r
  BY <1>2, <1>3, PartialQuotient
<1>5. rem' = r
  BY <1>1
<1> HIDE DEF q, r
<1>6. rem' < den' /\ rem' \in 0 .. (L - 1)
  BY <1>1, <1>2, <1>4, <1>5
<1>7. numhi' * h + (numlo' \div h) = q1' * den' + rem'
  BY <1>1, <1>4, <1>5
<1>8. Wide!Limit' = L /\ Wide!Half' = h /\ Power(shift)' = Power(shift)
  BY <1>1 DEF Wide!Limit, Wide!Half, Power
<1>9. Wide!TypeOK'
  BY <1>1, <1>4, <1>6, <1>8 DEF WideInv, Wide!TypeOK, Wide!Words
<1>10. Wide!DivxCorrect' /\ Wide!RemainderReduced'
  BY <1>1, <1>6 DEF Wide!DivxCorrect, Wide!RemainderReduced
<1> QED BY <1>1, <1>7, <1>8, <1>9, <1>10 DEF WideInv

\* Of <<a, n1>> the quotient by y is k and the remainder c, and of <<c, n0>> they
\* are q and r.
LeavesDigits(h, y, a, n1, n0, k, c, q, r) ==
  /\ h \in Nat /\ y \in Nat /\ a \in Nat /\ n1 \in Nat /\ n0 \in Nat
  /\ k \in Nat /\ c \in Nat /\ q \in Nat /\ r \in Nat
  /\ a * h + n1 = k * y + c /\ c * h + n0 = q * y + r

\* The two digits and the last remainder, before it is shifted back.
LEMMA TwoDigits ==
  ASSUME NEW h, NEW y, NEW a, NEW n1, NEW n0, NEW k, NEW c, NEW q, NEW r,
         LeavesDigits(h, y, a, n1, n0, k, c, q, r)
  PROVE  a * (h * h) + (h * n1 + n0) = (k * h + q) * y + r
<1> SUFFICES ASSUME h \in Nat, y \in Nat, a \in Nat, n1 \in Nat, n0 \in Nat,
                    k \in Nat, c \in Nat, q \in Nat, r \in Nat,
                    a * h + n1 = k * y + c, c * h + n0 = q * y + r
             PROVE  a * (h * h) + (h * n1 + n0) = (k * h + q) * y + r
  BY DEF LeavesDigits
<1>1. a * (h * h) + (h * n1 + n0) = (a * h + n1) * h + n0
  BY SMTT(30)
<1>2. (k * y + c) * h + n0 = (k * h) * y + (c * h + n0)
  BY SMTT(30)
<1>3. (k * h + q) * y = (k * h) * y + q * y
  BY SMTT(30)
<1>4. (k * h) * y \in Int /\ q * y \in Int
  OBVIOUS
<1> QED BY <1>1, <1>2, <1>3, <1>4

\* Of u times P the quotient by y times P is k and the remainder r.
LeavesOver(u, P, k, y, r) ==
  /\ u \in Int /\ P \in Nat /\ P >= 1 /\ k \in Int /\ y \in Nat /\ r \in Nat
  /\ r < y * P /\ u * P = k * (y * P) + r

\* What is left over is a multiple of 2^shift, and its share is the remainder.
LEMMA ShiftedBack ==
  ASSUME NEW u, NEW P, NEW k, NEW y, NEW r, LeavesOver(u, P, k, y, r)
  PROVE  r \div P \in 0 .. (y - 1) /\ u = k * y + (r \div P)
<1> SUFFICES ASSUME u \in Int, P \in Nat, P >= 1, k \in Int, y \in Nat, r \in Nat,
                    r < y * P, u * P = k * (y * P) + r
             PROVE  r \div P \in 0 .. (y - 1) /\ u = k * y + (r \div P)
  BY DEF LeavesOver
<1> DEFINE x == u - k * y
<1>1. x \in Int /\ u = k * y + x
  BY k * y \in Int
<1>2. r = P * x
  <2>1. P * (u - k * y) = u * P - k * (y * P)
    BY SMTT(30)
  <2>2. u * P \in Int /\ k * (y * P) \in Int
    OBVIOUS
  <2> QED BY <2>1, <2>2
<1> HIDE DEF x
<1>3. r \div P = x
  <2>1. r = P * x + 0 /\ 0 \in 0 .. (P - 1)
    BY <1>1, <1>2
  <2> QED BY <1>1, <2>1, Divided
<1>4. x >= 0
  <2> SUFFICES ASSUME x <= -1 PROVE FALSE
    BY <1>1
  <2>1. P * x <= P * (-1)
    BY <1>1, TimesMonotone
  <2> QED BY <1>2, <2>1
<1>5. x < y
  <2> SUFFICES ASSUME x >= y PROVE FALSE
    BY <1>1
  <2>1. P * y <= P * x
    BY <1>1, TimesMonotone
  <2>2. P * y = y * P
    OBVIOUS
  <2> QED BY <1>2, <2>1, <2>2
<1> QED BY <1>1, <1>3, <1>4, <1>5

LEMMA WideLowDigitStep ==
  ASSUME WideInv, Wide!LowDigit
  PROVE  WideInv'
<1> DEFINE h == Wide!Half
           L == Wide!Limit
           P == Power(shift)
           n1 == numlo \div h
           num == numlo % h
           q == Wide!Digit(rem, num)
           r == Wide!Wrap(rem * h + num - q * den)
           u == hi * L + lo
           k == q1 * h + q
<1>1. /\ pc = "q0" /\ q0' = q /\ rem' = Wide!Wrap(rem * h + num - q0' * den) \div P /\ pc' = "done"
      /\ hi' = hi /\ lo' = lo /\ d' = d /\ shift' = shift /\ numhi' = numhi /\ numlo' = numlo
      /\ den' = den /\ q1' = q1
  BY DEF Wide!LowDigit, Wide!Call, Power
<1>2. /\ numhi \in Nat /\ numhi < den /\ numlo \in Nat /\ numlo < L /\ den \in Nat /\ den < L
      /\ L <= 2 * den /\ L \in Nat /\ h \in Nat /\ L = h * h /\ rem \in Nat /\ q1 \in Nat
      /\ shift \in Nat /\ hi \in Nat /\ lo \in Nat /\ d \in Nat /\ d < L
  BY <1>1, WideFacts, HalfWords
<1>3. /\ rem < den /\ den = d * P /\ numhi * L + numlo = u * P
      /\ numhi * h + n1 = q1 * den + rem
  BY <1>1 DEF WideInv, Wide!RemainderReduced
<1>4. n1 \in 0 .. (h - 1) /\ num \in 0 .. (h - 1) /\ numlo = h * n1 + num
  BY <1>2, HalvesOf
<1>5. q \in 0 .. (h - 1) /\ r \in 0 .. (den - 1) /\ rem * h + num = q * den + r
  <2> HIDE DEF num
  <2> QED BY <1>2, <1>3, <1>4, PartialQuotient
<1>6. rem' = r \div P
  BY <1>1
<1>7. P \in Nat /\ P >= 1
  BY <1>2, PowerPositive
<1> HIDE DEF h, L, P, n1, num, q, r
<1>8. n1 \in Nat /\ num \in Nat /\ q \in Nat /\ r \in Nat /\ r < den
  BY <1>2, <1>4, <1>5
<1>9. numhi * L + numlo = k * den + r
  <2>1. LeavesDigits(h, den, numhi, n1, num, q1, rem, q, r)
    BY <1>2, <1>3, <1>5, <1>8 DEF LeavesDigits
  <2>2. numhi * (h * h) + (h * n1 + num) = (q1 * h + q) * den + r
    BY <2>1, TwoDigits
  <2> QED BY <1>2, <1>4, <2>2
<1>10. u \in Int /\ k \in Int
  BY <1>2, <1>8
<1> HIDE DEF u, k
<1>11. r \div P \in 0 .. (d - 1) /\ u = k * d + (r \div P)
  <2>1. u * P = k * (d * P) + r /\ r < d * P
    BY <1>3, <1>8, <1>9
  <2>2. LeavesOver(u, P, k, d, r)
    BY <1>2, <1>7, <1>8, <1>10, <2>1 DEF LeavesOver
  <2> QED BY <2>2, ShiftedBack
<1>12. rem' \in 0 .. (L - 1) /\ rem' < d'
  <2> DEFINE x == r \div P
  <2>1. x \in 0 .. (d - 1) /\ rem' = x
    BY <1>6, <1>11
  <2> HIDE DEF x
  <2> QED BY <1>1, <1>2, <2>1
<1>13. Wide!Limit' = L /\ Wide!Half' = h
  BY DEF Wide!Limit, Wide!Half, L, h
<1>14. Wide!TypeOK'
  BY <1>1, <1>2, <1>5, <1>12, <1>13 DEF WideInv, Wide!TypeOK, Wide!Words, L, h
<1>15. Wide!DivxCorrect' /\ Wide!RemainderReduced'
  <2>1. hi' * L + lo' = (q1' * h + q0') * d' + rem'
    BY <1>1, <1>6, <1>11 DEF u, k
  <2> QED BY <1>1, <1>12, <1>13, <2>1 DEF Wide!DivxCorrect, Wide!RemainderReduced
<1> QED BY <1>1, <1>14, <1>15 DEF WideInv

LEMMA WideNext ==
  ASSUME WideInv, Wide!Next
  PROVE  WideInv'
<1>1. CASE Wide!Finished
  <2>1. /\ hi' = hi /\ lo' = lo /\ d' = d /\ shift' = shift /\ numhi' = numhi /\ numlo' = numlo
        /\ den' = den /\ q1' = q1 /\ q0' = q0 /\ rem' = rem /\ pc' = pc
    BY <1>1 DEF Wide!Finished, Wide!vars
  <2>2. Wide!Half' = Wide!Half /\ Wide!Limit' = Wide!Limit /\ Power(shift)' = Power(shift)
    BY <2>1 DEF Wide!Half, Wide!Limit, Power
  <2> QED BY <2>1, <2>2 DEF WideInv, Wide!TypeOK, Wide!Words, Wide!DivxCorrect, Wide!RemainderReduced
<1> QED BY <1>1, WideOverflowStep, WideNormalizeStep, WideHighDigitStep, WideLowDigitStep DEF Wide!Next

LEMMA WideInit ==
  ASSUME Wide!Init
  PROVE  WideInv
<1>1. /\ hi \in Wide!Words /\ lo \in Wide!Words /\ d \in Wide!Words /\ d # 0
      /\ shift = 0 /\ numhi = hi /\ numlo = lo /\ den = d /\ q1 = 0 /\ q0 = 0 /\ rem = 0
      /\ pc = "start"
  BY DEF Wide!Init
<1>2. /\ 0 \in 0 .. (2 * H - 1) /\ 0 \in 0 .. (Wide!Half - 1) /\ 0 \in Wide!Words
  <2>1. H \in Nat /\ H >= 1 /\ Wide!Half \in Nat /\ Wide!Half >= 2 /\ Wide!Limit \in Nat /\ Wide!Limit >= 4
    BY HalfWords
  <2> QED BY <2>1 DEF Wide!Words
<1> QED BY <1>1, <1>2 DEF WideInv, Wide!TypeOK, Wide!DivxCorrect, Wide!RemainderReduced

LEMMA AddCarryIs ==
  ASSUME NEW c \in {0, 1}, NEW a \in Wide!Words, NEW b \in Wide!Words
  PROVE  LET s == Wide!AddCarry(c, a, b)
         IN  /\ s.out \in Wide!Words /\ s.carry \in {0, 1}
             /\ s.out + s.carry * Wide!Limit = a + b + c
             /\ s = [out |-> s.out, carry |-> s.carry]
<1> DEFINE L == Wide!Limit
           s1 == (a + b) % L
           s2 == (s1 + c) % L
           k == IF s1 < a \/ s2 < s1 THEN 1 ELSE 0
<1>1. L \in Nat /\ L >= 4 /\ a \in 0 .. (L - 1) /\ b \in 0 .. (L - 1)
  BY HalfWords DEF Wide!Words
<1>2. Wide!AddCarry(c, a, b) = [out |-> s2, carry |-> k]
  BY DEF Wide!AddCarry, Wide!Wrap
<1> HIDE DEF L
<1>3. b \in 0 .. L /\ c \in 0 .. L /\ b < L /\ c < L
  BY <1>1
<1>4. /\ s1 \in 0 .. (L - 1)
      /\ \/ a + b = s1 /\ ~(s1 < a)
         \/ a + b = s1 + L /\ s1 < a
  BY <1>1, <1>3, SumCarry
<1> HIDE DEF s1
<1>5. /\ s2 \in 0 .. (L - 1)
      /\ \/ s1 + c = s2 /\ ~(s2 < s1)
         \/ s1 + c = s2 + L /\ s2 < s1
  BY <1>1, <1>3, <1>4, SumCarry
<1> HIDE DEF s2
<1>6. k \in {0, 1} /\ s2 + k * L = a + b + c
  <2>1. ~(s1 < a /\ s2 < s1)
    BY <1>1, <1>4, <1>5
  <2>2. CASE s1 < a \/ s2 < s1
    <3>1. k = 1 /\ a + b + c = s2 + L
      BY <1>1, <1>4, <1>5, <2>1, <2>2
    <3> QED BY <1>1, <1>5, <3>1
  <2>3. CASE ~(s1 < a \/ s2 < s1)
    <3>1. k = 0 /\ a + b + c = s2
      BY <1>1, <1>4, <1>5, <2>3
    <3> QED BY <1>1, <1>5, <3>1
  <2> QED BY <2>2, <2>3
<1> HIDE DEF k
<1> QED BY <1>2, <1>5, <1>6 DEF Wide!Words, L

LEMMA SubBorrowIs ==
  ASSUME NEW c \in {0, 1}, NEW a \in Wide!Words, NEW b \in Wide!Words
  PROVE  LET s == Wide!SubBorrow(c, a, b)
         IN  /\ s.out \in Wide!Words /\ s.carry \in {0, 1}
             /\ s.out - s.carry * Wide!Limit = a - b - c
             /\ s = [out |-> s.out, carry |-> s.carry]
<1> DEFINE L == Wide!Limit
           s1 == (a - b) % L
           s2 == (s1 - c) % L
           k == IF a < b \/ s1 < c THEN 1 ELSE 0
<1>1. L \in Nat /\ L >= 4 /\ a \in 0 .. (L - 1) /\ b \in 0 .. (L - 1)
  BY HalfWords DEF Wide!Words
<1>2. Wide!SubBorrow(c, a, b) = [out |-> s2, carry |-> k]
  BY DEF Wide!SubBorrow, Wide!Wrap
<1> HIDE DEF L
<1>3. c \in 0 .. (L - 1)
  BY <1>1
<1>4. /\ s1 \in 0 .. (L - 1)
      /\ \/ a - b = s1 /\ ~(a < b)
         \/ a - b = s1 - L /\ a < b /\ s1 >= 1
  BY <1>1, DifferenceBorrow
<1> HIDE DEF s1
<1>5. /\ s2 \in 0 .. (L - 1)
      /\ \/ s1 - c = s2 /\ ~(s1 < c)
         \/ s1 - c = s2 - L /\ s1 < c
  BY <1>1, <1>3, <1>4, DifferenceBorrow
<1> HIDE DEF s2
<1>6. k \in {0, 1} /\ s2 - k * L = a - b - c
  <2>1. ~(a < b /\ s1 < c)
    BY <1>1, <1>4, <1>5
  <2>2. CASE a < b \/ s1 < c
    <3>1. k = 1 /\ a - b - c = s2 - L
      BY <1>1, <1>4, <1>5, <2>1, <2>2
    <3> QED BY <1>1, <1>5, <3>1
  <2>3. CASE ~(a < b \/ s1 < c)
    <3>1. k = 0 /\ a - b - c = s2
      BY <1>1, <1>4, <1>5, <2>3
    <3> QED BY <1>1, <1>5, <3>1
  <2> QED BY <2>2, <2>3
<1> HIDE DEF k
<1> QED BY <1>2, <1>5, <1>6 DEF Wide!Words, L

\* z is a word o, with a multiple k of the modulus m, P bits up, and e below it.
ShiftsTo(m, P, o, k, e, z) ==
  /\ m \in Nat /\ P \in Nat /\ P >= 1 /\ o \in 0 .. (m - 1) /\ k \in {-1, 0, 1}
  /\ e \in 0 .. (P - 1) /\ z = (o + k * m) * P + e

\* Shifted back o is left, and z wraps round where o does.
LEMMA ShiftedWord ==
  ASSUME NEW m, NEW P, NEW o, NEW k, NEW e, NEW z, ShiftsTo(m, P, o, k, e, z)
  PROVE  /\ (z % (m * P)) \div P = o
         /\ z \in 0 .. (m * P - 1) <=> k = 0
<1> SUFFICES ASSUME m \in Nat, P \in Nat, P >= 1, o \in 0 .. (m - 1), k \in {-1, 0, 1},
                    e \in 0 .. (P - 1), z = (o + k * m) * P + e
             PROVE  /\ (z % (m * P)) \div P = o
                    /\ z \in 0 .. (m * P - 1) <=> k = 0
  BY DEF ShiftsTo
<1> DEFINE M == m * P
           x == o * P + e
<1>1. M \in Nat /\ o * P \in Nat
  BY SMTT(30)
<1>2. x \in 0 .. (M - 1)
  <2>1. P * (o + 1) <= P * m
    BY TimesMonotone
  <2>2. P * (o + 1) = o * P + P /\ P * m = M
    OBVIOUS
  <2> QED BY <1>1, <2>1, <2>2
<1>3. M > 0
  <2> HIDE DEF M, x
  <2> QED BY <1>1, <1>2
<1>4. z = M * k + x
  <2>1. (o + k * m) * P = M * k + o * P
    BY SMTT(30)
  <2>2. M * k \in Int
    BY <1>1
  <2> QED BY <1>1, <2>1, <2>2
<1>5. x \div P = o
  <2>1. x \in Int /\ x = P * o + e /\ P > 0
    BY <1>1
  <2> HIDE DEF x
  <2> QED BY <2>1, Divided
<1> HIDE DEF M, x
<1>6. z \in Int /\ M * k \in Int
  BY <1>1, <1>2, <1>4
<1>7. z % M = x /\ z \div M = k
  BY <1>1, <1>2, <1>3, <1>4, <1>6, Divided
<1>8. (z % M) \div P = o
  BY <1>5, <1>7
<1>9. z \in 0 .. (M - 1) <=> k = 0
  <2>1. k = 0 => z = x
    BY <1>1, <1>2, <1>4
  <2>2. z \in 0 .. (M - 1) => k = 0
    BY <1>1, <1>7, Unwrapped
  <2> QED BY <1>2, <2>1, <2>2
<1> QED BY <1>8, <1>9 DEF M

LEMMA IntrinsicSum ==
  ASSUME NEW c \in {0, 1}, NEW a \in Wide!Words, NEW b \in Wide!Words, NEW shl \in 0 .. 3
  PROVE  Wide!Intrinsic(TRUE, shl, c, a, b) = Wide!AddCarry(c, a, b)
<1> DEFINE L == Wide!Limit
           P == Power(shl)
           s == Wide!AddCarry(c, a, b)
           z == a * P + (P - 1) + b * P + c
           e == IF c = 0 THEN P - 1 ELSE 0
           o == s.out
           k == s.carry
<1>1. L \in Nat /\ L >= 4 /\ a \in 0 .. (L - 1) /\ b \in 0 .. (L - 1) /\ P \in Nat /\ P >= 1
  BY HalfWords, PowerPositive DEF Wide!Words
<1>2. o \in 0 .. (L - 1) /\ k \in {0, 1} /\ o + k * L = a + b + c /\ s = [out |-> o, carry |-> k]
  BY AddCarryIs DEF Wide!Words
<1>3. Wide!Intrinsic(TRUE, shl, c, a, b) =
        [out |-> (z % (L * P)) \div P, carry |-> IF z \in 0 .. (L * P - 1) THEN 0 ELSE 1]
  BY DEF Wide!Intrinsic, Power
<1> HIDE DEF L, P, s, o, k
<1>4. z = (o + k * L) * P + e
  <2>1. a * P \in Int /\ b * P \in Int
    BY <1>1
  <2>2. (a + b + c) * P = a * P + b * P + c * P
    BY <1>1
  <2>3. c * P = IF c = 0 THEN 0 ELSE P
    BY <1>1
  <2> DEFINE j == (o + k * L) * P
  <2>4. j = a * P + b * P + (IF c = 0 THEN 0 ELSE P)
    BY <1>2, <2>2, <2>3
  <2> HIDE DEF j
  <2>5. z = j + e
    BY <1>1, <2>1, <2>4
  <2> QED BY <2>5 DEF j
<1>5. e \in 0 .. (P - 1)
  BY <1>1
<1> HIDE DEF z, e
<1>6. ShiftsTo(L, P, o, k, e, z)
  BY <1>1, <1>2, <1>4, <1>5 DEF ShiftsTo
<1>7. (z % (L * P)) \div P = o /\ (z \in 0 .. (L * P - 1) <=> k = 0)
  BY <1>6, ShiftedWord
<1>8. (IF z \in 0 .. (L * P - 1) THEN 0 ELSE 1) = k
  BY <1>2, <1>7
<1>9. Wide!Intrinsic(TRUE, shl, c, a, b) = [out |-> o, carry |-> k]
  BY <1>3, <1>7, <1>8
<1> QED BY <1>2, <1>9 DEF s

LEMMA IntrinsicDifference ==
  ASSUME NEW c \in {0, 1}, NEW a \in Wide!Words, NEW b \in Wide!Words, NEW shl \in 0 .. 3
  PROVE  Wide!Intrinsic(FALSE, shl, c, a, b) = Wide!SubBorrow(c, a, b)
<1> DEFINE L == Wide!Limit
           P == Power(shl)
           s == Wide!SubBorrow(c, a, b)
           z == a * P - b * P - c
           e == IF c = 0 THEN 0 ELSE P - 1
           o == s.out
           k == s.carry
<1>1. L \in Nat /\ L >= 4 /\ a \in 0 .. (L - 1) /\ b \in 0 .. (L - 1) /\ P \in Nat /\ P >= 1
  BY HalfWords, PowerPositive DEF Wide!Words
<1>2. o \in 0 .. (L - 1) /\ k \in {0, 1} /\ o - k * L = a - b - c /\ s = [out |-> o, carry |-> k]
  BY SubBorrowIs DEF Wide!Words
<1>3. Wide!Intrinsic(FALSE, shl, c, a, b) =
        [out |-> (z % (L * P)) \div P, carry |-> IF z \in 0 .. (L * P - 1) THEN 0 ELSE 1]
  BY DEF Wide!Intrinsic, Power
<1> HIDE DEF L, P, s, o, k
<1>4. z = (o + (-k) * L) * P + e
  <2>1. a * P \in Int /\ b * P \in Int
    BY <1>1
  <2>2. (a - b - c) * P = a * P - b * P - c * P
    BY <1>1
  <2>3. c * P = IF c = 0 THEN 0 ELSE P
    BY <1>1
  <2>4. o + (-k) * L = a - b - c
    BY <1>1, <1>2
  <2> DEFINE j == (o + (-k) * L) * P
  <2>5. j = a * P - b * P - (IF c = 0 THEN 0 ELSE P)
    BY <2>2, <2>3, <2>4
  <2> HIDE DEF j
  <2>6. z = j + e
    BY <1>1, <2>1, <2>5
  <2> QED BY <2>6 DEF j
<1>5. e \in 0 .. (P - 1) /\ -k \in {-1, 0, 1} /\ (-k = 0 <=> k = 0)
  BY <1>1, <1>2
<1> HIDE DEF z, e
<1>6. ShiftsTo(L, P, o, -k, e, z)
  BY <1>1, <1>2, <1>4, <1>5 DEF ShiftsTo
<1>7. (z % (L * P)) \div P = o /\ (z \in 0 .. (L * P - 1) <=> k = 0)
  BY <1>5, <1>6, ShiftedWord
<1>8. (IF z \in 0 .. (L * P - 1) THEN 0 ELSE 1) = k
  BY <1>2, <1>7
<1>9. Wide!Intrinsic(FALSE, shl, c, a, b) = [out |-> o, carry |-> k]
  BY <1>3, <1>7, <1>8
<1> QED BY <1>2, <1>9 DEF s

LEMMA MulxIs ==
  ASSUME NEW a \in Wide!Words, NEW b \in Wide!Words
  PROVE  LET p == Wide!Mulx(a, b)
         IN  p.lo \in Wide!Words /\ p.hi \in Wide!Words /\ p.hi * Wide!Limit + p.lo = a * b
<1> DEFINE h  == Wide!Half
           L  == Wide!Limit
           x1 == a \div h
           x0 == a % h
           y1 == b \div h
           y0 == b % h
           ll == x0 * y0
           ml == x1 * y0
           lm == x0 * y1
           hh == x1 * y1
           mi == (ml + lm) % L
           t  == mi \div h
           u  == mi % h
           mh == (mi * h) % L
           lw == (ll + mh) % L
           lc == IF lw < ll \/ lw < mh THEN 1 ELSE 0
           mc == IF mi < ml \/ mi < lm THEN h ELSE 0
           V  == t + hh + mc + lc
<1>1. /\ h \in Nat /\ h >= 2 /\ L \in Nat /\ L >= 4 /\ L = h * h
      /\ a \in Nat /\ b \in Nat /\ a < L /\ b < L
  BY HalfWords DEF Wide!Words
<1>2. Wide!Mulx(a, b) = [lo |-> lw, hi |-> V % L]
  BY DEF Wide!Mulx, Wide!Wrap
<1>3. /\ x1 \in 0 .. (h - 1) /\ x0 \in 0 .. (h - 1) /\ a = h * x1 + x0
      /\ y1 \in 0 .. (h - 1) /\ y0 \in 0 .. (h - 1) /\ b = h * y1 + y0
  BY <1>1, HalvesOf
<1> HIDE DEF x1, x0, y1, y0
<1>4. /\ ll \in 0 .. (L - 1) /\ ml \in 0 .. (L - 1) /\ lm \in 0 .. (L - 1) /\ hh \in 0 .. (L - 1)
  <2> HIDE DEF h, L
  <2>1. /\ ll \in 0 .. (h * h - 1) /\ ml \in 0 .. (h * h - 1)
        /\ lm \in 0 .. (h * h - 1) /\ hh \in 0 .. (h * h - 1)
    BY <1>1, <1>3, ProductFits
  <2> HIDE DEF ll, ml, lm, hh
  <2> QED BY <1>1, <2>1
<1>5. a * b = hh * L + (ml + lm) * h + ll
  <2> HIDE DEF h, L
  <2>1. a * b = (h * x1 + x0) * (h * y1 + y0)
    BY <1>3
  <2>2. (h * x1 + x0) * (h * y1 + y0) = hh * (h * h) + (ml + lm) * h + ll
    BY <1>1, <1>3, SMTT(30)
  <2> HIDE DEF hh, ml, lm, ll
  <2> QED BY <1>1, <2>1, <2>2
<1> HIDE DEF ll, ml, lm, hh
<1>6. /\ mi \in 0 .. (L - 1)
      /\ \/ ml + lm = mi /\ ~(mi < ml) /\ ~(mi < lm)
         \/ ml + lm = mi + L /\ mi < ml /\ mi < lm
  <2> HIDE DEF L
  <2>1. lm \in 0 .. L /\ lm < L
    BY <1>1, <1>4
  <2> QED BY <1>1, <1>4, <2>1, SumCarry
<1> HIDE DEF mi
<1>7. t \in 0 .. (h - 1) /\ u \in 0 .. (h - 1) /\ mi = h * t + u
  <2>1. mi \in Nat /\ mi < L
    BY <1>1, <1>6
  <2> QED BY <2>1, HalvesOf
<1> HIDE DEF t, u, h, L
<1>8. mh = u * h /\ u * h \in 0 .. (L - 1)
  <2>1. u * h \in 0 .. (h * h - 1)
    BY <1>1, <1>7, ProductFits
  <2>2. mi * h = (h * h) * t + u * h
    BY <1>1, <1>7, SMTT(30)
  <2> DEFINE x == mi * h
             z == u * h
  <2>3. x \in Int /\ z \in 0 .. (L - 1) /\ x = L * t + z /\ L > 0
    BY <1>1, <1>6, <2>1, <2>2
  <2>4. t \in Int
    BY <1>1, <1>7
  <2> HIDE DEF x, z
  <2>5. x % L = z
    BY <1>1, <2>3, <2>4, Divided
  <2> QED BY <2>3, <2>5 DEF x, z
<1> HIDE DEF mh
<1>9. /\ lw \in 0 .. (L - 1)
      /\ \/ ll + mh = lw /\ ~(lw < ll) /\ ~(lw < mh)
         \/ ll + mh = lw + L /\ lw < ll /\ lw < mh
  <2>1. mh \in 0 .. L /\ mh \in 0 .. (L - 1) /\ mh < L
    BY <1>1, <1>8
  <2> QED BY <1>1, <1>4, <2>1, SumCarry
<1> HIDE DEF lw
<1>10. /\ lc \in {0, 1} /\ ll + mh = lw + lc * L
       /\ mc \in {0, h} /\ (ml + lm) * h = mi * h + mc * L
  <2>1. lc \in {0, 1} /\ ll + mh = lw + lc * L
    <3>1. CASE lw < ll \/ lw < mh
      BY <1>1, <1>9, <3>1
    <3>2. CASE ~(lw < ll \/ lw < mh)
      BY <1>1, <1>9, <3>2
    <3> QED BY <3>1, <3>2
  <2>2. mc \in {0, h} /\ (ml + lm) * h = mi * h + mc * L
    <3>1. CASE mi < ml \/ mi < lm
      <4>1. mc = h /\ ml + lm = mi + L
        BY <1>6, <3>1
      <4>2. (mi + L) * h = mi * h + h * L
        BY <1>1, <1>6
      <4> QED BY <4>1, <4>2
    <3>2. CASE ~(mi < ml \/ mi < lm)
      <4>1. mc = 0 /\ ml + lm = mi
        BY <1>6, <3>2
      <4> QED BY <1>1, <1>6, <4>1
    <3> QED BY <3>1, <3>2
  <2> QED BY <2>1, <2>2
<1> HIDE DEF lc, mc
<1>11. /\ t \in Nat /\ hh \in Nat /\ lw \in Nat /\ ll \in Nat /\ mc \in Nat /\ lc \in Nat /\ u \in Nat
       /\ mi \in Nat /\ u * h \in Nat
  BY <1>1, <1>4, <1>6, <1>7, <1>8, <1>9, <1>10
<1>12. V * L + lw = a * b
  <2>1. V * L = t * L + hh * L + mc * L + lc * L
    BY <1>1, <1>11
  <2>2. mi * h = t * L + u * h
    <3>1. (h * t + u) * h = t * (h * h) + u * h
      BY <1>1, <1>11, SMTT(30)
    <3> QED BY <1>1, <1>7, <3>1
  <2>3. t * L \in Int /\ hh * L \in Int /\ mc * L \in Int /\ lc * L \in Int /\ mi * h \in Int
    BY <1>1, <1>11
  <2> DEFINE j1 == t * L
             j2 == hh * L
             j3 == mc * L
             j4 == lc * L
             j5 == mi * h
             j6 == u * h
             j7 == (ml + lm) * h
             j8 == V * L
  <2>4. /\ j8 = j1 + j2 + j3 + j4 /\ j5 = j1 + j6 /\ a * b = j2 + j7 + ll
        /\ j7 = j5 + j3 /\ ll + j6 = lw + j4
    BY <1>5, <1>8, <1>10, <2>1, <2>2
  <2>5. j1 \in Int /\ j2 \in Int /\ j3 \in Int /\ j4 \in Int /\ j5 \in Int /\ j6 \in Int
    BY <1>11, <2>3
  <2> HIDE DEF j1, j2, j3, j4, j5, j6, j7, j8
  <2>6. j8 + lw = a * b
    BY <1>11, <2>4, <2>5
  <2> QED BY <2>6 DEF j8
<1>13. V \in Nat
  BY <1>11
<1> HIDE DEF V
<1>14. V < L
  <2> SUFFICES ASSUME V >= L PROVE FALSE
    BY <1>1, <1>13
  <2>1. L * L <= L * V
    BY <1>1, <1>13, TimesMonotone
  <2>2. a * b <= a * L /\ L * (a + 1) <= L * L
    BY <1>1, TimesMonotone
  <2>3. L * (a + 1) = a * L + L /\ L * V = V * L
    BY <1>1, <1>13
  <2>4. a * b \in Int /\ a * L \in Int /\ L * L \in Int /\ V * L \in Int
    BY <1>1, <1>13
  <2> QED BY <1>1, <1>11, <1>12, <2>1, <2>2, <2>3, <2>4
<1>15. V % L = V /\ V \in 0 .. (L - 1)
  <2>1. V \in 0 .. (L - 1)
    BY <1>1, <1>13, <1>14
  <2> QED BY <1>1, <2>1, Unwrapped
<1> QED BY <1>2, <1>9, <1>12, <1>15 DEF Wide!Words, L

LEMMA WideImplies ==
  ASSUME WideInv
  PROVE  /\ Wide!TypeOK /\ Wide!RemainderReduced /\ Wide!DivxCorrect
         /\ Wide!MulxCorrect /\ Wide!CarryExact
<1>1. hi \in Wide!Words /\ lo \in Wide!Words
  BY DEF WideInv, Wide!TypeOK
<1>2. Wide!MulxCorrect
  BY <1>1, MulxIs DEF Wide!MulxCorrect
<1>3. Wide!CarryExact
  <2> SUFFICES ASSUME NEW c \in {0, 1}
               PROVE  LET sum == Wide!AddCarry(c, hi, lo)  difference == Wide!SubBorrow(c, hi, lo)
                      IN  /\ sum.out + sum.carry * Wide!Limit = hi + lo + c
                          /\ difference.out - difference.carry * Wide!Limit = hi - lo - c
                          /\ \A shl \in 0 .. 3 : /\ Wide!Intrinsic(TRUE, shl, c, hi, lo) = sum
                                                 /\ Wide!Intrinsic(FALSE, shl, c, hi, lo) = difference
    BY DEF Wide!CarryExact
  <2> DEFINE sum == Wide!AddCarry(c, hi, lo)
             difference == Wide!SubBorrow(c, hi, lo)
  <2>1. sum.out + sum.carry * Wide!Limit = hi + lo + c
    BY <1>1, AddCarryIs
  <2>2. difference.out - difference.carry * Wide!Limit = hi - lo - c
    BY <1>1, SubBorrowIs
  <2>3. \A shl \in 0 .. 3 : Wide!Intrinsic(TRUE, shl, c, hi, lo) = sum
    BY <1>1, IntrinsicSum
  <2>4. \A shl \in 0 .. 3 : Wide!Intrinsic(FALSE, shl, c, hi, lo) = difference
    BY <1>1, IntrinsicDifference
  <2> HIDE DEF sum, difference
  <2> QED BY <2>1, <2>2, <2>3, <2>4 DEF sum, difference
<1> QED BY <1>2, <1>3 DEF WideInv

----------------------------------------------------------------------------
(* The numbers of digits and of integrals                                  *)

\* A digit's bits begin at 0.
LEMMA ValueIs ==
  ASSUME NEW b, NEW n \in Nat
  PROVE  Digits!Value(b, n) = Number(b, 0, n)
<1> DEFINE N     == 0 .. (n - 1)
           x(s)  == CHOOSE i \in s : TRUE
           V(G) == G = [s \in SUBSET N |-> IF s = {} THEN 0 ELSE b[x(s)] * 2 ^ x(s) + G[s \ {x(s)}]]
           E(G) == G = [s \in SUBSET N |-> IF s = {} THEN 0 ELSE b[0 + x(s)] * 2 ^ x(s) + G[s \ {x(s)}]]
<1>1. Digits!Value(b, n) = (CHOOSE G : V(G))[N]
  BY DEF Digits!Value, Digits!MapThenSumSet, Digits!MapThenFoldSet
<1>2. Number(b, 0, n) = (CHOOSE G : E(G))[N]
  BY DEF Number, Divide!Number, Divide!MapThenSumSet, Divide!MapThenFoldSet
<1>3. \A s \in SUBSET N : s # {} => 0 + x(s) = x(s)
  <2>1. ASSUME NEW s \in SUBSET N, s # {} PROVE x(s) \in s /\ x(s) \in N
    BY <2>1
  <2> HIDE DEF x
  <2> QED BY <2>1
<1>4. \A G : V(G) <=> E(G)
  BY <1>3
<1> HIDE DEF V, E
<1>5. (CHOOSE G : V(G)) = (CHOOSE G : E(G))
  BY <1>4
<1> QED BY <1>1, <1>2, <1>5

\* The number of the bits a set of indices of a function stands for.
LEMMA UnsignedIs ==
  ASSUME NEW b, NEW n \in Nat, DOMAIN b = 0 .. (n - 1)
  PROVE  Dynamic!Unsigned(b) = Number(b, 0, n) /\ Static!Unsigned(b) = Number(b, 0, n)
<1>1. Digits!Value(b, n) = Number(b, 0, n)
  BY ValueIs
<1>2. Dynamic!Unsigned(b) = Digits!Value(b, n)
  BY DEF Dynamic!Unsigned, Digits!Value, Digits!MapThenSumSet, Dynamic!MapThenSumSet,
         Digits!MapThenFoldSet, Dynamic!MapThenFoldSet
<1>3. Static!Unsigned(b) = Digits!Value(b, n)
  BY DEF Static!Unsigned, Digits!Value, Digits!MapThenSumSet, Static!MapThenSumSet,
         Digits!MapThenFoldSet, Static!MapThenFoldSet
<1> QED BY <1>1, <1>2, <1>3

\* A number is 0 if its bits are.
LEMMA NumberIsZero ==
  ASSUME NEW b, NEW n \in Nat, Binary(b, 0, n)
  PROVE  Number(b, 0, n) = 0 <=> \A i \in 0 .. (n - 1) : b[i] = 0
<1>1. ASSUME \A i \in 0 .. (n - 1) : b[i] = 0 PROVE Number(b, 0, n) = 0
  <2>1. \A i \in 0 .. (n - 1) : b[0 + i] = 0
    BY <1>1
  <2> QED BY <2>1, NumberZeros
<1>2. ASSUME NEW i \in 0 .. (n - 1), b[i] # 0 PROVE Number(b, 0, n) > 0
  <2> DEFINE l == n - (i + 1)
  <2>1. i \in Nat /\ i + 1 \in Nat /\ l \in Nat /\ (i + 1) + l = n /\ 0 \in Int /\ 0 + i = i
    OBVIOUS
  <2> HIDE DEF l
  <2>2. b[0 + i] = 1
    BY <1>2, <2>1 DEF Binary
  <2>3. /\ Binary(b, 0, i + 1) /\ Binary(b, 0 + (i + 1), l)
        /\ Number(b, 0, n) = Number(b, 0, i + 1) + Power(i + 1) * Number(b, 0 + (i + 1), l)
    <3> DEFINE k == i + 1
    <3> HIDE DEF k
    <3>1. k \in Nat /\ k + l = n /\ l \in Nat /\ 0 \in Int /\ Binary(b, 0, k + l)
      BY <2>1 DEF k
    <3>2. /\ Binary(b, 0, k) /\ Binary(b, 0 + k, l)
          /\ Number(b, 0, k + l) = Number(b, 0, k) + Power(k) * Number(b, 0 + k, l)
      BY <3>1, NumberSplit
    <3> QED BY <3>1, <3>2 DEF k
  <2>4. Number(b, 0, i) \in Nat /\ Number(b, 0, i + 1) = Number(b, 0, i) + 1 * Power(i)
    BY <2>1, <2>2, <2>3, NumberStep
  <2>5. Power(i) \in Nat /\ Power(i) >= 1 /\ Power(i + 1) \in Nat /\ Number(b, 0 + (i + 1), l) \in Nat
    BY <2>1, <2>3, PowerPositive, NumberRange
  <2>6. Power(i + 1) * Number(b, 0 + (i + 1), l) >= 0
    BY <2>5
  <2>7. Power(i + 1) * Number(b, 0 + (i + 1), l) \in Int
    BY <2>5
  <2> QED BY <2>3, <2>4, <2>5, <2>6, <2>7
<1> QED BY <1>1, <1>2

----------------------------------------------------------------------------
(* to_string                                                               *)

LEMMA StringConstants ==
  /\ BaseBits \in Nat /\ BaseBits >= 1 /\ CharWord \in Nat /\ CharWord >= 1
  /\ WorkBits \in Nat /\ WorkBits >= 1 /\ MaxBits \in Nat /\ MaxChars \in Nat
  /\ \E k \in Nat : k >= 1 /\ CharWord = BaseBits * k
  /\ \E k \in Nat : k >= 1 /\ WorkBits = BaseBits * k
<1>1. /\ BaseBits \in Nat /\ BaseBits >= 1 /\ CharWord \in Nat /\ CharWord >= 1
      /\ WorkBits \in Nat /\ WorkBits >= 1 /\ MaxBits \in Nat /\ MaxChars \in Nat
      /\ CharWord % BaseBits = 0 /\ WorkBits % BaseBits = 0
  BY StringsAssumption
<1>2. ASSUME NEW v \in Nat, v >= 1, v % BaseBits = 0
      PROVE  \E k \in Nat : k >= 1 /\ v = BaseBits * k
  <2> DEFINE k == v \div BaseBits
  <2>1. k \in Int /\ k >= 0 /\ v = BaseBits * k
    BY <1>1, <1>2, Dividing
  <2> HIDE DEF k
  <2>2. k # 0
    BY <1>1, <1>2, <2>1
  <2>3. k \in Nat /\ k >= 1
    BY <2>1, <2>2
  <2> QED BY <2>1, <2>3
<1> QED BY <1>1, <1>2

\* A digit of the bits of a function.
LEMMA DigitValue ==
  ASSUME NEW b, \A j \in 0 .. (BaseBits - 1) : b[j] \in {0, 1}
  PROVE  /\ Digits!Value(b, BaseBits) \in Digits!Digit
         /\ Digits!Value(b, BaseBits) = 0 <=> \A j \in 0 .. (BaseBits - 1) : b[j] = 0
<1>1. BaseBits \in Nat
  BY StringConstants
<1>2. Binary(b, 0, BaseBits)
  BY <1>1 DEF Binary
<1>3. Digits!Value(b, BaseBits) = Number(b, 0, BaseBits)
  BY <1>1, ValueIs
<1>4. Number(b, 0, BaseBits) \in Nat /\ Number(b, 0, BaseBits) < Power(BaseBits) /\ Power(BaseBits) \in Nat
  BY <1>1, <1>2, NumberRange, PowerNat
<1>5. Digits!Digit = 0 .. (Power(BaseBits) - 1)
  BY DEF Digits!Digit, Power
<1> QED BY <1>1, <1>2, <1>3, <1>4, <1>5, NumberIsZero

\* The number of digits bits take.
LEMMA DigitsForIs ==
  ASSUME NEW n \in Nat
  PROVE  /\ Digits!DigitsFor(n) \in Nat
         /\ BaseBits * Digits!DigitsFor(n) >= n /\ BaseBits * Digits!DigitsFor(n) < n + BaseBits
         /\ \A t \in Int : BaseBits * t >= n /\ BaseBits * t < n + BaseBits => Digits!DigitsFor(n) = t
         /\ \A t \in Nat : BaseBits * t <= n => t <= Digits!DigitsFor(n)
         /\ \A t \in Int : n <= BaseBits * t => Digits!DigitsFor(n) <= t
<1> DEFINE v == n + BaseBits - 1
           q == v \div BaseBits
           r == v % BaseBits
<1>1. BaseBits \in Nat /\ BaseBits > 0 /\ v \in Int /\ v >= 0
  BY StringConstants
<1>2. q \in Int /\ q >= 0 /\ r \in Nat /\ r < BaseBits /\ v = BaseBits * q + r
  BY <1>1, Dividing
<1>3. Digits!DigitsFor(n) = q
  BY DEF Digits!DigitsFor
<1> HIDE DEF q, r
<1>4. BaseBits * q \in Int
  BY <1>1, <1>2
<1>5. BaseBits * q >= n /\ BaseBits * q < n + BaseBits
  BY <1>1, <1>2, <1>4
<1>6. ASSUME NEW t \in Int, BaseBits * t >= n PROVE q <= t
  <2> SUFFICES ASSUME q >= t + 1 PROVE FALSE
    BY <1>2
  <2>1. BaseBits * q >= BaseBits * (t + 1)
    BY <1>1, <1>2, TimesMonotone
  <2>2. BaseBits * (t + 1) = BaseBits * t + BaseBits /\ BaseBits * t \in Int
    BY <1>1
  <2> QED BY <1>1, <1>4, <1>5, <1>6, <2>1, <2>2
<1>7. ASSUME NEW t \in Int, BaseBits * t < n + BaseBits PROVE t <= q
  <2> SUFFICES ASSUME t >= q + 1 PROVE FALSE
    BY <1>2
  <2>1. BaseBits * t >= BaseBits * (q + 1)
    BY <1>1, <1>2, TimesMonotone
  <2>2. BaseBits * (q + 1) = BaseBits * q + BaseBits /\ BaseBits * t \in Int
    BY <1>1, <1>2
  <2> QED BY <1>1, <1>4, <1>5, <1>7, <2>1, <2>2
<1>8. ASSUME NEW t \in Nat, BaseBits * t <= n PROVE t <= q
  <2>1. BaseBits * t < n + BaseBits
    BY <1>1, <1>8
  <2> QED BY <1>7, <2>1
<1>9. q \in Nat
  BY <1>2
<1>10. \A t \in Int : BaseBits * t >= n /\ BaseBits * t < n + BaseBits => q = t
  BY <1>2, <1>6, <1>7
<1> QED BY <1>3, <1>5, <1>6, <1>8, <1>9, <1>10

\* The digits of all the range.
Full == Digits!DigitsFor(Digits!Length)

\* room is what estimate_length says of the bits below the leading zeros, where
\* they are counted right.
Sized ==
  Digits!CountsExactly =>
    \E h \in 0 .. Digits!Length :
      /\ \A i \in h .. (Digits!Length - 1) : range[i] = 0
      /\ h = 0 \/ range[h - 1] = 1
      /\ room = Digits!Greater(1, Digits!DigitsFor(h))

\* The characters after the cursor are the digits of the bits before src, or as
\* many of the range's as there is room for.
ToInv ==
  /\ Digits!ToTypeOK
  /\ version = "zeros" => Full <= room
  /\ version = "short" => Sized
  /\ pc # "done" =>
       /\ Len(buffer) = room
       /\ \A p \in (cursor + 1) .. room : buffer[p] = Digits!RangeDigit(room - p)
  /\ pc = "words" =>
       /\ src = BaseBits * (room - cursor)
       /\ \A p \in 1 .. cursor : buffer[p] = Digits!Fill
  /\ pc = "move" => room - cursor <= Full /\ (cursor = 0 \/ room - cursor = Full)
  /\ pc = "done" =>
       /\ Len(buffer) <= Full /\ Len(buffer) <= room
       /\ Len(buffer) = room \/ Len(buffer) = Full
       /\ \A p \in 1 .. Len(buffer) : buffer[p] = Digits!RangeDigit(Len(buffer) - p)

LEMMA BitsCount ==
  ASSUME NEW b, NEW n \in Nat, DOMAIN b = 0 .. (n - 1)
  PROVE  Cardinality(DOMAIN b) = n
<1>1. /\ IsFiniteSet(0 .. (n - 1))
      /\ Cardinality(0 .. (n - 1)) = IF 0 > n - 1 THEN 0 ELSE (n - 1) - 0 + 1
  BY FS_Interval
<1> QED BY <1>1

LEMMA DigitsCardinality == \A S : Digits!Cardinality(S) = Cardinality(S)
BY DEF Digits!Cardinality, Cardinality

LEMMA RangeBits ==
  ASSUME NEW n \in Nat, range \in [0 .. (n - 1) -> {0, 1}]
  PROVE  /\ Digits!Length = n /\ DOMAIN range = 0 .. (n - 1)
         /\ \A i \in 0 .. (n - 1) : range[i] \in {0, 1}
<1>1. DOMAIN range = 0 .. (n - 1)
  OBVIOUS
<1> QED BY <1>1, BitsCount, DigitsCardinality DEF Digits!Length

LEMMA ToFacts ==
  ASSUME Digits!ToTypeOK
  PROVE  /\ Digits!Length \in 0 .. MaxBits /\ Digits!Length \in Nat
         /\ range \in [0 .. (Digits!Length - 1) -> {0, 1}]
         /\ room \in Nat /\ cursor \in Nat /\ cursor <= room
         /\ src \in Nat /\ src <= Digits!Length
         /\ Full \in Nat
<1>1. PICK n \in 0 .. MaxBits : range \in [0 .. (n - 1) -> {0, 1}]
  BY DEF Digits!ToTypeOK, Digits!ZeroOne
<1>2. n \in Nat /\ Digits!Length = n
  BY <1>1, StringConstants, RangeBits
<1>3. room \in Nat /\ cursor \in 0 .. room /\ src \in 0 .. Digits!Length
  BY DEF Digits!ToTypeOK
<1>4. Full \in Nat
  BY <1>2, DigitsForIs DEF Full
<1> QED BY <1>1, <1>2, <1>3, <1>4

\* A digit of the range.
LEMMA RangeDigitIs ==
  ASSUME Digits!Length \in Nat, range \in [0 .. (Digits!Length - 1) -> {0, 1}], NEW i \in Nat
  PROVE  /\ Digits!RangeDigit(i) \in Digits!Digit
         /\ Digits!RangeDigit(i) = 0 <=>
              \A j \in 0 .. (BaseBits - 1) :
                BaseBits * i + j < Digits!Length => range[BaseBits * i + j] = 0
<1> DEFINE b == [j \in 0 .. (BaseBits - 1) |->
                   IF i * BaseBits + j < Digits!Length THEN range[i * BaseBits + j] ELSE 0]
<1>1. BaseBits \in Nat
  BY StringConstants
<1>2. i * BaseBits \in Nat /\ i * BaseBits = BaseBits * i
  BY <1>1
<1> DEFINE t == i * BaseBits
<1> HIDE DEF t
<1>3. t \in Nat /\ t = BaseBits * i
  BY <1>2 DEF t
<1>4. ASSUME NEW j \in 0 .. (BaseBits - 1)
      PROVE  b[j] = (IF t + j < Digits!Length THEN range[t + j] ELSE 0) /\ b[j] \in {0, 1}
  <2>1. b[j] = IF t + j < Digits!Length THEN range[t + j] ELSE 0
    BY DEF t
  <2>2. t + j \in Nat
    BY <1>1, <1>3
  <2> QED BY <2>1, <2>2
<1>5. Digits!RangeDigit(i) = Digits!Value(b, BaseBits)
  BY DEF Digits!RangeDigit
<1> HIDE DEF b
<1>6. /\ Digits!Value(b, BaseBits) \in Digits!Digit
      /\ Digits!Value(b, BaseBits) = 0 <=> \A j \in 0 .. (BaseBits - 1) : b[j] = 0
  BY <1>4, DigitValue
<1>7. (\A j \in 0 .. (BaseBits - 1) : b[j] = 0)
        <=> \A j \in 0 .. (BaseBits - 1) : t + j < Digits!Length => range[t + j] = 0
  BY <1>4
<1> QED BY <1>3, <1>5, <1>6, <1>7

\* The digits of a word are those of the range at the word.
LEMMA WordDigit ==
  ASSUME Digits!Length \in Nat, NEW e \in Nat, src = BaseBits * e,
         NEW k \in Nat, CharWord = BaseBits * k, NEW i \in 0 .. (k - 1)
  PROVE  Digits!DigitOf(Digits!WordAt(src), i) = Digits!RangeDigit(e + i)
<1> DEFINE w == Digits!WordAt(src)
           b == [j \in 0 .. (BaseBits - 1) |-> IF i * BaseBits + j < CharWord THEN w[i * BaseBits + j] ELSE 0]
           c == [j \in 0 .. (BaseBits - 1) |->
                   IF (e + i) * BaseBits + j < Digits!Length THEN range[(e + i) * BaseBits + j] ELSE 0]
           t == i * BaseBits
<1>1. BaseBits \in Nat /\ i \in Nat /\ i + 1 <= k /\ i + 1 \in Int /\ k \in Int /\ CharWord \in Nat
  BY StringConstants
<1>2. t \in Nat /\ (e + i) * BaseBits = src + t /\ src \in Nat /\ BaseBits * (i + 1) = t + BaseBits
  BY <1>1
<1>3. t + BaseBits <= CharWord
  <2>1. BaseBits * (i + 1) <= BaseBits * k
    BY <1>1, TimesMonotone
  <2> QED BY <1>2, <2>1
<1>4. ASSUME NEW j \in 0 .. (BaseBits - 1) PROVE b[j] = c[j]
  <2>1. b[j] = (IF i * BaseBits + j < CharWord THEN w[i * BaseBits + j] ELSE 0)
    OBVIOUS
  <2>2. c[j] = IF (src + t) + j < Digits!Length THEN range[(src + t) + j] ELSE 0
    BY <1>2
  <2> HIDE DEF b, c
  <2>3. w = [a \in 0 .. (CharWord - 1) |-> IF src + a < Digits!Length THEN range[src + a] ELSE 0]
    BY DEF Digits!WordAt
  <2> HIDE DEF w, t
  <2>4. t + j \in 0 .. (CharWord - 1) /\ t + j < CharWord /\ src + (t + j) = (src + t) + j
    BY <1>1, <1>2, <1>3
  <2>5. w[t + j] = IF src + (t + j) < Digits!Length THEN range[src + (t + j)] ELSE 0
    BY <2>3, <2>4
  <2> QED BY <2>1, <2>2, <2>4, <2>5 DEF t
<1>5. b = c
  <2>1. b = [j \in 0 .. (BaseBits - 1) |-> b[j]] /\ c = [j \in 0 .. (BaseBits - 1) |-> c[j]]
    OBVIOUS
  <2> HIDE DEF b, c
  <2> QED BY <1>4, <2>1
<1>6. Digits!DigitOf(w, i) = Digits!Value(b, BaseBits)
  BY DEF Digits!DigitOf
<1>7. Digits!RangeDigit(e + i) = Digits!Value(c, BaseBits)
  BY DEF Digits!RangeDigit
<1> QED BY <1>5, <1>6, <1>7

\* A sequence of n elements of a set.
LEMMA SequenceIs ==
  ASSUME NEW S, NEW n \in Nat, NEW s, DOMAIN s = 1 .. n, s = [p \in 1 .. n |-> s[p]],
         \A p \in 1 .. n : s[p] \in S
  PROVE  s \in Seq(S) /\ Len(s) = n
OBVIOUS

\* The first of the leading zeros.
LEMMA LeadingZerosAre ==
  ASSUME NEW n \in Nat, NEW b \in [0 .. (n - 1) -> {0, 1}]
  PROVE  \E h \in 0 .. n :
           /\ n - Digits!LeadingZeros(b) = h /\ Digits!LeadingZeros(b) \in Int
           /\ \A i \in h .. (n - 1) : b[i] = 0
           /\ h = 0 \/ b[h - 1] = 1
<1> DEFINE Ones == {i + 1 : i \in {j \in DOMAIN b : b[j] = 1}} \cup {0}
           Off  == {n - x : x \in Ones}
<1>1. DOMAIN b = 0 .. (n - 1) /\ \A i \in 0 .. (n - 1) : b[i] \in {0, 1}
  OBVIOUS
<1>2. Ones \subseteq 0 .. n /\ 0 \in Ones
  BY <1>1
<1>3. \A i \in 0 .. (n - 1) : b[i] = 1 <=> i + 1 \in Ones
  BY <1>1
<1>4. \A x \in Ones : x = 0 \/ b[x - 1] = 1
  <2>1. ASSUME NEW x \in Ones, x # 0 PROVE b[x - 1] = 1
    <3>1. PICK i \in 0 .. (n - 1) : b[i] = 1 /\ x = i + 1
      BY <1>1, <2>1
    <3> QED BY <3>1
  <2> QED BY <2>1
<1>5. Digits!LeadingZeros(b) = n - Digits!Max(Ones)
  BY <1>1, BitsCount, DigitsCardinality DEF Digits!LeadingZeros
<1> HIDE DEF Ones
<1>6. PICK h \in Ones : \A x \in Ones : h >= x
  <2>1. Off \in SUBSET Nat /\ Off # {}
    BY <1>2
  <2>2. PICK y \in Off : \A z \in Off : y <= z
    BY <2>1, LeastOf
  <2>3. PICK h \in Ones : y = n - h
    BY <2>2
  <2>4. ASSUME NEW x \in Ones PROVE h >= x
    <3>1. n - x \in Off
      BY <2>4
    <3>2. n - h <= n - x
      BY <2>2, <2>3, <3>1
    <3> QED BY <1>2, <3>2
  <2> QED BY <2>3, <2>4
<1>7. Digits!Max(Ones) \in Ones /\ \A x \in Ones : Digits!Max(Ones) >= x
  <2>1. Digits!Max(Ones) = CHOOSE x \in Ones : \A y \in Ones : x >= y
    BY DEF Digits!Max
  <2> QED BY <1>6, <2>1
<1>8. Digits!Max(Ones) = h
  <2> DEFINE m == Digits!Max(Ones)
  <2> HIDE DEF m
  <2>1. m \in Ones /\ \A x \in Ones : m >= x
    BY <1>7 DEF m
  <2>2. m \in 0 .. n /\ h \in 0 .. n /\ m >= h /\ h >= m
    BY <1>2, <1>6, <2>1
  <2>3. m = h
    BY <2>2
  <2> QED BY <2>3 DEF m
<1>9. ASSUME NEW i \in h .. (n - 1) PROVE b[i] = 0
  <2>1. h \in 0 .. n
    BY <1>2, <1>6
  <2>2. i \in 0 .. (n - 1) /\ i + 1 > h
    BY <2>1
  <2> QED BY <1>1, <1>2, <1>3, <1>6, <2>1, <2>2
<1>10. h \in 0 .. n /\ n - Digits!LeadingZeros(b) = h /\ Digits!LeadingZeros(b) \in Int
  BY <1>2, <1>5, <1>6, <1>8
<1> QED BY <1>4, <1>6, <1>9, <1>10

\* What count_msb counts leaves a number of bits, and that is the leading zeros of a
\* range of less than two words' bits, or that ends with a word.
LEMMA LeadingZerosCounted ==
  ASSUME NEW n \in Nat, range \in [0 .. (n - 1) -> {0, 1}], position \in 0 .. (CharWord - 1)
  PROVE  /\ n - Digits!CountMsb(range) \in 0 .. n
         /\ n < 2 * CharWord \/ (position + n) % CharWord = 0 =>
              Digits!CountMsb(range) = Digits!LeadingZeros(range)
<1> DEFINE part == (position + n) % CharWord
           L(b) == Digits!LeadingZeros(b)
           F(k) == Digits!FirstBits(range, k)
<1>1. /\ part \in Nat /\ part < CharWord /\ CharWord \in Nat
      /\ Digits!Cardinality(DOMAIN range) = n
  BY StringConstants, RangeBits DEF Digits!Length
<1>2. ASSUME NEW k \in 0 .. n
      PROVE  k - L(F(k)) \in 0 .. k /\ L(F(k)) \in Int
  <2>1. F(k) \in [0 .. (k - 1) -> {0, 1}]
    BY DEF Digits!FirstBits
  <2>2. PICK h \in 0 .. k : k - L(F(k)) = h /\ L(F(k)) \in Int
    BY <2>1, LeadingZerosAre
  <2> QED BY <2>2
<1>3. n - L(range) \in 0 .. n
  BY LeadingZerosAre
<1>4. Digits!CountMsb(range) =
        IF n < 2 * CharWord \/ part = 0 THEN L(range)
        ELSE IF \E i \in 0 .. (part - 1) : range[i] = 1 THEN L(F(part))
        ELSE part + L(F(n - part))
  BY <1>1 DEF Digits!CountMsb
<1> HIDE DEF part, L, F
<1>5. CASE n < 2 * CharWord \/ part = 0
  BY <1>3, <1>4, <1>5 DEF L
<1>6. CASE ~(n < 2 * CharWord \/ part = 0)
  <2>1. part \in 0 .. n /\ n - part \in 0 .. n
    BY <1>1, <1>6
  <2>2. part - L(F(part)) \in 0 .. part /\ L(F(part)) \in Int
    BY <1>2, <2>1
  <2>3. (n - part) - L(F(n - part)) \in 0 .. (n - part) /\ L(F(n - part)) \in Int
    BY <1>2, <2>1
  <2>4. n - L(F(part)) \in 0 .. n /\ n - (part + L(F(n - part))) \in 0 .. n
    BY <1>1, <2>1, <2>2, <2>3
  <2> QED BY <1>4, <1>6, <2>4 DEF part
<1> QED BY <1>5, <1>6

LEMMA ToInit ==
  ASSUME Digits!ToInit
  PROVE  ToInv
<1>1. PICK n \in 0 .. MaxBits : range \in [0 .. (n - 1) -> {0, 1}]
  BY DEF Digits!ToInit, Digits!ZeroOne
<1>2. n \in Nat /\ Digits!Length = n /\ n \in 0 .. MaxBits
  BY <1>1, StringConstants, RangeBits
<1> DEFINE S == Digits!Digit \cup {Digits!Fill}
<1>3. PICK l \in Nat :
        /\ buffer = [i \in 1 .. l |-> Digits!Fill]
        /\ \/ version = "caller"
           \/ version = "zeros" /\ l = Digits!Estimate(range, TRUE)
           \/ version = "short" /\ l = Digits!Estimate(range, FALSE)
  <2>1. Digits!Estimate(range, TRUE) \in Nat /\ Digits!Estimate(range, FALSE) \in Nat
    <3>1. PICK h \in 0 .. n : n - Digits!CountMsb(range) = h
      BY <1>1, <1>2, LeadingZerosCounted DEF Digits!ToInit
    <3>2. h \in Nat /\ Digits!DigitsFor(h) \in Nat /\ Digits!DigitsFor(n) \in Nat /\ n - 0 = n
      BY <1>2, DigitsForIs
    <3>3. Digits!Cardinality(DOMAIN range) = n
      BY <1>2 DEF Digits!Length
    <3> QED BY <3>1, <3>2, <3>3 DEF Digits!Estimate, Digits!Greater
  <2>2. CASE version = "caller"
    BY <2>2, StringConstants DEF Digits!ToInit
  <2>3. CASE version = "zeros"
    BY <2>1, <2>3 DEF Digits!ToInit
  <2>4. CASE version = "short"
    BY <2>1, <2>4 DEF Digits!ToInit
  <2> QED BY <2>2, <2>3, <2>4 DEF Digits!ToInit
<1>4. buffer \in Seq(S) /\ Len(buffer) = l
  <2>1. DOMAIN buffer = 1 .. l /\ buffer = [p \in 1 .. l |-> buffer[p]]
        /\ \A p \in 1 .. l : buffer[p] = Digits!Fill
    BY <1>3
  <2>2. \A p \in 1 .. l : buffer[p] \in S
    BY <2>1
  <2> QED BY <2>1, <2>2, SequenceIs
<1>5. /\ room = l /\ cursor = l /\ src = 0 /\ pc = "words" /\ version \in {"caller", "zeros", "short"}
      /\ position \in 0 .. (CharWord - 1)
  BY <1>3, <1>4 DEF Digits!ToInit
<1>6. Digits!ToTypeOK
  BY <1>1, <1>2, <1>4, <1>5 DEF Digits!ToTypeOK, Digits!ZeroOne
<1>7. ASSUME version = "zeros" PROVE Full <= room
  <2>1. l = Digits!Greater(1, Digits!DigitsFor(n - 0))
    BY <1>2, <1>3, <1>7 DEF Digits!Estimate, Digits!Length
  <2>2. Digits!DigitsFor(n) \in Nat /\ n - 0 = n
    BY <1>2, DigitsForIs
  <2> QED BY <1>2, <1>5, <2>1, <2>2 DEF Full, Digits!Greater
<1>8. ASSUME version = "short", Digits!CountsExactly PROVE Sized
  <2>1. PICK h \in 0 .. n :
          /\ n - Digits!LeadingZeros(range) = h
          /\ \A i \in h .. (n - 1) : range[i] = 0
          /\ h = 0 \/ range[h - 1] = 1
    BY <1>1, <1>2, LeadingZerosAre
  <2>2. Digits!CountMsb(range) = Digits!LeadingZeros(range)
    BY <1>1, <1>2, <1>5, <1>8, LeadingZerosCounted DEF Digits!CountsExactly
  <2>3. l = Digits!Greater(1, Digits!DigitsFor(h))
    BY <1>2, <1>3, <1>8, <2>1, <2>2 DEF Digits!Estimate, Digits!Length
  <2> QED BY <1>2, <1>5, <2>1, <2>3 DEF Sized
<1>9. /\ \A p \in (cursor + 1) .. room : buffer[p] = Digits!RangeDigit(room - p)
      /\ \A p \in 1 .. cursor : buffer[p] = Digits!Fill
      /\ src = BaseBits * (room - cursor)
  BY <1>3, <1>5, StringConstants
<1> QED BY <1>4, <1>5, <1>6, <1>7, <1>8, <1>9 DEF ToInv, Sized

\* What an operation leaves as it was.
LEMMA RangeStays ==
  ASSUME range' = range, position' = position, room' = room
  PROVE  /\ Digits!Length' = Digits!Length /\ Full' = Full /\ Sized' = Sized
         /\ \A i : Digits!RangeDigit(i)' = Digits!RangeDigit(i)
<1>1. Digits!Length' = Digits!Length
  BY DEF Digits!Length
<1>2. Full' = Full
  BY <1>1 DEF Full, Digits!DigitsFor
<1>3. ASSUME NEW i PROVE Digits!RangeDigit(i)' = Digits!RangeDigit(i)
  BY <1>1 DEF Digits!RangeDigit, Digits!Value, Digits!MapThenSumSet, Digits!MapThenFoldSet
<1>4. Sized' = Sized
  BY <1>1 DEF Sized, Digits!CountsExactly, Digits!Greater, Digits!DigitsFor
<1> QED BY <1>1, <1>2, <1>3, <1>4

\* The buffer while words are handed over.
LEMMA BufferIs ==
  ASSUME ToInv, pc # "done"
  PROVE  /\ DOMAIN buffer = 1 .. room /\ Len(buffer) = room
         /\ \A p \in 1 .. room : buffer[p] \in Digits!Digit \cup {Digits!Fill}
BY LenProperties DEF ToInv, Digits!ToTypeOK

\* The digits of a word, or of the bits after the last, go before the cursor.
LEMMA Operated ==
  ASSUME ToInv, pc = "words", NEW n \in 1 .. CharWord, n <= Digits!Length - src,
         n = CharWord \/ n = Digits!Length - src, NEW next, Digits!Operate(n, next)
  PROVE  /\ range' = range /\ position' = position /\ version' = version /\ room' = room
         /\ src' = src + n /\ src' \in 0 .. Digits!Length
         /\ cursor' \in 0 .. cursor
         /\ buffer' \in Seq(Digits!Digit \cup {Digits!Fill}) /\ Len(buffer') = room
         /\ \A p \in (cursor' + 1) .. room : buffer'[p] = Digits!RangeDigit(room - p)
         /\ \A p \in 1 .. cursor' : buffer'[p] = Digits!Fill
         /\ room - cursor' <= Full
         /\ \/ cursor' = 0
            \/ n < CharWord /\ room - cursor' = Full
            \/ n = CharWord /\ src' = BaseBits * (room - cursor')
         /\ pc' = IF cursor' # 0 THEN next ELSE "move"
<1> DEFINE L  == Digits!Length
           g  == Digits!DigitsFor(n)
           wr == Digits!Written(n)
           e  == room - cursor
<1>1. /\ L \in Nat /\ range \in [0 .. (L - 1) -> {0, 1}] /\ room \in Nat /\ cursor \in Nat
      /\ cursor <= room /\ src \in Nat /\ src <= L /\ Full \in Nat
      /\ src = BaseBits * e
  BY ToFacts DEF ToInv
<1>2. PICK k \in Nat : k >= 1 /\ CharWord = BaseBits * k
  BY StringConstants
<1>3. BaseBits \in Nat /\ BaseBits >= 1 /\ CharWord \in Nat /\ n \in Nat /\ n >= 1 /\ n <= CharWord
  BY StringConstants
<1>4. /\ g \in Nat /\ BaseBits * g >= n /\ BaseBits * g < n + BaseBits /\ g <= k
      /\ n = CharWord => g = k
  <2>1. /\ g \in Nat /\ BaseBits * g >= n /\ BaseBits * g < n + BaseBits
        /\ \A t \in Int : BaseBits * t >= n /\ BaseBits * t < n + BaseBits => g = t
        /\ \A t \in Int : n <= BaseBits * t => g <= t
    BY <1>3, DigitsForIs
  <2> HIDE DEF g
  <2>2. k \in Int /\ n <= BaseBits * k
    BY <1>2, <1>3
  <2>3. n = CharWord => BaseBits * k >= n /\ BaseBits * k < n + BaseBits
    BY <1>2, <1>3
  <2> QED BY <2>1, <2>2, <2>3
<1> HIDE DEF g
<1>5. wr \in 0 .. cursor /\ wr <= g /\ (wr = g \/ wr = cursor) /\ cursor' = cursor - wr
  BY <1>1, <1>4 DEF Digits!Operate, Digits!Written, g
<1>6. /\ range' = range /\ position' = position /\ version' = version /\ room' = room /\ src' = src + n
      /\ pc' = (IF cursor' # 0 THEN next ELSE "move")
      /\ buffer' = [p \in DOMAIN buffer |->
                      IF cursor - wr < p /\ p <= cursor
                      THEN Digits!DigitOf(Digits!WordAt(src), cursor - p) ELSE buffer[p]]
  BY DEF Digits!Operate, Digits!ToCall
<1> HIDE DEF wr
<1>7. DOMAIN buffer = 1 .. room /\ \A p \in 1 .. room : buffer[p] \in Digits!Digit \cup {Digits!Fill}
  BY BufferIs
<1>8. e \in Nat
  BY <1>1
<1>9. ASSUME NEW p \in 1 .. room, cursor - wr < p, p <= cursor
      PROVE  buffer'[p] = Digits!RangeDigit(room - p)
  <2> DEFINE i == cursor - p
  <2>1. i \in 0 .. (k - 1) /\ e + i = room - p
    BY <1>1, <1>2, <1>4, <1>5, <1>9
  <2>2. buffer'[p] = Digits!DigitOf(Digits!WordAt(src), i)
    BY <1>6, <1>7, <1>9
  <2> HIDE DEF i, e
  <2>3. Digits!DigitOf(Digits!WordAt(src), i) = Digits!RangeDigit(e + i)
    BY <1>1, <1>2, <1>8, <2>1, WordDigit
  <2> QED BY <2>1, <2>2, <2>3
<1>10. ASSUME NEW p \in 1 .. room, ~(cursor - wr < p /\ p <= cursor)
       PROVE  buffer'[p] = buffer[p]
  BY <1>6, <1>7, <1>10
<1>11. /\ \A p \in (cursor + 1) .. room : buffer[p] = Digits!RangeDigit(room - p)
       /\ \A p \in 1 .. cursor : buffer[p] = Digits!Fill
  BY DEF ToInv
<1>12. ASSUME NEW p \in (cursor' + 1) .. room PROVE buffer'[p] = Digits!RangeDigit(room - p)
  <2>1. p \in 1 .. room /\ p > cursor - wr
    BY <1>1, <1>5
  <2>2. CASE p <= cursor
    BY <1>9, <2>1, <2>2
  <2>3. CASE p > cursor
    <3>1. p \in (cursor + 1) .. room
      BY <1>1, <2>1, <2>3
    <3> QED BY <1>1, <1>10, <1>11, <2>1, <2>3, <3>1
  <2> QED BY <1>1, <2>1, <2>2, <2>3
<1>13. ASSUME NEW p \in 1 .. cursor' PROVE buffer'[p] = Digits!Fill
  <2>1. p \in 1 .. room /\ p \in 1 .. cursor /\ ~(cursor - wr < p)
    BY <1>1, <1>5
  <2> QED BY <1>10, <1>11, <2>1
<1>14. buffer' \in Seq(Digits!Digit \cup {Digits!Fill}) /\ Len(buffer') = room
  <2>1. DOMAIN buffer' = 1 .. room /\ buffer' = [p \in 1 .. room |-> buffer'[p]]
    BY <1>6, <1>7
  <2>2. ASSUME NEW p \in 1 .. room PROVE buffer'[p] \in Digits!Digit \cup {Digits!Fill}
    <3>1. CASE p \in 1 .. cursor'
      BY <1>13, <3>1
    <3>2. CASE p \in (cursor' + 1) .. room
      <4>1. buffer'[p] = Digits!RangeDigit(room - p) /\ room - p \in Nat
        BY <1>1, <1>12, <3>2
      <4>2. Digits!RangeDigit(room - p) \in Digits!Digit
        BY <1>1, <4>1, RangeDigitIs
      <4> QED BY <4>1, <4>2
    <3> QED BY <1>1, <1>5, <3>1, <3>2
  <2> QED BY <1>1, <2>1, <2>2, SequenceIs
<1>15. src' \in 0 .. L /\ cursor' \in 0 .. cursor
  BY <1>1, <1>3, <1>5, <1>6
<1>16. BaseBits * (e + g) = src + BaseBits * g /\ BaseBits * g \in Nat /\ e + g \in Nat
  BY <1>1, <1>3, <1>4, <1>8
<1>17. e + g <= Full /\ (n < CharWord => e + g = Full)
  <2>1. CASE n = CharWord
    <3>1. BaseBits * (e + g) <= L
      BY <1>1, <1>2, <1>3, <1>4, <1>16, <2>1
    <3> QED BY <1>1, <1>16, <2>1, <3>1, DigitsForIs DEF Full
  <2>2. CASE n < CharWord
    <3>1. n = L - src
      BY <1>3, <2>2
    <3>2. BaseBits * (e + g) >= L /\ BaseBits * (e + g) < L + BaseBits
      BY <1>1, <1>3, <1>4, <1>16, <3>1
    <3>3. Full = e + g
      BY <1>1, <1>16, <3>2, DigitsForIs DEF Full
    <3> QED BY <1>16, <3>3
  <2> QED BY <1>3, <2>1, <2>2
<1>18. room - cursor' = e + wr /\ (wr = g \/ cursor' = 0)
  BY <1>1, <1>5
<1>19. room - cursor' <= Full
  BY <1>1, <1>4, <1>5, <1>8, <1>16, <1>17, <1>18
<1>20. ASSUME cursor' # 0
       PROVE  \/ n < CharWord /\ room - cursor' = Full
              \/ n = CharWord /\ src' = BaseBits * (room - cursor')
  <2>1. room - cursor' = e + g
    BY <1>18, <1>20
  <2> HIDE DEF e
  <2>2. CASE n = CharWord
    <3>1. src' = src + BaseBits * g
      BY <1>2, <1>4, <1>6, <2>2
    <3>2. src' = BaseBits * (room - cursor')
      BY <1>16, <2>1, <3>1
    <3> QED BY <2>2, <3>2
  <2> QED BY <1>3, <1>17, <2>1, <2>2
<1> QED BY <1>6, <1>12, <1>13, <1>14, <1>15, <1>19, <1>20

LEMMA ToStep ==
  ASSUME ToInv, pc = "words", NEW n \in 1 .. CharWord, n <= Digits!Length - src,
         \/ n = CharWord /\ Digits!Operate(n, "words")
         \/ n < CharWord /\ n = Digits!Length - src /\ Digits!Operate(n, "move")
  PROVE  ToInv'
<1>1. PICK next \in {"words", "move"} :
        /\ Digits!Operate(n, next)
        /\ n = CharWord => next = "words"
        /\ n < CharWord => next = "move"
  BY StringConstants
<1>2. n = CharWord \/ n = Digits!Length - src
  OBVIOUS
<1>3. /\ range' = range /\ position' = position /\ version' = version /\ room' = room
      /\ src' \in 0 .. Digits!Length
      /\ cursor' \in 0 .. cursor
      /\ buffer' \in Seq(Digits!Digit \cup {Digits!Fill}) /\ Len(buffer') = room
      /\ \A p \in (cursor' + 1) .. room : buffer'[p] = Digits!RangeDigit(room - p)
      /\ \A p \in 1 .. cursor' : buffer'[p] = Digits!Fill
      /\ room - cursor' <= Full
      /\ \/ cursor' = 0
         \/ n < CharWord /\ room - cursor' = Full
         \/ n = CharWord /\ src' = BaseBits * (room - cursor')
      /\ pc' = IF cursor' # 0 THEN next ELSE "move"
  BY <1>1, <1>2, Operated
<1>4. /\ Digits!Length' = Digits!Length /\ Full' = Full /\ Sized' = Sized
      /\ \A i : Digits!RangeDigit(i)' = Digits!RangeDigit(i)
  BY <1>3, RangeStays
<1>5. pc' \in {"words", "move"}
  BY <1>3
<1>6. Digits!ToTypeOK'
  <2>1. cursor' \in 0 .. room' /\ room' \in Nat
    BY <1>3, ToFacts DEF ToInv
  <2> QED BY <1>3, <1>4, <1>5, <2>1 DEF ToInv, Digits!ToTypeOK
<1>7. pc' = "words" => n = CharWord /\ cursor' # 0
  BY <1>1, <1>3, StringConstants
<1>8. pc' = "words" => src' = BaseBits * (room' - cursor')
  BY <1>3, <1>7, StringConstants
<1>9. pc' = "move" => cursor' = 0 \/ room' - cursor' = Full'
  BY <1>1, <1>3, <1>4
<1> QED BY <1>3, <1>4, <1>5, <1>6, <1>8, <1>9 DEF ToInv

LEMMA ToNothingLeft ==
  ASSUME ToInv, Digits!NothingLeft
  PROVE  ToInv'
<1>1. /\ range' = range /\ position' = position /\ version' = version /\ room' = room /\ cursor' = cursor
      /\ buffer' = buffer /\ src' = src /\ pc = "words" /\ pc' = "move"
      /\ Digits!Length - src = 0
  BY DEF Digits!NothingLeft, Digits!ToCall, Digits!Left
<1>2. /\ Digits!Length' = Digits!Length /\ Full' = Full /\ Sized' = Sized
      /\ \A i : Digits!RangeDigit(i)' = Digits!RangeDigit(i)
  BY <1>1, RangeStays
<1>3. Digits!ToTypeOK'
  BY <1>1, <1>2 DEF ToInv, Digits!ToTypeOK
<1>4. room - cursor = Full
  <2>1. /\ Digits!Length \in Nat /\ src \in Nat /\ src = BaseBits * (room - cursor)
        /\ room - cursor \in Nat
    BY <1>1, ToFacts DEF ToInv
  <2>2. BaseBits * (room - cursor) >= Digits!Length
        /\ BaseBits * (room - cursor) < Digits!Length + BaseBits
    BY <1>1, <2>1, StringConstants
  <2> QED BY <2>1, <2>2, DigitsForIs DEF Full
<1>5. Full \in Nat
  BY ToFacts DEF ToInv
<1> QED BY <1>1, <1>2, <1>3, <1>4, <1>5 DEF ToInv

LEMMA ToMove ==
  ASSUME ToInv, Digits!Move
  PROVE  ToInv'
<1> DEFINE S == Digits!Digit \cup {Digits!Fill}
           k == room - cursor
<1>1. /\ range' = range /\ position' = position /\ version' = version /\ room' = room /\ cursor' = 0
      /\ src' = src /\ pc = "move" /\ pc' = "done"
      /\ buffer' = SubSeq(buffer, cursor + 1, Len(buffer))
  BY DEF Digits!Move, Digits!ToCall
<1>2. /\ Digits!Length' = Digits!Length /\ Full' = Full /\ Sized' = Sized
      /\ \A i : Digits!RangeDigit(i)' = Digits!RangeDigit(i)
  BY <1>1, RangeStays
<1>3. /\ room \in Nat /\ cursor \in Nat /\ cursor <= room /\ k \in Nat /\ k <= Full /\ k <= room
      /\ cursor = 0 \/ k = Full
  BY <1>1, ToFacts DEF ToInv
<1>4. Len(buffer) = room /\ \A p \in 1 .. room : buffer[p] \in S
  BY <1>1, BufferIs
<1>5. \A p \in (cursor + 1) .. room : buffer[p] = Digits!RangeDigit(room - p)
  BY <1>1 DEF ToInv
<1>6. /\ buffer' \in Seq(S) /\ Len(buffer') = k
      /\ \A p \in 1 .. k : buffer'[p] = buffer[cursor + p]
  <2>1. \A p \in (cursor + 1) .. room : buffer[p] \in S
    BY <1>3, <1>4
  <2>2. cursor + 1 \in Int /\ room \in Int
    BY <1>3
  <2>3. /\ SubSeq(buffer, cursor + 1, room) \in Seq(S)
        /\ Len(SubSeq(buffer, cursor + 1, room)) = IF cursor + 1 <= room THEN room - (cursor + 1) + 1 ELSE 0
        /\ \A p \in 1 .. (room - (cursor + 1) + 1) :
             SubSeq(buffer, cursor + 1, room)[p] = buffer[(cursor + 1) + p - 1]
    BY <2>1, <2>2, SubSeqProperties
  <2>4. buffer' = SubSeq(buffer, cursor + 1, room)
    BY <1>1, <1>4
  <2>5. room - (cursor + 1) + 1 = k /\ \A p \in 1 .. k : (cursor + 1) + p - 1 = cursor + p
    BY <1>3
  <2>6. buffer' \in Seq(S) /\ Len(buffer') = k
    BY <1>3, <2>3, <2>4, <2>5
  <2>7. ASSUME NEW p \in 1 .. k PROVE buffer'[p] = buffer[cursor + p]
    BY <2>3, <2>4, <2>5, <2>7
  <2> QED BY <2>6, <2>7
<1>7. ASSUME NEW p \in 1 .. k PROVE buffer'[p] = Digits!RangeDigit(k - p)
  <2>1. cursor + p \in (cursor + 1) .. room /\ room - (cursor + p) = k - p
    BY <1>3
  <2> HIDE DEF k
  <2>2. buffer[cursor + p] = Digits!RangeDigit(room - (cursor + p))
    BY <1>5, <2>1
  <2> QED BY <1>6, <1>7, <2>1, <2>2
<1>8. Digits!ToTypeOK'
  BY <1>1, <1>2, <1>3, <1>6 DEF ToInv, Digits!ToTypeOK
<1>9. Len(buffer') = room' \/ Len(buffer') = Full'
  BY <1>1, <1>2, <1>3, <1>6
<1>10. (\A p \in 1 .. Len(buffer) : buffer[p] = Digits!RangeDigit(Len(buffer) - p))'
  BY <1>2, <1>6, <1>7
<1> QED BY <1>1, <1>2, <1>3, <1>6, <1>8, <1>9, <1>10 DEF ToInv

LEMMA ToStays ==
  ASSUME ToInv, UNCHANGED <<range, cursor, pc, position, version, buffer, room, src>>
  PROVE  ToInv'
<1>1. /\ range' = range /\ position' = position /\ cursor' = cursor /\ pc' = pc /\ version' = version
      /\ buffer' = buffer /\ room' = room /\ src' = src
  OBVIOUS
<1>2. /\ Digits!Length' = Digits!Length /\ Full' = Full /\ Sized' = Sized
      /\ \A i : Digits!RangeDigit(i)' = Digits!RangeDigit(i)
  BY <1>1, RangeStays
<1>3. Digits!ToTypeOK'
  BY <1>1, <1>2 DEF ToInv, Digits!ToTypeOK
<1> QED BY <1>1, <1>2, <1>3 DEF ToInv

LEMMA ToNext ==
  ASSUME ToInv, Digits!ToNext
  PROVE  ToInv'
<1>1. src \in Nat /\ Digits!Length \in Nat /\ CharWord \in Nat /\ CharWord >= 1
  BY ToFacts, StringConstants DEF ToInv
<1>2. CASE Digits!WholeWord
  BY <1>1, <1>2, ToStep DEF Digits!WholeWord, Digits!Left
<1>3. CASE Digits!Rest
  <2>1. Digits!Length - src \in 1 .. (CharWord - 1) /\ Digits!Operate(Digits!Length - src, "move")
        /\ pc = "words"
    BY <1>3 DEF Digits!Rest, Digits!Left
  <2>2. Digits!Length - src \in 1 .. CharWord /\ Digits!Length - src < CharWord
    BY <1>1, <2>1
  <2> QED BY <2>1, <2>2, ToStep
<1>4. CASE Digits!Finished
  BY <1>4, ToStays DEF Digits!Finished, Digits!vars, Digits!string_vars, Digits!to_vars
<1> QED BY <1>2, <1>3, <1>4, ToNothingLeft, ToMove DEF Digits!ToNext

\* The characters a buffer as long as the range's leading zeros leave takes.
LEMMA ToShort ==
  ASSUME ToInv, pc = "done", version = "short", Digits!CountsExactly, Digits!Length > 0
  PROVE  /\ \A i \in Nat : i >= Len(buffer) /\ i < Full => Digits!RangeDigit(i) = 0
         /\ buffer[1] # 0 \/ buffer = <<0>>
<1> DEFINE L == Digits!Length
           n == Len(buffer)
<1>1. /\ L \in Nat /\ L >= 1 /\ range \in [0 .. (L - 1) -> {0, 1}] /\ Full \in Nat /\ room \in Nat
      /\ BaseBits \in Nat /\ BaseBits >= 1
  BY ToFacts, StringConstants DEF ToInv
<1>2. PICK h \in 0 .. L :
        /\ \A i \in h .. (L - 1) : range[i] = 0
        /\ h = 0 \/ range[h - 1] = 1
        /\ room = Digits!Greater(1, Digits!DigitsFor(h))
  BY DEF ToInv, Sized
<1> DEFINE g == Digits!DigitsFor(h)
<1>3. h \in Nat /\ g \in Nat /\ BaseBits * g >= h /\ BaseBits * g < h + BaseBits
      /\ \A t \in Int : h <= BaseBits * t => g <= t
  BY <1>1, <1>2, DigitsForIs
<1>4. room = IF 1 >= g THEN 1 ELSE g
  BY <1>2 DEF Digits!Greater
<1>5. /\ Full >= 1 /\ g <= Full
  <2>1. BaseBits * Full >= L /\ BaseBits * Full \in Nat
    <3>1. BaseBits * Digits!DigitsFor(L) >= L
      BY <1>1, DigitsForIs
    <3> QED BY <1>1, <3>1 DEF Full
  <2> HIDE DEF g
  <2>2. Full # 0
    BY <1>1, <2>1
  <2>3. h <= BaseBits * Full
    BY <1>1, <1>2, <2>1
  <2> QED BY <1>1, <1>3, <2>2, <2>3
<1>6. /\ buffer \in Seq(Digits!Digit \cup {Digits!Fill})
      /\ n \in Nat /\ n <= Full /\ n <= room /\ (n = room \/ n = Full)
      /\ \A p \in 1 .. n : buffer[p] = Digits!RangeDigit(n - p)
  <2>1. buffer \in Seq(Digits!Digit \cup {Digits!Fill})
    BY DEF ToInv, Digits!ToTypeOK
  <2>2. n \in Nat
    BY <2>1, LenProperties
  <2> QED BY <2>1, <2>2 DEF ToInv
<1> HIDE DEF n, g
<1>7. n = room /\ n >= 1 /\ g <= n
  BY <1>1, <1>3, <1>4, <1>5, <1>6
<1>8. ASSUME NEW i \in Nat, i >= g PROVE Digits!RangeDigit(i) = 0
  <2>1. BaseBits * i >= BaseBits * g /\ BaseBits * i \in Nat
    BY <1>1, <1>3, <1>8, TimesMonotone
  <2>2. ASSUME NEW j \in 0 .. (BaseBits - 1), BaseBits * i + j < L PROVE range[BaseBits * i + j] = 0
    <3>1. BaseBits * i + j \in h .. (L - 1)
      BY <1>1, <1>3, <2>1, <2>2
    <3> QED BY <1>2, <3>1
  <2> QED BY <1>1, <2>2, RangeDigitIs
<1>9. buffer[1] = Digits!RangeDigit(n - 1)
  BY <1>6, <1>7
<1>10. CASE h = 0
  <2>1. g = 0
    BY <1>1, <1>3, <1>10
  <2>2. n = 1 /\ Digits!RangeDigit(0) = 0
    BY <1>4, <1>7, <1>8, <2>1
  <2>3. buffer[1] = 0 /\ Len(buffer) = 1
    BY <1>9, <2>2 DEF n
  <2>4. buffer = <<0>>
    BY <1>6, <2>3
  <2> QED BY <1>3, <1>6, <1>7, <1>8, <2>4 DEF n
<1>11. CASE h # 0
  <2>1. g >= 1 /\ n = g
    BY <1>1, <1>3, <1>4, <1>7, <1>11
  <2> DEFINE t == n - 1
             j == h - 1 - BaseBits * t
  <2>2. t \in Nat /\ BaseBits * t = BaseBits * g - BaseBits /\ BaseBits * t \in Nat
    BY <1>1, <1>3, <2>1
  <2>3. j \in 0 .. (BaseBits - 1) /\ BaseBits * t + j = h - 1
    <3> DEFINE x == BaseBits * t
               y == BaseBits * g
    <3> HIDE DEF x, y
    <3>1. x \in Nat /\ x = y - BaseBits /\ y \in Int /\ y >= h /\ y < h + BaseBits
      BY <1>1, <1>3, <2>2 DEF x, y
    <3>2. h - 1 - x \in 0 .. (BaseBits - 1) /\ x + (h - 1 - x) = h - 1
      BY <1>1, <1>3, <1>11, <3>1
    <3> QED BY <3>2 DEF x
  <2> HIDE DEF j
  <2>4. BaseBits * t + j < L /\ range[BaseBits * t + j] # 0
    BY <1>1, <1>2, <1>11, <2>3
  <2> HIDE DEF t
  <2>5. Digits!RangeDigit(t) # 0
    BY <1>1, <2>2, <2>3, <2>4, RangeDigitIs
  <2> QED BY <1>3, <1>6, <1>7, <1>8, <1>9, <2>5 DEF n, t
<1> QED BY <1>10, <1>11

\* The characters for all the range.
LEMMA AllDigitsAre ==
  ASSUME ToInv
  PROVE  /\ Digits!AllDigits \in Seq(Digits!Digit) /\ Len(Digits!AllDigits) = Full
         /\ \A p \in 1 .. Full : Digits!AllDigits[p] = Digits!RangeDigit(Full - p)
<1>1. Full \in Nat /\ Digits!Length \in Nat /\ range \in [0 .. (Digits!Length - 1) -> {0, 1}]
  BY ToFacts DEF ToInv
<1>2. Digits!AllDigits = [p \in 1 .. Full |-> Digits!RangeDigit(Full - p)]
  BY DEF Digits!AllDigits, Full
<1>3. ASSUME NEW p \in 1 .. Full PROVE Digits!RangeDigit(Full - p) \in Digits!Digit
  <2>1. Full - p \in Nat
    BY <1>1
  <2> QED BY <1>1, <2>1, RangeDigitIs
<1>4. /\ DOMAIN Digits!AllDigits = 1 .. Full
      /\ \A p \in 1 .. Full : Digits!AllDigits[p] = Digits!RangeDigit(Full - p)
  BY <1>2
<1>5. Digits!AllDigits = [p \in 1 .. Full |-> Digits!AllDigits[p]]
  BY <1>2, <1>4
<1>6. \A p \in 1 .. Full : Digits!AllDigits[p] \in Digits!Digit
  BY <1>3, <1>4
<1> QED BY <1>1, <1>4, <1>5, <1>6, SequenceIs

LEMMA SuffixIs ==
  ASSUME NEW s, NEW t, Len(s) \in Nat, Len(t) \in Nat, Len(s) <= Len(t),
         \A p \in 1 .. Len(s) : s[p] = t[Len(t) - Len(s) + p]
  PROVE  Digits!IsSuffix(s, t)
<1> DEFINE n == Len(s)
           m == Len(t)
           a == Digits!Reverse(s)
           b == Digits!Reverse(t)
           S == {a[i] : i \in 1 .. n} \cup {b[i] : i \in 1 .. m}
<1> HIDE DEF n, m
<1>1. a = [i \in 1 .. n |-> s[(n - i) + 1]] /\ b = [i \in 1 .. m |-> t[(m - i) + 1]]
  BY DEF Digits!Reverse, n, m
<1>2. n \in Nat /\ m \in Nat /\ n <= m
  BY DEF n, m
<1> HIDE DEF a, b
<1>3. DOMAIN a = 1 .. n /\ DOMAIN b = 1 .. m
  BY <1>1
<1>4. \A i \in 1 .. n : a[i] \in S
  OBVIOUS
<1>5. \A i \in 1 .. m : b[i] \in S
  OBVIOUS
<1> HIDE DEF S
<1>6. a = [i \in 1 .. n |-> a[i]] /\ b = [i \in 1 .. m |-> b[i]]
  BY <1>1, <1>3
<1>7. a \in Seq(S) /\ Len(a) = n /\ b \in Seq(S) /\ Len(b) = m
  BY <1>2, <1>3, <1>4, <1>5, <1>6, SequenceIs
<1>8. ASSUME NEW i \in 1 .. n PROVE a[i] = b[i]
  <2> DEFINE p == (n - i) + 1
  <2>1. p \in 1 .. n /\ (m - n) + p = (m - i) + 1 /\ i \in 1 .. m
    BY <1>2
  <2>2. s[p] = t[m - n + p]
    BY <2>1 DEF n, m
  <2>3. a[i] = s[p] /\ b[i] = t[(m - i) + 1]
    BY <1>1, <2>1
  <2> HIDE DEF p
  <2> QED BY <1>2, <2>1, <2>2, <2>3
<1> DEFINE u == SubSeq(a, 1, n)
           v == SubSeq(b, 1, n)
<1>9. u \in Seq(S) /\ Len(u) = n /\ \A i \in 1 .. n : u[i] = a[i]
  <2>1. /\ u \in Seq(S) /\ Len(u) = (IF 1 <= n THEN n - 1 + 1 ELSE 0)
        /\ \A i \in 1 .. (n - 1 + 1) : u[i] = a[1 + i - 1]
    BY <1>2, <1>4, SubSeqProperties
  <2> HIDE DEF u
  <2> QED BY <1>2, <2>1
<1>10. v \in Seq(S) /\ Len(v) = n /\ \A i \in 1 .. n : v[i] = b[i]
  <2>1. \A i \in 1 .. n : b[i] \in S
    BY <1>2, <1>5
  <2>2. /\ v \in Seq(S) /\ Len(v) = (IF 1 <= n THEN n - 1 + 1 ELSE 0)
        /\ \A i \in 1 .. (n - 1 + 1) : v[i] = b[1 + i - 1]
    BY <1>2, <2>1, SubSeqProperties
  <2> HIDE DEF v
  <2> QED BY <1>2, <2>2
<1>11. u = v
  <2> HIDE DEF u, v
  <2> QED BY <1>8, <1>9, <1>10, SeqEqual
<1>12. Digits!IsPrefix(a, b)
  BY <1>2, <1>7, <1>11 DEF Digits!IsPrefix
<1> QED BY <1>12 DEF Digits!IsSuffix, a, b

LEMMA ToImplies ==
  ASSUME ToInv
  PROVE  Digits!ToTypeOK /\ Digits!ToStringCorrect /\ Digits!WrittenSoFar
<1> DEFINE S == Digits!Digit \cup {Digits!Fill}
           n == Len(buffer)
<1>1. Digits!ToTypeOK
  BY DEF ToInv
<1>2. /\ Digits!Length \in Nat /\ Full \in Nat /\ room \in Nat /\ cursor \in Nat /\ cursor <= room
      /\ range \in [0 .. (Digits!Length - 1) -> {0, 1}] /\ BaseBits \in Nat /\ src \in Nat
  BY <1>1, ToFacts, StringConstants
<1>3. buffer \in Seq(S) /\ n \in Nat
  BY <1>1, LenProperties DEF Digits!ToTypeOK
<1> HIDE DEF S
<1>4. ASSUME pc = "done" PROVE Digits!ToStringCorrect
  <2> DEFINE All == Digits!AllDigits
  <2>1. /\ n <= Full /\ n <= room /\ (n = room \/ n = Full)
        /\ \A p \in 1 .. n : buffer[p] = Digits!RangeDigit(n - p)
        /\ version = "zeros" => Full <= room
    BY <1>4 DEF ToInv
  <2>2. /\ Len(All) = Full
        /\ All \in Seq(Digits!Digit)
        /\ \A p \in 1 .. Full : All[p] = Digits!RangeDigit(Full - p)
    BY AllDigitsAre
  <2> HIDE DEF All
  <2>3. ASSUME NEW p \in 1 .. n PROVE buffer[p] = All[Full - n + p]
    <3>1. Full - n + p \in 1 .. Full /\ Full - (Full - n + p) = n - p
      BY <1>2, <1>3, <2>1
    <3> QED BY <2>1, <2>2, <3>1
  <2>4. Digits!IsSuffix(buffer, All)
    BY <1>2, <1>3, <2>1, <2>2, <2>3, SuffixIs
  <2>5. n = Full => buffer = All
    <3> SUFFICES ASSUME n = Full PROVE buffer = All
      OBVIOUS
    <3>1. All \in Seq(S)
      BY <2>2, SeqMonotonic DEF S
    <3>2. \A p \in 1 .. n : buffer[p] = All[p]
      BY <1>2, <2>1, <2>2
    <3> QED BY <1>3, <2>2, <3>1, <3>2, SeqEqual
  <2>6. version = "zeros" => n = Full
    BY <1>2, <1>3, <2>1
  <2>7. ASSUME version = "short", Digits!CountsExactly, Digits!Length > 0
        PROVE  /\ \A p \in DOMAIN All : p <= Len(All) - n => All[p] = 0
               /\ buffer[1] # 0 \/ buffer = <<0>>
    <3>1. /\ \A i \in Nat : i >= n /\ i < Full => Digits!RangeDigit(i) = 0
          /\ buffer[1] # 0 \/ buffer = <<0>>
      BY <1>4, <2>7, ToShort
    <3>2. DOMAIN All = 1 .. Full
      BY <2>2, LenProperties
    <3>3. ASSUME NEW p \in 1 .. Full, p <= Full - n PROVE All[p] = 0
      <4>1. Full - p \in Nat /\ Full - p >= n /\ Full - p < Full
        BY <1>2, <1>3, <3>3
      <4> QED BY <2>2, <3>1, <4>1
    <3> QED BY <2>2, <3>1, <3>2, <3>3
  <2> QED BY <2>1, <2>4, <2>5, <2>6, <2>7 DEF Digits!ToStringCorrect, All
<1>5. ASSUME pc = "words" PROVE Digits!WrittenSoFar
  <2> DEFINE t == SubSeq(buffer, cursor + 1, n)
             k == room - cursor
  <2>1. /\ n = room
        /\ \A p \in (cursor + 1) .. room : buffer[p] = Digits!RangeDigit(room - p)
        /\ src = BaseBits * k
        /\ \A p \in 1 .. cursor : buffer[p] = Digits!Fill
    BY <1>5 DEF ToInv
  <2>2. k \in Nat /\ room - (cursor + 1) + 1 = k /\ cursor + 1 \in Int /\ room \in Int
    BY <1>2
  <2>3. \A p \in (cursor + 1) .. room : buffer[p] \in S
    BY <1>2, <1>3, <2>1, ElementOfSeq
  <2>4. /\ t \in Seq(S) /\ Len(t) = (IF cursor + 1 <= room THEN room - (cursor + 1) + 1 ELSE 0)
        /\ \A p \in 1 .. (room - (cursor + 1) + 1) : t[p] = buffer[(cursor + 1) + p - 1]
    BY <2>1, <2>2, <2>3, SubSeqProperties
  <2> HIDE DEF t
  <2>5. Len(t) = k /\ \A p \in 1 .. k : t[p] = buffer[cursor + p]
    <3>1. Len(t) = k
      BY <1>2, <2>2, <2>4
    <3>2. ASSUME NEW p \in 1 .. k PROVE t[p] = buffer[cursor + p]
      <4>1. p \in 1 .. (room - (cursor + 1) + 1)
        BY <2>2, <3>2
      <4>2. (cursor + 1) + p - 1 = cursor + p
        BY <1>2, <2>2, <3>2
      <4> HIDE DEF k
      <4> QED BY <2>4, <4>1, <4>2
    <3> QED BY <3>1, <3>2
  <2>6. DOMAIN t = 1 .. k
    BY <2>4, <2>5, LenProperties
  <2>7. ASSUME NEW p \in 1 .. k PROVE t[p] = Digits!RangeDigit(k - p)
    <3>1. cursor + p \in (cursor + 1) .. room /\ room - (cursor + p) = k - p
      BY <1>2
    <3> HIDE DEF k
    <3> QED BY <2>1, <2>5, <3>1
  <2>8. Len(t) * BaseBits = src
    BY <1>2, <2>1, <2>2, <2>5
  <2> QED BY <2>1, <2>5, <2>6, <2>7, <2>8 DEF Digits!WrittenSoFar, t
<1>6. pc # "done" => Digits!ToStringCorrect
  BY DEF Digits!ToStringCorrect
<1>7. pc # "words" => Digits!WrittenSoFar
  BY DEF Digits!WrittenSoFar
<1> QED BY <1>1, <1>4, <1>5, <1>6, <1>7

----------------------------------------------------------------------------
(* from_string                                                             *)

\* What was read is in its place, the integer has room for a digit unless it is
\* full, and it is what or-ing the digits read makes, also above those: the lower
\* integers have taken the rest of the digits before it.
FromInv ==
  /\ Digits!FromTypeOK /\ Digits!FromStringCorrect /\ Digits!ReadSoFar
  /\ pc = "read" =>
       /\ str # <<>> /\ bit_it < Digits!Length
       /\ bits <= WorkBits /\ \E t \in Nat : bits = BaseBits * t
       /\ \E g \in Nat : bit_it = WorkBits * g
       /\ \A i \in 0 .. (WorkBits - 1) : work[i] = Digits!BitOred(cursor + 1, bit_it + i)

\* The digits among the characters from the i-th on.
DigitsAfter(i) == Cardinality(Digits!DigitsFrom(i))

LEMMA FromFacts ==
  ASSUME Digits!FromTypeOK
  PROVE  /\ Digits!Length \in 0 .. MaxBits /\ Digits!Length \in Nat
         /\ range \in [0 .. (Digits!Length - 1) -> {0, 1, -1}]
         /\ DOMAIN range = 0 .. (Digits!Length - 1)
         /\ bit_it \in Nat /\ bit_it <= Digits!Length
         /\ work \in [0 .. (WorkBits - 1) -> {0, 1}] /\ bits \in Nat
         /\ Len(str) \in Nat /\ cursor \in Nat /\ cursor <= Len(str)
         /\ \A p \in 1 .. Len(str) : str[p] = -1 \/ str[p] \in Nat
         /\ pc \in {"read", "done"} /\ is_signed \in BOOLEAN
<1>1. PICK n \in 0 .. MaxBits : range \in [0 .. (n - 1) -> {0, 1} \cup {-1}]
  BY DEF Digits!FromTypeOK, Digits!ZeroOne, Digits!Old
<1>2. n \in Nat /\ n \in 0 .. MaxBits /\ DOMAIN range = 0 .. (n - 1)
  BY <1>1, StringConstants
<1>3. Digits!Length = n
  BY <1>2, BitsCount, DigitsCardinality DEF Digits!Length
<1>4. \A p \in 1 .. Len(str) : str[p] = -1 \/ str[p] \in Nat
  <2>1. str \in Seq(StringDigits \cup {-1})
    BY DEF Digits!FromTypeOK, Digits!Skip
  <2>2. StringDigits \subseteq Nat
    BY StringsAssumption
  <2> QED BY <2>1, <2>2, ElementOfSeq
<1>5. Len(str) \in Nat
  BY LenProperties DEF Digits!FromTypeOK
<1>6. bit_it \in 0 .. Digits!Length /\ cursor \in 0 .. Len(str) /\ bits \in Nat
      /\ pc \in {"read", "done"} /\ is_signed \in BOOLEAN
  BY StringConstants DEF Digits!FromTypeOK
<1>7. work \in [0 .. (WorkBits - 1) -> {0, 1}]
  BY DEF Digits!FromTypeOK, Digits!Work, Digits!ZeroOne
<1>8. range \in [0 .. (n - 1) -> {0, 1, -1}]
  <2>1. {0, 1} \cup {-1} = {0, 1, -1}
    OBVIOUS
  <2> QED BY <1>1, <2>1
<1> QED BY <1>2, <1>3, <1>4, <1>5, <1>6, <1>7, <1>8

LEMMA DigitsFromIs ==
  ASSUME Len(str) \in Nat, NEW i \in Nat, i >= 1
  PROVE  /\ IsFiniteSet(Digits!DigitsFrom(i)) /\ DigitsAfter(i) \in Nat
         /\ Digits!DigitsFrom(i) = {p \in i .. Len(str) : str[p] # -1}
<1>1. Digits!DigitsFrom(i) = {p \in i .. Len(str) : str[p] # -1}
  BY DEF Digits!DigitsFrom, Digits!Skip
<1>2. IsFiniteSet(i .. Len(str))
  BY FS_Interval
<1>3. Digits!DigitsFrom(i) \subseteq i .. Len(str)
  BY <1>1
<1>4. IsFiniteSet(Digits!DigitsFrom(i))
  BY <1>2, <1>3, FS_Subset
<1> QED BY <1>1, <1>4, FS_CardinalityType DEF DigitsAfter

LEMMA DigitsAfterStep ==
  ASSUME Len(str) \in Nat, NEW i \in 1 .. Len(str)
  PROVE  /\ DigitsAfter(i + 1) \in Nat
         /\ DigitsAfter(i) = IF str[i] = -1 THEN DigitsAfter(i + 1) ELSE DigitsAfter(i + 1) + 1
<1>1. i \in Nat /\ i >= 1 /\ i + 1 \in Nat /\ i + 1 >= 1
  OBVIOUS
<1>2. /\ IsFiniteSet(Digits!DigitsFrom(i + 1)) /\ DigitsAfter(i + 1) \in Nat
      /\ Digits!DigitsFrom(i + 1) = {p \in (i + 1) .. Len(str) : str[p] # -1}
      /\ Digits!DigitsFrom(i) = {p \in i .. Len(str) : str[p] # -1}
  BY <1>1, DigitsFromIs
<1>3. CASE str[i] = -1
  <2>1. Digits!DigitsFrom(i) = Digits!DigitsFrom(i + 1)
    BY <1>1, <1>2, <1>3
  <2> QED BY <1>2, <1>3, <2>1 DEF DigitsAfter
<1>4. CASE str[i] # -1
  <2>1. Digits!DigitsFrom(i) = Digits!DigitsFrom(i + 1) \cup {i} /\ i \notin Digits!DigitsFrom(i + 1)
    BY <1>1, <1>2, <1>4
  <2> QED BY <1>2, <1>4, <2>1, FS_AddElement DEF DigitsAfter
<1> QED BY <1>3, <1>4

\* The further back, the more digits, by one for each digit at least.
LEMMA DigitsAfterFalls ==
  ASSUME Len(str) \in Nat, NEW i \in Nat, NEW j \in Nat, 1 <= i, i <= j
  PROVE  /\ DigitsAfter(j) <= DigitsAfter(i)
         /\ \A q \in Digits!DigitsFrom(i) : q < j => DigitsAfter(j) < DigitsAfter(i)
<1>1. /\ IsFiniteSet(Digits!DigitsFrom(i)) /\ IsFiniteSet(Digits!DigitsFrom(j))
      /\ DigitsAfter(i) \in Nat /\ DigitsAfter(j) \in Nat
      /\ Digits!DigitsFrom(i) = {p \in i .. Len(str) : str[p] # -1}
      /\ Digits!DigitsFrom(j) = {p \in j .. Len(str) : str[p] # -1}
  BY DigitsFromIs
<1>2. Digits!DigitsFrom(j) \subseteq Digits!DigitsFrom(i)
  BY <1>1
<1>3. DigitsAfter(j) <= DigitsAfter(i)
  BY <1>1, <1>2, FS_Subset DEF DigitsAfter
<1>4. ASSUME NEW q \in Digits!DigitsFrom(i), q < j PROVE DigitsAfter(j) < DigitsAfter(i)
  <2>1. q \notin Digits!DigitsFrom(j)
    BY <1>1, <1>4
  <2>2. Digits!DigitsFrom(j) # Digits!DigitsFrom(i)
    BY <2>1
  <2>3. Cardinality(Digits!DigitsFrom(j)) # Cardinality(Digits!DigitsFrom(i))
    BY <1>1, <1>2, <2>2, FS_Subset
  <2> QED BY <1>1, <1>3, <2>3 DEF DigitsAfter
<1> QED BY <1>3, <1>4

\* Two digits are followed by different numbers of them.
LEMMA DigitsDiffer ==
  ASSUME Len(str) \in Nat, NEW a \in 1 .. Len(str), NEW b \in 1 .. Len(str), str[b] # -1, a < b
  PROVE  DigitsAfter(b + 1) < DigitsAfter(a + 1)
<1>1. a + 1 \in Nat /\ b + 1 \in Nat /\ 1 <= a + 1 /\ a + 1 <= b + 1 /\ b < b + 1 /\ b >= a + 1
  OBVIOUS
<1>2. b \in Digits!DigitsFrom(a + 1)
  <2>1. Digits!DigitsFrom(a + 1) = {x \in (a + 1) .. Len(str) : str[x] # -1}
    BY <1>1, DigitsFromIs
  <2>2. b \in (a + 1) .. Len(str)
    BY <1>1
  <2> QED BY <2>1, <2>2
<1> QED BY <1>1, <1>2, DigitsAfterFalls

\* The bit of the number in a digit.
LEMMA NumberBitIs ==
  ASSUME Len(str) \in Nat, NEW q \in 1 .. Len(str), str[q] # -1, NEW j \in 0 .. (BaseBits - 1)
  PROVE  Digits!BitOfNumber(BaseBits * DigitsAfter(q + 1) + j) = Digits!BitOfDigit(str[q], j)
<1> DEFINE c == DigitsAfter(q + 1)
           i == BaseBits * c + j
           P == {p \in Digits!DigitsFrom(1) : Digits!Cardinality(Digits!DigitsFrom(p + 1)) = i \div BaseBits}
<1>1. BaseBits \in Nat /\ BaseBits >= 1 /\ q \in Nat /\ q + 1 \in Nat /\ c \in Nat
  BY StringConstants, DigitsFromIs
<1> HIDE DEF c
<1>2. i \div BaseBits = c /\ i % BaseBits = j
  <2>1. i \in Int /\ c \in Int
    BY <1>1
  <2> QED BY <1>1, <2>1, Divided
<1> HIDE DEF i
<1>3. Digits!DigitsFrom(1) = {p \in 1 .. Len(str) : str[p] # -1}
  BY DigitsFromIs
<1>4. q \in P
  BY <1>2, <1>3, DigitsCardinality DEF c, DigitsAfter
<1>5. ASSUME NEW p \in P PROVE p = q
  <2>1. p \in 1 .. Len(str) /\ str[p] # -1 /\ DigitsAfter(p + 1) = c
    BY <1>2, <1>3, DigitsCardinality DEF DigitsAfter
  <2>2. ~(p < q) /\ ~(q < p)
    BY <1>1, <2>1, DigitsDiffer DEF c
  <2> QED BY <2>1, <2>2
<1>6. (CHOOSE p \in Digits!DigitsFrom(1) : Digits!Cardinality(Digits!DigitsFrom(p + 1)) = i \div BaseBits) = q
  BY <1>4, <1>5
<1>7. Digits!BitOfNumber(i) = Digits!BitOfDigit(str[q], i % BaseBits)
  BY <1>6 DEF Digits!BitOfNumber
<1> QED BY <1>2, <1>7 DEF i, c

LEMMA BitOfDigitIs ==
  ASSUME NEW v \in Nat, NEW i \in Nat
  PROVE  Digits!BitOfDigit(v, i) \in {0, 1}
<1>1. Power(i) \in Nat /\ Power(i) >= 1
  BY PowerPositive
<1>2. (v \div Power(i)) % 2 \in {0, 1}
  BY <1>1, DigitStep
<1> QED BY <1>2 DEF Digits!BitOfDigit, Power

\* A digit below the base has no bits above its own.
LEMMA BaseDigitIs ==
  ASSUME NEW v \in Nat, v < 2 ^ BaseBits, NEW i \in Nat, i >= BaseBits
  PROVE  Digits!BitOfDigit(v, i) = 0
<1>1. Power(BaseBits) \in Nat /\ Power(i) \in Nat /\ Power(i) > 0 /\ Power(BaseBits) <= Power(i)
  <2>1. BaseBits \in Nat /\ i - BaseBits \in Nat /\ BaseBits + (i - BaseBits) = i
    BY StringConstants
  <2>2. Power(i) = Power(BaseBits) * Power(i - BaseBits)
    BY <2>1, PowerSum
  <2>3. Power(BaseBits) \in Nat /\ Power(i - BaseBits) \in Nat /\ 1 <= Power(i - BaseBits)
    BY <2>1, PowerPositive
  <2>4. Power(BaseBits) * 1 <= Power(BaseBits) * Power(i - BaseBits)
    BY <2>3, TimesMonotone
  <2> QED BY <2>2, <2>3, <2>4, PowerPositive
<1>2. v \in 0 .. (Power(i) - 1)
  BY <1>1 DEF Power
<1>3. v \div Power(i) = 0
  BY <1>1, <1>2, SmallRemainder
<1>4. Digits!BitOfDigit(v, i) = (v \div Power(i)) % 2
  BY DEF Digits!BitOfDigit, Power
<1> QED BY <1>3, <1>4

\* Character p's digit sets bit i.
Sets(p, i) ==
  LET at == BaseBits * DigitsAfter(p + 1)
  IN  at <= i /\ at \div WorkBits = i \div WorkBits /\ Digits!BitOfDigit(str[p], i - at) = 1

LEMMA OredIs ==
  ASSUME NEW c, NEW i
  PROVE  Digits!BitOred(c, i) = IF \E p \in Digits!DigitsFrom(c) : Sets(p, i) THEN 1 ELSE 0
BY DigitsCardinality DEF Digits!BitOred, Sets, DigitsAfter

\* Bits before the digits of the first characters are the other digits'.
LEMMA OredLast ==
  ASSUME Len(str) \in Nat, NEW c \in Nat, c >= 1, NEW i \in Int, i < BaseBits * DigitsAfter(c)
  PROVE  Digits!BitOred(1, i) = Digits!BitOred(c, i)
<1>1. /\ Digits!DigitsFrom(1) = {p \in 1 .. Len(str) : str[p] # -1}
      /\ Digits!DigitsFrom(c) = {p \in c .. Len(str) : str[p] # -1}
      /\ DigitsAfter(c) \in Nat
  BY DigitsFromIs
<1>2. ASSUME NEW p \in Digits!DigitsFrom(1), Sets(p, i) PROVE p \in Digits!DigitsFrom(c)
  <2> SUFFICES ASSUME p < c PROVE FALSE
    BY <1>1
  <2>1. p + 1 \in Nat /\ 1 <= p + 1 /\ p + 1 <= c
    BY <1>1
  <2>2. DigitsAfter(c) <= DigitsAfter(p + 1) /\ DigitsAfter(p + 1) \in Nat
    BY <2>1, DigitsAfterFalls, DigitsFromIs
  <2>3. BaseBits * DigitsAfter(c) <= BaseBits * DigitsAfter(p + 1)
    <3>1. BaseBits \in Nat /\ DigitsAfter(c) \in Int /\ DigitsAfter(p + 1) \in Int
      BY <1>1, <2>2, StringConstants
    <3> QED BY <2>2, <3>1, TimesMonotone
  <2>4. BaseBits * DigitsAfter(p + 1) <= i
    BY <1>2 DEF Sets
  <2>5. BaseBits * DigitsAfter(c) \in Int /\ BaseBits * DigitsAfter(p + 1) \in Int
    BY <1>1, <2>2, StringConstants
  <2> QED BY <2>3, <2>4, <2>5
<1>3. Digits!DigitsFrom(c) \subseteq Digits!DigitsFrom(1)
  BY <1>1
<1> QED BY <1>2, <1>3, OredIs

\* The digits read so far set no bits of a new integer.
LEMMA OredAbove ==
  ASSUME Len(str) \in Nat, NEW c \in Nat, c >= 1, NEW g \in Nat,
         BaseBits * DigitsAfter(c) = WorkBits * g, NEW i \in 0 .. (WorkBits - 1)
  PROVE  Digits!BitOred(c, WorkBits * g + i) = 0
<1>1. /\ Digits!DigitsFrom(c) = {p \in c .. Len(str) : str[p] # -1}
      /\ DigitsAfter(c) \in Nat
      /\ BaseBits \in Nat /\ BaseBits >= 1 /\ WorkBits \in Nat /\ WorkBits >= 1
  BY DigitsFromIs, StringConstants
<1>2. (WorkBits * g + i) \div WorkBits = g
  <2> DEFINE v == WorkBits * g + i
  <2>1. v \in Int /\ v = WorkBits * g + i /\ WorkBits \in Nat /\ WorkBits > 0 /\ g \in Int
    BY <1>1
  <2> HIDE DEF v
  <2>2. v \div WorkBits = g
    BY <2>1, Divided
  <2> QED BY <2>2 DEF v
<1>3. ASSUME NEW p \in Digits!DigitsFrom(c), Sets(p, WorkBits * g + i) PROVE FALSE
  <2> DEFINE at == BaseBits * DigitsAfter(p + 1)
  <2>1. p + 1 \in Nat /\ c <= p + 1 /\ p < p + 1 /\ 1 <= p + 1
    BY <1>1
  <2>2. DigitsAfter(p + 1) < DigitsAfter(c) /\ DigitsAfter(p + 1) \in Nat
    BY <2>1, DigitsAfterFalls, DigitsFromIs
  <2>3. DigitsAfter(p + 1) + 1 <= DigitsAfter(c)
    BY <1>1, <2>2
  <2>4. BaseBits * (DigitsAfter(p + 1) + 1) <= BaseBits * DigitsAfter(c)
    BY <1>1, <2>2, <2>3, TimesMonotone
  <2>5. at \in Int /\ at + BaseBits <= WorkBits * g
    BY <1>1, <2>2, <2>4
  <2>6. at \div WorkBits = g
    BY <1>2, <1>3 DEF Sets
  <2> HIDE DEF at
  <2>7. at = WorkBits * (at \div WorkBits) + (at % WorkBits) /\ at % WorkBits \in Nat
    BY <1>1, <2>5, Dividing
  <2>8. WorkBits * g \in Int
    BY <1>1
  <2> QED BY <1>1, <2>5, <2>6, <2>7, <2>8
<1> QED BY <1>3, OredIs

\* A digit is followed by k of them, if there are more.
LEMMA DigitThere ==
  ASSUME Len(str) \in Nat, NEW k \in Nat, k < DigitsAfter(1)
  PROVE  \E q \in 1 .. Len(str) : str[q] # -1 /\ DigitsAfter(q + 1) = k
<1> DEFINE n == Len(str)
           S == {m \in Nat : m <= n /\ DigitsAfter((n + 1) - m) > k}
<1>1. n \in S
  <2>1. (n + 1) - n = 1 /\ n <= n
    OBVIOUS
  <2>2. DigitsAfter(1) > k
    BY DigitsFromIs
  <2> QED BY <2>1, <2>2
<1>2. PICK m \in S : \A y \in S : m <= y
  <2> HIDE DEF S
  <2>1. S \in SUBSET Nat
    BY DEF S
  <2> QED BY <1>1, <2>1, LeastOf
<1>3. m \in Nat /\ m <= n /\ DigitsAfter((n + 1) - m) > k
  BY <1>2
<1>4. DigitsAfter(n + 1) = 0
  <2>1. Digits!DigitsFrom(n + 1) = {}
    BY DigitsFromIs
  <2> QED BY <2>1, FS_EmptySet DEF DigitsAfter
<1>5. m # 0
  <2> SUFFICES ASSUME m = 0 PROVE FALSE
    OBVIOUS
  <2>1. (n + 1) - m = n + 1
    OBVIOUS
  <2> QED BY <1>3, <1>4, <2>1
<1> DEFINE q == (n + 1) - m
<1>6. q \in 1 .. n /\ q + 1 = (n + 1) - (m - 1) /\ m - 1 \in Nat /\ m - 1 <= n /\ ~(m <= m - 1)
  BY <1>3, <1>5
<1>7. ~(DigitsAfter(q + 1) > k)
  BY <1>2, <1>6
<1>8. DigitsAfter(q) > k
  BY <1>3
<1> HIDE DEF q, n
<1>9. /\ DigitsAfter(q + 1) \in Nat
      /\ DigitsAfter(q) = IF str[q] = -1 THEN DigitsAfter(q + 1) ELSE DigitsAfter(q + 1) + 1
  BY <1>6, DigitsAfterStep DEF n
<1>10. str[q] # -1
  BY <1>7, <1>8, <1>9
<1>11. DigitsAfter(q + 1) = k
  BY <1>7, <1>8, <1>9, <1>10
<1> QED BY <1>6, <1>10, <1>11 DEF n

\* Digits of the base take bits of their own: or-ed, they are the number.
LEMMA OredNumber ==
  ASSUME Len(str) \in Nat, \A p \in 1 .. Len(str) : str[p] = -1 \/ str[p] \in Nat,
         DOMAIN str = 1 .. Len(str), Digits!OfBase,
         NEW i \in Nat, i < BaseBits * DigitsAfter(1)
  PROVE  Digits!BitOred(1, i) = Digits!BitOfNumber(i)
<1> DEFINE k == i \div BaseBits
           j == i % BaseBits
<1>1. /\ BaseBits \in Nat /\ BaseBits >= 1 /\ WorkBits \in Nat /\ WorkBits >= 1
      /\ DigitsAfter(1) \in Nat /\ Digits!DigitsFrom(1) = {p \in 1 .. Len(str) : str[p] # -1}
  BY StringConstants, DigitsFromIs
<1>2. k \in Int /\ k >= 0 /\ j \in Nat /\ j < BaseBits /\ i = BaseBits * k + j
  BY <1>1, Dividing
<1> HIDE DEF k, j
<1>3. k < DigitsAfter(1)
  <2> SUFFICES ASSUME DigitsAfter(1) <= k PROVE FALSE
    BY <1>1, <1>2
  <2>1. BaseBits * DigitsAfter(1) <= BaseBits * k
    BY <1>1, <1>2, TimesMonotone
  <2>2. BaseBits * DigitsAfter(1) \in Int /\ BaseBits * k \in Int
    BY <1>1, <1>2
  <2> QED BY <1>2, <2>1, <2>2
<1>4. PICK q \in 1 .. Len(str) : str[q] # -1 /\ DigitsAfter(q + 1) = k
  BY <1>2, <1>3, DigitThere
<1>5. Digits!BitOfNumber(i) = Digits!BitOfDigit(str[q], j)
  <2>1. j \in 0 .. (BaseBits - 1)
    BY <1>1, <1>2
  <2> QED BY <1>2, <1>4, <2>1, NumberBitIs
<1>6. (BaseBits * k) \div WorkBits = i \div WorkBits
  <2>1. PICK m \in Nat : m >= 1 /\ WorkBits = BaseBits * m
    BY StringConstants
  <2> DEFINE g == k \div m
             r == k % m
  <2>2. g \in Int /\ r \in Nat /\ r < m /\ k = m * g + r
    BY <1>2, <2>1, Dividing
  <2> HIDE DEF g, r
  <2>3. BaseBits * (r + 1) <= BaseBits * m
    BY <1>1, <2>1, <2>2, TimesMonotone
  <2>4. BaseBits * r \in Nat /\ BaseBits * r + j \in 0 .. (WorkBits - 1) /\ BaseBits * r \in 0 .. (WorkBits - 1)
    <3>1. BaseBits * (r + 1) = BaseBits * r + BaseBits /\ BaseBits * r \in Nat
      BY <1>1, <2>2
    <3> QED BY <1>1, <1>2, <2>1, <2>3, <3>1
  <2>5. BaseBits * k = WorkBits * g + BaseBits * r
    <3>1. BaseBits * (m * g + r) = (BaseBits * m) * g + BaseBits * r
      BY <1>1, <2>1, <2>2
    <3> QED BY <2>1, <2>2, <3>1
  <2>6. i = WorkBits * g + (BaseBits * r + j) /\ BaseBits * k \in Int
    <3>1. WorkBits * g \in Int /\ BaseBits * k \in Int
      BY <1>1, <1>2, <2>2
    <3> QED BY <1>2, <2>4, <2>5, <3>1
  <2> DEFINE x == BaseBits * k
             y == BaseBits * r
  <2>7. /\ x \in Int /\ i \in Int /\ g \in Int /\ WorkBits \in Nat /\ WorkBits > 0
        /\ x = WorkBits * g + y /\ y \in 0 .. (WorkBits - 1)
        /\ i = WorkBits * g + (y + j) /\ y + j \in 0 .. (WorkBits - 1)
    BY <1>1, <2>2, <2>4, <2>5, <2>6
  <2> HIDE DEF x, y
  <2>8. x \div WorkBits = g /\ i \div WorkBits = g
    BY <2>7, Divided
  <2> QED BY <2>8 DEF x
<1>7. BaseBits * k \in Nat /\ BaseBits * k <= i /\ i - BaseBits * k = j
  <2>1. BaseBits * k \in Nat
    BY <1>1, <1>2
  <2> QED BY <1>2, <2>1
<1>8. Sets(q, i) <=> Digits!BitOfDigit(str[q], j) = 1
  BY <1>4, <1>6, <1>7 DEF Sets
<1>9. ASSUME NEW p \in Digits!DigitsFrom(1), Sets(p, i) PROVE p = q
  <2> DEFINE c == DigitsAfter(p + 1)
  <2>1. p \in 1 .. Len(str) /\ str[p] # -1 /\ str[p] \in Nat /\ p + 1 \in Nat /\ p + 1 >= 1
    BY <1>1
  <2>2. c \in Nat
    BY <2>1, DigitsFromIs
  <2>3. BaseBits * c <= i /\ Digits!BitOfDigit(str[p], i - BaseBits * c) = 1
    BY <1>9 DEF Sets
  <2>4. c < k => FALSE
    <3> HIDE DEF c
    <3> SUFFICES ASSUME c + 1 <= k PROVE FALSE
      BY <1>2, <2>2
    <3>1. BaseBits * (c + 1) <= BaseBits * k
      BY <1>1, <1>2, <2>2, TimesMonotone
    <3>2. BaseBits * (c + 1) = BaseBits * c + BaseBits /\ BaseBits * c \in Nat
      BY <1>1, <2>2
    <3>3. i - BaseBits * c \in Nat /\ i - BaseBits * c >= BaseBits
      BY <1>1, <1>7, <3>1, <3>2
    <3>4. str[p] < 2 ^ BaseBits
      BY <2>1 DEF Digits!OfBase
    <3>5. Digits!BitOfDigit(str[p], i - BaseBits * c) = 0
      BY <2>1, <3>3, <3>4, BaseDigitIs
    <3> QED BY <2>3, <3>5
  <2>5. k < c => FALSE
    <3> HIDE DEF c
    <3> SUFFICES ASSUME k + 1 <= c PROVE FALSE
      BY <1>2, <2>2
    <3>1. BaseBits * (k + 1) <= BaseBits * c
      BY <1>1, <1>2, <2>2, TimesMonotone
    <3>2. BaseBits * (k + 1) = BaseBits * k + BaseBits /\ BaseBits * c \in Nat
      BY <1>1, <1>2, <2>2
    <3> QED BY <1>1, <1>2, <1>7, <2>3, <3>1, <3>2
  <2>6. c = k
    BY <1>2, <2>2, <2>4, <2>5
  <2>7. ~(p < q) /\ ~(q < p)
    BY <1>2, <1>4, <2>1, <2>6, DigitsDiffer
  <2> QED BY <2>1, <2>7
<1>10. Digits!BitOfDigit(str[q], j) \in {0, 1}
  BY <1>2, <1>4, BitOfDigitIs
<1>11. q \in Digits!DigitsFrom(1)
  BY <1>1, <1>4
<1> QED BY <1>5, <1>8, <1>9, <1>10, <1>11, OredIs

LEMMA OredNumberIs ==
  ASSUME FromInv, Digits!OfBase, NEW i \in Nat, i < BaseBits * DigitsAfter(1)
  PROVE  Digits!BitOred(1, i) = Digits!BitOfNumber(i)
<1>1. DOMAIN str = 1 .. Len(str)
  BY LenProperties DEF FromInv, Digits!FromTypeOK
<1> QED BY <1>1, OredNumber, FromFacts DEF FromInv

\* What is read of the characters depends on nothing else.
LEMMA CallStays ==
  ASSUME str' = str
  PROVE  /\ \A i : DigitsAfter(i)' = DigitsAfter(i) /\ Digits!BitOfNumber(i)' = Digits!BitOfNumber(i)
         /\ \A c, i : Digits!BitOred(c, i)' = Digits!BitOred(c, i)
         /\ \A i : Digits!DigitsFrom(i)' = Digits!DigitsFrom(i)
         /\ Digits!DigitBits' = Digits!DigitBits /\ Digits!OfBase' = Digits!OfBase
<1>1. \A i : Digits!DigitsFrom(i)' = Digits!DigitsFrom(i)
  BY DEF Digits!DigitsFrom
<1>2. ASSUME NEW i PROVE DigitsAfter(i)' = DigitsAfter(i)
  BY <1>1 DEF DigitsAfter
<1>3. ASSUME NEW i PROVE Digits!BitOfNumber(i)' = Digits!BitOfNumber(i)
  BY <1>1 DEF Digits!BitOfNumber, Digits!BitOfDigit, Digits!DigitsFrom
<1>4. Digits!DigitBits' = Digits!DigitBits
  BY <1>1 DEF Digits!DigitBits
<1>5. ASSUME NEW c, NEW i PROVE Digits!BitOred(c, i)' = Digits!BitOred(c, i)
  BY <1>1 DEF Digits!BitOred, Digits!BitOfDigit, Digits!DigitsFrom
<1>6. Digits!OfBase' = Digits!OfBase
  BY DEF Digits!OfBase
<1> QED BY <1>1, <1>2, <1>3, <1>4, <1>5, <1>6

LEMMA FromInit ==
  ASSUME Digits!FromInit
  PROVE  FromInv
<1>1. PICK n \in 0 .. MaxBits : range = [i \in 0 .. (n - 1) |-> -1]
  BY DEF Digits!FromInit, Digits!Old
<1>2. /\ n \in Nat /\ DOMAIN range = 0 .. (n - 1) /\ \A i \in 0 .. (n - 1) : range[i] = -1
  BY <1>1, StringConstants
<1>3. Digits!Length = n
  BY <1>2, BitsCount, DigitsCardinality DEF Digits!Length
<1>4. PICK k \in 0 .. MaxChars : str \in [1 .. k -> StringDigits \cup {Digits!Skip}]
  BY DEF Digits!FromInit
<1>5. k \in Nat /\ str \in Seq(StringDigits \cup {Digits!Skip}) /\ Len(str) = k
  <2>1. k \in Nat /\ DOMAIN str = 1 .. k /\ str = [p \in 1 .. k |-> str[p]]
        /\ \A p \in 1 .. k : str[p] \in StringDigits \cup {Digits!Skip}
    BY <1>4, StringConstants
  <2> QED BY <2>1, SequenceIs
<1>6. /\ is_signed \in BOOLEAN /\ cursor = k /\ bit_it = 0 /\ bits = 0
      /\ work = [i \in 0 .. (WorkBits - 1) |-> 0]
      /\ pc = IF str = <<>> \/ n = 0 THEN "done" ELSE "read"
  BY <1>3, <1>5 DEF Digits!FromInit, Digits!NoWork
<1>7. Digits!FromTypeOK
  <2>1. range \in [0 .. (n - 1) -> Digits!ZeroOne \cup {Digits!Old}]
    BY <1>1 DEF Digits!ZeroOne, Digits!Old
  <2>2. work \in Digits!Work
    BY <1>6 DEF Digits!Work, Digits!ZeroOne
  <2>3. bits \in 0 .. (WorkBits + BaseBits - 1)
    BY <1>6, StringConstants
  <2>4. bit_it \in 0 .. Digits!Length /\ cursor \in 0 .. Len(str) /\ pc \in {"read", "done"}
    BY <1>2, <1>3, <1>5, <1>6
  <2> QED BY <1>5, <1>6, <2>1, <2>2, <2>3, <2>4 DEF Digits!FromTypeOK
<1>8. Digits!FromStringCorrect
  BY <1>2, <1>6 DEF Digits!FromStringCorrect, Digits!Old
<1>9. Digits!ReadSoFar
  <2>1. Digits!Cardinality(Digits!DigitsFrom(cursor + 1)) = 0
    <3>1. Digits!DigitsFrom(cursor + 1) = {}
      BY <1>5, <1>6 DEF Digits!DigitsFrom
    <3> QED BY <3>1, DigitsCardinality, FS_EmptySet
  <2>2. BaseBits * 0 = 0
    BY StringConstants
  <2>3. 0 .. (bit_it + bits - 1) = {}
    BY <1>6
  <2> QED BY <1>2, <1>6, <2>1, <2>2, <2>3 DEF Digits!ReadSoFar, Digits!Old
<1>10. ASSUME pc = "read"
       PROVE  /\ str # <<>> /\ bit_it < Digits!Length
              /\ bits <= WorkBits /\ \E t \in Nat : bits = BaseBits * t
              /\ \E g \in Nat : bit_it = WorkBits * g
              /\ \A i \in 0 .. (WorkBits - 1) : work[i] = Digits!BitOred(cursor + 1, bit_it + i)
  <2>1. BaseBits * 0 = 0 /\ WorkBits * 0 = 0
    BY StringConstants
  <2>2. Digits!DigitsFrom(cursor + 1) = {}
    BY <1>5, <1>6 DEF Digits!DigitsFrom
  <2>3. \A i : Digits!BitOred(cursor + 1, i) = 0
    BY <2>2, OredIs
  <2> QED BY <1>2, <1>3, <1>6, <1>10, <2>1, <2>3, StringConstants
<1> QED BY <1>7, <1>8, <1>9, <1>10 DEF FromInv

\* The facts of a call that reads.
LEMMA FromReads ==
  ASSUME FromInv, pc = "read"
  PROVE  /\ Len(str) \in Nat /\ cursor \in Nat /\ cursor <= Len(str) /\ str # <<>>
         /\ bit_it \in Nat /\ bit_it < Digits!Length /\ Digits!Length \in Nat
         /\ bits \in Nat /\ bits <= WorkBits /\ WorkBits \in Nat
         /\ bit_it + bits = BaseBits * DigitsAfter(cursor + 1) /\ DigitsAfter(cursor + 1) \in Nat
         /\ \A i \in 0 .. (bit_it + bits - 1) :
              Digits!BitOred(1, i) = IF i < bit_it THEN range[i] ELSE work[i - bit_it]
         /\ \A i \in DOMAIN range : i >= bit_it => range[i] = -1
         /\ \A i \in 0 .. (WorkBits - 1) : work[i] = Digits!BitOred(cursor + 1, bit_it + i)
<1>1. Digits!FromTypeOK /\ Digits!ReadSoFar
  BY DEF FromInv
<1>2. bit_it + bits = BaseBits * DigitsAfter(cursor + 1)
  BY <1>1, DigitsCardinality DEF Digits!ReadSoFar, DigitsAfter
<1>3. DigitsAfter(cursor + 1) \in Nat
  <2>1. cursor + 1 \in Nat /\ cursor + 1 >= 1 /\ Len(str) \in Nat
    BY <1>1, FromFacts
  <2> QED BY <2>1, DigitsFromIs
<1> QED BY <1>1, <1>2, <1>3, FromFacts, StringConstants DEF FromInv, Digits!ReadSoFar, Digits!Old

LEMMA FromRead ==
  ASSUME FromInv, Digits!Read
  PROVE  FromInv'
<1> DEFINE c == DigitsAfter(cursor + 1)
<1>1. /\ pc = "read" /\ pc' = "read" /\ str' = str /\ is_signed' = is_signed /\ range' = range
      /\ bit_it' = bit_it /\ cursor' = cursor - 1 /\ bits < WorkBits /\ cursor > 0
      /\ IF str[cursor] = -1
           THEN work' = work /\ bits' = bits
           ELSE work' = Digits!Packed(work, str[cursor], bits) /\ bits' = bits + BaseBits
  BY DEF Digits!Read, Digits!FromCall, Digits!Skip
<1>2. /\ Len(str) \in Nat /\ cursor \in Nat /\ cursor <= Len(str) /\ str # <<>>
      /\ bit_it \in Nat /\ bit_it < Digits!Length /\ Digits!Length \in Nat
      /\ bits \in Nat /\ bits <= WorkBits /\ WorkBits \in Nat
      /\ bit_it + bits = BaseBits * c /\ c \in Nat
      /\ \A i \in 0 .. (bit_it + bits - 1) :
           Digits!BitOred(1, i) = IF i < bit_it THEN range[i] ELSE work[i - bit_it]
      /\ \A i \in DOMAIN range : i >= bit_it => range[i] = -1
      /\ \A i \in 0 .. (WorkBits - 1) : work[i] = Digits!BitOred(cursor + 1, bit_it + i)
  BY <1>1, FromReads
<1>3. /\ \A b, i : Digits!BitOred(b, i)' = Digits!BitOred(b, i)
      /\ \A i : Digits!BitOfNumber(i)' = Digits!BitOfNumber(i)
      /\ Digits!OfBase' = Digits!OfBase
      /\ \A i : Digits!DigitsFrom(i)' = Digits!DigitsFrom(i)
  BY <1>1, CallStays
<1>4. Digits!Length' = Digits!Length
  BY <1>1 DEF Digits!Length
<1>5. cursor \in 1 .. Len(str) /\ DigitsAfter(cursor) = IF str[cursor] = -1 THEN c ELSE c + 1
  <2>1. cursor \in 1 .. Len(str)
    BY <1>1, <1>2
  <2> QED BY <1>2, <2>1, DigitsAfterStep
<1> HIDE DEF c
<1>6. BaseBits \in Nat /\ BaseBits >= 1
  BY StringConstants
<1>7. work \in [0 .. (WorkBits - 1) -> {0, 1}] /\ DOMAIN work = 0 .. (WorkBits - 1)
  BY FromFacts DEF FromInv
\* a digit fits
<1>8. ASSUME str[cursor] # -1
      PROVE  /\ bits + BaseBits <= WorkBits
             /\ \E t \in Nat : bits + BaseBits = BaseBits * t
  <2>1. PICK t \in Nat : bits = BaseBits * t
    BY <1>1 DEF FromInv
  <2>2. PICK k \in Nat : WorkBits = BaseBits * k
    BY StringConstants
  <2>3. ~(t >= k)
    <3> SUFFICES ASSUME t >= k PROVE FALSE
      OBVIOUS
    <3>1. BaseBits * t >= BaseBits * k
      BY <1>6, <2>1, <2>2, TimesMonotone
    <3> QED BY <1>1, <1>2, <2>1, <2>2, <3>1
  <2>4. t + 1 <= k /\ t + 1 \in Nat
    BY <2>1, <2>2, <2>3
  <2>5. BaseBits * (t + 1) <= BaseBits * k
    BY <1>6, <2>2, <2>4, TimesMonotone
  <2>6. BaseBits * (t + 1) = bits + BaseBits
    BY <1>6, <2>1
  <2> QED BY <2>2, <2>4, <2>5, <2>6
<1>9. work' \in [0 .. (WorkBits - 1) -> {0, 1}]
  <2>1. CASE str[cursor] = -1
    BY <1>1, <1>7, <2>1
  <2>2. CASE str[cursor] # -1
    <3>1. work' = [i \in 0 .. (WorkBits - 1) |->
                     IF bits <= i /\ work[i] = 0
                       THEN Digits!BitOfDigit(str[cursor], i - bits) ELSE work[i]]
      BY <1>1, <1>7, <2>2 DEF Digits!Packed
    <3>2. str[cursor] \in Nat
      BY <1>5, <2>2, FromFacts DEF FromInv
    <3>3. ASSUME NEW i \in 0 .. (WorkBits - 1) PROVE work'[i] \in {0, 1}
      <4>1. bits <= i => i - bits \in Nat
        BY <1>2
      <4> QED BY <1>7, <3>1, <3>2, <4>1, BitOfDigitIs
    <3>4. DOMAIN work' = 0 .. (WorkBits - 1) /\ work' = [i \in 0 .. (WorkBits - 1) |-> work'[i]]
      BY <3>1
    <3> QED BY <3>3, <3>4
  <2> QED BY <2>1, <2>2
<1>10. bit_it + bits' = BaseBits * DigitsAfter(cursor)
  <2>1. BaseBits * (c + 1) = BaseBits * c + BaseBits /\ BaseBits * c = bit_it + bits
        /\ bit_it \in Nat /\ bits \in Nat
    BY <1>2, <1>6
  <2> QED BY <1>1, <1>5, <1>6, <2>1
\* the digit is or-ed into the integer
<1>11. ASSUME NEW i \in 0 .. (WorkBits - 1)
       PROVE  work'[i] = Digits!BitOred(cursor, bit_it + i)
  <2>1. /\ Digits!DigitsFrom(cursor) = {p \in cursor .. Len(str) : str[p] # -1}
        /\ Digits!DigitsFrom(cursor + 1) = {p \in (cursor + 1) .. Len(str) : str[p] # -1}
    BY <1>1, <1>2, DigitsFromIs
  <2>2. CASE str[cursor] = -1
    <3>1. Digits!DigitsFrom(cursor) = Digits!DigitsFrom(cursor + 1)
      BY <1>2, <1>5, <2>1, <2>2
    <3> QED BY <1>1, <1>2, <2>2, <3>1, OredIs
  <2>3. CASE str[cursor] # -1
    <3>1. Digits!DigitsFrom(cursor) = Digits!DigitsFrom(cursor + 1) \cup {cursor}
      BY <1>2, <1>5, <2>1, <2>3
    <3>2. PICK g \in Nat : bit_it = WorkBits * g
      BY <1>1 DEF FromInv
    <3>3. (bit_it + bits) \div WorkBits = g /\ (bit_it + i) \div WorkBits = g
      <4>1. bit_it + bits \in Int /\ bit_it + i \in Int /\ WorkBits > 0 /\ bits \in 0 .. (WorkBits - 1)
        BY <1>1, <1>2
      <4> QED BY <1>2, <3>2, <4>1, Divided
    <3>4. Sets(cursor, bit_it + i)
            <=> bits <= i /\ Digits!BitOfDigit(str[cursor], i - bits) = 1
      <4>1. /\ bit_it + bits <= bit_it + i <=> bits <= i
            /\ (bit_it + i) - (bit_it + bits) = i - bits
        BY <1>2
      <4> QED BY <1>2, <3>3, <4>1 DEF Sets, c
    <3>5. work'[i] = IF bits <= i /\ work[i] = 0
                       THEN Digits!BitOfDigit(str[cursor], i - bits) ELSE work[i]
      BY <1>1, <1>7, <2>3 DEF Digits!Packed
    <3>6. work[i] = IF \E p \in Digits!DigitsFrom(cursor + 1) : Sets(p, bit_it + i) THEN 1 ELSE 0
      BY <1>2, OredIs
    <3>7. Digits!BitOred(cursor, bit_it + i) =
            IF (\E p \in Digits!DigitsFrom(cursor + 1) : Sets(p, bit_it + i)) \/ Sets(cursor, bit_it + i)
            THEN 1 ELSE 0
      BY <3>1, OredIs
    <3>8. work'[i] \in {0, 1}
      BY <1>9
    <3> QED BY <3>4, <3>5, <3>6, <3>7, <3>8
  <2> QED BY <2>2, <2>3
<1>12. Digits!ReadSoFar'
  <2>1. cursor' + 1 = cursor
    BY <1>1, <1>2
  <2> DEFINE top == bit_it + bits' - 1
  <2>0. bits' \in Nat /\ bits' <= WorkBits /\ bit_it \in Nat /\ WorkBits \in Nat
    BY <1>1, <1>2, <1>6, <1>8
  <2>1a. \A b, n, w \in Nat : n <= w => b + n - 1 \in Int /\ b + n - 1 < b + w /\ (b + n - 1) + 1 = b + n
    OBVIOUS
  <2>2. top \in Int /\ top < bit_it + WorkBits /\ top + 1 = bit_it + bits'
    BY <2>0, <2>1a
  <2> HIDE DEF top
  <2>3. (bit_it + bits = BaseBits * Digits!Cardinality(Digits!DigitsFrom(cursor + 1)))'
    <3>1. Digits!DigitsFrom(cursor + 1)' = Digits!DigitsFrom(cursor)
      BY <1>1, <2>1 DEF Digits!DigitsFrom
    <3> QED BY <1>1, <1>10, <3>1, DigitsCardinality DEF DigitsAfter
  <2>4. ASSUME NEW i \in 0 .. top
        PROVE  Digits!BitOred(1, i) = IF i < bit_it THEN range[i] ELSE work'[i - bit_it]
    <3>1. CASE i < bit_it
      <4>1. i \in 0 .. (bit_it + bits - 1)
        BY <1>2, <2>0, <2>2, <2>4, <3>1
      <4> QED BY <1>2, <3>1, <4>1
    <3>2. CASE ~(i < bit_it)
      <4>1. i - bit_it \in 0 .. (WorkBits - 1) /\ bit_it + (i - bit_it) = i
        BY <2>0, <2>2, <2>4, <3>2
      <4>2. i \in Int /\ i < BaseBits * DigitsAfter(cursor)
        <5>1. i \in Int /\ i < top + 1
          BY <2>2, <2>4
        <5> QED BY <1>10, <2>2, <5>1
      <4>3. Digits!BitOred(1, i) = Digits!BitOred(cursor, i)
        BY <1>1, <1>2, <4>2, OredLast
      <4> QED BY <1>11, <3>2, <4>1, <4>3
    <3> QED BY <3>1, <3>2
  <2>5. ASSUME NEW i \in 0 .. top, Digits!OfBase
        PROVE  Digits!BitOred(1, i) = Digits!BitOfNumber(i)
    <3>1. top + 1 <= BaseBits * DigitsAfter(1)
      <4>1. DigitsAfter(cursor) \in Nat /\ DigitsAfter(1) \in Nat /\ DigitsAfter(cursor) <= DigitsAfter(1)
        BY <1>1, <1>2, DigitsFromIs, DigitsAfterFalls
      <4> QED BY <1>6, <1>10, <2>2, <4>1, TimesMonotone
    <3>2. BaseBits * DigitsAfter(1) \in Int
      BY <1>2, <1>6, DigitsFromIs
    <3>3. i \in Nat /\ i < BaseBits * DigitsAfter(1)
      BY <2>2, <2>5, <3>1, <3>2
    <3> QED BY <1>2, <2>5, <3>3, OredNumberIs
  <2>6. (\A i \in 0 .. (bit_it + bits - 1) :
           LET read == IF i < bit_it THEN range[i] ELSE work[i - bit_it]
           IN  read = Digits!BitOred(1, i) /\ (Digits!OfBase => read = Digits!BitOfNumber(i)))'
    BY <1>1, <1>3, <2>0, <2>4, <2>5 DEF top
  <2>7. (\A i \in DOMAIN range : i >= bit_it => range[i] = Digits!Old)'
    BY <1>1, <1>2 DEF Digits!Old
  <2> QED BY <2>3, <2>6, <2>7 DEF Digits!ReadSoFar
<1>13. /\ bits' \in Nat /\ bits' <= WorkBits /\ \E t \in Nat : bits' = BaseBits * t
       /\ \E g \in Nat : bit_it' = WorkBits * g
       /\ (\A i \in 0 .. (WorkBits - 1) : work[i] = Digits!BitOred(cursor + 1, bit_it + i))'
  <2>1. bits' \in Nat /\ bits' <= WorkBits /\ \E t \in Nat : bits' = BaseBits * t
    <3>1. bits \in Nat /\ bits <= WorkBits /\ \E t \in Nat : bits = BaseBits * t
      BY <1>1, <1>2 DEF FromInv
    <3>2. CASE str[cursor] = -1
      BY <1>1, <3>1, <3>2
    <3>3. CASE str[cursor] # -1
      BY <1>1, <1>6, <1>8, <3>1, <3>3
    <3> QED BY <3>2, <3>3
  <2>2. \E g \in Nat : bit_it' = WorkBits * g
    BY <1>1 DEF FromInv
  <2>3. cursor' + 1 = cursor
    BY <1>1, <1>2
  <2> QED BY <1>1, <1>3, <1>11, <2>1, <2>2, <2>3
<1>14. Digits!FromTypeOK'
  <2>1. cursor' \in 0 .. Len(str)
    BY <1>1, <1>2
  <2>2. bits' \in 0 .. (WorkBits + BaseBits - 1)
    BY <1>2, <1>6, <1>13
  <2> QED BY <1>1, <1>4, <1>9, <1>13, <2>1, <2>2 DEF FromInv, Digits!FromTypeOK, Digits!Work, Digits!ZeroOne
<1>15. Digits!FromStringCorrect'
  BY <1>1 DEF Digits!FromStringCorrect
<1> QED BY <1>1, <1>2, <1>4, <1>12, <1>13, <1>14, <1>15 DEF FromInv

\* What writing len bits of the integer makes of the range.
LEMMA CopiedIs ==
  ASSUME FromInv, pc = "read", NEW len \in 0 .. bits, bit_it + len <= Digits!Length,
         NEW past \in Digits!ZeroOne, NEW new, new = Digits!Copied(len, past)
  PROVE  /\ new \in [0 .. (Digits!Length - 1) -> {0, 1, -1}]
         /\ \A i \in 0 .. (bit_it + len - 1) : new[i] = Digits!BitOred(1, i)
         /\ \A i \in (bit_it + len) .. (Digits!Length - 1) : new[i] = -1
<1> DEFINE L == Digits!Length
<1>1. /\ bit_it \in Nat /\ L \in Nat /\ bits \in Nat /\ bits <= WorkBits /\ WorkBits \in Nat
      /\ \A i \in 0 .. (bit_it + bits - 1) :
           Digits!BitOred(1, i) = IF i < bit_it THEN range[i] ELSE work[i - bit_it]
      /\ \A i \in DOMAIN range : i >= bit_it => range[i] = -1
  BY FromReads
<1>2. /\ range \in [0 .. (L - 1) -> {0, 1, -1}] /\ DOMAIN range = 0 .. (L - 1)
      /\ work \in [0 .. (WorkBits - 1) -> {0, 1}]
  BY FromFacts DEF FromInv
<1>3. new = [i \in 0 .. (L - 1) |->
               IF i \notin bit_it .. (bit_it + len - 1) THEN range[i]
               ELSE IF i - bit_it < WorkBits THEN work[i - bit_it] ELSE past]
  BY <1>2 DEF Digits!Copied
<1>4. ASSUME NEW i \in 0 .. (bit_it + len - 1) PROVE new[i] = Digits!BitOred(1, i)
  <2>1. i \in 0 .. (L - 1) /\ i \in 0 .. (bit_it + bits - 1)
        /\ (i \notin bit_it .. (bit_it + len - 1) <=> i < bit_it)
        /\ (~(i < bit_it) => i - bit_it < WorkBits)
    BY <1>1
  <2> QED BY <1>1, <1>3, <2>1
<1>5. ASSUME NEW i \in (bit_it + len) .. (L - 1) PROVE new[i] = -1
  <2>1. i \in 0 .. (L - 1) /\ i \notin bit_it .. (bit_it + len - 1) /\ i >= bit_it
    BY <1>1
  <2> QED BY <1>1, <1>2, <1>3, <2>1
<1>6. ASSUME NEW i \in 0 .. (L - 1) PROVE new[i] \in {0, 1, -1}
  <2>1. CASE i \in 0 .. (bit_it + len - 1)
    <3>1. i \in 0 .. (bit_it + bits - 1)
      BY <1>1, <2>1
    <3>2. CASE i < bit_it
      BY <1>1, <1>2, <1>4, <2>1, <3>1, <3>2
    <3>3. CASE ~(i < bit_it)
      <4>1. i - bit_it \in 0 .. (WorkBits - 1)
        BY <1>1, <2>1, <3>1, <3>3
      <4>2. new[i] = work[i - bit_it]
        BY <1>1, <1>4, <2>1, <3>1, <3>3
      <4> QED BY <1>2, <4>1, <4>2
    <3> QED BY <3>2, <3>3
  <2>2. CASE i \in (bit_it + len) .. (L - 1)
    BY <1>5, <2>2
  <2> QED BY <1>1, <2>1, <2>2
<1>7. DOMAIN new = 0 .. (L - 1) /\ new = [i \in 0 .. (L - 1) |-> new[i]]
  BY <1>3
<1> HIDE DEF L
<1> QED BY <1>4, <1>5, <1>6, <1>7 DEF L

\* The characters' bits.
LEMMA DigitBitsAre ==
  ASSUME FromInv, pc = "read"
  PROVE  /\ Digits!DigitBits \in Nat /\ bit_it + bits <= Digits!DigitBits
         /\ cursor = 0 => Digits!DigitBits = bit_it + bits
<1>1. /\ Len(str) \in Nat /\ cursor \in Nat /\ bit_it + bits = BaseBits * DigitsAfter(cursor + 1)
      /\ DigitsAfter(cursor + 1) \in Nat
  BY FromReads
<1>2. BaseBits \in Nat
  BY StringConstants
<1>3. Digits!DigitBits = BaseBits * DigitsAfter(1) /\ DigitsAfter(1) \in Nat
  <2>1. DigitsAfter(1) \in Nat
    BY <1>1, DigitsFromIs
  <2> QED BY <2>1, DigitsCardinality DEF Digits!DigitBits, DigitsAfter
<1>4. DigitsAfter(cursor + 1) <= DigitsAfter(1)
  BY <1>1, DigitsAfterFalls
<1>5. BaseBits * DigitsAfter(cursor + 1) <= BaseBits * DigitsAfter(1)
  BY <1>1, <1>2, <1>3, <1>4, TimesMonotone
<1>6. BaseBits * DigitsAfter(1) \in Nat
  BY <1>2, <1>3
<1>7. cursor = 0 => cursor + 1 = 1
  OBVIOUS
<1> QED BY <1>1, <1>3, <1>5, <1>6, <1>7

LEMMA FromEnds ==
  ASSUME FromInv, pc = "read", pc' = "done", str' = str, is_signed' = is_signed, cursor' = cursor,
         bit_it' \in 0 .. Digits!Length, work' \in Digits!Work,
         bits' \in 0 .. (WorkBits + BaseBits - 1),
         range' \in [0 .. (Digits!Length - 1) -> {0, 1, -1}],
         \A i \in 0 .. (Digits!Length - 1) :
           IF i < Digits!DigitBits THEN range'[i] = Digits!BitOred(1, i)
           ELSE IF ~is_signed THEN range'[i] = 0
           ELSE Digits!DigitBits > 0 => range'[i] = Digits!BitOred(1, Digits!DigitBits - 1)
  PROVE  FromInv'
<1> DEFINE L == Digits!Length
<1>1. L \in 0 .. MaxBits /\ L \in Nat /\ Len(str) \in Nat /\ cursor \in Nat /\ cursor <= Len(str)
  BY FromFacts DEF FromInv
<1>2. DOMAIN range' = 0 .. (L - 1)
  OBVIOUS
<1>3. Digits!Length' = L
  BY <1>1, <1>2, BitsCount, DigitsCardinality DEF Digits!Length
<1>4. Digits!FromTypeOK'
  <2>1. range' \in [0 .. (L - 1) -> Digits!ZeroOne \cup {Digits!Old}]
    <3>1. {0, 1, -1} = Digits!ZeroOne \cup {Digits!Old}
      BY DEF Digits!ZeroOne, Digits!Old
    <3> QED BY <3>1
  <2>2. cursor \in 0 .. Len(str)
    BY <1>1
  <2> QED BY <1>1, <1>3, <2>1, <2>2 DEF FromInv, Digits!FromTypeOK, Digits!Work, Digits!ZeroOne, Digits!Digit
<1>5. str # <<>>
  BY DEF FromInv
<1>6. /\ \A i : Digits!BitOfNumber(i)' = Digits!BitOfNumber(i)
      /\ \A c, i : Digits!BitOred(c, i)' = Digits!BitOred(c, i)
      /\ Digits!DigitBits' = Digits!DigitBits /\ Digits!OfBase' = Digits!OfBase
  BY CallStays
<1>7. Digits!FromStringCorrect'
  <2>2. ASSUME NEW i \in 0 .. (L - 1), i < Digits!DigitBits, Digits!OfBase
        PROVE  Digits!BitOred(1, i) = Digits!BitOfNumber(i)
    BY <1>1, <2>2, OredNumberIs, DigitsCardinality DEF Digits!DigitBits, DigitsAfter
  <2>1. (\A i \in DOMAIN range :
           IF i < Digits!DigitBits
           THEN range[i] = Digits!BitOred(1, i) /\ (Digits!OfBase => range[i] = Digits!BitOfNumber(i))
           ELSE IF ~is_signed THEN range[i] = 0
           ELSE Digits!DigitBits > 0 => range[i] = Digits!BitOred(1, Digits!DigitBits - 1))'
    BY <1>2, <1>6, <2>2
  <2> QED BY <1>5, <2>1 DEF Digits!FromStringCorrect
<1>8. Digits!ReadSoFar'
  BY DEF Digits!ReadSoFar
<1> QED BY <1>4, <1>7, <1>8 DEF FromInv

LEMMA FromWriteTruncated ==
  ASSUME FromInv, Digits!WriteTruncated
  PROVE  FromInv'
<1> DEFINE L == Digits!Length
<1>1. /\ pc = "read" /\ pc' = "done" /\ str' = str /\ is_signed' = is_signed /\ cursor' = cursor
      /\ work' = work /\ bits' = bits /\ bit_it' = bit_it
      /\ L - bit_it < bits
  BY DEF Digits!WriteTruncated, Digits!IsRead, Digits!FromCall, Digits!store_bits
<1>2. PICK past \in Digits!ZeroOne : range' = Digits!Copied(L - bit_it, past)
  BY DEF Digits!WriteTruncated, Digits!store_bits
<1>3. bit_it \in Nat /\ bit_it < L /\ L \in Nat /\ bits \in Nat
  BY <1>1, FromReads
<1>4. L - bit_it \in 0 .. bits /\ bit_it + (L - bit_it) = L /\ bit_it + (L - bit_it) <= L
  BY <1>1, <1>3
<1> HIDE DEF L
<1>5. /\ range' \in [0 .. (L - 1) -> {0, 1, -1}]
      /\ \A i \in 0 .. (bit_it + (L - bit_it) - 1) : range'[i] = Digits!BitOred(1, i)
  BY <1>1, <1>2, <1>4, CopiedIs DEF L
<1>6. /\ Digits!DigitBits \in Nat /\ L < Digits!DigitBits
  <2>1. Digits!DigitBits \in Nat /\ bit_it + bits <= Digits!DigitBits
    BY <1>1, DigitBitsAre
  <2> QED BY <1>1, <1>3, <2>1
<1>7. bit_it \in 0 .. L /\ work \in Digits!Work /\ bits \in 0 .. (WorkBits + BaseBits - 1)
  BY DEF FromInv, Digits!FromTypeOK, L
<1>8. \A i \in 0 .. (L - 1) : i < Digits!DigitBits /\ range'[i] = Digits!BitOred(1, i)
  BY <1>3, <1>4, <1>5, <1>6
<1> QED BY <1>1, <1>5, <1>7, <1>8, FromEnds DEF L

LEMMA FromWriteLast ==
  ASSUME FromInv, Digits!WriteLast
  PROVE  FromInv'
<1> DEFINE L == Digits!Length
           n == bit_it + bits
<1>1. /\ pc = "read" /\ pc' = "done" /\ str' = str /\ is_signed' = is_signed /\ cursor' = cursor
      /\ work' = work /\ bits' = bits /\ bit_it' = n /\ cursor = 0
      /\ L - bit_it > bits
  BY DEF Digits!WriteLast, Digits!IsRead, Digits!FromCall, Digits!store_bits
<1>2. PICK past \in Digits!ZeroOne, before \in Digits!ZeroOne :
        range' = [i \in DOMAIN range |->
                    IF i < n THEN Digits!Copied(bits, past)[i]
                    ELSE IF ~is_signed THEN 0
                    ELSE IF n = 0 THEN before ELSE Digits!Copied(bits, past)[n - 1]]
  BY <1>1 DEF Digits!WriteLast
<1>3. /\ bit_it \in Nat /\ bit_it < L /\ L \in Nat /\ bits \in Nat /\ n \in Nat /\ n < L
  BY <1>1, FromReads
<1>4. bits \in 0 .. bits /\ bit_it + bits <= L
  BY <1>3
<1> HIDE DEF L
<1> DEFINE copied == Digits!Copied(bits, past)
<1>5. /\ copied \in [0 .. (L - 1) -> {0, 1, -1}]
      /\ \A i \in 0 .. (n - 1) : copied[i] = Digits!BitOred(1, i)
  <2> DEFINE k == bits
  <2>1. past \in Digits!ZeroOne /\ copied = Digits!Copied(k, past)
    BY <1>2
  <2>2. pc = "read" /\ k \in 0 .. bits /\ bit_it + k <= Digits!Length
    BY <1>1, <1>4 DEF L
  <2> HIDE DEF copied, k
  <2>3. /\ copied \in [0 .. (Digits!Length - 1) -> {0, 1, -1}]
        /\ \A i \in 0 .. (bit_it + k - 1) : copied[i] = Digits!BitOred(1, i)
    BY <2>1, <2>2, CopiedIs
  <2>4. L = Digits!Length /\ n = bit_it + k /\ n \in Nat /\ bit_it \in Nat /\ k \in Nat /\ L \in Nat
    BY <1>3 DEF L, k
  <2> HIDE DEF n
  <2> QED BY <2>3, <2>4
<1>6. Digits!DigitBits = n
  BY <1>1, DigitBitsAre
<1> HIDE DEF copied, n
<1>7. range' = [i \in 0 .. (L - 1) |->
                    IF i < n THEN copied[i]
                    ELSE IF ~is_signed THEN 0
                    ELSE IF n = 0 THEN before ELSE copied[n - 1]]
  <2>1. DOMAIN range = 0 .. (L - 1)
    BY FromFacts DEF FromInv, L
  <2> QED BY <1>2, <2>1 DEF copied
<1>8. n # 0 => n - 1 \in 0 .. (L - 1) /\ n - 1 \in 0 .. (n - 1)
  BY <1>3
<1>9. before \in {0, 1}
  BY <1>2 DEF Digits!ZeroOne
<1>10. range' \in [0 .. (L - 1) -> {0, 1, -1}]
  <2>1. \A i \in 0 .. (L - 1) : copied[i] \in {0, 1, -1}
    BY <1>5
  <2>2. \A i \in 0 .. (L - 1) : range'[i] \in {0, 1, -1}
    BY <1>7, <1>8, <1>9, <2>1
  <2>3. DOMAIN range' = 0 .. (L - 1) /\ range' = [i \in 0 .. (L - 1) |-> range'[i]]
    BY <1>7
  <2> QED BY <2>2, <2>3
<1>11. ASSUME NEW i \in 0 .. (L - 1)
       PROVE  IF i < n THEN range'[i] = Digits!BitOred(1, i)
              ELSE IF ~is_signed THEN range'[i] = 0
              ELSE n > 0 => range'[i] = Digits!BitOred(1, n - 1)
  <2>1. CASE i < n
    <3>1. i \in 0 .. (n - 1)
      BY <1>3, <2>1
    <3> QED BY <1>5, <1>7, <2>1, <3>1
  <2>2. CASE ~(i < n) /\ ~is_signed
    BY <1>7, <2>2
  <2>3. CASE ~(i < n) /\ is_signed
    <3> SUFFICES ASSUME n > 0 PROVE range'[i] = Digits!BitOred(1, n - 1)
      BY <2>3
    <3>1. n # 0
      BY <1>3
    <3>2. range'[i] = copied[n - 1]
      BY <1>7, <2>3, <3>1
    <3> QED BY <1>5, <1>8, <3>1, <3>2
  <2> QED BY <2>1, <2>2, <2>3
<1>12. n \in 0 .. L /\ work \in Digits!Work /\ bits \in 0 .. (WorkBits + BaseBits - 1)
  <2>1. work \in Digits!Work /\ bits \in 0 .. (WorkBits + BaseBits - 1)
    BY DEF FromInv, Digits!FromTypeOK
  <2> QED BY <1>3, <2>1
<1> QED BY <1>1, <1>6, <1>10, <1>11, <1>12, FromEnds DEF L

LEMMA FromWriteFull ==
  ASSUME FromInv, Digits!WriteFull
  PROVE  FromInv'
<1> DEFINE L == Digits!Length
           n == bit_it + bits
<1>1. /\ pc = "read" /\ str' = str /\ is_signed' = is_signed /\ cursor' = cursor
      /\ work' = [i \in 0 .. (WorkBits - 1) |-> 0] /\ bits' = 0 /\ bit_it' = n
      /\ L - bit_it >= bits /\ ~(L - bit_it > bits /\ cursor = 0)
      /\ pc' = IF cursor > 0 /\ L - bit_it > bits THEN "read" ELSE "done"
  BY DEF Digits!WriteFull, Digits!IsRead, Digits!FromCall, Digits!store_bits, Digits!NoWork
<1>2. PICK past \in Digits!ZeroOne : range' = Digits!Copied(bits, past)
  BY DEF Digits!WriteFull
<1>3. /\ bit_it \in Nat /\ bit_it < L /\ L \in Nat /\ bits \in Nat /\ n \in Nat /\ n <= L
      /\ cursor \in Nat /\ cursor <= Len(str) /\ Len(str) \in Nat /\ str # <<>>
      /\ n = BaseBits * DigitsAfter(cursor + 1)
  BY <1>1, FromReads
<1>4. bits \in 0 .. bits /\ bit_it + bits <= L
  BY <1>3
<1> HIDE DEF L
<1>5. /\ range' \in [0 .. (L - 1) -> {0, 1, -1}]
      /\ \A i \in 0 .. (n - 1) : range'[i] = Digits!BitOred(1, i)
      /\ \A i \in n .. (L - 1) : range'[i] = -1
  <2> DEFINE k == bits
  <2>1. past \in Digits!ZeroOne /\ range' = Digits!Copied(k, past)
    BY <1>2
  <2>2. pc = "read" /\ k \in 0 .. bits /\ bit_it + k <= Digits!Length
    BY <1>1, <1>4 DEF L
  <2> HIDE DEF k
  <2>3. /\ range' \in [0 .. (Digits!Length - 1) -> {0, 1, -1}]
        /\ \A i \in 0 .. (bit_it + k - 1) : range'[i] = Digits!BitOred(1, i)
        /\ \A i \in (bit_it + k) .. (Digits!Length - 1) : range'[i] = -1
    BY <2>1, <2>2, CopiedIs
  <2>4. L = Digits!Length /\ n = bit_it + k /\ n \in Nat /\ bit_it \in Nat /\ k \in Nat /\ L \in Nat
    BY <1>3 DEF L, k
  <2> HIDE DEF n
  <2> QED BY <2>3, <2>4
<1> HIDE DEF n
<1>6. n <= Digits!DigitBits /\ Digits!DigitBits \in Nat
  BY <1>1, DigitBitsAre DEF n
<1>7. work' \in Digits!Work /\ bits' \in 0 .. (WorkBits + BaseBits - 1) /\ n \in 0 .. L
  <2>1. work' \in Digits!Work
    BY <1>1 DEF Digits!Work, Digits!ZeroOne
  <2> QED BY <1>1, <1>3, <2>1, StringConstants
<1>8. CASE pc' = "done"
  <2>1. n = L
    BY <1>1, <1>3, <1>8 DEF n
  <2>2. \A i \in 0 .. (L - 1) : i < Digits!DigitBits /\ range'[i] = Digits!BitOred(1, i)
    BY <1>3, <1>5, <1>6, <2>1
  <2> QED BY <1>1, <1>5, <1>7, <1>8, <2>2, FromEnds DEF L
<1>9. CASE pc' = "read"
  <2>1. n < L
    BY <1>1, <1>3, <1>9 DEF n
  <2>2. DOMAIN range' = 0 .. (L - 1)
    BY <1>5
  <2>3. Digits!Length' = L
    BY <1>3, <2>2, BitsCount, DigitsCardinality DEF Digits!Length
  <2>4. Digits!FromTypeOK'
    <3>1. range' \in [0 .. (L - 1) -> Digits!ZeroOne \cup {Digits!Old}]
      <4>1. {0, 1, -1} = Digits!ZeroOne \cup {Digits!Old}
        BY DEF Digits!ZeroOne, Digits!Old
      <4> QED BY <1>5, <4>1
    <3>2. cursor \in 0 .. Len(str) /\ L \in 0 .. MaxBits
      BY <1>3, FromFacts DEF FromInv, L
    <3> QED BY <1>1, <1>7, <1>9, <2>3, <3>1, <3>2
            DEF FromInv, Digits!FromTypeOK, Digits!Work, Digits!ZeroOne, Digits!Digit
  <2>5. /\ \A i : DigitsAfter(i)' = DigitsAfter(i) /\ Digits!BitOfNumber(i)' = Digits!BitOfNumber(i)
        /\ \A c, i : Digits!BitOred(c, i)' = Digits!BitOred(c, i)
        /\ Digits!OfBase' = Digits!OfBase
        /\ \A i : Digits!DigitsFrom(i)' = Digits!DigitsFrom(i)
    BY <1>1, CallStays
  <2>6. Digits!ReadSoFar'
    <3>1. bit_it' + bits' = n
      BY <1>1, <1>3
    <3>2. (bit_it + bits = BaseBits * Digits!Cardinality(Digits!DigitsFrom(cursor + 1)))'
      <4>1. Digits!DigitsFrom(cursor + 1)' = Digits!DigitsFrom(cursor + 1)
        BY <1>1 DEF Digits!DigitsFrom
      <4> QED BY <1>3, <3>1, <4>1, DigitsCardinality DEF DigitsAfter
    <3>3. (\A i \in 0 .. (bit_it + bits - 1) :
             LET read == IF i < bit_it THEN range[i] ELSE work[i - bit_it]
             IN  read = Digits!BitOred(1, i) /\ (Digits!OfBase => read = Digits!BitOfNumber(i)))'
      <4>1. ASSUME NEW i \in 0 .. (n - 1), Digits!OfBase
            PROVE  Digits!BitOred(1, i) = Digits!BitOfNumber(i)
        <5>1. i \in Nat /\ i < Digits!DigitBits
          BY <1>3, <1>6
        <5> QED BY <4>1, <5>1, OredNumberIs, DigitsCardinality DEF Digits!DigitBits, DigitsAfter
      <4> QED BY <1>1, <1>3, <1>5, <2>5, <3>1, <4>1
    <3>4. (\A i \in DOMAIN range : i >= bit_it => range[i] = Digits!Old)'
      BY <1>1, <1>3, <1>5, <2>2 DEF Digits!Old
    <3> QED BY <3>2, <3>3, <3>4 DEF Digits!ReadSoFar
  <2>7. Digits!FromStringCorrect'
    BY <1>9 DEF Digits!FromStringCorrect
  <2>8. /\ bits' <= WorkBits /\ \E t \in Nat : bits' = BaseBits * t
        /\ \E g \in Nat : bit_it' = WorkBits * g
        /\ (\A i \in 0 .. (WorkBits - 1) : work[i] = Digits!BitOred(cursor + 1, bit_it + i))'
    <3>1. BaseBits * 0 = 0
      BY StringConstants
    <3>2. bits = WorkBits
      <4>1. bits >= WorkBits \/ cursor = 0
        BY DEF Digits!WriteFull, Digits!IsRead
      <4>2. cursor # 0 /\ bits <= WorkBits /\ WorkBits \in Nat
        BY <1>1, <1>3, <1>9, FromReads
      <4> QED BY <1>3, <4>1, <4>2
    <3>3. PICK g \in Nat : bit_it = WorkBits * g
      BY <1>1 DEF FromInv
    <3>4. g + 1 \in Nat /\ n = WorkBits * (g + 1)
      BY <3>2, <3>3, StringConstants DEF n
    <3>5. ASSUME NEW i \in 0 .. (WorkBits - 1) PROVE Digits!BitOred(cursor + 1, n + i) = 0
      <4> DEFINE h == g + 1
                 e == cursor + 1
      <4>1. e \in Nat /\ e >= 1 /\ h \in Nat /\ n = WorkBits * h /\ Len(str) \in Nat
            /\ BaseBits * DigitsAfter(e) = WorkBits * h /\ i \in 0 .. (WorkBits - 1)
        BY <1>3, <3>4, <3>5
      <4> HIDE DEF h, e
      <4>2. Digits!BitOred(e, WorkBits * h + i) = 0
        BY <4>1, OredAbove
      <4>3. WorkBits * h + i = n + i
        BY <4>1
      <4> QED BY <4>2, <4>3 DEF e
    <3>6. bits' <= WorkBits /\ \E t \in Nat : bits' = BaseBits * t
      BY <1>1, <3>1, StringConstants
    <3>7. \E h \in Nat : bit_it' = WorkBits * h
      BY <1>1, <3>4
    <3>8. (\A i \in 0 .. (WorkBits - 1) : work[i] = Digits!BitOred(cursor + 1, bit_it + i))'
      BY <1>1, <2>5, <3>5
    <3> QED BY <3>6, <3>7, <3>8
  <2> QED BY <1>1, <1>3, <2>1, <2>3, <2>4, <2>6, <2>7, <2>8 DEF FromInv
<1> QED BY <1>1, <1>8, <1>9

LEMMA FromStays ==
  ASSUME FromInv, UNCHANGED <<range, cursor, pc, str, is_signed, work, bits, bit_it>>
  PROVE  FromInv'
<1>1. /\ range' = range /\ cursor' = cursor /\ pc' = pc /\ str' = str
      /\ is_signed' = is_signed /\ work' = work /\ bits' = bits /\ bit_it' = bit_it
  OBVIOUS
<1>2. Digits!Length' = Digits!Length
  BY <1>1 DEF Digits!Length
<1>3. /\ \A i : Digits!BitOfNumber(i)' = Digits!BitOfNumber(i)
      /\ \A c, i : Digits!BitOred(c, i)' = Digits!BitOred(c, i)
      /\ \A i : Digits!DigitsFrom(i)' = Digits!DigitsFrom(i)
      /\ Digits!DigitBits' = Digits!DigitBits /\ Digits!OfBase' = Digits!OfBase
  BY <1>1, CallStays
<1>4. Digits!FromTypeOK'
  BY <1>1, <1>2 DEF FromInv, Digits!FromTypeOK
<1>5. Digits!FromStringCorrect'
  BY <1>1, <1>3 DEF FromInv, Digits!FromStringCorrect
<1>6. Digits!ReadSoFar'
  <2>1. Digits!DigitsFrom(cursor + 1)' = Digits!DigitsFrom(cursor + 1)
    BY <1>1 DEF Digits!DigitsFrom
  <2> QED BY <1>1, <1>3, <2>1, DigitsCardinality DEF FromInv, Digits!ReadSoFar
<1> QED BY <1>1, <1>2, <1>3, <1>4, <1>5, <1>6 DEF FromInv

LEMMA FromNext ==
  ASSUME FromInv, Digits!FromNext
  PROVE  FromInv'
<1>1. CASE Digits!Finished
  BY <1>1, FromStays DEF Digits!Finished, Digits!vars, Digits!string_vars, Digits!from_vars
<1> QED BY <1>1, FromRead, FromWriteTruncated, FromWriteLast, FromWriteFull DEF Digits!FromNext

----------------------------------------------------------------------------
(* The integral conversions                                                *)

\* The number of bits that are all 1.
LEMMA NumberOnes ==
  ASSUME NEW m, NEW f, NEW n \in Nat, \A i \in 0 .. (n - 1) : m[f + i] = 1
  PROVE  Binary(m, f, n) /\ Number(m, f, n) = Power(n) - 1
<1> DEFINE S == {k \in Nat : k <= n => Number(m, f, k) = Power(k) - 1}
<1>1. Binary(m, f, n)
  BY DEF Binary
<1>2. 0 \in S
  BY NumberNone, PowerZero
<1>3. ASSUME NEW k \in Nat, k \in S PROVE k + 1 \in S
  <2> SUFFICES ASSUME k + 1 <= n PROVE Number(m, f, k + 1) = Power(k + 1) - 1
    OBVIOUS
  <2>1. Binary(m, f, k + 1) /\ m[f + k] = 1
    BY <1>1 DEF Binary
  <2>2. Number(m, f, k + 1) = Number(m, f, k) + 1 * Power(k)
    BY <2>1, NumberStep
  <2>3. Number(m, f, k) = Power(k) - 1
    BY <1>3
  <2>4. Power(k) \in Nat /\ Power(k + 1) = 2 * Power(k)
    BY PowerNat, PowerStep
  <2> QED BY <2>2, <2>3, <2>4
<1> HIDE DEF S
<1>4. n \in S
  BY <1>2, <1>3, Induction
<1> QED BY <1>1, <1>4 DEF S

\* n bits of two's complement, or unsigned.
Integral(b, n, signed) == Number(b, 0, n) - (IF signed /\ b[n - 1] = 1 THEN Power(n) ELSE 0)

\* The bits of m that a conversion leaves for the n bits of another integral.
Converted(c, m, b, n, signed) ==
  /\ c \in [0 .. (m - 1) -> {0, 1}]
  /\ \A i \in 0 .. (m - 1) :
       c[i] = IF i < n THEN b[i] ELSE IF signed THEN b[n - 1] ELSE 0

\* A conversion computes modulo 2^m.
LEMMA ConvertedIs ==
  ASSUME NEW m \in Nat, NEW n \in Nat, n >= 1, NEW signed \in BOOLEAN,
         NEW b \in [0 .. (n - 1) -> {0, 1}], NEW c, Converted(c, m, b, n, signed)
  PROVE  /\ Integral(b, n, signed) \in Int
         /\ Number(c, 0, m) \in Nat /\ Number(c, 0, m) < Power(m)
         /\ \E q \in Int : Integral(b, n, signed) = Power(m) * q + Number(c, 0, m)
         /\ Number(c, 0, m) = Integral(b, n, signed) % Power(m)
<1>1. Binary(b, 0, n) /\ Binary(c, 0, m) /\ b[n - 1] \in {0, 1}
  BY DEF Binary, Converted
<1>2. /\ Number(b, 0, n) \in Nat /\ Number(c, 0, m) \in Nat /\ Number(c, 0, m) < Power(m)
      /\ Power(n) \in Nat /\ Power(m) \in Nat /\ Power(m) >= 1
  BY <1>1, NumberRange, PowerPositive
<1> DEFINE e == IF signed /\ b[n - 1] = 1 THEN 1 ELSE 0
           v == Integral(b, n, signed)
<1>3. e \in {0, 1} /\ v = Number(b, 0, n) - e * Power(n) /\ v \in Int
  BY <1>2 DEF Integral
<1> HIDE DEF v
<1>4. ASSUME m <= n PROVE \E q \in Int : v = Power(m) * q + Number(c, 0, m)
  <2> DEFINE l == n - m
  <2>1. l \in Nat /\ m + l = n /\ 0 \in Int
    BY <1>4
  <2> HIDE DEF l
  <2>2. /\ Binary(b, 0, m) /\ Binary(b, 0 + m, l)
        /\ Number(b, 0, n) = Number(b, 0, m) + Power(m) * Number(b, 0 + m, l)
    <3>1. Binary(b, 0, m + l)
      BY <1>1, <2>1
    <3>2. /\ Binary(b, 0, m) /\ Binary(b, 0 + m, l)
          /\ Number(b, 0, m + l) = Number(b, 0, m) + Power(m) * Number(b, 0 + m, l)
      BY <2>1, <3>1, NumberSplit
    <3> QED BY <2>1, <3>2
  <2>3. Number(c, 0, m) = Number(b, 0, m)
    <3>1. \A i \in 0 .. (m - 1) : c[0 + i] = b[0 + i]
      BY <1>4 DEF Converted
    <3>2. Binary(b, 0, m)
      BY <2>2
    <3> QED BY <3>1, <3>2, NumberSame
  <2>4. Number(b, 0 + m, l) \in Nat /\ Power(l) \in Nat /\ Power(n) = Power(m) * Power(l)
    BY <2>1, <2>2, NumberRange, PowerNat, PowerSum
  <2> DEFINE h == Number(b, 0 + m, l)
             q == h - e * Power(l)
  <2>5. q \in Int /\ Power(m) * q = Power(m) * h - e * (Power(m) * Power(l))
    <3>1. e = 0 \/ e = 1
      BY <1>3
    <3> HIDE DEF e, h
    <3>2. h \in Int
      BY <2>4 DEF h
    <3> QED BY <1>2, <2>4, <3>1, <3>2
  <2>6. v = Power(m) * q + Number(c, 0, m)
    <3> DEFINE x == Power(m) * q
               y == Power(m) * h
               z == e * Power(n)
    <3>1. z = e * (Power(m) * Power(l))
      BY <2>4
    <3>2. z \in Int /\ y \in Int
      BY <1>2, <1>3, <2>4
    <3> HIDE DEF q, e, h
    <3>3. x = y - z
      BY <2>5, <3>1
    <3>4. v = Number(b, 0, n) - z /\ Number(b, 0, n) = Number(c, 0, m) + y
      BY <1>3, <2>2, <2>3 DEF h
    <3> HIDE DEF x, y, z
    <3>5. v = x + Number(c, 0, m)
      BY <1>2, <3>2, <3>3, <3>4
    <3> QED BY <3>5 DEF x
  <2> QED BY <2>5, <2>6
<1>5. ASSUME n < m PROVE \E q \in Int : v = Power(m) * q + Number(c, 0, m)
  <2> DEFINE l == m - n
  <2>1. l \in Nat /\ n + l = m /\ 0 \in Int
    BY <1>5
  <2> HIDE DEF l
  <2>2. /\ Binary(c, 0, n) /\ Binary(c, 0 + n, l)
        /\ Number(c, 0, m) = Number(c, 0, n) + Power(n) * Number(c, 0 + n, l)
    <3>1. Binary(c, 0, n + l)
      BY <1>1, <2>1
    <3>2. /\ Binary(c, 0, n) /\ Binary(c, 0 + n, l)
          /\ Number(c, 0, n + l) = Number(c, 0, n) + Power(n) * Number(c, 0 + n, l)
      BY <2>1, <3>1, NumberSplit
    <3> QED BY <2>1, <3>2
  <2>3. Number(c, 0, n) = Number(b, 0, n)
    <3>1. \A i \in 0 .. (n - 1) : c[0 + i] = b[0 + i]
      BY <1>5 DEF Converted
    <3> QED BY <1>1, <3>1, NumberSame
  <2>4. Power(l) \in Nat /\ Power(m) = Power(n) * Power(l)
    BY <2>1, PowerNat, PowerSum
  <2>5. ASSUME NEW i \in 0 .. (l - 1) PROVE c[(0 + n) + i] = e
    <3>1. n + i \in 0 .. (m - 1) /\ ~(n + i < n) /\ (0 + n) + i = n + i
      BY <2>1
    <3>2. c[n + i] = IF signed THEN b[n - 1] ELSE 0
      BY <3>1 DEF Converted
    <3> QED BY <1>1, <3>1, <3>2
  <2>6. Number(c, 0 + n, l) = e * (Power(l) - 1)
    <3> HIDE DEF e
    <3>1. CASE e = 0
      <4>1. \A i \in 0 .. (l - 1) : c[(0 + n) + i] = 0
        BY <2>5, <3>1
      <4>2. Number(c, 0 + n, l) = 0
        BY <2>1, <4>1, NumberZeros
      <4> QED BY <2>4, <3>1, <4>2
    <3>2. CASE e = 1
      <4>1. \A i \in 0 .. (l - 1) : c[(0 + n) + i] = 1
        BY <2>5, <3>2
      <4>2. Number(c, 0 + n, l) = Power(l) - 1
        BY <2>1, <4>1, NumberOnes
      <4> QED BY <2>4, <3>2, <4>2
    <3> QED BY <1>3, <3>1, <3>2
  <2> HIDE DEF e
  <2>7. CASE e = 0
    <3>1. v = Power(m) * 0 + Number(c, 0, m)
      BY <1>2, <1>3, <2>2, <2>3, <2>4, <2>6, <2>7
    <3> QED BY <3>1
  <2>8. CASE e = 1
    <3>1. Number(c, 0, m) = Number(b, 0, n) + Power(n) * (Power(l) - 1)
      BY <2>2, <2>3, <2>4, <2>6, <2>8
    <3>2. Power(n) * (Power(l) - 1) = Power(m) - Power(n)
      BY <1>2, <2>4
    <3>3. v = Number(b, 0, n) - Power(n)
      BY <1>2, <1>3, <2>8
    <3>4. Power(m) * (-1) = -Power(m)
      BY <1>2
    <3>5. v = Power(m) * (-1) + Number(c, 0, m)
      BY <1>2, <3>1, <3>2, <3>3, <3>4
    <3>6. -1 \in Int
      OBVIOUS
    <3> QED BY <3>5, <3>6
  <2> QED BY <1>3, <2>7, <2>8
<1>6. PICK q \in Int : v = Power(m) * q + Number(c, 0, m)
  BY <1>4, <1>5
<1>7. Number(c, 0, m) = v % Power(m)
  <2>1. Number(c, 0, m) \in 0 .. (Power(m) - 1) /\ Power(m) > 0
    BY <1>2
  <2> QED BY <1>2, <1>3, <1>6, <2>1, Divided
<1> QED BY <1>2, <1>3, <1>6, <1>7 DEF v

\* The array holds the integral it was made from, and so does what it was
\* converted to if there was room.
IntegralInv == Dynamic!TypeOK /\ Dynamic!ArrayHoldsValue /\ Dynamic!CastAgrees

LEMMA TypesAre ==
  /\ \A type \in Dynamic!Types : type.bits \in Nat /\ type.bits >= 1 /\ type.signed \in BOOLEAN
                                 /\ type.bits \in IntegralWidths
  /\ \A n \in ArraySizes : n \in Nat /\ n >= 1
  /\ \A n : Dynamic!BitsOf(n) = [0 .. (n - 1) -> {0, 1}]
<1>1. ASSUME NEW type \in Dynamic!Types
      PROVE  type.bits \in Nat /\ type.bits >= 1 /\ type.signed \in BOOLEAN
             /\ type.bits \in IntegralWidths
  <2>1. type \in [bits : IntegralWidths, signed : BOOLEAN]
    BY DEF Dynamic!Types
  <2>2. type.bits \in IntegralWidths /\ type.signed \in BOOLEAN
    BY <2>1
  <2>3. \A w \in IntegralWidths : w \in Nat /\ w >= 1
    BY IntegralsAssumption
  <2> QED BY <2>2, <2>3
<1>2. \A n \in ArraySizes : n \in Nat /\ n >= 1
  BY IntegralsAssumption
<1>3. \A n : Dynamic!BitsOf(n) = [0 .. (n - 1) -> {0, 1}]
  BY DEF Dynamic!BitsOf, Dynamic!ZeroOne
<1> QED BY <1>1, <1>2, <1>3

\* The numbers the two integrals and the array stand for.
LEMMA IntegralIs ==
  ASSUME NEW n \in Nat, NEW b \in Dynamic!BitsOf(n), NEW signed \in BOOLEAN
  PROVE  /\ Dynamic!Unsigned(b) = Number(b, 0, n)
         /\ Dynamic!Number(b, n, signed) = Integral(b, n, signed)
<1>1. DOMAIN b = 0 .. (n - 1)
  BY TypesAre
<1>2. Dynamic!Unsigned(b) = Number(b, 0, n)
  BY <1>1, UnsignedIs
<1> QED BY <1>2 DEF Dynamic!Number, Integral, Power

\* The array and the types' variables.
LEMMA IntegralFacts ==
  ASSUME Dynamic!TypeOK
  PROVE  /\ size \in Nat /\ size >= 1 /\ gtype.bits \in Nat /\ gtype.bits >= 1
         /\ vtype.bits \in Nat /\ vtype.bits >= 1
         /\ gtype.signed \in BOOLEAN /\ vtype.signed \in BOOLEAN
         /\ array \in [0 .. (size - 1) -> {0, 1}] /\ given \in [0 .. (gtype.bits - 1) -> {0, 1}]
         /\ value \in [0 .. (vtype.bits - 1) -> {0, 1}]
         /\ Dynamic!Unsigned(array) = Number(array, 0, size)
         /\ Dynamic!Unsigned(value) = Number(value, 0, vtype.bits)
         /\ Dynamic!Given = Integral(given, gtype.bits, gtype.signed)
<1>1. /\ size \in ArraySizes /\ array \in Dynamic!BitsOf(size) /\ gtype \in Dynamic!Types
      /\ given \in Dynamic!BitsOf(gtype.bits) /\ vtype \in Dynamic!Types
      /\ value \in Dynamic!BitsOf(vtype.bits)
  BY DEF Dynamic!TypeOK
<1>2. /\ size \in Nat /\ size >= 1 /\ gtype.bits \in Nat /\ gtype.bits >= 1
      /\ vtype.bits \in Nat /\ vtype.bits >= 1
      /\ gtype.signed \in BOOLEAN /\ vtype.signed \in BOOLEAN
  BY <1>1, TypesAre
<1>3. /\ array \in [0 .. (size - 1) -> {0, 1}] /\ given \in [0 .. (gtype.bits - 1) -> {0, 1}]
      /\ value \in [0 .. (vtype.bits - 1) -> {0, 1}]
  BY <1>1, TypesAre
<1>4. /\ Dynamic!Unsigned(array) = Number(array, 0, size)
      /\ Dynamic!Unsigned(value) = Number(value, 0, vtype.bits)
  BY <1>1, <1>2, IntegralIs
<1>5. Dynamic!Given = Integral(given, gtype.bits, gtype.signed)
  BY <1>1, <1>2, IntegralIs DEF Dynamic!Given
<1> QED BY <1>2, <1>3, <1>4, <1>5

\* What is converted to nothing else is what it was.
LEMMA ConvertedSelf ==
  ASSUME NEW n \in Nat, NEW b \in [0 .. (n - 1) -> {0, 1}], NEW signed \in BOOLEAN
  PROVE  Converted(b, n, b, n, signed)
BY DEF Converted

\* An array made from an integral.
LEMMA IntegralMade ==
  ASSUME NEW integral, Dynamic!TypeOK', given' = integral, value' = integral, vtype' = gtype',
         Converted(array', size', integral, gtype.bits', gtype.signed')
  PROVE  IntegralInv'
<1> DEFINE n == gtype.bits'
           s == gtype.signed'
           k == size'
           arr == array'
<1>1. /\ k \in ArraySizes /\ arr \in Dynamic!BitsOf(k) /\ gtype' \in Dynamic!Types
      /\ integral \in Dynamic!BitsOf(n)
  BY DEF Dynamic!TypeOK
<1>2. /\ k \in Nat /\ n \in Nat /\ n >= 1 /\ s \in BOOLEAN
      /\ integral \in [0 .. (n - 1) -> {0, 1}]
  BY <1>1, TypesAre
<1>3. Converted(arr, k, integral, n, s)
  OBVIOUS
<1>4. /\ Dynamic!Unsigned(arr) = Number(arr, 0, k)
      /\ Dynamic!Unsigned(integral) = Number(integral, 0, n)
      /\ Dynamic!Number(integral, n, s) = Integral(integral, n, s)
  BY <1>1, <1>2, IntegralIs
<1>5. Dynamic!ArrayHoldsValue' <=> Dynamic!Unsigned(arr) = Dynamic!Number(integral, n, s) % Power(k)
  BY DEF Dynamic!ArrayHoldsValue, Dynamic!Given, Power
<1>6. Dynamic!Unsigned(integral) = Dynamic!Number(integral, n, s) % Power(n) => Dynamic!CastAgrees'
  BY DEF Dynamic!CastAgrees, Dynamic!Given, Power
<1> HIDE DEF n, s, k, arr
<1>7. Number(arr, 0, k) = Integral(integral, n, s) % Power(k)
  BY <1>2, <1>3, ConvertedIs
<1>8. Number(integral, 0, n) = Integral(integral, n, s) % Power(n)
  <2>1. Converted(integral, n, integral, n, s)
    BY <1>2, ConvertedSelf
  <2> QED BY <1>2, <2>1, ConvertedIs
<1> QED BY <1>4, <1>5, <1>6, <1>7, <1>8 DEF IntegralInv

\* The policies' loops: what is copied, and then filled.
LEMMA CopyFills ==
  ASSUME NEW n \in Nat, NEW m \in Nat, n >= 1, NEW b \in [0 .. (n - 1) -> {0, 1}],
         NEW rest \in [0 .. (m - 1) -> {0, 1}], NEW signed \in BOOLEAN,
         NEW z, z = IF signed THEN b[n - 1] ELSE 0,
         NEW c, \/ n < m /\ c = Dynamic!FillBits(Dynamic!CopyTo(rest, b), n, m, z)
                \/ m <= n /\ c = Dynamic!CopyTo(rest, b)
  PROVE  Converted(c, m, b, n, signed)
<1> DEFINE d1 == Dynamic!CopyTo(rest, b)
<1>1. /\ DOMAIN b = 0 .. (n - 1) /\ DOMAIN rest = 0 .. (m - 1)
      /\ \A i \in 0 .. (n - 1) : b[i] \in {0, 1}
  OBVIOUS
<1>2. d1 = [i \in 0 .. (m - 1) |-> IF i \in 0 .. (n - 1) THEN b[i] ELSE rest[i]]
  BY <1>1 DEF Dynamic!CopyTo
<1>3. z \in {0, 1}
  <2>1. n - 1 \in 0 .. (n - 1)
    OBVIOUS
  <2> QED BY <1>1, <2>1
<1>4. ASSUME NEW i \in 0 .. (m - 1)
      PROVE  c[i] = (IF i < n THEN b[i] ELSE z) /\ c[i] \in {0, 1}
  <2>1. i < n <=> i \in 0 .. (n - 1)
    OBVIOUS
  <2>2. d1[i] = IF i < n THEN b[i] ELSE rest[i]
    BY <1>2, <2>1
  <2>3. CASE n < m /\ c = Dynamic!FillBits(d1, n, m, z)
    <3>1. c = [j \in DOMAIN d1 |-> IF n <= j /\ j < m THEN z ELSE d1[j]] /\ DOMAIN d1 = 0 .. (m - 1)
      BY <1>2, <2>3 DEF Dynamic!FillBits
    <3> HIDE DEF d1
    <3>2. c[i] = IF n <= i THEN z ELSE d1[i]
      BY <3>1
    <3> QED BY <1>1, <1>3, <2>1, <2>2, <3>2
  <2>4. CASE m <= n /\ c = d1
    <3>1. i < n
      BY <2>4
    <3> QED BY <1>1, <2>1, <2>2, <2>4, <3>1
  <2> QED BY <2>3, <2>4
<1>5. DOMAIN c = 0 .. (m - 1) /\ c = [i \in 0 .. (m - 1) |-> c[i]]
  <2>1. CASE c = Dynamic!FillBits(d1, n, m, z)
    <3>1. c = [j \in 0 .. (m - 1) |-> IF n <= j /\ j < m THEN z ELSE d1[j]]
      BY <1>2, <2>1 DEF Dynamic!FillBits
    <3> QED BY <3>1
  <2>2. CASE c = d1
    BY <1>2, <2>2
  <2> QED BY <2>1, <2>2
<1>6. \A i \in 0 .. (m - 1) : c[i] \in {0, 1}
  BY <1>4
<1> QED BY <1>4, <1>5, <1>6 DEF Converted

LEMMA IntegralTo ==
  ASSUME IntegralInv, NEW type \in Dynamic!Types, Dynamic!ToIntegral(type)
  PROVE  /\ IntegralInv'
         /\ Dynamic!Unsigned(value') = Dynamic!Number(array, size, type.signed) % 2 ^ type.bits
<1> DEFINE w == type.bits
           s == type.signed
           v == Integral(array, size, s)
           G == Dynamic!Given
<1>1. /\ w \in Nat /\ w >= 1 /\ s \in BOOLEAN
  BY TypesAre
<1>2. /\ vtype' = type /\ array' = array /\ size' = size /\ given' = given /\ gtype' = gtype
      /\ \E rest \in Dynamic!BitsOf(w) :
           value' = IF size < w THEN Dynamic!FillBits(Dynamic!CopyTo(rest, array), size, w,
                                                      IF s THEN array[size - 1] ELSE 0)
                                ELSE Dynamic!CopyTo(rest, array)
  BY DEF Dynamic!ToIntegral, Dynamic!ToExtended
<1>3. /\ size \in Nat /\ size >= 1
      /\ array \in [0 .. (size - 1) -> {0, 1}]
      /\ Dynamic!Unsigned(array) = Number(array, 0, size)
      /\ G = Integral(given, gtype.bits, gtype.signed)
      /\ gtype.bits \in Nat /\ gtype.bits >= 1 /\ gtype.signed \in BOOLEAN
      /\ given \in [0 .. (gtype.bits - 1) -> {0, 1}]
      /\ array \in Dynamic!BitsOf(size)
  <2>1. Dynamic!TypeOK
    BY DEF IntegralInv
  <2> QED BY <2>1, IntegralFacts DEF Dynamic!TypeOK
<1>4. PICK rest \in [0 .. (w - 1) -> {0, 1}] :
        value' = IF size < w THEN Dynamic!FillBits(Dynamic!CopyTo(rest, array), size, w,
                                                   IF s THEN array[size - 1] ELSE 0)
                             ELSE Dynamic!CopyTo(rest, array)
  BY <1>2, TypesAre
<1> HIDE DEF w, s
<1>5. Converted(value', w, array, size, s)
  <2> DEFINE z == IF s THEN array[size - 1] ELSE 0
             c == value'
  <2>1. \/ size < w /\ c = Dynamic!FillBits(Dynamic!CopyTo(rest, array), size, w, z)
        \/ w <= size /\ c = Dynamic!CopyTo(rest, array)
    <3>1. size < w \/ w <= size
      BY <1>1, <1>3
    <3>2. size < w => ~(w <= size)
      BY <1>1, <1>3
    <3>3. w <= size => ~(size < w)
      BY <1>1, <1>3
    <3> QED BY <1>4, <3>1, <3>2, <3>3
  <2>2. z = IF s THEN array[size - 1] ELSE 0
    OBVIOUS
  <2> HIDE DEF c, z
  <2>3. Converted(c, w, array, size, s)
    BY <1>1, <1>3, <2>1, <2>2, CopyFills
  <2> QED BY <2>3 DEF c
<1>6. /\ v \in Int /\ Number(value', 0, w) \in Nat /\ Number(value', 0, w) < Power(w)
      /\ \E q \in Int : v = Power(w) * q + Number(value', 0, w)
      /\ Number(value', 0, w) = v % Power(w)
  BY <1>1, <1>3, <1>5, ConvertedIs
<1> DEFINE c == Number(value', 0, w)
<1>18. c \in Nat /\ c < Power(w)
  BY <1>6
<1>7. /\ value' \in Dynamic!BitsOf(w)
      /\ Dynamic!Unsigned(value') = Number(value', 0, w)
      /\ Dynamic!Number(array, size, s) = v
  <2>1. value' \in Dynamic!BitsOf(w)
    BY <1>5, TypesAre DEF Converted
  <2> QED BY <1>1, <1>3, <2>1, IntegralIs
<1>8. G \in Int
  <2>1. Converted(given, gtype.bits, given, gtype.bits, gtype.signed)
    BY <1>3, ConvertedSelf
  <2> QED BY <1>3, <2>1, ConvertedIs
<1>9. Dynamic!Given' = G
  BY <1>2 DEF Dynamic!Given
<1>10. Number(array, 0, size) = G % Power(size)
  BY <1>3 DEF IntegralInv, Dynamic!ArrayHoldsValue, Power
<1> HIDE DEF G, v
<1>11. /\ Power(size) \in Nat /\ Power(size) >= 1 /\ Power(w) \in Nat /\ Power(w) >= 1
       /\ Number(array, 0, size) \in Nat /\ Number(array, 0, size) < Power(size)
  <2>1. Binary(array, 0, size)
    BY <1>3 DEF Binary
  <2> QED BY <1>1, <1>3, <2>1, NumberRange, PowerPositive
<1> DEFINE e == IF s /\ array[size - 1] = 1 THEN 1 ELSE 0
<1>12. e \in {0, 1} /\ v = Number(array, 0, size) - e * Power(size)
  BY <1>11 DEF v, Integral
\* the array has the bits of the target
<1>13. ASSUME w <= size PROVE Number(value', 0, w) = G % Power(w)
  <2> DEFINE l == size - w
  <2>1. l \in Nat /\ w + l = size
    BY <1>1, <1>3, <1>13
  <2> HIDE DEF l
  <2>2. Power(size) = Power(w) * Power(l) /\ Power(l) \in Nat
    BY <1>1, <2>1, PowerSum, PowerNat
  <2>3. PICK g \in Int : G = Power(size) * g + Number(array, 0, size)
    <3>1. G \div Power(size) \in Int /\ G = Power(size) * (G \div Power(size)) + (G % Power(size))
      BY <1>8, <1>11, Dividing
    <3> QED BY <1>10, <3>1
  <2>4. PICK q \in Int : v = Power(w) * q + Number(value', 0, w)
    BY <1>6
  <2> HIDE DEF e
  <2> DEFINE t == q + Power(l) * (g + e)
  <2>5. t \in Int /\ Power(w) * t = Power(w) * q + Power(size) * g + e * Power(size)
    <3>1. e = 0 \/ e = 1
      BY <1>12
    <3>2. Power(w) * t = Power(w) * q + Power(w) * (Power(l) * (g + e))
      BY <1>11, <2>2, <2>3, <2>4, <3>1
    <3>3. Power(w) * (Power(l) * (g + e)) = Power(size) * (g + e)
      BY <1>11, <2>2, <2>3, <3>1
    <3>4. Power(size) * (g + e) = Power(size) * g + e * Power(size)
      BY <1>11, <2>3, <3>1
    <3>5. t \in Int
      BY <2>2, <2>3, <2>4, <3>1
    <3> QED BY <1>11, <2>3, <2>4, <3>1, <3>2, <3>3, <3>4, <3>5
  <2>6. G = Power(w) * t + Number(value', 0, w)
    <3> DEFINE x == Power(w) * t
               y == Power(w) * q
               a == Power(size) * g
               b == e * Power(size)
    <3>1. x \in Int /\ y \in Int /\ a \in Int /\ b \in Int
      <4> HIDE DEF t
      <4>1. e = 0 \/ e = 1
        BY <1>12
      <4>2. b \in Int
        BY <1>11, <4>1
      <4> QED BY <1>11, <2>3, <2>4, <2>5, <4>2
    <3>2. x = y + a + b /\ G = a + Number(array, 0, size) /\ v = Number(array, 0, size) - b
          /\ v = y + c
      BY <1>12, <2>3, <2>4, <2>5
    <3> HIDE DEF x, y, a, b, c
    <3>3. G = x + c
      BY <1>11, <1>18, <3>1, <3>2
    <3> QED BY <3>3 DEF x, c
  <2> HIDE DEF t
  <2>7. c \in 0 .. (Power(w) - 1) /\ Power(w) > 0
    <3> HIDE DEF c
    <3> QED BY <1>11, <1>18
  <2> QED BY <1>8, <1>11, <2>5, <2>6, <2>7, Divided
\* or it can hold the number
<1>14. ASSUME IF s THEN G \in -Power(size - 1) .. (Power(size - 1) - 1)
                   ELSE G \in 0 .. (Power(size) - 1)
       PROVE  v = G
  <2> DEFINE p == Power(size - 1)
             u == Number(array, 0, size - 1)
             z == array[size - 1]
  <2>1. /\ size - 1 \in Nat /\ (size - 1) + 1 = size /\ p \in Nat /\ p >= 1
        /\ Power(size) = 2 * p
    <3>1. size - 1 \in Nat /\ (size - 1) + 1 = size
      BY <1>3
    <3> QED BY <3>1, PowerPositive, PowerStep
  <2>2. u \in Nat /\ u < p /\ z \in {0, 1} /\ Number(array, 0, size) = u + z * p
    <3> DEFINE k == size - 1
    <3>1. k \in Nat /\ k + 1 = size /\ 0 + k = k
      BY <2>1
    <3> HIDE DEF k
    <3>2. Binary(array, 0, k + 1)
      BY <1>3, <3>1 DEF Binary
    <3>3. Binary(array, 0, k) /\ array[0 + k] \in {0, 1}
          /\ Number(array, 0, k + 1) = Number(array, 0, k) + array[0 + k] * Power(k)
      BY <3>1, <3>2, NumberStep
    <3>4. Number(array, 0, k) \in Nat /\ Number(array, 0, k) < Power(k)
      BY <3>1, <3>3, NumberRange
    <3> QED BY <3>1, <3>3, <3>4 DEF k
  <2>3. PICK g \in Int : G = Power(size) * g + Number(array, 0, size)
    <3>1. G \div Power(size) \in Int /\ G = Power(size) * (G \div Power(size)) + (G % Power(size))
      BY <1>8, <1>11, Dividing
    <3> QED BY <1>10, <3>1
  <2> DEFINE y == p * g
  <2>4. Power(size) * g = 2 * y /\ y \in Int
    BY <2>1, <2>3
  <2>5. /\ g >= 1 => y >= p
        /\ g <= -2 => y <= -2 * p
        /\ g = 0 => y = 0
        /\ g = -1 => y = -p
    <3>1. g >= 1 => y >= p
      <4>1. g >= 1 => p * g >= p * 1
        BY <2>1, <2>3, TimesMonotone
      <4> QED BY <2>1, <4>1
    <3>2. g <= -2 => y <= -2 * p
      <4>1. g <= -2 => p * g <= p * (-2)
        BY <2>1, <2>3, TimesMonotone
      <4>2. p * (-2) = -2 * p
        BY <2>1
      <4> QED BY <2>1, <4>1, <4>2
    <3> QED BY <2>1, <2>3, <3>1, <3>2
  <2>6. z * p = (IF z = 1 THEN p ELSE 0) /\ e * Power(size) = (IF e = 1 THEN 2 * p ELSE 0)
    BY <1>12, <2>1, <2>2
  <2>7. e = IF s /\ z = 1 THEN 1 ELSE 0
    OBVIOUS
  <2>8. g >= 1 \/ g = 0 \/ g = -1 \/ g <= -2
    BY <2>3
  <2> HIDE DEF p, u, z, e, y
  <2>9. G = 2 * y + u + (IF z = 1 THEN p ELSE 0)
    BY <2>1, <2>2, <2>3, <2>4, <2>6
  <2>10. v = u + (IF z = 1 THEN p ELSE 0) - (IF e = 1 THEN 2 * p ELSE 0)
    BY <1>11, <1>12, <2>1, <2>2, <2>6
  <2>11. CASE s
    <3>1. G >= -p /\ G < p
      BY <1>8, <1>14, <2>1, <2>11 DEF p
    <3>2. CASE z = 1
      <4>1. G = 2 * y + u + p /\ v = u + p - 2 * p
        BY <2>7, <2>9, <2>10, <2>11, <3>2
      <4> QED BY <2>1, <2>2, <2>4, <2>5, <2>8, <3>1, <4>1
    <3>3. CASE z # 1
      <4>1. G = 2 * y + u /\ v = u
        BY <2>2, <2>4, <2>7, <2>9, <2>10, <3>3
      <4> QED BY <2>1, <2>2, <2>4, <2>5, <2>8, <3>1, <4>1
    <3> QED BY <3>2, <3>3
  <2>12. CASE ~s
    <3>1. G >= 0 /\ G < 2 * p
      BY <1>8, <1>14, <2>1, <2>12
    <3>2. e = 0
      BY <2>7, <2>12
    <3>3. CASE z = 1
      <4>1. G = 2 * y + u + p /\ v = u + p
        BY <2>1, <2>2, <2>9, <2>10, <3>2, <3>3
      <4> QED BY <2>1, <2>2, <2>4, <2>5, <2>8, <3>1, <4>1
    <3>4. CASE z # 1
      <4>1. G = 2 * y + u /\ v = u
        BY <2>2, <2>4, <2>9, <2>10, <3>2, <3>4
      <4> QED BY <2>1, <2>2, <2>4, <2>5, <2>8, <3>1, <4>1
    <3> QED BY <3>3, <3>4
  <2> QED BY <2>11, <2>12
<1>15. Dynamic!TypeOK'
  BY <1>2, <1>7 DEF IntegralInv, Dynamic!TypeOK, w
<1>16. Dynamic!ArrayHoldsValue'
  BY <1>2, <1>9 DEF IntegralInv, Dynamic!ArrayHoldsValue, G
<1>17. Dynamic!CastAgrees'
  <2>1. Dynamic!CastAgrees' <=>
          (size >= w \/ (IF s THEN G \in -(2 ^ (size - 1)) .. (2 ^ (size - 1) - 1)
                              ELSE G \in 0 .. (2 ^ size - 1))
             => Dynamic!Unsigned(value') = G % 2 ^ w)
    BY <1>2, <1>9 DEF Dynamic!CastAgrees, w, s
  <2>2. ASSUME size >= w PROVE Number(value', 0, w) = G % Power(w)
    BY <1>1, <1>3, <1>13, <2>2
  <2>3. ASSUME IF s THEN G \in -Power(size - 1) .. (Power(size - 1) - 1)
                    ELSE G \in 0 .. (Power(size) - 1)
        PROVE  Number(value', 0, w) = G % Power(w)
    BY <1>6, <1>14, <2>3
  <2> QED BY <1>7, <2>1, <2>2, <2>3 DEF Power
<1> QED BY <1>6, <1>7, <1>15, <1>16, <1>17 DEF IntegralInv, Power, w, s

\* With static extent the sizes are fewer, and the rest is the same.
StaticInv == IntegralInv /\ size \in StaticSizes

LEMMA StaticIs ==
  /\ Static!Types = Dynamic!Types /\ \A n : Static!BitsOf(n) = Dynamic!BitsOf(n)
  /\ Static!Given = Dynamic!Given
  /\ \A b : Static!Unsigned(b) = Dynamic!Unsigned(b)
  /\ \A b, n, s : Static!Number(b, n, s) = Dynamic!Number(b, n, s)
  /\ \A m, b : Static!CopyTo(m, b) = Dynamic!CopyTo(m, b)
  /\ \A b, f, l, z : Static!FillBits(b, f, l, z) = Dynamic!FillBits(b, f, l, z)
<1>1. Static!Types = Dynamic!Types /\ \A n : Static!BitsOf(n) = Dynamic!BitsOf(n)
  BY DEF Static!Types, Dynamic!Types, Static!BitsOf, Dynamic!BitsOf, Static!ZeroOne, Dynamic!ZeroOne
<1>2. \A b : Static!Unsigned(b) = Dynamic!Unsigned(b)
  BY DEF Static!Unsigned, Dynamic!Unsigned, Static!MapThenSumSet, Dynamic!MapThenSumSet,
         Static!MapThenFoldSet, Dynamic!MapThenFoldSet
<1>3. \A b, n, s : Static!Number(b, n, s) = Dynamic!Number(b, n, s)
  BY <1>2 DEF Static!Number, Dynamic!Number
<1>4. Static!Given = Dynamic!Given
  BY <1>3 DEF Static!Given, Dynamic!Given
<1>5. /\ \A m, b : Static!CopyTo(m, b) = Dynamic!CopyTo(m, b)
      /\ \A b, f, l, z : Static!FillBits(b, f, l, z) = Dynamic!FillBits(b, f, l, z)
  BY DEF Static!CopyTo, Dynamic!CopyTo, Static!FillBits, Dynamic!FillBits
<1> QED BY <1>1, <1>2, <1>3, <1>4, <1>5

LEMMA IntegralBegins ==
  ASSUME size \in ArraySizes, gtype \in Dynamic!Types, size = gtype.bits,
         given \in Dynamic!BitsOf(size), array = given, value = given, vtype = gtype
  PROVE  IntegralInv
<1>1. Dynamic!TypeOK
  BY DEF Dynamic!TypeOK
<1>2. /\ size \in Nat /\ size >= 1 /\ gtype.signed \in BOOLEAN
      /\ given \in [0 .. (size - 1) -> {0, 1}]
      /\ Dynamic!Unsigned(given) = Number(given, 0, size)
      /\ Dynamic!Given = Integral(given, size, gtype.signed)
  BY <1>1, IntegralFacts
<1>3. Number(given, 0, size) = Integral(given, size, gtype.signed) % Power(size)
  <2>1. Converted(given, size, given, size, gtype.signed)
    BY <1>2, ConvertedSelf
  <2> QED BY <1>2, <2>1, ConvertedIs
<1>4. Dynamic!ArrayHoldsValue
  BY <1>2, <1>3 DEF Dynamic!ArrayHoldsValue, Power
<1>5. Dynamic!CastAgrees
  BY <1>2, <1>3 DEF Dynamic!CastAgrees, Power
<1> QED BY <1>1, <1>4, <1>5 DEF IntegralInv

LEMMA DynamicInit ==
  ASSUME Dynamic!Init
  PROVE  IntegralInv
BY IntegralBegins DEF Dynamic!Init

LEMMA StaticInit ==
  ASSUME Static!Init
  PROVE  StaticInv
<1>1. size \in StaticSizes /\ size \in ArraySizes
  BY DEF Static!Init, StaticSizes
<1>2. IntegralInv
  BY <1>1, StaticIs, IntegralBegins DEF Static!Init
<1> QED BY <1>1, <1>2 DEF StaticInv

\* from_integral, which the static version never has to extend.
LEMMA DynamicFrom ==
  ASSUME NEW n \in ArraySizes, NEW type \in Dynamic!Types, NEW integral \in Dynamic!BitsOf(type.bits),
         Dynamic!FromIntegral(n, integral, type)
  PROVE  IntegralInv'
<1> DEFINE w == type.bits
           s == type.signed
<1>1. /\ n \in Nat /\ n >= 1 /\ w \in Nat /\ w >= 1 /\ s \in BOOLEAN
      /\ integral \in [0 .. (w - 1) -> {0, 1}]
  BY TypesAre
<1>2. /\ size' = n /\ given' = integral /\ gtype' = type /\ value' = integral /\ vtype' = type
  BY DEF Dynamic!FromIntegral
<1>3. PICK rest \in [0 .. (n - 1) -> {0, 1}] :
        array' = IF w < n THEN Dynamic!FillBits(Dynamic!CopyTo(rest, integral), w, n,
                                                IF s /\ integral[w - 1] = 1 THEN 1 ELSE 0)
                          ELSE Dynamic!CopyTo(rest, integral)
  BY TypesAre DEF Dynamic!FromIntegral, Dynamic!FromExtended, Dynamic!Negative
<1> HIDE DEF w, s
<1>4. Converted(array', n, integral, w, s)
  <2> DEFINE z == IF s /\ integral[w - 1] = 1 THEN 1 ELSE 0
             c == array'
  <2>1. z = IF s THEN integral[w - 1] ELSE 0
    <3>1. w - 1 \in 0 .. (w - 1)
      BY <1>1
    <3>2. integral[w - 1] \in {0, 1}
      BY <1>1, <3>1
    <3> QED BY <3>2
  <2>2. \/ w < n /\ c = Dynamic!FillBits(Dynamic!CopyTo(rest, integral), w, n, z)
        \/ n <= w /\ c = Dynamic!CopyTo(rest, integral)
    <3>1. w < n \/ (n <= w /\ ~(w < n))
      BY <1>1
    <3> QED BY <1>3, <3>1
  <2> HIDE DEF c, z
  <2>3. Converted(c, n, integral, w, s)
    BY <1>1, <2>1, <2>2, CopyFills
  <2> QED BY <2>3 DEF c
<1>5. array' \in Dynamic!BitsOf(n)
  BY <1>4, TypesAre DEF Converted
<1>6. Dynamic!TypeOK'
  BY <1>2, <1>5 DEF Dynamic!TypeOK, w
<1> QED BY <1>2, <1>4, <1>6, IntegralMade DEF w, s

LEMMA StaticFrom ==
  ASSUME NEW n \in StaticSizes, NEW type \in Dynamic!Types, NEW integral \in Dynamic!BitsOf(type.bits),
         Static!FromIntegral(n, integral, type)
  PROVE  StaticInv'
<1>1. /\ n \in ArraySizes /\ n \in Nat /\ type.bits \in Nat /\ n <= type.bits
  BY TypesAre DEF StaticSizes
<1>2. ~(type.bits < n)
  BY <1>1
<1>3. Dynamic!FromIntegral(n, integral, type)
  BY <1>2, StaticIs DEF Static!FromIntegral, Dynamic!FromIntegral
<1>4. IntegralInv'
  BY <1>1, <1>3, DynamicFrom
<1>5. size' = n
  BY DEF Static!FromIntegral
<1> QED BY <1>4, <1>5 DEF StaticInv

LEMMA StaticTo ==
  ASSUME NEW type
  PROVE  Static!ToIntegral(type) <=> Dynamic!ToIntegral(type)
BY StaticIs DEF Static!ToIntegral, Dynamic!ToIntegral, Static!ToExtended, Dynamic!ToExtended

LEMMA DynamicNext ==
  ASSUME IntegralInv, Dynamic!Next
  PROVE  IntegralInv'
BY DynamicFrom, IntegralTo DEF Dynamic!Next

LEMMA StaticNext ==
  ASSUME StaticInv, Static!Next
  PROVE  StaticInv'
<1>1. ASSUME NEW n \in StaticSizes, NEW type \in Static!Types,
             NEW integral \in Static!BitsOf(type.bits), Static!FromIntegral(n, integral, type)
      PROVE  StaticInv'
  <2>1. type \in Dynamic!Types /\ integral \in Dynamic!BitsOf(type.bits)
    BY StaticIs
  <2> QED BY <1>1, <2>1, StaticFrom
<1>2. ASSUME NEW type \in Static!Types, Static!ToIntegral(type)
      PROVE  StaticInv'
  <2>1. type \in Dynamic!Types /\ Dynamic!ToIntegral(type)
    BY <1>2, StaticIs, StaticTo
  <2>2. IntegralInv'
    BY <2>1, IntegralTo DEF StaticInv
  <2>3. size' = size
    BY <2>1 DEF Dynamic!ToIntegral
  <2> QED BY <2>2, <2>3 DEF StaticInv
<1> QED BY <1>1, <1>2 DEF Static!Next

LEMMA IntegralStays ==
  ASSUME UNCHANGED integral_vars
  PROVE  (IntegralInv => IntegralInv') /\ (StaticInv => StaticInv')
<1>1. /\ array' = array /\ size' = size /\ given' = given /\ gtype' = gtype
      /\ value' = value /\ vtype' = vtype
  BY DEF integral_vars
<1>2. Dynamic!TypeOK' = Dynamic!TypeOK
  BY <1>1 DEF Dynamic!TypeOK
<1>3. Dynamic!Given' = Dynamic!Given
  BY <1>1 DEF Dynamic!Given
<1>4. Dynamic!ArrayHoldsValue' = Dynamic!ArrayHoldsValue /\ Dynamic!CastAgrees' = Dynamic!CastAgrees
  BY <1>1, <1>3 DEF Dynamic!ArrayHoldsValue, Dynamic!CastAgrees
<1> QED BY <1>1, <1>2, <1>4 DEF IntegralInv, StaticInv

LEMMA DynamicExact ==
  ASSUME IntegralInv
  PROVE  Dynamic!ConversionExact /\ Static!ConversionExact
<1>1. Dynamic!ConversionExact
  BY IntegralTo DEF Dynamic!ConversionExact
<1> QED BY <1>1, StaticIs, StaticTo DEF Dynamic!ConversionExact, Static!ConversionExact

LEMMA StaticImplies ==
  ASSUME StaticInv
  PROVE  Static!TypeOK /\ Static!ArrayHoldsValue /\ Static!CastAgrees
<1>1. Static!TypeOK
  BY StaticIs DEF StaticInv, IntegralInv, Static!TypeOK, Dynamic!TypeOK
<1>2. Static!ArrayHoldsValue
  BY StaticIs DEF StaticInv, IntegralInv, Static!ArrayHoldsValue, Dynamic!ArrayHoldsValue
<1>3. Static!CastAgrees
  BY StaticIs DEF StaticInv, IntegralInv, Static!CastAgrees, Dynamic!CastAgrees
<1> QED BY <1>1, <1>2, <1>3

----------------------------------------------------------------------------
(* The numbers that characters write.                                      *)

\* The number v with one more digit in base b, or v if the character is skip.
Appended(b, skip, v, c) == IF c = skip THEN v ELSE v * b + c

\* The number v with the digits among the n characters of s after it.
Written(b, skip, v, s, n) ==
  Decimal!MapThenFoldSet(LAMBDA x, y : IF x = skip THEN y ELSE y * b + x, v,
                         LAMBDA i : s[i], LAMBDA t : Decimal!Max(t), 1 .. n)

\* g holds what comes out after each of the first n characters.
Trace(b, skip, v, s, n, g) ==
  /\ g[0] = v
  /\ \A i \in 1 .. n : g[i] = Appended(b, skip, g[i - 1], s[i])

LEMMA MaxIs ==
  ASSUME NEW t \in SUBSET Nat, NEW m \in t, \A y \in t : m >= y
  PROVE  Decimal!Max(t) = m
<1>1. \A x \in t : (\A y \in t : x >= y) => x = m
  OBVIOUS
<1> QED BY <1>1 DEF Decimal!Max

\* The fold over all sets of places, which its definition asks for.
FoldOver(b, skip, v, s, n, F) ==
  F = [t \in SUBSET (1 .. n) |->
         IF t = {} THEN v
         ELSE Appended(b, skip, F[t \ {Decimal!Max(t)}], s[Decimal!Max(t)])]

LEMMA FoldExists ==
  ASSUME NEW b, NEW skip, NEW v, NEW s, NEW n \in Nat
  PROVE  \E F : FoldOver(b, skip, v, s, n, F)
<1> DEFINE S == {k \in Nat : \E F : FoldOver(b, skip, v, s, k, F)}
<1>1. 0 \in S
  <2> DEFINE F == [t \in SUBSET (1 .. 0) |-> v]
             R == [t \in SUBSET (1 .. 0) |->
                     IF t = {} THEN v
                     ELSE Appended(b, skip, F[t \ {Decimal!Max(t)}], s[Decimal!Max(t)])]
  <2>1. \A t \in SUBSET (1 .. 0) : t = {}
    OBVIOUS
  <2>2. F = R
    BY <2>1
  <2>3. FoldOver(b, skip, v, s, 0, F)
    BY <2>2 DEF FoldOver
  <2> QED BY <2>3
<1>2. ASSUME NEW k \in Nat, k \in S PROVE k + 1 \in S
  <2>1. PICK F : FoldOver(b, skip, v, s, k, F)
    BY <1>2
  <2> DEFINE m  == k + 1
             G  == [t \in SUBSET (1 .. m) |->
                      IF m \in t THEN Appended(b, skip, F[t \ {m}], s[m]) ELSE F[t]]
             R  == [t \in SUBSET (1 .. m) |->
                      IF t = {} THEN v
                      ELSE Appended(b, skip, G[t \ {Decimal!Max(t)}], s[Decimal!Max(t)])]
  <2>2. ASSUME NEW t \in SUBSET (1 .. m), m \in t PROVE G[t] = R[t]
    <3>1. t \in SUBSET Nat /\ \A y \in t : m >= y
      OBVIOUS
    <3>2. Decimal!Max(t) = m
      BY <2>2, <3>1, MaxIs
    <3>3. t \ {m} \in SUBSET (1 .. m) /\ m \notin t \ {m}
      OBVIOUS
    <3>4. G[t \ {m}] = F[t \ {m}]
      BY <3>3
    <3>5. R[t] = Appended(b, skip, G[t \ {m}], s[m])
      BY <2>2, <3>2
    <3> QED BY <2>2, <3>4, <3>5
  <2>3. ASSUME NEW t \in SUBSET (1 .. m), m \notin t PROVE G[t] = R[t]
    <3>1. t \in SUBSET (1 .. k) /\ G[t] = F[t]
      BY <2>3
    <3>2. F[t] = IF t = {} THEN v ELSE Appended(b, skip, F[t \ {Decimal!Max(t)}], s[Decimal!Max(t)])
      BY <2>1, <3>1 DEF FoldOver
    <3> DEFINE u == t \ {Decimal!Max(t)}
    <3>3. u \in SUBSET (1 .. m) /\ m \notin u
      BY <2>3
    <3> HIDE DEF u
    <3>4. G[u] = F[u]
      BY <3>3
    <3> HIDE DEF G
    <3> QED BY <3>1, <3>2, <3>4 DEF u
  <2>4. G = R
    <3>1. G = [t \in SUBSET (1 .. m) |-> G[t]] /\ R = [t \in SUBSET (1 .. m) |-> R[t]]
      OBVIOUS
    <3> HIDE DEF G, R
    <3> QED BY <2>2, <2>3, <3>1
  <2>5. FoldOver(b, skip, v, s, k + 1, G)
    BY <2>4 DEF FoldOver
  <2> QED BY <2>5
<1> HIDE DEF S
<1>3. n \in S
  BY <1>1, <1>2, Induction
<1> QED BY <1>3 DEF S

\* The fold takes the characters in their order.
LEMMA WrittenTrace ==
  ASSUME NEW b, NEW skip, NEW v, NEW s, NEW n \in Nat
  PROVE  \E g : Trace(b, skip, v, s, n, g) /\ Written(b, skip, v, s, n) = g[n]
<1> DEFINE F == CHOOSE G : FoldOver(b, skip, v, s, n, G)
           g == [i \in 0 .. n |-> F[1 .. i]]
<1>1. Written(b, skip, v, s, n) = F[1 .. n]
  BY DEF Written, Decimal!MapThenFoldSet, FoldOver, Appended
<1>2. FoldOver(b, skip, v, s, n, F)
  BY FoldExists
<1> HIDE DEF F
<1>3. g[0] = v
  <2>1. 1 .. 0 = {} /\ {} \in SUBSET (1 .. n) /\ 0 \in 0 .. n
    OBVIOUS
  <2>2. F[{}] = v
    BY <1>2, <2>1 DEF FoldOver
  <2> QED BY <2>1, <2>2
<1>4. ASSUME NEW i \in 1 .. n PROVE g[i] = Appended(b, skip, g[i - 1], s[i])
  <2> DEFINE t == 1 .. i
  <2>1. /\ t \in SUBSET (1 .. n) /\ t # {} /\ t \in SUBSET Nat /\ i \in t /\ \A y \in t : i >= y
        /\ i \in 0 .. n /\ i - 1 \in 0 .. n /\ t \ {i} = 1 .. (i - 1)
    OBVIOUS
  <2> HIDE DEF t
  <2>2. Decimal!Max(t) = i
    BY <2>1, MaxIs
  <2>3. F[t] = Appended(b, skip, F[t \ {i}], s[i])
    BY <1>2, <2>1, <2>2 DEF FoldOver
  <2> QED BY <2>1, <2>3 DEF t
<1>5. Trace(b, skip, v, s, n, g)
  BY <1>3, <1>4 DEF Trace
<1>6. n \in 0 .. n
  OBVIOUS
<1> QED BY <1>1, <1>5, <1>6

LEMMA TracesAgree ==
  ASSUME NEW b, NEW skip, NEW v, NEW s, NEW n \in Nat, NEW m \in Nat, m <= n,
         NEW g, Trace(b, skip, v, s, m, g), NEW h, Trace(b, skip, v, s, n, h)
  PROVE  g[m] = h[m]
<1> DEFINE S == {k \in Nat : k <= m => g[k] = h[k]}
<1>1. 0 \in S
  BY DEF Trace
<1>2. ASSUME NEW k \in Nat, k \in S PROVE k + 1 \in S
  <2> SUFFICES ASSUME k + 1 <= m PROVE g[k + 1] = h[k + 1]
    OBVIOUS
  <2>1. k + 1 \in 1 .. m /\ k + 1 \in 1 .. n /\ (k + 1) - 1 = k
    OBVIOUS
  <2>2. g[k + 1] = Appended(b, skip, g[k], s[k + 1]) /\ h[k + 1] = Appended(b, skip, h[k], s[k + 1])
    BY <2>1 DEF Trace
  <2> QED BY <1>2, <2>2
<1> HIDE DEF S
<1>3. m \in S
  BY <1>1, <1>2, Induction
<1> QED BY <1>3 DEF S

LEMMA WrittenNone == \A b, skip, v, s : Written(b, skip, v, s, 0) = v
<1>1. ASSUME NEW b, NEW skip, NEW v, NEW s PROVE Written(b, skip, v, s, 0) = v
  <2>1. PICK g : Trace(b, skip, v, s, 0, g) /\ Written(b, skip, v, s, 0) = g[0]
    BY WrittenTrace
  <2> QED BY <2>1 DEF Trace
<1> QED BY <1>1

\* One more character.
LEMMA WrittenNext ==
  ASSUME NEW b, NEW skip, NEW v, NEW s, NEW n \in Nat
  PROVE  Written(b, skip, v, s, n + 1) = Appended(b, skip, Written(b, skip, v, s, n), s[n + 1])
<1>1. PICK g : Trace(b, skip, v, s, n, g) /\ Written(b, skip, v, s, n) = g[n]
  BY WrittenTrace
<1>2. n + 1 \in Nat /\ n + 1 \in 1 .. (n + 1) /\ (n + 1) - 1 = n /\ n <= n + 1
  OBVIOUS
<1>3. PICK h : Trace(b, skip, v, s, n + 1, h) /\ Written(b, skip, v, s, n + 1) = h[n + 1]
  BY <1>2, WrittenTrace
<1>4. g[n] = h[n]
  BY <1>1, <1>2, <1>3, TracesAgree
<1>5. h[n + 1] = Appended(b, skip, h[n], s[n + 1])
  BY <1>2, <1>3 DEF Trace
<1> QED BY <1>1, <1>3, <1>4, <1>5

\* The same characters write the same number.
LEMMA WrittenSame ==
  ASSUME NEW b, NEW skip, NEW v, NEW s, NEW t, NEW n \in Nat, \A i \in 1 .. n : s[i] = t[i]
  PROVE  Written(b, skip, v, s, n) = Written(b, skip, v, t, n)
<1> DEFINE S == {k \in Nat : k <= n => Written(b, skip, v, s, k) = Written(b, skip, v, t, k)}
<1>1. 0 \in S
  BY WrittenNone
<1>2. ASSUME NEW k \in Nat, k \in S PROVE k + 1 \in S
  <2> SUFFICES ASSUME k + 1 <= n
               PROVE  Written(b, skip, v, s, k + 1) = Written(b, skip, v, t, k + 1)
    OBVIOUS
  <2>1. s[k + 1] = t[k + 1] /\ Written(b, skip, v, s, k) = Written(b, skip, v, t, k)
    BY <1>2
  <2> QED BY <2>1, WrittenNext
<1> HIDE DEF S
<1>3. n \in S
  BY <1>1, <1>2, Induction
<1> QED BY <1>3 DEF S

\* A character before the others.
LEMMA WrittenBefore ==
  ASSUME NEW b, NEW skip, NEW v, NEW s, NEW t, NEW n \in Nat, \A i \in 1 .. n : t[i + 1] = s[i]
  PROVE  Written(b, skip, v, t, n + 1) = Written(b, skip, Appended(b, skip, v, t[1]), s, n)
<1> DEFINE u == Appended(b, skip, v, t[1])
           S == {k \in Nat : k <= n => Written(b, skip, v, t, k + 1) = Written(b, skip, u, s, k)}
<1>1. 0 \in S
  <2>1. Written(b, skip, v, t, 0 + 1) = Appended(b, skip, Written(b, skip, v, t, 0), t[0 + 1])
    BY WrittenNext
  <2>2. Written(b, skip, v, t, 0) = v /\ Written(b, skip, u, s, 0) = u
    BY WrittenNone
  <2> HIDE DEF u
  <2> QED BY <2>1, <2>2 DEF u
<1>2. ASSUME NEW k \in Nat, k \in S PROVE k + 1 \in S
  <2> HIDE DEF u
  <2> SUFFICES ASSUME k + 1 <= n
               PROVE  Written(b, skip, v, t, (k + 1) + 1) = Written(b, skip, u, s, k + 1)
    OBVIOUS
  <2>1. t[(k + 1) + 1] = s[k + 1] /\ Written(b, skip, v, t, k + 1) = Written(b, skip, u, s, k)
    BY <1>2
  <2>2. k + 1 \in Nat
    OBVIOUS
  <2> QED BY <2>1, <2>2, WrittenNext
<1> HIDE DEF S
<1>3. n \in S
  BY <1>1, <1>2, Induction
<1> QED BY <1>3 DEF S

\* What is written is a number, and more characters do not make it smaller.
LEMMA WrittenNat ==
  ASSUME NEW b \in Nat, b >= 1, NEW skip, NEW v \in Nat, NEW s, NEW n \in Nat,
         \A i \in 1 .. n : s[i] = skip \/ s[i] \in Nat
  PROVE  \A m \in 0 .. n : /\ Written(b, skip, v, s, m) \in Nat
                           /\ Written(b, skip, v, s, m) <= Written(b, skip, v, s, n)
<1> DEFINE w(k) == Written(b, skip, v, s, k)
           S == {k \in Nat : k <= n => w(k) \in Nat}
<1>1. ASSUME NEW k \in Nat, k + 1 <= n, w(k) \in Nat PROVE w(k + 1) \in Nat /\ w(k) <= w(k + 1)
  <2>1. w(k + 1) = Appended(b, skip, w(k), s[k + 1])
    BY WrittenNext
  <2>2. s[k + 1] = skip \/ s[k + 1] \in Nat
    BY <1>1
  <2> HIDE DEF w
  <2>3. w(k) * b >= w(k)
    BY <1>1
  <2> QED BY <1>1, <2>1, <2>2, <2>3 DEF Appended
<1>2. 0 \in S
  BY WrittenNone
<1>3. ASSUME NEW k \in Nat, k \in S PROVE k + 1 \in S
  BY <1>1, <1>3
<1>4. \A k \in Nat : k \in S
  <2> HIDE DEF S
  <2> QED BY <1>2, <1>3, Induction
<1> DEFINE T == {k \in Nat : k <= n => w(n - k) <= w(n)}
<1>5. 0 \in T
  BY <1>4
<1>6. ASSUME NEW k \in Nat, k \in T PROVE k + 1 \in T
  <2> HIDE DEF w
  <2> SUFFICES ASSUME k + 1 <= n PROVE w(n - (k + 1)) <= w(n)
    OBVIOUS
  <2>1. n - (k + 1) \in Nat /\ (n - (k + 1)) + 1 = n - k /\ n - k <= n /\ n - k \in Nat
    OBVIOUS
  <2>2. w(n - k) <= w(n)
    BY <1>6
  <2>3. w(n - (k + 1)) \in Nat /\ w(n - k) \in Nat /\ w(n) \in Nat
    BY <1>4, <2>1
  <2>4. w(n - (k + 1)) <= w(n - k)
    BY <1>1, <2>1, <2>3
  <2> QED BY <2>2, <2>3, <2>4
<1>7. \A k \in Nat : k \in T
  <2> HIDE DEF T
  <2> QED BY <1>5, <1>6, Induction
<1>8. ASSUME NEW m \in 0 .. n PROVE w(m) \in Nat /\ w(m) <= w(n)
  <2>1. m \in Nat /\ m <= n /\ n - m \in Nat /\ n - m <= n /\ n - (n - m) = m
    OBVIOUS
  <2> HIDE DEF w
  <2> QED BY <1>4, <1>7, <2>1
<1> QED BY <1>8

\* The numbers of the two modules.
LEMMA WrittenIs ==
  ASSUME NEW v, NEW s, NEW n, DOMAIN s = 1 .. n
  PROVE  /\ Decimal!Value(v, s) = Written(DecimalBase, -1, v, s, n)
         /\ Lit!NumberOf(s) = Written(Lit!WrittenBase, 17, 0, s, n)
<1>1. Decimal!Value(v, s) = Written(DecimalBase, -1, v, s, n)
  BY DEF Decimal!Value, Decimal!Skip, Decimal!FoldLeft, Decimal!MapThenFoldSet, Decimal!Max, Written
<1>2. Lit!NumberOf(s) = Written(Lit!WrittenBase, 17, 0, s, n)
  BY DEF Lit!NumberOf, Lit!Apostrophe, Lit!FoldLeft, Lit!MapThenFoldSet, Lit!Max,
         Decimal!MapThenFoldSet, Decimal!Max, Written
<1> QED BY <1>1, <1>2

----------------------------------------------------------------------------
(* to_string in a base that is not a power of two                          *)

LEMMA DecimalConstants ==
  /\ DecimalBase \in Nat /\ DecimalBase >= 3 /\ DecimalBase < Power(DecimalBits)
  /\ DecimalBits \in Nat /\ DecimalBits >= CharWord /\ CharWord \in Nat /\ CharWord >= 1
  /\ DecimalChars \in Nat
<1>1. /\ DecimalBase \in 3 .. (Power(CharWord) - 1) /\ DecimalBits \in Nat /\ DecimalBits >= CharWord
      /\ DecimalChars \in Nat
  BY DecimalAssumption DEF Power
<1>2. CharWord \in Nat /\ CharWord >= 1
  BY StringConstants
<1>3. Power(CharWord) \in Nat /\ Power(DecimalBits) \in Nat /\ Power(CharWord) <= Power(DecimalBits)
  BY <1>1, <1>2, PowerMonotone
<1> QED BY <1>1, <1>2, <1>3

LEMMA BitLengthIs ==
  ASSUME NEW v \in Nat, v < Power(DecimalBits)
  PROVE  /\ Decimal!BitLength(v) \in 0 .. DecimalBits /\ v < Power(Decimal!BitLength(v))
         /\ Decimal!BitLength(v) = 0 \/ v >= Power(Decimal!BitLength(v) - 1)
         /\ \A m \in Nat : v < Power(m) => Decimal!BitLength(v) <= m
<1> DEFINE P(n) == v < Power(n) /\ (n = 0 \/ v >= Power(n - 1))
           l == CHOOSE n \in 0 .. DecimalBits : P(n)
<1>1. DecimalBits \in Nat
  BY DecimalConstants
<1>2. \E n \in 0 .. DecimalBits : P(n)
  BY <1>1, ShortestPower
<1>3. Decimal!BitLength(v) = l
  BY DEF Decimal!BitLength, Power
<1>4. l \in 0 .. DecimalBits /\ P(l)
  BY <1>2
<1> HIDE DEF l
<1>5. ASSUME NEW m \in Nat, v < Power(m) PROVE l <= m
  <2> SUFFICES ASSUME m + 1 <= l PROVE FALSE
    BY <1>1, <1>4
  <2>1. l - 1 \in Nat /\ m <= l - 1 /\ l # 0
    BY <1>1, <1>4
  <2>2. Power(m) <= Power(l - 1) /\ Power(m) \in Nat /\ Power(l - 1) \in Nat
    BY <2>1, PowerMonotone
  <2> QED BY <1>4, <1>5, <2>1, <2>2
<1> QED BY <1>3, <1>4, <1>5

\* The leading zeros counted, and when they are right.
LEMMA CountMsbIs ==
  ASSUME NEW v \in Nat, NEW n \in 0 .. DecimalBits, v < Power(n)
  PROVE  /\ Decimal!CountMsb(v, n) \in 0 .. n
         /\ n < 2 * CharWord \/ n % CharWord = 0 =>
              Decimal!CountMsb(v, n) = n - Decimal!BitLength(v)
<1> DEFINE part == n % CharWord
           low  == v % Power(part)
           high == v % Power(n - part)
<1>1. DecimalBits \in Nat /\ n \in Nat /\ CharWord \in Nat /\ CharWord > 0
  BY DecimalConstants
<1>2. part \in Nat /\ part <= n
  <2> DEFINE q == n \div CharWord
  <2>1. part \in Nat /\ q \in Int /\ q >= 0 /\ n = CharWord * q + part
    BY <1>1, Dividing
  <2> HIDE DEF q, part
  <2>2. CharWord * q >= 0 /\ CharWord * q \in Int
    BY <1>1, <2>1
  <2> QED BY <1>1, <2>1, <2>2
<1>3. Decimal!CountMsb(v, n) =
        IF n < 2 * CharWord \/ part = 0 THEN n - Decimal!BitLength(v)
        ELSE IF low # 0 THEN part - Decimal!BitLength(low)
        ELSE n - Decimal!BitLength(high)
  BY DEF Decimal!CountMsb, Power
<1> HIDE DEF part
<1>4. /\ low \in Nat /\ low < Power(part) /\ n - part \in Nat
      /\ high \in Nat /\ high < Power(n - part)
  <2>1. n - part \in Nat
    BY <1>1, <1>2
  <2>2. low \in Nat /\ low < Power(part)
    BY <1>2, Remainder
  <2>3. high \in Nat /\ high < Power(n - part)
    BY <2>1, Remainder
  <2> QED BY <2>1, <2>2, <2>3
<1> HIDE DEF low, high
<1>5. ASSUME NEW x \in Nat, NEW m \in 0 .. n, x < Power(m)
      PROVE  Decimal!BitLength(x) \in 0 .. m
  <2>1. m \in Nat /\ m <= DecimalBits
    BY <1>1
  <2>2. Power(m) <= Power(DecimalBits) /\ Power(m) \in Nat /\ Power(DecimalBits) \in Nat
    BY <1>1, <2>1, PowerMonotone
  <2>3. x < Power(DecimalBits)
    BY <1>5, <2>2
  <2>4. Decimal!BitLength(x) \in 0 .. DecimalBits /\ Decimal!BitLength(x) <= m
    BY <1>5, <2>1, <2>3, BitLengthIs
  <2> QED BY <1>1, <2>1, <2>4
<1>6. Decimal!BitLength(v) \in 0 .. n
  BY <1>1, <1>5
<1>7. Decimal!BitLength(low) \in 0 .. part /\ Decimal!BitLength(high) \in 0 .. (n - part)
  <2>1. part \in 0 .. n /\ n - part \in 0 .. n
    BY <1>1, <1>2
  <2> QED BY <1>4, <1>5, <2>1
<1>8. Decimal!CountMsb(v, n) \in 0 .. n
  BY <1>1, <1>2, <1>3, <1>6, <1>7
<1> QED BY <1>3, <1>8 DEF part

\* The number of the bits of a range.
BitsNumber(b) == Decimal!MapThenSumSet(LAMBDA i : b[i] * 2 ^ i, DOMAIN b)

LEMMA BitsNumberIs ==
  ASSUME NEW b, NEW n \in Nat, b \in [0 .. (n - 1) -> {0, 1}]
  PROVE  /\ Decimal!Cardinality(DOMAIN b) = n /\ BitsNumber(b) = Number(b, 0, n)
         /\ BitsNumber(b) \in Nat /\ BitsNumber(b) < Power(n)
<1>1. DOMAIN b = 0 .. (n - 1) /\ \A i \in 0 .. (n - 1) : b[i] \in {0, 1}
  OBVIOUS
<1>2. Decimal!Cardinality(DOMAIN b) = n
  BY <1>1, BitsCount DEF Decimal!Cardinality, Cardinality
<1>3. Digits!Value(b, n) = Number(b, 0, n)
  BY ValueIs
<1>4. BitsNumber(b) = Digits!Value(b, n)
  BY <1>1 DEF BitsNumber, Digits!Value, Digits!MapThenSumSet, Decimal!MapThenSumSet,
              Digits!MapThenFoldSet, Decimal!MapThenFoldSet
<1>5. Binary(b, 0, n)
  BY <1>1 DEF Binary
<1>6. Number(b, 0, n) \in Nat /\ Number(b, 0, n) < Power(n)
  BY <1>5, NumberRange
<1> QED BY <1>2, <1>3, <1>4, <1>6

\* Every bit of the range is a zero or a one.
Filled == \E n \in 1 .. DecimalBits : range \in [0 .. (n - 1) -> {0, 1}]

LEMMA DecimalRange ==
  ASSUME NEW n \in Nat, range \in [0 .. (n - 1) -> {0, 1}]
  PROVE  /\ Decimal!Length = n /\ Decimal!Number = Number(range, 0, n)
         /\ Decimal!Number \in Nat /\ Decimal!Number < Power(n)
<1>1. Decimal!Cardinality(DOMAIN range) = n /\ BitsNumber(range) = Number(range, 0, n)
      /\ BitsNumber(range) \in Nat /\ BitsNumber(range) < Power(n)
  BY BitsNumberIs
<1>2. Decimal!Length = n
  BY <1>1 DEF Decimal!Length
<1>3. Decimal!Number = BitsNumber(range)
  BY DEF Decimal!Number, BitsNumber, Decimal!MapThenSumSet, Decimal!MapThenFoldSet
<1> QED BY <1>1, <1>2, <1>3

LEMMA MaxOfTwo ==
  ASSUME NEW a \in Nat, NEW b \in Nat
  PROVE  Decimal!Max({a, b}) \in Nat /\ Decimal!Max({a, b}) = IF a >= b THEN a ELSE b
<1> DEFINE m == IF a >= b THEN a ELSE b
<1>1. {a, b} \in SUBSET Nat /\ m \in {a, b} /\ (\A y \in {a, b} : m >= y) /\ m \in Nat
  OBVIOUS
<1> HIDE DEF m
<1>2. Decimal!Max({a, b}) = m
  BY <1>1, MaxIs
<1> QED BY <1>1, <1>2 DEF m

\* The characters a + 1 to c of a sequence.
LEMMA PartIs ==
  ASSUME NEW S, NEW s \in Seq(S), NEW a \in Nat, NEW c \in Nat, a <= c, c <= Len(s)
  PROVE  /\ SubSeq(s, a + 1, c) \in Seq(S) /\ Len(SubSeq(s, a + 1, c)) = c - a
         /\ DOMAIN SubSeq(s, a + 1, c) = 1 .. (c - a)
         /\ \A i \in 1 .. (c - a) : SubSeq(s, a + 1, c)[i] = s[a + i]
<1> DEFINE t == SubSeq(s, a + 1, c)
<1>1. \A p \in (a + 1) .. c : s[p] \in S
  <2>1. \A p \in 1 .. Len(s) : s[p] \in S
    BY LenProperties
  <2>2. Len(s) \in Nat
    BY LenProperties
  <2> QED BY <2>1, <2>2
<1>2. a + 1 \in Int /\ c \in Int
  OBVIOUS
<1>3. /\ t \in Seq(S)
      /\ Len(t) = IF a + 1 <= c THEN c - (a + 1) + 1 ELSE 0
      /\ \A p \in 1 .. (c - (a + 1) + 1) : t[p] = s[(a + 1) + p - 1]
  BY <1>1, <1>2, SubSeqProperties
<1> HIDE DEF t
<1>4. Len(t) = c - a /\ c - (a + 1) + 1 = c - a /\ \A p \in 1 .. (c - a) : (a + 1) + p - 1 = a + p
  BY <1>3
<1>5. DOMAIN t = 1 .. Len(t)
  BY <1>3, LenProperties
<1>6. ASSUME NEW i \in 1 .. (c - a) PROVE t[i] = s[a + i]
  BY <1>3, <1>4
<1> QED BY <1>3, <1>4, <1>5, <1>6 DEF t

\* Bits a digit in the base is worth at the least.
LogBase == Decimal!BitLength(DecimalBase) - 1

LEMMA LogBaseIs == LogBase \in Nat /\ LogBase >= 1 /\ Power(LogBase) <= DecimalBase
<1> DEFINE l == Decimal!BitLength(DecimalBase)
<1>1. DecimalBase \in Nat /\ DecimalBase >= 3 /\ DecimalBase < Power(DecimalBits) /\ DecimalBits \in Nat
  BY DecimalConstants
<1>2. l \in 0 .. DecimalBits /\ DecimalBase < Power(l) /\ (l = 0 \/ DecimalBase >= Power(l - 1))
  BY <1>1, BitLengthIs
<1> HIDE DEF l
<1>3. l # 0
  BY <1>1, <1>2, PowerZero
<1>4. l # 1
  <2>1. Power(0 + 1) = 2 * Power(0) /\ 0 + 1 = 1
    BY PowerStep
  <2> QED BY <1>1, <1>2, <2>1, PowerZero
<1> QED BY <1>1, <1>2, <1>3, <1>4 DEF LogBase, l

\* estimate_length is enough for the bits below the zeros it is told of.
LEMMA LengthEstimated ==
  ASSUME NEW n \in 0 .. DecimalBits, range \in [0 .. (n - 1) -> {0, 1}], NEW zeros \in BOOLEAN
  PROVE  /\ Decimal!Estimate(n, zeros) \in Nat /\ Decimal!Estimate(n, zeros) >= 1
         /\ zeros \/ n < 2 * CharWord \/ n % CharWord = 0 =>
              Decimal!Number < Power(LogBase * Decimal!Estimate(n, zeros))
<1> DEFINE N    == Decimal!Number
           bits0 == n - (IF zeros THEN 0 ELSE Decimal!CountMsb(N, n))
           k    == LogBase
           q    == (65536 + k - 1) \div k
           fp   == bits0 * q
           e    == fp \div 65536 + (IF fp % 65536 # 0 THEN 1 ELSE 0)
           room0 == Decimal!Estimate(n, zeros)
<1>1. n \in Nat /\ N \in Nat /\ N < Power(n) /\ DecimalBits \in Nat
  BY DecimalRange, DecimalConstants
<1>2. k \in Nat /\ k >= 1
  BY LogBaseIs
<1>3. bits0 \in 0 .. n
  <2>1. Decimal!CountMsb(N, n) \in 0 .. n
    BY <1>1, CountMsbIs
  <2> QED BY <1>1, <2>1
<1>4. q \in Nat /\ k * q >= 65536
  <2>1. 65536 \in Nat
    OBVIOUS
  <2> QED BY <1>2, <2>1, RoundedUp
<1>5. room0 = Decimal!Max({1, e})
  <2>1. Decimal!BitLength(DecimalBase) - 1 = k /\ Decimal!BitLength(DecimalBase) \in Int
    <3>1. Decimal!BitLength(DecimalBase) \in 0 .. DecimalBits
      BY DecimalConstants, BitLengthIs
    <3> QED BY <1>1, <3>1 DEF LogBase
  <2> DEFINE l == Decimal!BitLength(DecimalBase)
  <2> HIDE DEF l, k
  <2>2. 65536 + l - 2 = 65536 + k - 1 /\ l - 1 = k
    BY <1>2, <2>1 DEF l
  <2>3. (65536 + l - 2) \div (l - 1) = q
    BY <2>2
  <2> DEFINE est(x) ==
               Decimal!Max({1, (bits0 * x) \div 65536 + (IF (bits0 * x) % 65536 # 0 THEN 1 ELSE 0)})
             L == (65536 + l - 2) \div (l - 1)
  <2>4. room0 = est(L)
    BY DEF Decimal!Estimate, l
  <2>5. est(q) = Decimal!Max({1, e})
    OBVIOUS
  <2> HIDE DEF est, room0, e, q
  <2> QED BY <2>3, <2>4, <2>5
<1> HIDE DEF k, q, bits0, N, room0
<1>6. fp \in Nat
  BY <1>1, <1>3, <1>4
<1>7. e \in Nat /\ 65536 * e >= fp
  <2>1. 65536 \in Nat /\ 65536 >= 1
    OBVIOUS
  <2> HIDE DEF fp
  <2> QED BY <1>6, <2>1, RoundedUp
<1>8. room0 \in Nat /\ room0 >= 1 /\ room0 >= e
  <2> HIDE DEF e
  <2> QED BY <1>5, <1>7, MaxOfTwo
<1>9. k * room0 >= bits0
  <2>1. k * e >= bits0
    <3>1. k * (65536 * e) >= k * fp
      <4> HIDE DEF fp, e
      <4>1. 65536 * e \in Int
        BY <1>7
      <4> QED BY <1>2, <1>6, <1>7, <4>1, TimesMonotone
    <3>2. k * fp = bits0 * (k * q)
      BY <1>1, <1>2, <1>3, <1>4
    <3>3. bits0 * (k * q) >= bits0 * 65536
      <4>1. bits0 \in Nat /\ k * q \in Int
        BY <1>1, <1>2, <1>3, <1>4
      <4> QED BY <1>4, <4>1, TimesMonotone
    <3> HIDE DEF fp, e
    <3>4. k * (65536 * e) = 65536 * (k * e) /\ k * e \in Int
      BY <1>2, <1>7
    <3>5. bits0 \in Nat /\ bits0 * (k * q) \in Int
      BY <1>1, <1>2, <1>3, <1>4
    <3> DEFINE ke == k * e
               bkq == bits0 * (k * q)
    <3>6. 65536 * ke >= bkq /\ bkq >= bits0 * 65536 /\ ke \in Int /\ bkq \in Int
      BY <3>1, <3>2, <3>3, <3>4, <3>5
    <3> HIDE DEF ke, bkq
    <3>7. ke >= bits0
      BY <3>5, <3>6
    <3> QED BY <3>7 DEF ke
  <2> HIDE DEF e
  <2>2. k * e <= k * room0
    BY <1>2, <1>7, <1>8, TimesMonotone
  <2>3. k * e \in Int /\ k * room0 \in Int /\ bits0 \in Int
    BY <1>1, <1>2, <1>3, <1>7, <1>8
  <2> QED BY <2>1, <2>2, <2>3
<1>10. ASSUME zeros \/ n < 2 * CharWord \/ n % CharWord = 0
       PROVE  N < Power(k * room0)
  <2>1. N < Power(bits0)
    <3>1. CASE zeros
      BY <1>1, <3>1 DEF bits0
    <3>2. CASE ~zeros
      <4>1. Decimal!CountMsb(N, n) = n - Decimal!BitLength(N)
        BY <1>1, <1>10, <3>2, CountMsbIs
      <4>2. Power(n) <= Power(DecimalBits) /\ Power(n) \in Nat /\ Power(DecimalBits) \in Nat
        BY <1>1, PowerMonotone
      <4>3. N < Power(DecimalBits)
        BY <1>1, <4>2
      <4>4. Decimal!BitLength(N) \in 0 .. DecimalBits /\ N < Power(Decimal!BitLength(N))
        BY <1>1, <4>3, BitLengthIs
      <4>5. bits0 = Decimal!BitLength(N)
        BY <1>1, <3>2, <4>1, <4>4 DEF bits0
      <4> QED BY <4>4, <4>5
    <3> QED BY <3>1, <3>2
  <2> DEFINE m == k * room0
  <2>2. m \in Nat /\ bits0 \in Nat /\ bits0 <= m
    BY <1>1, <1>2, <1>3, <1>8, <1>9
  <2> HIDE DEF m
  <2>3. Power(bits0) <= Power(m) /\ Power(bits0) \in Nat /\ Power(m) \in Nat
    BY <2>2, PowerMonotone
  <2>4. N < Power(m)
    BY <1>1, <2>1, <2>3
  <2> QED BY <2>4 DEF m
<1> QED BY <1>8, <1>10 DEF k, N, room0

\* The number that v and the digits of characters a + 1 to c write.
LEMMA ValueOfPart ==
  ASSUME NEW v \in Nat, NEW s \in Seq(Decimal!Digit \cup {Decimal!Skip}),
         NEW a \in Nat, NEW c \in Nat, a <= c, c <= Len(s)
  PROVE  /\ Decimal!Value(v, SubSeq(s, a + 1, c)) \in Nat
         /\ Decimal!Value(v, SubSeq(s, a + 1, c)) >= v
         /\ a = c => Decimal!Value(v, SubSeq(s, a + 1, c)) = v
<1> DEFINE S == Decimal!Digit \cup {Decimal!Skip}
           t == SubSeq(s, a + 1, c)
           n == c - a
           w == Written(DecimalBase, -1, v, t, n)
<1>1. DecimalBase \in Nat /\ DecimalBase >= 1 /\ n \in Nat
  BY DecimalConstants
<1>2. t \in Seq(S) /\ Len(t) = n /\ DOMAIN t = 1 .. n
  <2> HIDE DEF S
  <2>1. s \in Seq(S)
    BY DEF S
  <2> QED BY <2>1, PartIs
<1>3. Decimal!Value(v, t) = w
  <2> HIDE DEF t, n
  <2> QED BY <1>2, WrittenIs
<1>4. \A i \in 1 .. n : t[i] = -1 \/ t[i] \in Nat
  <2>1. \A i \in 1 .. Len(t) : t[i] \in S
    BY <1>2, LenProperties
  <2> HIDE DEF t, n
  <2>2. \A x \in S : x = -1 \/ x \in Nat
    BY <1>1 DEF Decimal!Digit, Decimal!Skip
  <2> QED BY <1>2, <2>1, <2>2
<1>5. /\ \A m \in 0 .. n : /\ Written(DecimalBase, -1, v, t, m) \in Nat
                           /\ Written(DecimalBase, -1, v, t, m) <= w
      /\ Written(DecimalBase, -1, v, t, 0) = v
  <2> HIDE DEF t, n
  <2> QED BY <1>1, <1>4, WrittenNat, WrittenNone
<1>6. 0 \in 0 .. n /\ n \in 0 .. n
  BY <1>1
<1>7. a = c => n = 0
  OBVIOUS
<1> HIDE DEF t, n
<1> QED BY <1>3, <1>5, <1>6, <1>7 DEF t

LEMMA Quotient ==
  ASSUME NEW v \in Nat
  PROVE  /\ v \div DecimalBase \in Nat /\ v % DecimalBase \in Decimal!Digit
         /\ v % DecimalBase \in Nat /\ v = (v \div DecimalBase) * DecimalBase + (v % DecimalBase)
         /\ v \div DecimalBase <= v
         /\ v \div DecimalBase = 0 => v % DecimalBase = v
<1> DEFINE q == v \div DecimalBase
           r == v % DecimalBase
<1>1. DecimalBase \in Nat /\ DecimalBase > 0 /\ v \in Int /\ v >= 0
  BY DecimalConstants
<1>2. q \in Int /\ r \in Nat /\ r < DecimalBase /\ v = DecimalBase * q + r /\ q >= 0
  BY <1>1, Dividing
<1> HIDE DEF q, r
<1>3. q \in Nat /\ v = q * DecimalBase + r
  BY <1>1, <1>2
<1>4. q <= v
  <2>1. q * 1 <= q * DecimalBase
    BY <1>1, <1>3, TimesMonotone
  <2> QED BY <1>1, <1>2, <1>3, <2>1
<1>5. q = 0 => r = v
  BY <1>1, <1>2
<1>6. r \in Decimal!Digit
  BY <1>1, <1>2 DEF Decimal!Digit
<1> QED BY <1>2, <1>3, <1>4, <1>5, <1>6 DEF q, r

\* A quotient needs a digit less.
LEMMA OneDigitLess ==
  ASSUME NEW v \in Nat, NEW c \in Nat, c >= 1, v < Power(LogBase * c)
  PROVE  v \div DecimalBase < Power(LogBase * (c - 1))
<1> DEFINE q == v \div DecimalBase
           m == LogBase * (c - 1)
           P == Power(m)
<1>1. LogBase \in Nat /\ Power(LogBase) <= DecimalBase /\ Power(LogBase) \in Nat /\ DecimalBase \in Nat
  BY LogBaseIs, PowerNat, DecimalConstants
<1>2. q \in Nat /\ v = q * DecimalBase + (v % DecimalBase) /\ v % DecimalBase \in Nat
  BY Quotient
<1>3. m \in Nat /\ LogBase * c = m + LogBase
  BY <1>1
<1> HIDE DEF m, q
<1>4. P \in Nat /\ Power(m + LogBase) = P * Power(LogBase)
  BY <1>1, <1>3, PowerNat, PowerSum
<1>5. SUFFICES ASSUME q >= P PROVE FALSE
  BY <1>2, <1>4 DEF q, m
<1> HIDE DEF P
<1>6. DecimalBase * P <= DecimalBase * q
  BY <1>1, <1>2, <1>4, <1>5, TimesMonotone
<1>7. P * Power(LogBase) <= P * DecimalBase
  BY <1>1, <1>4, TimesMonotone
<1>8. /\ P * DecimalBase = DecimalBase * P /\ DecimalBase * q = q * DecimalBase
      /\ P * DecimalBase \in Int /\ P * Power(LogBase) \in Int /\ q * DecimalBase \in Int
  BY <1>1, <1>2, <1>4
<1>9. v < P * Power(LogBase)
  BY <1>3, <1>4
<1> QED BY <1>2, <1>6, <1>7, <1>8, <1>9

Characters == Decimal!Digit \cup {Decimal!Fill}

\* A digit before those already there.
LEMMA DigitBefore ==
  ASSUME NEW s \in Seq(Characters), NEW c \in 1 .. Len(s), NEW w \in Nat
  PROVE  LET t == [s EXCEPT ![c] = w % DecimalBase]
         IN  /\ t \in Seq(Characters) /\ Len(t) = Len(s) /\ t[c] = w % DecimalBase
             /\ Decimal!Value(w \div DecimalBase, SubSeq(t, (c - 1) + 1, Len(t)))
                  = Decimal!Value(w, SubSeq(s, c + 1, Len(s)))
<1> DEFINE q == w \div DecimalBase
           r == w % DecimalBase
           t == [s EXCEPT ![c] = r]
           l == Len(s)
           n == l - c
           x == SubSeq(t, (c - 1) + 1, l)
           y == SubSeq(s, c + 1, l)
<1>1. q \in Nat /\ r \in Nat /\ r \in Decimal!Digit /\ w = q * DecimalBase + r
  BY Quotient
<1> HIDE DEF q, r
<1>2. r \in Characters
  BY <1>1 DEF Characters
<1>3. l \in Nat /\ DOMAIN s = 1 .. l
  BY LenProperties
<1>4. t \in Seq(Characters) /\ Len(t) = l /\ \A p \in 1 .. l : t[p] = IF p = c THEN r ELSE s[p]
  BY <1>2, <1>3, LenProperties
<1> HIDE DEF l, t
<1>5. c \in 1 .. l
  BY DEF l
<1>6. c \in Nat /\ n \in Nat /\ c - 1 \in Nat /\ c - 1 <= l /\ c <= l /\ l - (c - 1) = n + 1
  BY <1>3, <1>5
<1>7. DOMAIN x = 1 .. (l - (c - 1)) /\ \A i \in 1 .. (l - (c - 1)) : x[i] = t[(c - 1) + i]
  BY <1>4, <1>6, PartIs
<1>8. DOMAIN y = 1 .. n /\ \A i \in 1 .. n : y[i] = s[c + i]
  <2>1. s \in Seq(Characters) /\ Len(s) = l
    BY DEF l
  <2> QED BY <1>6, <2>1, PartIs
<1> HIDE DEF x, y
<1>9. DOMAIN x = 1 .. (n + 1)
  BY <1>6, <1>7
<1>10. x[1] = r
  <2>1. 1 \in 1 .. (l - (c - 1)) /\ (c - 1) + 1 = c
    BY <1>5, <1>6
  <2> QED BY <1>4, <1>5, <1>7, <2>1
<1>11. ASSUME NEW i \in 1 .. n PROVE x[i + 1] = y[i]
  <2>1. i \in Nat /\ i >= 1 /\ i <= l - c /\ l \in Nat /\ c \in Nat
    BY <1>3, <1>6
  <2>2. i + 1 \in 1 .. (l - (c - 1)) /\ (c - 1) + (i + 1) = c + i /\ c + i \in 1 .. l /\ c + i # c
    BY <2>1
  <2> QED BY <1>4, <1>7, <1>8, <2>2
<1> HIDE DEF n
<1>12. Written(DecimalBase, -1, q, x, n + 1) = Written(DecimalBase, -1, Appended(DecimalBase, -1, q, x[1]), y, n)
  BY <1>6, <1>11, WrittenBefore
<1>13. Appended(DecimalBase, -1, q, x[1]) = w
  BY <1>1, <1>10 DEF Appended
<1>14. Decimal!Value(q, x) = Decimal!Value(w, y)
  BY <1>8, <1>9, <1>12, <1>13, WrittenIs
<1> QED BY <1>4, <1>5, <1>14 DEF q, r, l, t, x, y

\* A digit of w is put in the buffer.
LEMMA PutIs ==
  ASSUME buffer \in Seq(Characters), Len(buffer) = room, cursor \in 1 .. room, room \in Nat,
         NEW w \in Nat, Decimal!Put(w % DecimalBase)
  PROVE  /\ buffer' \in Seq(Characters) /\ Len(buffer') = room
         /\ cursor' \in 0 .. (room - 1) /\ cursor' = cursor - 1
         /\ buffer'[cursor' + 1] = w % DecimalBase
         /\ Decimal!Value(w \div DecimalBase, SubSeq(buffer', cursor' + 1, Len(buffer')))
              = Decimal!Value(w, SubSeq(buffer, cursor + 1, Len(buffer)))
<1> DEFINE t == [buffer EXCEPT ![cursor] = w % DecimalBase]
           V(c, b) == Decimal!Value(w \div DecimalBase, SubSeq(b, c + 1, Len(b)))
           v == Decimal!Value(w, SubSeq(buffer, cursor + 1, Len(buffer)))
<1>1. cursor' = cursor - 1 /\ buffer' = t
  BY DEF Decimal!Put
<1>2. /\ t \in Seq(Characters) /\ Len(t) = room /\ t[cursor] = w % DecimalBase
      /\ V(cursor - 1, t) = v
  BY DigitBefore
<1> HIDE DEF t, V, v
<1>3. cursor' \in 0 .. (room - 1) /\ cursor' + 1 = cursor
  BY <1>1
<1>4. V(cursor', buffer') = v
  BY <1>1, <1>2
<1>5. buffer'[cursor' + 1] = w % DecimalBase
  BY <1>1, <1>2, <1>3
<1> QED BY <1>1, <1>2, <1>3, <1>4, <1>5 DEF V, v

\* Behind the cursor every character has been written.
NoGaps == \A i \in 1 .. Len(buffer) : i > cursor => buffer[i] # Decimal!Fill

\* Between digits what is left and the digits written are the number; what is
\* left has no more bits than a buffer that was estimated has room for, and if
\* nothing is left the digit written last is not a 0 before others.
ToDecimalInv ==
  /\ Filled
  /\ Decimal!TypeOK /\ Decimal!DividedSoFar /\ Decimal!DecimalWritten
  /\ pc \in {"first", "more", "move", "written"} /\ str = <<>>
  /\ version \in {"caller", "zeros", "short"}
  /\ NoGaps
  /\ pc # "written" => Len(buffer) = room /\ cursor <= room
  /\ pc = "first" => cursor = room /\ room >= 1 /\ store_bits = Decimal!Length
  /\ pc \in {"more", "move"} => cursor < room
  /\ Decimal!CountsExactly /\ version # "caller" =>
       /\ pc = "first" => Decimal!Number < Power(LogBase * cursor)
       /\ pc \in {"more", "move"} => vec < Power(LogBase * cursor)
  /\ Decimal!CountsExactly /\ pc \in {"more", "move"} =>
       /\ store_bits = Decimal!Length \/ store_bits <= 2 * CharWord
       /\ vec < Power(2 * CharWord)
       /\ vec # 0 \/ buffer[cursor + 1] # 0 \/ cursor + 1 = room
       /\ pc = "move" => cursor = 0 \/ vec = 0

LEMMA PutLeavesNoGaps ==
  ASSUME NoGaps, buffer \in Seq(Characters), Len(buffer) = room, cursor \in 1 .. room, room \in Nat,
         NEW w \in Nat, Decimal!Put(w % DecimalBase)
  PROVE  NoGaps'
<1> DEFINE t == [buffer EXCEPT ![cursor] = w % DecimalBase]
           e == w % DecimalBase
<1>1. cursor' = cursor - 1 /\ buffer' = t
  BY DEF Decimal!Put
<1>2. DOMAIN buffer = 1 .. room /\ Len(t) = room
  <2>1. DOMAIN buffer = 1 .. room
    BY LenProperties
  <2>2. Len(buffer') = room
    BY PutIs
  <2> QED BY <1>1, <2>1, <2>2
<1>3. e \in Nat /\ Decimal!Fill = -1
  BY Quotient DEF Decimal!Fill
<1>4. \A i \in 1 .. room : t[i] = IF i = cursor THEN e ELSE buffer[i]
  BY <1>2
<1> HIDE DEF t, e
<1>5. ASSUME NEW i \in 1 .. room, i > cursor - 1 PROVE t[i] # Decimal!Fill
  <2>1. CASE i = cursor
    <3>1. t[i] = e
      BY <1>4, <2>1
    <3> QED BY <1>3, <3>1
  <2>2. CASE i # cursor
    <3>1. i > cursor /\ i \in 1 .. Len(buffer)
      BY <1>5, <2>2
    <3> QED BY <1>4, <2>2, <3>1 DEF NoGaps
  <2> QED BY <2>1, <2>2
<1> QED BY <1>1, <1>2, <1>5 DEF NoGaps

\* What an operation leaves as it was.
LEMMA DecimalStays ==
  ASSUME range' = range
  PROVE  /\ Decimal!Length' = Decimal!Length /\ Decimal!Number' = Decimal!Number
         /\ Decimal!CountsExactly' = Decimal!CountsExactly
<1>1. Decimal!Length' = Decimal!Length
  BY DEF Decimal!Length
<1>2. Decimal!Number' = Decimal!Number
  BY DEF Decimal!Number, Decimal!MapThenSumSet, Decimal!MapThenFoldSet
<1>3. Decimal!CountsExactly' = Decimal!CountsExactly
  BY <1>1, <1>2 DEF Decimal!CountsExactly
<1> QED BY <1>1, <1>2, <1>3

LEMMA DecimalFacts ==
  ASSUME Decimal!TypeOK, Filled
  PROVE  /\ Decimal!Length \in 1 .. DecimalBits /\ Decimal!Length \in Nat
         /\ range \in [0 .. (Decimal!Length - 1) -> {0, 1}]
         /\ Decimal!Number \in Nat /\ Decimal!Number < Power(Decimal!Length)
         /\ Decimal!Number < Power(DecimalBits) /\ Power(DecimalBits) \in Nat
         /\ room \in Nat /\ cursor \in Nat /\ buffer \in Seq(Characters)
         /\ vec \in Nat /\ vec < Power(DecimalBits) /\ store_bits \in 0 .. DecimalBits
<1>1. PICK n \in 1 .. DecimalBits : range \in [0 .. (n - 1) -> {0, 1}]
  BY DEF Filled
<1>2. DecimalBits \in Nat /\ n \in Nat /\ n <= DecimalBits
  BY <1>1, DecimalConstants
<1>3. Decimal!Length = n /\ Decimal!Number \in Nat /\ Decimal!Number < Power(n)
  BY <1>1, <1>2, DecimalRange
<1>4. Power(n) \in Nat /\ Power(DecimalBits) \in Nat /\ Power(n) <= Power(DecimalBits)
  BY <1>2, PowerMonotone
<1>5. room \in Nat /\ vec \in 0 .. (Power(DecimalBits) - 1) /\ store_bits \in 0 .. DecimalBits
      /\ buffer \in Seq(Characters)
  BY DEF Decimal!TypeOK, Power, Characters
<1>6. cursor \in Nat
  <2>1. cursor \in 0 .. Decimal!Max({room, Len(str)})
    BY DEF Decimal!TypeOK
  <2> QED BY <2>1
<1> QED BY <1>1, <1>2, <1>3, <1>4, <1>5, <1>6

\* The types after a step of to_string, whose str is empty.
LEMMA ToDecimalType ==
  ASSUME Decimal!TypeOK, str = <<>>, range' = range, str' = str, room' = room,
         version' = version, buffer' \in Seq(Characters), cursor' \in 0 .. room,
         vec' \in Nat, vec' < Power(DecimalBits), store_bits' \in 0 .. DecimalBits,
         pc' \in {"first", "more", "move", "written"}
  PROVE  Decimal!TypeOK'
<1>1. room \in Nat /\ Power(DecimalBits) \in Nat
  BY PowerNat, DecimalConstants DEF Decimal!TypeOK
<1>2. Decimal!Max({room', Len(str')}) = room'
  <2>1. Len(str') = 0 /\ 0 \in Nat
    OBVIOUS
  <2> QED BY <1>1, <2>1, MaxOfTwo
<1>3. vec' \in 0 .. (2 ^ DecimalBits - 1)
  BY <1>1 DEF Power
<1> QED BY <1>2, <1>3 DEF Decimal!TypeOK, Characters

LEMMA ToDecimalInit ==
  ASSUME Decimal!ToInit
  PROVE  ToDecimalInv
<1>1. PICK n \in 1 .. DecimalBits : range \in [0 .. (n - 1) -> {0, 1}]
  BY DEF Decimal!ToInit
<1>2. n \in Nat /\ n \in 0 .. DecimalBits /\ Decimal!Length = n /\ Decimal!Number \in Nat /\ Decimal!Number < Power(n)
  BY <1>1, DecimalConstants, DecimalRange
<1>3. cursor = room /\ vec = 0 /\ store_bits = n /\ str = <<>> /\ pc = "first"
      /\ buffer = [i \in 1 .. room |-> -1]
  BY <1>2 DEF Decimal!ToInit, Decimal!Fill
<1>4. /\ room \in Nat /\ room >= 1 /\ version \in {"caller", "zeros", "short"}
      /\ version # "caller" /\ Decimal!CountsExactly => Decimal!Number < Power(LogBase * room)
  <2>1. CASE version = "caller"
    <3>1. room \in 1 .. DecimalChars
      BY <2>1 DEF Decimal!ToInit
    <3> QED BY <2>1, <3>1, DecimalConstants
  <2>2. CASE version = "zeros"
    <3>1. room = Decimal!Estimate(n, TRUE)
      BY <1>2, <2>2 DEF Decimal!ToInit
    <3> QED BY <1>1, <1>2, <2>2, <3>1, LengthEstimated
  <2>3. CASE version = "short"
    <3>1. room = Decimal!Estimate(n, FALSE)
      BY <1>2, <2>3 DEF Decimal!ToInit
    <3> QED BY <1>1, <1>2, <2>3, <3>1, LengthEstimated DEF Decimal!CountsExactly
  <2> QED BY <2>1, <2>2, <2>3 DEF Decimal!ToInit
<1>5. buffer \in Seq(Characters) /\ Len(buffer) = room
  <2>1. DOMAIN buffer = 1 .. room /\ buffer = [p \in 1 .. room |-> buffer[p]]
        /\ \A p \in 1 .. room : buffer[p] = -1
    BY <1>3
  <2>2. \A p \in 1 .. room : buffer[p] \in Characters
    BY <2>1 DEF Characters, Decimal!Fill
  <2> QED BY <1>4, <2>1, <2>2, SequenceIs
<1>6. Decimal!TypeOK
  <2>1. Decimal!Max({room, Len(str)}) = room
    <3>1. Len(str) = 0 /\ 0 \in Nat
      BY <1>3
    <3> QED BY <1>4, <3>1, MaxOfTwo
  <2>2. str \in Seq(Decimal!Digit \cup {Decimal!Skip})
    BY <1>3
  <2>3. vec \in 0 .. (2 ^ DecimalBits - 1) /\ cursor \in 0 .. room /\ store_bits \in 0 .. DecimalBits
    BY <1>2, <1>3, <1>4, DecimalConstants, PowerPositive DEF Power
  <2>4. \E k \in 1 .. DecimalBits : range \in [0 .. (k - 1) -> {0, 1, Decimal!Old}]
    BY <1>1
  <2>5. buffer \in Seq(Decimal!Digit \cup {Decimal!Fill})
    BY <1>5 DEF Characters
  <2>6. pc \in {"first", "more", "move", "written", "read", "done", "overflow"}
        /\ version \in {"caller", "zeros", "short", "none"} /\ room \in Nat
    BY <1>3, <1>4
  <2> QED BY <2>1, <2>2, <2>3, <2>4, <2>5, <2>6 DEF Decimal!TypeOK
<1>7. Decimal!DividedSoFar /\ Decimal!DecimalWritten
  BY <1>3 DEF Decimal!DividedSoFar, Decimal!DecimalWritten
<1>8. NoGaps
  <2>1. ~ \E i \in 1 .. Len(buffer) : i > cursor
    BY <1>3, <1>4, <1>5
  <2> QED BY <2>1 DEF NoGaps
<1>9. Filled
  BY <1>1 DEF Filled
<1> QED BY <1>2, <1>3, <1>4, <1>5, <1>6, <1>7, <1>8, <1>9 DEF ToDecimalInv

LEMMA ToDecimalFirst ==
  ASSUME ToDecimalInv, Decimal!FirstDigit
  PROVE  ToDecimalInv'
<1> DEFINE N == Decimal!Number
           L == Decimal!Length
<1>1. /\ pc = "first" /\ pc' = "more" /\ vec' = N \div DecimalBase /\ Decimal!Put(N % DecimalBase)
      /\ range' = range /\ version' = version /\ room' = room /\ store_bits' = store_bits /\ str' = str
  BY DEF Decimal!FirstDigit
<1>2. /\ L \in 1 .. DecimalBits /\ L \in Nat /\ range \in [0 .. (L - 1) -> {0, 1}]
      /\ N \in Nat /\ N < Power(L) /\ N < Power(DecimalBits) /\ Power(DecimalBits) \in Nat /\ Power(L) \in Nat
      /\ room \in Nat /\ buffer \in Seq(Characters)
  BY DecimalFacts, PowerNat DEF ToDecimalInv
<1>3. /\ cursor = room /\ room >= 1 /\ store_bits = L /\ Len(buffer) = room
      /\ str = <<>> /\ version \in {"caller", "zeros", "short"}
      /\ Decimal!CountsExactly /\ version # "caller" => N < Power(LogBase * cursor)
  BY <1>1 DEF ToDecimalInv
<1>4. L' = L /\ N' = N /\ Decimal!CountsExactly' = Decimal!CountsExactly
  BY <1>1, DecimalStays
<1> HIDE DEF N, L
<1>5. /\ buffer' \in Seq(Characters) /\ Len(buffer') = room
      /\ cursor' \in 0 .. (room - 1) /\ cursor' = cursor - 1
      /\ buffer'[cursor' + 1] = N % DecimalBase
      /\ Decimal!Value(N \div DecimalBase, SubSeq(buffer', cursor' + 1, Len(buffer')))
           = Decimal!Value(N, SubSeq(buffer, cursor + 1, Len(buffer)))
  <2>1. cursor \in 1 .. room
    BY <1>2, <1>3
  <2> QED BY <1>1, <1>2, <1>3, <2>1, PutIs
<1>6. Decimal!Value(N, SubSeq(buffer, cursor + 1, Len(buffer))) = N
  <2>1. buffer \in Seq(Decimal!Digit \cup {Decimal!Skip})
    BY <1>2 DEF Characters, Decimal!Fill, Decimal!Skip
  <2> QED BY <1>2, <1>3, <2>1, ValueOfPart
<1>7. vec' \in Nat /\ vec' <= N
  BY <1>1, <1>2, Quotient
<1>8. Decimal!TypeOK'
  <2>1. vec' < Power(DecimalBits) /\ cursor' \in 0 .. room /\ store_bits' \in 0 .. DecimalBits
    BY <1>1, <1>2, <1>3, <1>5, <1>7
  <2> QED BY <1>1, <1>3, <1>5, <1>7, <2>1, ToDecimalType DEF ToDecimalInv
<1>9. Decimal!DividedSoFar'
  <2>1. vec' < Power(store_bits')
    BY <1>1, <1>2, <1>3, <1>7
  <2>2. N' = Decimal!Value(vec', SubSeq(buffer', cursor' + 1, Len(buffer')))
    BY <1>1, <1>4, <1>5, <1>6
  <2> QED BY <2>1, <2>2 DEF Decimal!DividedSoFar, Power, N
<1>10. Decimal!DecimalWritten'
  BY <1>1 DEF Decimal!DecimalWritten
<1>11. ASSUME Decimal!CountsExactly, version # "caller" PROVE vec' < Power(LogBase * cursor')
  BY <1>1, <1>2, <1>3, <1>5, <1>11, OneDigitLess
<1>12. Decimal!CountsExactly => vec' < Power(2 * CharWord)
  BY <1>1 DEF Decimal!CountsExactly, Power, N
<1>13. NoGaps'
  <2>1. cursor \in 1 .. room
    BY <1>2, <1>3
  <2> QED BY <1>1, <1>2, <1>3, <2>1, PutLeavesNoGaps DEF ToDecimalInv
<1> QED BY <1>1, <1>2, <1>3, <1>4, <1>5, <1>8, <1>9, <1>10, <1>11, <1>12, <1>13 DEF ToDecimalInv, Filled, L

\* The part of v below 2 ^ n, divided in place.
LEMMA DividedInPlace ==
  ASSUME NEW v \in Nat, NEW n \in Nat
  PROVE  LET u == (v \div Power(n)) * Power(n) + (v % Power(n)) \div DecimalBase
         IN  /\ u \in Nat /\ u <= v /\ (v % Power(n)) % DecimalBase \in Decimal!Digit
             /\ v % Power(n) \in Nat
             /\ v < Power(n) => u = v \div DecimalBase /\ v % Power(n) = v
<1> DEFINE P == Power(n)
           h == v \div P
           l == v % P
           q == l \div DecimalBase
           u == h * P + q
<1>1. P \in Nat /\ P > 0 /\ v \in Int /\ v >= 0
  BY PowerPositive
<1>2. h \in Int /\ h >= 0 /\ l \in Nat /\ v = P * h + l
  BY <1>1, Dividing
<1>3. v < P => h = 0 /\ l = v
  BY <1>1, SmallRemainder
<1> HIDE DEF P, h, l
<1>4. q \in Nat /\ q <= l /\ l % DecimalBase \in Decimal!Digit
  BY <1>2, Quotient
<1> HIDE DEF q
<1>5. u \in Nat /\ u <= v
  <2>1. h * P = P * h /\ P * h \in Int /\ P * h >= 0
    BY <1>1, <1>2
  <2> QED BY <1>2, <1>4, <2>1
<1>6. v < P => u = q /\ l = v
  BY <1>1, <1>3, <1>4
<1>7. l = v => q = v \div DecimalBase
  BY DEF q
<1> HIDE DEF u
<1> QED BY <1>2, <1>4, <1>5, <1>6, <1>7 DEF P, h, l, q, u

LEMMA ToDecimalNextDigit ==
  ASSUME ToDecimalInv, Decimal!NextDigit
  PROVE  ToDecimalInv'
<1> DEFINE N == Decimal!Number
           L == Decimal!Length
           c == Decimal!CountMsb(vec % Power(store_bits), store_bits)
           n == store_bits - c
           low == vec % Power(n)
           u == (vec \div Power(n)) * Power(n) + low \div DecimalBase
           V(v, b, k) == Decimal!Value(v, SubSeq(b, k + 1, Len(b)))
<1>1. /\ pc = "more" /\ cursor # 0 /\ store_bits' = n
      /\ range' = range /\ version' = version /\ room' = room /\ str' = str
      /\ \/ n = 0 /\ pc' = "move" /\ vec' = vec /\ cursor' = cursor /\ buffer' = buffer
         \/ n # 0 /\ pc' = "more" /\ vec' = u /\ Decimal!Put(low % DecimalBase)
  BY DEF Decimal!NextDigit, Power
<1>2. /\ L \in 1 .. DecimalBits /\ L \in Nat /\ range \in [0 .. (L - 1) -> {0, 1}]
      /\ N \in Nat /\ N < Power(L) /\ N < Power(DecimalBits) /\ Power(DecimalBits) \in Nat
      /\ room \in Nat /\ buffer \in Seq(Characters) /\ cursor \in Nat
      /\ vec \in Nat /\ vec < Power(DecimalBits) /\ store_bits \in 0 .. DecimalBits
      /\ store_bits \in Nat
  BY DecimalFacts, DecimalConstants DEF ToDecimalInv
<1>3. /\ cursor < room /\ Len(buffer) = room
      /\ str = <<>> /\ version \in {"caller", "zeros", "short"}
      /\ Decimal!CountsExactly =>
           /\ N = V(vec, buffer, cursor) /\ vec < Power(store_bits)
           /\ version # "caller" => vec < Power(LogBase * cursor)
           /\ store_bits = L \/ store_bits <= 2 * CharWord
           /\ vec < Power(2 * CharWord)
           /\ vec # 0 \/ buffer[cursor + 1] # 0 \/ cursor + 1 = room
  BY <1>1 DEF ToDecimalInv, Decimal!DividedSoFar, Power
<1>4. L' = L /\ N' = N /\ Decimal!CountsExactly' = Decimal!CountsExactly
  BY <1>1, DecimalStays
<1>5. Decimal!CountsExactly => L < 2 * CharWord \/ L % CharWord = 0
  BY DEF Decimal!CountsExactly
<1> HIDE DEF N, L
<1>6. n \in 0 .. store_bits /\ n \in Nat
  <2>1. /\ vec % Power(store_bits) \in Nat /\ vec % Power(store_bits) < Power(store_bits)
    BY <1>2, Remainder
  <2>2. c \in 0 .. store_bits
    BY <1>2, <2>1, CountMsbIs
  <2> HIDE DEF c
  <2> QED BY <1>2, <2>2
<1>7. ASSUME Decimal!CountsExactly
      PROVE  vec < Power(n) /\ n <= 2 * CharWord /\ (vec = 0 => n = 0)
  <2>1. vec % Power(store_bits) = vec
    BY <1>2, <1>3, <1>7, PowerNat, SmallRemainder
  <2>2. store_bits < 2 * CharWord \/ store_bits % CharWord = 0
    <3>1. CASE store_bits = 2 * CharWord
      <4>1. CharWord \in Nat /\ CharWord > 0 /\ 2 * CharWord \in Int /\ 2 \in Int /\ 0 \in 0 .. (CharWord - 1)
            /\ 2 * CharWord = CharWord * 2 + 0
        BY DecimalConstants
      <4>2. (2 * CharWord) % CharWord = 0
        BY <4>1, Divided
      <4> QED BY <3>1, <4>2
    <3>2. CASE store_bits # 2 * CharWord
      BY <1>2, <1>3, <1>5, <1>7, <3>2, DecimalConstants
    <3> QED BY <3>1, <3>2
  <2>3. c = store_bits - Decimal!BitLength(vec)
    <3>1. vec < Power(store_bits)
      BY <1>3, <1>7
    <3> QED BY <1>2, <2>1, <2>2, <3>1, CountMsbIs
  <2>4. /\ Decimal!BitLength(vec) \in 0 .. DecimalBits /\ vec < Power(Decimal!BitLength(vec))
        /\ \A m \in Nat : vec < Power(m) => Decimal!BitLength(vec) <= m
    BY <1>2, BitLengthIs
  <2>5. n = Decimal!BitLength(vec)
    <3> HIDE DEF c
    <3> QED BY <1>2, <2>3, <2>4, DecimalConstants
  <2>6. 2 * CharWord \in Nat
    BY DecimalConstants
  <2>7. vec = 0 => Decimal!BitLength(vec) <= 0
    BY <2>4, PowerZero
  <2> QED BY <1>3, <1>6, <1>7, <2>4, <2>5, <2>6, <2>7
<1> HIDE DEF c, n
<1>8. /\ u \in Nat /\ u <= vec /\ low % DecimalBase \in Decimal!Digit /\ low \in Nat
      /\ vec < Power(n) => u = vec \div DecimalBase /\ low = vec
  BY <1>2, <1>6, DividedInPlace
<1> HIDE DEF low, u
<1>9. CASE n = 0
  <2>1. /\ pc' = "move" /\ vec' = vec /\ cursor' = cursor /\ buffer' = buffer
    BY <1>1, <1>9
  <2>2. Decimal!CountsExactly => vec = 0 /\ vec' < Power(store_bits') /\ store_bits' <= 2 * CharWord
    BY <1>1, <1>2, <1>7, <1>9, <2>1, PowerZero
  <2>3. Decimal!TypeOK'
    <3>1. cursor' \in 0 .. room /\ vec' \in Nat /\ vec' < Power(DecimalBits) /\ store_bits' \in 0 .. DecimalBits
      BY <1>1, <1>2, <1>3, <1>6, <2>1, DecimalConstants
    <3> QED BY <1>1, <1>2, <1>3, <2>1, <3>1, ToDecimalType DEF ToDecimalInv
  <2>4. Decimal!DividedSoFar'
    <3>1. Decimal!CountsExactly => N' = Decimal!Value(vec', SubSeq(buffer', cursor' + 1, Len(buffer')))
      BY <1>3, <1>4, <2>1
    <3> QED BY <1>4, <2>2, <3>1 DEF Decimal!DividedSoFar, Power, N
  <2>5. Decimal!DecimalWritten'
    BY <2>1 DEF Decimal!DecimalWritten
  <2>6. NoGaps'
    BY <2>1 DEF NoGaps, ToDecimalInv
  <2> HIDE DEF V
  <2> QED BY <1>1, <1>2, <1>3, <1>4, <2>1, <2>2, <2>3, <2>4, <2>5, <2>6 DEF ToDecimalInv, Filled
<1>10. CASE n # 0
  <2>1. /\ pc' = "more" /\ vec' = u /\ Decimal!Put(low % DecimalBase)
    BY <1>1, <1>10
  <2>2. /\ buffer' \in Seq(Characters) /\ Len(buffer') = room
        /\ cursor' \in 0 .. (room - 1) /\ cursor' = cursor - 1
        /\ buffer'[cursor' + 1] = low % DecimalBase
        /\ V(low \div DecimalBase, buffer', cursor') = V(low, buffer, cursor)
    <3>1. cursor \in 1 .. room
      BY <1>1, <1>2, <1>3
    <3> QED BY <1>2, <1>3, <1>8, <2>1, <3>1, PutIs
  <2>3. Decimal!TypeOK'
    <3>1. cursor' \in 0 .. room /\ vec' \in Nat /\ vec' < Power(DecimalBits) /\ store_bits' \in 0 .. DecimalBits
      BY <1>1, <1>2, <1>3, <1>6, <1>8, <2>1, <2>2
    <3> QED BY <1>1, <1>2, <1>3, <2>1, <2>2, <3>1, ToDecimalType DEF ToDecimalInv
  <2>4. ASSUME Decimal!CountsExactly
        PROVE  /\ low = vec /\ vec' = vec \div DecimalBase /\ vec' <= vec
               /\ vec' < Power(store_bits') /\ store_bits' <= 2 * CharWord
               /\ vec' < Power(2 * CharWord)
               /\ N = V(vec', buffer', cursor')
               /\ version # "caller" => vec' < Power(LogBase * cursor')
               /\ vec' # 0 \/ buffer'[cursor' + 1] # 0
    <3>1. low = vec /\ vec' = vec \div DecimalBase /\ vec' <= vec /\ vec' \in Nat
          /\ store_bits' = n /\ n <= 2 * CharWord /\ vec < Power(n)
      BY <1>1, <1>7, <1>8, <2>1, <2>4
    <3>2. Power(n) \in Nat /\ Power(2 * CharWord) \in Nat
      BY <1>6, PowerNat, DecimalConstants
    <3>3. vec' < Power(n) /\ vec' < Power(2 * CharWord)
      BY <1>2, <1>3, <2>4, <3>1, <3>2
    <3>4. N = V(vec', buffer', cursor')
      BY <1>3, <2>2, <2>4, <3>1
    <3>5. version # "caller" => vec' < Power(LogBase * cursor')
      BY <1>1, <1>2, <1>3, <2>2, <2>4, <3>1, OneDigitLess
    <3>6. vec' # 0 \/ buffer'[cursor' + 1] # 0
      <4>1. vec' = 0 => vec % DecimalBase = vec
        BY <1>2, <3>1, Quotient
      <4>2. vec # 0
        BY <1>7, <1>10, <2>4
      <4> QED BY <2>2, <3>1, <4>1, <4>2
    <3> QED BY <3>1, <3>3, <3>4, <3>5, <3>6
  <2>5. Decimal!DividedSoFar'
    BY <1>4, <2>4 DEF Decimal!DividedSoFar, Power, N
  <2>6. Decimal!DecimalWritten'
    BY <2>1 DEF Decimal!DecimalWritten
  <2>7. NoGaps'
    <3>1. cursor \in 1 .. room
      BY <1>1, <1>2, <1>3
    <3> QED BY <1>2, <1>3, <1>8, <2>1, <3>1, PutLeavesNoGaps DEF ToDecimalInv
  <2> HIDE DEF V
  <2> QED BY <1>1, <1>2, <1>3, <1>4, <2>1, <2>2, <2>3, <2>4, <2>5, <2>6, <2>7 DEF ToDecimalInv, Filled
<1> QED BY <1>9, <1>10

LEMMA ToDecimalNoRoom ==
  ASSUME ToDecimalInv, Decimal!NoRoom
  PROVE  ToDecimalInv'
<1>1. /\ pc = "more" /\ cursor = 0 /\ pc' = "move" /\ range' = range /\ cursor' = cursor
      /\ version' = version /\ buffer' = buffer /\ room' = room /\ vec' = vec
      /\ store_bits' = store_bits /\ str' = str
  BY DEF Decimal!NoRoom
<1>2. /\ Decimal!Length' = Decimal!Length /\ Decimal!Number' = Decimal!Number
      /\ Decimal!CountsExactly' = Decimal!CountsExactly
  BY <1>1, DecimalStays
<1>3. Decimal!TypeOK'
  BY <1>1, <1>2 DEF ToDecimalInv, Decimal!TypeOK
<1>4. Decimal!DividedSoFar' /\ Decimal!DecimalWritten'
  BY <1>1, <1>2 DEF ToDecimalInv, Decimal!DividedSoFar, Decimal!DecimalWritten, Decimal!Fill
<1>5. NoGaps'
  BY <1>1 DEF NoGaps, ToDecimalInv, Decimal!Fill
<1> QED BY <1>1, <1>2, <1>3, <1>4, <1>5 DEF ToDecimalInv, Filled

LEMMA ToDecimalStutter ==
  ASSUME ToDecimalInv, UNCHANGED <<range, cursor, pc, version, buffer, room, vec, store_bits, str>>
  PROVE  ToDecimalInv'
<1>1. /\ pc' = pc /\ range' = range /\ cursor' = cursor
      /\ version' = version /\ buffer' = buffer /\ room' = room /\ vec' = vec
      /\ store_bits' = store_bits /\ str' = str
  OBVIOUS
<1>2. /\ Decimal!Length' = Decimal!Length /\ Decimal!Number' = Decimal!Number
      /\ Decimal!CountsExactly' = Decimal!CountsExactly
  BY <1>1, DecimalStays
<1>3. Decimal!TypeOK'
  BY <1>1, <1>2 DEF ToDecimalInv, Decimal!TypeOK
<1>4. Decimal!DividedSoFar' /\ Decimal!DecimalWritten'
  BY <1>1, <1>2 DEF ToDecimalInv, Decimal!DividedSoFar, Decimal!DecimalWritten, Decimal!Fill
<1>5. NoGaps'
  BY <1>1 DEF NoGaps, ToDecimalInv, Decimal!Fill
<1> QED BY <1>1, <1>2, <1>3, <1>4, <1>5 DEF ToDecimalInv, Filled

\* The buffer begins with the last digit written; nothing is left of the number
\* unless the caller's buffer is full.
LEMMA ToDecimalMove ==
  ASSUME ToDecimalInv, Decimal!Move
  PROVE  ToDecimalInv'
<1> DEFINE N == Decimal!Number
           V(v, b) == Decimal!Value(v, b)
           digits == SubSeq(buffer, cursor + 1, Len(buffer))
           full == Decimal!CountsExactly
<1>1. /\ pc = "move" /\ pc' = "written" /\ range' = range /\ cursor' = 0
      /\ version' = version /\ buffer' = digits /\ room' = room /\ vec' = vec
      /\ store_bits' = store_bits /\ str' = str
  BY DEF Decimal!Move
<1>2. /\ N' = N /\ full' = full
  BY <1>1, DecimalStays
<1>3. /\ N \in Nat /\ room \in Nat /\ cursor \in Nat /\ buffer \in Seq(Characters) /\ vec \in Nat
      /\ vec < Power(DecimalBits) /\ store_bits \in 0 .. DecimalBits
  BY DecimalFacts DEF ToDecimalInv
<1>4. /\ cursor < room /\ Len(buffer) = room /\ str = <<>>
      /\ version \in {"caller", "zeros", "short"}
      /\ full => /\ N = V(vec, digits)
                 /\ version # "caller" => vec < Power(LogBase * cursor)
                 /\ vec # 0 \/ buffer[cursor + 1] # 0 \/ cursor + 1 = room
                 /\ cursor = 0 \/ vec = 0
  BY <1>1 DEF ToDecimalInv, Decimal!DividedSoFar
<1>5. /\ digits \in Seq(Characters) /\ Len(digits) = room - cursor /\ digits[1] = buffer[cursor + 1]
      /\ \A i \in 1 .. Len(digits) : digits[i] # Decimal!Fill
  <2>1. /\ SubSeq(buffer, cursor + 1, room) \in Seq(Characters)
        /\ Len(SubSeq(buffer, cursor + 1, room)) = room - cursor
        /\ \A i \in 1 .. (room - cursor) : SubSeq(buffer, cursor + 1, room)[i] = buffer[cursor + i]
    BY <1>3, <1>4, PartIs
  <2>2. 1 \in 1 .. (room - cursor)
    BY <1>3, <1>4
  <2>3. ASSUME NEW i \in 1 .. (room - cursor) PROVE buffer[cursor + i] # Decimal!Fill
    <3>1. cursor + i \in 1 .. Len(buffer) /\ cursor + i > cursor
      BY <1>3, <1>4
    <3> QED BY <3>1 DEF NoGaps, ToDecimalInv
  <2> QED BY <1>4, <2>1, <2>2, <2>3
<1>6. Decimal!TypeOK'
  <2>1. cursor' \in 0 .. room
    BY <1>1, <1>3
  <2> QED BY <1>1, <1>3, <1>4, <1>5, <2>1, ToDecimalType DEF ToDecimalInv
<1>7. ASSUME full PROVE N \in Nat /\ vec <= N
  <2>1. buffer \in Seq(Decimal!Digit \cup {Decimal!Skip})
    BY <1>3 DEF Characters, Decimal!Fill, Decimal!Skip
  <2>2. Decimal!Value(vec, SubSeq(buffer, cursor + 1, room)) >= vec
    BY <1>3, <1>4, <2>1, ValueOfPart
  <2> QED BY <1>3, <1>4, <1>7, <2>2
<1>8. ASSUME full, ~(version = "caller" /\ Len(digits) = room) PROVE vec = 0
  <2>1. CASE cursor # 0
    BY <1>4, <1>8, <2>1
  <2>2. CASE cursor = 0
    <3>1. version # "caller"
      BY <1>3, <1>5, <1>8, <2>2
    <3>2. LogBase * cursor = 0
      BY <2>2, LogBaseIs
    <3>3. vec < 1
      BY <1>4, <1>8, <3>1, <3>2, PowerZero
    <3> QED BY <1>3, <3>3
  <2> QED BY <2>1, <2>2
<1> HIDE DEF N, full
<1>9. (LET cut == version = "caller" /\ Len(buffer) = room
       IN  full => /\ \A i \in DOMAIN buffer : buffer[i] # Decimal!Fill
                   /\ IF cut THEN \E v \in 0 .. N : N = V(v, buffer) ELSE N = V(0, buffer)
                   /\ buffer[1] # 0 \/ Len(buffer) = 1 \/ cut)'
  <2>1. ASSUME full, version = "caller" /\ Len(digits) = room
        PROVE  \E v \in 0 .. N : N = V(v, digits)
    <3>1. vec \in 0 .. N /\ N = V(vec, digits)
      BY <1>3, <1>4, <1>7, <2>1
    <3> HIDE DEF V, digits
    <3> QED BY <3>1
  <2>2. ASSUME full, ~(version = "caller" /\ Len(digits) = room)
        PROVE  N = V(0, digits) /\ (digits[1] # 0 \/ Len(digits) = 1)
    <3>1. vec = 0
      BY <1>8, <2>2
    <3>2. N = V(0, digits)
      BY <1>4, <2>2, <3>1
    <3>3. digits[1] # 0 \/ Len(digits) = 1
      BY <1>3, <1>4, <1>5, <2>2, <3>1
    <3> QED BY <3>2, <3>3
  <2>3. \A i \in DOMAIN digits : digits[i] # Decimal!Fill
    BY <1>5, LenProperties
  <2> HIDE DEF digits
  <2> QED BY <1>1, <1>2, <2>1, <2>2, <2>3 DEF Decimal!Fill
<1>10. Decimal!DecimalWritten'
  BY <1>9 DEF Decimal!DecimalWritten, N, full
<1>11. Decimal!DividedSoFar'
  BY <1>1 DEF Decimal!DividedSoFar
<1>12. NoGaps'
  <2> HIDE DEF digits
  <2> QED BY <1>1, <1>5 DEF NoGaps, Decimal!Fill
<1> QED BY <1>1, <1>4, <1>6, <1>10, <1>11, <1>12 DEF ToDecimalInv, Filled

LEMMA ToDecimalNext ==
  ASSUME ToDecimalInv, Decimal!ToNext
  PROVE  ToDecimalInv'
<1>1. CASE Decimal!Finished
  BY <1>1, ToDecimalStutter DEF Decimal!Finished, Decimal!vars
<1> QED BY <1>1, ToDecimalFirst, ToDecimalNextDigit, ToDecimalNoRoom, ToDecimalMove DEF Decimal!ToNext

----------------------------------------------------------------------------
(* from_string in a base that is not a power of two                        *)

\* Between characters the range holds the number read; it is left as it was if
\* there are none.
FromDecimalInv ==
  /\ IF str = <<>> THEN pc = "done" ELSE Filled
  /\ Decimal!TypeOK /\ Decimal!DecimalRead /\ Decimal!ReadSoFar
  /\ version = "none" /\ pc \in {"read", "overflow", "done"}
  /\ Decimal!Length <= CharWord /\ cursor <= Len(str) /\ room = 0

LEMMA SkipsDigits ==
  Decimal!Skip = -1 /\ \A c \in Decimal!Digit : c \in Nat /\ c # -1
BY DecimalConstants DEF Decimal!Skip, Decimal!Digit

\* The number one more character makes.
LEMMA NumberToNext ==
  ASSUME str \in Seq(Decimal!Digit \cup {Decimal!Skip}), NEW c \in Nat, c < Len(str)
  PROVE  /\ Decimal!NumberTo(0) = 0 /\ Decimal!NumberTo(c) \in Nat
         /\ str[c + 1] = Decimal!Skip => Decimal!NumberTo(c + 1) = Decimal!NumberTo(c)
         /\ str[c + 1] # Decimal!Skip =>
              /\ str[c + 1] \in Decimal!Digit
              /\ Decimal!NumberTo(c + 1) = Decimal!NumberTo(c) * DecimalBase + str[c + 1]
<1> DEFINE S == Decimal!Digit \cup {Decimal!Skip}
           T(k) == SubSeq(str, 0 + 1, k)
           w(k) == Written(DecimalBase, -1, 0, str, k)
<1>1. str \in Seq(S) /\ Len(str) \in Nat /\ \A i \in 1 .. Len(str) : str[i] \in S
  BY LenProperties
<1>2. ASSUME NEW k \in Nat, k <= Len(str)
      PROVE  Decimal!NumberTo(k) = w(k) /\ Decimal!NumberTo(k) \in Nat
  <2>1. DOMAIN T(k) = 1 .. (k - 0) /\ \A i \in 1 .. (k - 0) : T(k)[i] = str[0 + i]
    <3> HIDE DEF S
    <3> QED BY <1>1, <1>2, PartIs
  <2>2. k - 0 = k /\ 0 + 1 = 1 /\ \A i \in 1 .. k : 0 + i = i
    BY <1>2
  <2> DEFINE t == T(k)
  <2>3. Decimal!NumberTo(k) = Decimal!Value(0, t)
    BY <2>2 DEF Decimal!NumberTo
  <2>4. Decimal!Value(0, t) \in Nat
    BY <1>1, <1>2, ValueOfPart
  <2>5. DOMAIN t = 1 .. k /\ \A i \in 1 .. k : t[i] = str[i]
    BY <2>1, <2>2
  <2> HIDE DEF t
  <2>6. Decimal!Value(0, t) = Written(DecimalBase, -1, 0, t, k)
    BY <2>5, WrittenIs
  <2>7. Written(DecimalBase, -1, 0, t, k) = w(k)
    BY <1>2, <2>5, WrittenSame
  <2> QED BY <2>3, <2>4, <2>6, <2>7
<1>3. /\ Decimal!NumberTo(0) = w(0) /\ Decimal!NumberTo(c) = w(c) /\ Decimal!NumberTo(c + 1) = w(c + 1)
      /\ Decimal!NumberTo(c) \in Nat /\ c + 1 \in 1 .. Len(str)
  BY <1>1, <1>2
<1>4. w(0) = 0
  BY WrittenNone
<1>5. w(c + 1) = Appended(DecimalBase, -1, w(c), str[c + 1])
  BY WrittenNext
<1> HIDE DEF w
<1>6. str[c + 1] \in S
  BY <1>1, <1>3
<1> QED BY <1>3, <1>4, <1>5, <1>6, SkipsDigits DEF Appended

LEMMA FromDecimalType ==
  ASSUME FromDecimalInv, NEW n \in 1 .. DecimalBits, range' \in [0 .. (n - 1) -> {0, 1, Decimal!Old}],
         cursor' \in 0 .. Len(str), pc' \in {"read", "overflow", "done"},
         UNCHANGED <<version, buffer, room, vec, store_bits, str>>
  PROVE  Decimal!TypeOK'
<1>1. Decimal!Max({room', Len(str')}) = Len(str')
  <2>1. Len(str') \in Nat /\ room' = 0 /\ 0 \in Nat
    BY LenProperties DEF FromDecimalInv, Decimal!TypeOK
  <2> QED BY <2>1, MaxOfTwo
<1> QED BY <1>1 DEF FromDecimalInv, Decimal!TypeOK

LEMMA FromDecimalInit ==
  ASSUME Decimal!FromInit
  PROVE  FromDecimalInv
<1>1. PICK n \in 1 .. CharWord :
        range = [i \in 0 .. (n - 1) |-> IF str = <<>> THEN Decimal!Old ELSE 0]
  BY DEF Decimal!FromInit
<1>2. PICK l \in 0 .. DecimalChars : str \in [1 .. l -> Decimal!Digit \cup {Decimal!Skip}]
  BY DEF Decimal!FromInit
<1>3. n \in Nat /\ n \in 1 .. DecimalBits /\ l \in Nat /\ range \in [0 .. (n - 1) -> {0, 1, Decimal!Old}]
  BY <1>1, <1>2, DecimalConstants
<1>4. str \in Seq(Decimal!Digit \cup {Decimal!Skip}) /\ Len(str) = l
  <2>1. DOMAIN str = 1 .. l /\ str = [p \in 1 .. l |-> str[p]]
        /\ \A p \in 1 .. l : str[p] \in Decimal!Digit \cup {Decimal!Skip}
    BY <1>2
  <2> QED BY <1>3, <2>1, SequenceIs
<1>5. /\ cursor = 0 /\ version = "none" /\ buffer = <<>> /\ room = 0 /\ vec = 0 /\ store_bits = 0
      /\ pc = IF str = <<>> THEN "done" ELSE "read"
  BY DEF Decimal!FromInit
<1>6. Decimal!TypeOK
  <2>1. Decimal!Max({room, Len(str)}) = l
    <3>1. room = 0 /\ 0 \in Nat
      BY <1>5
    <3> QED BY <1>3, <1>4, <3>1, MaxOfTwo
  <2>2. vec \in 0 .. (2 ^ DecimalBits - 1) /\ store_bits \in 0 .. DecimalBits
    BY <1>5, DecimalConstants, PowerPositive DEF Power
  <2> QED BY <1>3, <1>4, <1>5, <2>1, <2>2 DEF Decimal!TypeOK
<1>7. Decimal!Length = n
  BY <1>1, <1>3, BitsCount DEF Decimal!Length, Decimal!Cardinality, Cardinality
<1>8. ASSUME str # <<>> PROVE Decimal!Number = 0 /\ Filled
  <2>1. range \in [0 .. (n - 1) -> {0, 1}]
    BY <1>1, <1>8
  <2>2. Decimal!Number = Number(range, 0, n)
    BY <1>3, <2>1, DecimalRange
  <2>3. \A i \in 0 .. (n - 1) : range[0 + i] = 0
    BY <1>1, <1>8
  <2> QED BY <1>3, <2>1, <2>2, <2>3, NumberZeros DEF Filled
<1>9. Decimal!ReadSoFar
  <2>1. Decimal!NumberTo(0) = 0
    <3>1. 0 \in Nat /\ 0 <= Len(str) /\ 0 + 1 = 1 /\ 0 <= 0
      BY <1>3, <1>4
    <3>2. Decimal!Value(0, SubSeq(str, 0 + 1, 0)) = 0
      BY <1>4, <3>1, ValueOfPart
    <3> QED BY <3>1, <3>2 DEF Decimal!NumberTo
  <2> QED BY <1>5, <1>8, <2>1 DEF Decimal!ReadSoFar
<1>10. Decimal!DecimalRead
  BY <1>1, <1>5 DEF Decimal!DecimalRead
<1>11. n <= CharWord /\ cursor <= Len(str)
  BY <1>3, <1>4, <1>5, DecimalConstants
<1> QED BY <1>5, <1>6, <1>7, <1>8, <1>9, <1>10, <1>11 DEF FromDecimalInv

\* Also if there are no characters.
LEMMA FromDecimalLength ==
  ASSUME FromDecimalInv
  PROVE  /\ Decimal!Length \in 1 .. DecimalBits
         /\ range \in [0 .. (Decimal!Length - 1) -> {0, 1, Decimal!Old}]
         /\ cursor \in Nat /\ cursor <= Len(str) /\ Len(str) \in Nat
         /\ str \in Seq(Decimal!Digit \cup {Decimal!Skip})
<1>1. PICK n \in 1 .. DecimalBits : range \in [0 .. (n - 1) -> {0, 1, Decimal!Old}]
  BY DEF FromDecimalInv, Decimal!TypeOK
<1>2. n \in Nat /\ DOMAIN range = 0 .. (n - 1)
  BY <1>1, DecimalConstants
<1>3. Decimal!Length = n
  BY <1>2, BitsCount DEF Decimal!Length, Decimal!Cardinality, Cardinality
<1>4. cursor \in Nat /\ str \in Seq(Decimal!Digit \cup {Decimal!Skip})
  <2>1. cursor \in 0 .. Decimal!Max({room, Len(str)})
    BY DEF FromDecimalInv, Decimal!TypeOK
  <2> QED BY <2>1 DEF FromDecimalInv, Decimal!TypeOK
<1> QED BY <1>1, <1>3, <1>4, LenProperties DEF FromDecimalInv

LEMMA FromDecimalFacts ==
  ASSUME FromDecimalInv, pc # "done"
  PROVE  /\ str # <<>> /\ Filled
         /\ Decimal!Length \in 1 .. DecimalBits /\ Decimal!Length \in Nat /\ Decimal!Length <= CharWord
         /\ range \in [0 .. (Decimal!Length - 1) -> {0, 1}]
         /\ Decimal!Number \in Nat /\ Decimal!Number < Power(Decimal!Length)
         /\ cursor \in Nat /\ cursor <= Len(str) /\ Len(str) \in Nat
         /\ str \in Seq(Decimal!Digit \cup {Decimal!Skip})
         /\ room = 0 /\ version = "none"
<1>1. str \in Seq(Decimal!Digit \cup {Decimal!Skip})
  BY DEF FromDecimalInv, Decimal!TypeOK
<1>2. str # <<>> /\ Filled /\ Decimal!TypeOK
  BY DEF FromDecimalInv
<1> QED BY <1>1, <1>2, DecimalFacts, LenProperties DEF FromDecimalInv

\* A product that fits the range is what multiplication leaves.
LEMMA ProductsFit ==
  ASSUME FromDecimalInv, pc # "done", NEW p \in Nat
  PROVE  /\ \A x \in Decimal!Products(p) : x \in Nat
         /\ p < Power(Decimal!Length) => Decimal!Products(p) = {p}
<1> DEFINE L == Decimal!Length
           P == Power(L)
           Q == Power(CharWord)
<1>1. P \in Nat /\ P >= 1 /\ Q \in Nat /\ Q >= 1 /\ P <= Q
  BY FromDecimalFacts, DecimalConstants, PowerMonotone
<1>2. Decimal!Products(p) = {p % P, (p + p \div Q) % P}
  BY DEF Decimal!Products, Power
<1> HIDE DEF P, Q
<1>3. p \div Q \in Nat
  <2>1. Q > 0 /\ p \in Int /\ p >= 0
    BY <1>1
  <2>2. p \div Q \in Int /\ p \div Q >= 0
    BY <1>1, <2>1, Dividing
  <2> QED BY <2>2
<1>4. p % P \in Nat /\ (p + p \div Q) % P \in Nat
  <2>1. P > 0 /\ p \in Int /\ p + p \div Q \in Int
    BY <1>1, <1>3
  <2> QED BY <1>1, <2>1, Dividing
<1>5. ASSUME p < P PROVE p % P = p /\ (p + p \div Q) % P = p
  <2>1. p < Q
    BY <1>1, <1>5
  <2>2. p \div Q = 0 /\ p % P = p
    BY <1>1, <1>5, <2>1, SmallRemainder
  <2> QED BY <2>2
<1> QED BY <1>2, <1>4, <1>5 DEF P

\* What the range holds after ToBits.
LEMMA ToBitsIs ==
  ASSUME FromDecimalInv, pc # "done", NEW v \in Nat, range' = Decimal!ToBits(v)
  PROVE  /\ range' \in [0 .. (Decimal!Length - 1) -> {0, 1}]
         /\ Decimal!Length' = Decimal!Length
         /\ Decimal!Number' = v % Power(Decimal!Length)
<1> DEFINE n == Decimal!Length
           b == Decimal!ToBits(v)
<1>1. n \in Nat /\ range \in [0 .. (n - 1) -> {0, 1}]
  BY FromDecimalFacts
<1> HIDE DEF n
<1>2. b = [i \in 0 .. (n - 1) |-> (v \div 2 ^ i) % 2]
  BY <1>1 DEF Decimal!ToBits
<1>3. \A i \in 0 .. (n - 1) : b[0 + i] = (v \div 2 ^ i) % 2
  BY <1>1, <1>2
<1>4. Binary(b, 0, n) /\ Number(b, 0, n) = v % Power(n)
  <2> HIDE DEF b
  <2> QED BY <1>1, <1>3, NumberDigits
<1>5. b \in [0 .. (n - 1) -> {0, 1}]
  <2>1. DOMAIN b = 0 .. (n - 1) /\ b = [i \in 0 .. (n - 1) |-> b[i]]
    BY <1>2
  <2>2. \A i \in 0 .. (n - 1) : b[i] \in {0, 1}
    <3> HIDE DEF b
    <3> QED BY <1>1, <1>4 DEF Binary
  <2> HIDE DEF b
  <2> QED BY <2>1, <2>2
<1> HIDE DEF b
<1>6. Decimal!Cardinality(DOMAIN b) = n /\ BitsNumber(b) = Number(b, 0, n)
  BY <1>1, <1>5, BitsNumberIs
<1>7. Decimal!Length' = Decimal!Cardinality(DOMAIN range')
  BY DEF Decimal!Length
<1>8. Decimal!Number' = BitsNumber(range')
  BY DEF Decimal!Number, BitsNumber, Decimal!MapThenSumSet, Decimal!MapThenFoldSet
<1>9. range' = b
  BY DEF b
<1> QED BY <1>4, <1>5, <1>6, <1>7, <1>8, <1>9 DEF n

LEMMA FromDecimalDigit ==
  ASSUME FromDecimalInv, Decimal!ReadDigit
  PROVE  FromDecimalInv'
<1> DEFINE N == Decimal!Number
           L == Decimal!Length
           P == Power(L)
           e == str[cursor + 1]
           To(k) == Decimal!NumberTo(k)
<1>1. /\ pc = "read" /\ cursor < Len(str) /\ e # Decimal!Skip /\ cursor' = cursor + 1
      /\ version' = version /\ buffer' = buffer /\ room' = room /\ vec' = vec
      /\ store_bits' = store_bits /\ str' = str
  BY DEF Decimal!ReadDigit
<1>2. PICK product \in Decimal!Products(N * DecimalBase) :
        /\ range' = Decimal!ToBits(product + e)
        /\ pc' = IF N * DecimalBase >= P \/ product + e >= P THEN "overflow" ELSE "read"
  BY DEF Decimal!ReadDigit, Power
<1>3. /\ L \in 1 .. DecimalBits /\ L \in Nat /\ L <= CharWord
      /\ N \in Nat /\ N < P /\ P \in Nat /\ cursor \in Nat /\ Len(str) \in Nat
      /\ str \in Seq(Decimal!Digit \cup {Decimal!Skip})
      /\ room = 0 /\ version = "none" /\ DecimalBase \in Nat
  BY <1>1, FromDecimalFacts, PowerNat, DecimalConstants
<1>4. N = To(cursor)
  BY <1>1 DEF FromDecimalInv, Decimal!ReadSoFar
<1>5. e \in Nat /\ To(cursor + 1) = To(cursor) * DecimalBase + e
  <2>1. e \in Decimal!Digit /\ To(cursor + 1) = To(cursor) * DecimalBase + e
    BY <1>1, <1>3, NumberToNext
  <2> QED BY <2>1, SkipsDigits
<1>6. \A k : To(k)' = To(k)
  BY <1>1 DEF Decimal!NumberTo, Decimal!Value, Decimal!FoldLeft, Decimal!MapThenFoldSet
<1> DEFINE p == N * DecimalBase
<1>7. p \in Nat
  BY <1>3
<1>8. product \in Nat /\ (p < P => product = p)
  <2> HIDE DEF p
  <2> QED BY <1>1, <1>2, <1>7, ProductsFit DEF p
<1>9. /\ range' \in [0 .. (L - 1) -> {0, 1}] /\ L' = L
      /\ N' = (product + e) % P
  <2>1. product + e \in Nat
    BY <1>5, <1>8
  <2> QED BY <1>1, <1>2, <2>1, ToBitsIs
<1>10. pc' = IF p >= P \/ product + e >= P THEN "overflow" ELSE "read"
  BY <1>2
<1>11. Decimal!TypeOK'
  <2>1. cursor' \in 0 .. Len(str)
    BY <1>1, <1>3
  <2>2. pc' \in {"read", "overflow", "done"}
    BY <1>10
  <2>3. range' \in [0 .. (L - 1) -> {0, 1, Decimal!Old}]
    BY <1>9
  <2> QED BY <1>1, <1>3, <2>1, <2>2, <2>3, FromDecimalType
<1> HIDE DEF To, N, L, P, p, e
<1>12. To(cursor + 1) = p + e
  BY <1>4, <1>5 DEF p
<1>13. ASSUME pc' = "read" PROVE N' = To(cursor')
  <2>1. p < P /\ product + e < P /\ product + e \in Nat
    BY <1>3, <1>5, <1>7, <1>8, <1>10, <1>13
  <2>2. (product + e) % P = product + e
    BY <1>3, <2>1, SmallRemainder
  <2> QED BY <1>1, <1>8, <1>9, <1>12, <2>1, <2>2
<1>14. ASSUME pc' = "overflow" PROVE To(cursor') >= P /\ To(cursor' - 1) < P
  <2>1. p >= P \/ product + e >= P
    BY <1>10, <1>14
  <2>2. p + e >= P
    BY <1>3, <1>5, <1>7, <1>8, <2>1
  <2>3. cursor' - 1 = cursor
    BY <1>1, <1>3
  <2> QED BY <1>1, <1>3, <1>4, <1>12, <2>2, <2>3
<1>15. Decimal!ReadSoFar'
  BY <1>6, <1>13 DEF Decimal!ReadSoFar, To, N
<1>16. Decimal!DecimalRead'
  <2>1. pc' # "done"
    BY <1>10
  <2>2. Power(L)' = P
    BY <1>9 DEF Power, P
  <2> QED BY <1>6, <1>14, <2>1, <2>2 DEF Decimal!DecimalRead, To, L, P, Power
<1>17. cursor' <= Len(str') /\ pc' \in {"read", "overflow", "done"}
  BY <1>1, <1>3, <1>10
<1>18. str' # <<>> /\ Filled'
  <2>1. str # <<>>
    BY <1>1, FromDecimalFacts
  <2> QED BY <1>1, <1>3, <1>9, <2>1 DEF Filled
<1> QED BY <1>1, <1>3, <1>9, <1>11, <1>15, <1>16, <1>17, <1>18 DEF FromDecimalInv, L

LEMMA FromDecimalStays ==
  ASSUME FromDecimalInv, UNCHANGED <<range, version, buffer, room, vec, store_bits, str>>,
         \/ cursor' = cursor /\ pc' = pc
         \/ Decimal!ReadOther
         \/ Decimal!ReadAll
  PROVE  FromDecimalInv'
<1> DEFINE L == Decimal!Length
           To(k) == Decimal!NumberTo(k)
<1>1. /\ L \in 1 .. DecimalBits /\ range \in [0 .. (L - 1) -> {0, 1, Decimal!Old}]
      /\ cursor \in Nat /\ Len(str) \in Nat /\ cursor <= Len(str)
      /\ str \in Seq(Decimal!Digit \cup {Decimal!Skip})
  BY FromDecimalLength
<1>2. L' = L /\ Decimal!Number' = Decimal!Number
  BY DecimalStays
<1>3. \A k : To(k)' = To(k)
  BY DEF Decimal!NumberTo, Decimal!Value, Decimal!FoldLeft, Decimal!MapThenFoldSet
<1>4. /\ cursor' \in 0 .. Len(str) /\ pc' \in {"read", "overflow", "done"}
      /\ pc' = "read" => pc = "read" /\ To(cursor') = To(cursor)
      /\ pc' = "overflow" => pc = "overflow" /\ cursor' = cursor
      /\ pc' = "done" => \/ pc = "done" /\ cursor' = cursor
                         \/ pc = "read" /\ cursor' = cursor /\ cursor = Len(str)
  <2>1. CASE cursor' = cursor /\ pc' = pc
    BY <1>1, <2>1 DEF FromDecimalInv
  <2>2. CASE Decimal!ReadOther
    <3>1. pc = "read" /\ cursor < Len(str) /\ str[cursor + 1] = Decimal!Skip /\ cursor' = cursor + 1 /\ pc' = pc
      BY <2>2 DEF Decimal!ReadOther
    <3>2. To(cursor + 1) = To(cursor)
      BY <1>1, <3>1, NumberToNext
    <3> QED BY <1>1, <3>1, <3>2
  <2>3. CASE Decimal!ReadAll
    BY <1>1, <2>3 DEF Decimal!ReadAll
  <2> QED BY <2>1, <2>2, <2>3
<1>5. Decimal!TypeOK'
  BY <1>1, <1>4, FromDecimalType
<1>6. str = <<>> => pc = "done" /\ pc' = "done"
  <2>1. str = <<>> => pc = "done"
    BY DEF FromDecimalInv
  <2> QED BY <2>1 DEF Decimal!ReadOther, Decimal!ReadAll
<1>7. Decimal!ReadSoFar' /\ Decimal!DecimalRead'
  BY <1>2, <1>3, <1>4, <1>6 DEF FromDecimalInv, Decimal!ReadSoFar, Decimal!DecimalRead, Decimal!Old
<1> QED BY <1>1, <1>2, <1>4, <1>5, <1>6, <1>7 DEF FromDecimalInv, Filled

LEMMA FromDecimalNext ==
  ASSUME FromDecimalInv, Decimal!FromNext
  PROVE  FromDecimalInv'
<1>1. CASE Decimal!ReadOther
  BY <1>1, FromDecimalStays DEF Decimal!ReadOther
<1>2. CASE Decimal!ReadAll
  BY <1>2, FromDecimalStays DEF Decimal!ReadAll
<1>3. CASE Decimal!Finished
  BY <1>3, FromDecimalStays DEF Decimal!Finished, Decimal!vars
<1> QED BY <1>1, <1>2, <1>3, FromDecimalDigit DEF Decimal!FromNext

----------------------------------------------------------------------------
(* Literals                                                                *)

LEMMA LiteralConstants ==
  /\ NumBits \in Nat /\ NumBits >= 1 /\ LiteralDigits \subseteq 0 .. 15 /\ LiteralChars \in Nat
  /\ Lit!Limit = Power(NumBits) /\ Lit!Limit \in Nat /\ Lit!Limit >= 1
<1>1. NumBits \in Nat /\ NumBits >= 1 /\ LiteralDigits \subseteq 0 .. 15 /\ LiteralChars \in Nat
  BY LiteralsAssumption
<1> QED BY <1>1, PowerPositive DEF Lit!Limit, Power

\* A prefix of none or two characters, and digits of its base with apostrophes
\* between them.
Shape ==
  /\ str \in Seq(0 .. 17) /\ Lit!PrefixChars < Len(str)
  /\ \A i \in (Lit!PrefixChars + 1) .. Len(str) :
       str[i] = 17 \/ (str[i] \in LiteralDigits /\ str[i] < Lit!WrittenBase)
  /\ str[Lit!PrefixChars + 1] # 17 /\ str[Len(str)] # 17
  /\ Lit!PrefixChars = 2 => str[1] = 0 /\ str[2] = IF Lit!WrittenBase = 2 THEN 11 ELSE 16

\* The number that characters a + 1 to c write.
PartNumber(a, c) == Lit!NumberOf(SubSeq(str, a + 1, c))

\* The size has been read, and where the part that is being read begins.
SizeRead == Lit!SizeMark # 0 /\ Lit!SizeMark <= cursor
PartStart == IF SizeRead THEN Lit!SizeMark ELSE Lit!PrefixChars

\* Before the end of the prefix no size and no number, and after it, of a supported
\* literal, those that the characters read write, in the base of the prefix.
LiteralInv ==
  /\ Lit!TypeOK /\ Shape /\ Lit!LiteralCorrect
  /\ pc = "read" /\ cursor < Lit!PrefixChars =>
       base = 0 /\ bits = 0 /\ number = 0 /\ prefix_len = cursor
  /\ pc = "read" /\ cursor >= Lit!PrefixChars /\ Lit!Supported =>
       /\ number = PartNumber(PartStart, cursor)
       /\ bits = IF SizeRead THEN PartNumber(Lit!PrefixChars, Lit!SizeMark - 1) ELSE 0
       /\ base = IF Lit!WrittenBase = 10 /\ ~SizeRead THEN 0 ELSE Lit!WrittenBase
       /\ Lit!WrittenBase # 10 /\ ~SizeRead => prefix_len = 2

LEMMA ShapeFacts ==
  ASSUME Shape
  PROVE  /\ Lit!WrittenBase \in {2, 10, 16} /\ Lit!WrittenBase \in Nat
         /\ Lit!PrefixChars = IF Lit!WrittenBase = 10 THEN 0 ELSE 2
         /\ Lit!PrefixChars \in Nat
         /\ Len(str) \in Nat /\ Lit!PrefixChars < Len(str) /\ DOMAIN str = 1 .. Len(str)
         /\ \A i \in 1 .. Len(str) : str[i] \in 0 .. 17
         /\ \A i \in (Lit!PrefixChars + 1) .. Len(str) :
              str[i] # 17 => str[i] \in Nat /\ str[i] \in LiteralDigits /\ str[i] < Lit!WrittenBase
<1>1. Lit!WrittenBase \in {2, 10, 16}
  BY DEF Lit!WrittenBase
<1>2. Lit!PrefixChars = IF Lit!WrittenBase = 10 THEN 0 ELSE 2
  BY DEF Lit!PrefixChars
<1>3. Len(str) \in Nat /\ DOMAIN str = 1 .. Len(str) /\ \A i \in 1 .. Len(str) : str[i] \in 0 .. 17
  BY LenProperties DEF Shape
<1> QED BY <1>1, <1>2, <1>3, LiteralConstants DEF Shape

LEMMA PartNumberIs ==
  ASSUME Shape, NEW a \in Nat, NEW c \in Nat, Lit!PrefixChars <= a, a <= c, c <= Len(str)
  PROVE  /\ PartNumber(a, a) = 0 /\ PartNumber(a, c) \in Nat
         /\ c < Len(str) => PartNumber(a, c + 1) =
              IF str[c + 1] = 17 THEN PartNumber(a, c)
              ELSE PartNumber(a, c) * Lit!WrittenBase + str[c + 1]
         /\ \A e \in Nat : c <= e /\ e <= Len(str) => PartNumber(a, c) <= PartNumber(a, e)
<1> DEFINE wb == Lit!WrittenBase
           l == Len(str)
           n == l - a
           y == [i \in 1 .. n |-> str[a + i]]
           w(k) == Written(wb, 17, 0, y, k)
<1>1. /\ wb \in Nat /\ wb >= 1 /\ l \in Nat /\ str \in Seq(0 .. 17)
      /\ n \in Nat
  BY ShapeFacts DEF Shape
<1>2. \A i \in 1 .. n : y[i] = 17 \/ y[i] \in Nat
  <2>1. ASSUME NEW i \in 1 .. n PROVE y[i] = 17 \/ y[i] \in Nat
    <3>1. a + i \in 1 .. l
      BY <1>1
    <3> QED BY <3>1, ShapeFacts
  <2> QED BY <2>1
<1>3. ASSUME NEW e \in Nat, a <= e, e <= l PROVE PartNumber(a, e) = w(e - a)
  <2> DEFINE t == SubSeq(str, a + 1, e)
             m == e - a
  <2>1. DOMAIN t = 1 .. m /\ \A i \in 1 .. m : t[i] = str[a + i]
    BY <1>1, <1>3, PartIs
  <2>2. m \in Nat /\ \A i \in 1 .. m : i \in 1 .. n
    BY <1>1, <1>3
  <2>3. \A i \in 1 .. m : t[i] = y[i]
    BY <2>1, <2>2
  <2>4. PartNumber(a, e) = Lit!NumberOf(t)
    BY DEF PartNumber
  <2> HIDE DEF t, y, wb, m
  <2>5. Lit!NumberOf(t) = Written(wb, 17, 0, t, m)
    BY <2>1, WrittenIs DEF wb
  <2>6. Written(wb, 17, 0, t, m) = Written(wb, 17, 0, y, m)
    BY <2>2, <2>3, WrittenSame
  <2> QED BY <2>4, <2>5, <2>6 DEF m
<1> HIDE DEF y, wb, l
<1>4. \A m \in 0 .. n : w(m) \in Nat
  BY <1>1, <1>2, WrittenNat
<1>5. w(0) = 0 /\ PartNumber(a, a) = w(0)
  <2>1. PartNumber(a, a) = w(a - a)
    BY <1>1, <1>3 DEF l
  <2> QED BY <2>1, WrittenNone
<1>6. PartNumber(a, c) = w(c - a) /\ PartNumber(a, c) \in Nat /\ c - a \in Nat
  <2>1. PartNumber(a, c) = w(c - a)
    BY <1>3 DEF l
  <2>2. c - a \in 0 .. n
    BY <1>1 DEF l
  <2> HIDE DEF w
  <2> QED BY <1>4, <2>1, <2>2
<1>7. ASSUME c < l
      PROVE  PartNumber(a, c + 1) =
               IF str[c + 1] = 17 THEN PartNumber(a, c) ELSE PartNumber(a, c) * wb + str[c + 1]
  <2>1. PartNumber(a, c + 1) = w((c + 1) - a)
    BY <1>1, <1>3, <1>7
  <2>2. (c + 1) - a = (c - a) + 1 /\ (c - a) + 1 \in 1 .. n /\ a + ((c - a) + 1) = c + 1
    BY <1>1, <1>6, <1>7
  <2>3. w((c - a) + 1) = Appended(wb, 17, w(c - a), y[(c - a) + 1])
    BY <1>6, WrittenNext
  <2>4. y[(c - a) + 1] = str[c + 1]
    BY <2>2 DEF y
  <2> HIDE DEF w
  <2> QED BY <1>6, <2>1, <2>2, <2>3, <2>4 DEF Appended
<1>8. ASSUME NEW e \in Nat, c <= e, e <= l PROVE PartNumber(a, c) <= PartNumber(a, e)
  <2> DEFINE m == e - a
  <2>1. PartNumber(a, e) = w(m) /\ m \in Nat /\ c - a \in 0 .. m /\ \A i \in 1 .. m : i \in 1 .. n
    BY <1>1, <1>3, <1>6, <1>8
  <2> HIDE DEF m
  <2>2. w(c - a) <= w(m)
    BY <1>1, <1>2, <2>1, WrittenNat
  <2> QED BY <1>6, <2>1, <2>2
<1> QED BY <1>5, <1>6, <1>7, <1>8 DEF l, wb

\* Where the size ends.
LEMMA SizeMarkIs ==
  ASSUME Shape
  PROVE  /\ Lit!SizeMark \in Nat
         /\ Lit!SizeMark = 0 => \A i \in 1 .. Len(str) : str[i] # 17
         /\ Lit!SizeMark # 0 =>
              /\ Lit!PrefixChars + 1 < Lit!SizeMark /\ Lit!SizeMark < Len(str)
              /\ str[Lit!SizeMark] = 17
              /\ \A i \in 1 .. Len(str) : str[i] = 17 => Lit!SizeMark <= i
<1> DEFINE I == {i \in 1 .. Len(str) : str[i] = 17}
           p == Lit!PrefixChars
           l == Len(str)
           m == CHOOSE x \in I : \A y \in I : x <= y
<1>1. Lit!SizeMark = IF I # {} THEN m ELSE 0
  BY DEF Lit!SizeMark, Lit!SelectInSeq, Lit!Min, Lit!Apostrophe
<1>2. /\ l \in Nat /\ p \in {0, 2} /\ p < l /\ str[p + 1] # 17 /\ str[l] # 17
      /\ p = 2 => str[1] # 17 /\ str[2] # 17
  BY ShapeFacts DEF Shape
<1>3. CASE I = {}
  BY <1>1, <1>3
<1>4. CASE I # {}
  <2>1. I \in SUBSET Nat
    BY <1>2
  <2>2. \E x \in I : \A y \in I : x <= y
    BY <1>4, <2>1, LeastOf
  <2>3. m \in I /\ \A y \in I : m <= y
    BY <2>2
  <2> HIDE DEF m
  <2>4. m \in 1 .. l /\ str[m] = 17
    BY <2>3
  <2>5. p + 1 < m /\ m < l
    BY <1>2, <2>4
  <2> QED BY <1>1, <1>2, <1>4, <2>3, <2>4, <2>5
<1> QED BY <1>3, <1>4

\* What a step leaves as it was.
LEMMA LiteralStays ==
  ASSUME str' = str
  PROVE  /\ Lit!WrittenBase' = Lit!WrittenBase /\ Lit!PrefixChars' = Lit!PrefixChars
         /\ Lit!SizeMark' = Lit!SizeMark /\ Lit!Supported' = Lit!Supported
         /\ Lit!Width' = Lit!Width /\ Lit!NumberOf(Lit!DataPart)' = Lit!NumberOf(Lit!DataPart)
         /\ Shape' = Shape /\ \A a, c : PartNumber(a, c)' = PartNumber(a, c)
<1>1. Lit!WrittenBase' = Lit!WrittenBase
  BY DEF Lit!WrittenBase
<1>2. Lit!PrefixChars' = Lit!PrefixChars
  BY <1>1 DEF Lit!PrefixChars
<1>3. Lit!SizeMark' = Lit!SizeMark
  BY DEF Lit!SizeMark, Lit!SelectInSeq, Lit!Min
<1>4. \A s : Lit!NumberOf(s)' = Lit!NumberOf(s)
  BY <1>1 DEF Lit!NumberOf, Lit!FoldLeft, Lit!MapThenFoldSet
<1>5. Lit!DataPart' = Lit!DataPart /\ Lit!SizePart' = Lit!SizePart
  BY <1>2, <1>3 DEF Lit!DataPart, Lit!SizePart
<1>6. /\ Lit!NumberOf(Lit!DataPart)' = Lit!NumberOf(Lit!DataPart)
      /\ Lit!NumberOf(Lit!SizePart)' = Lit!NumberOf(Lit!SizePart)
  BY <1>1, <1>5 DEF Lit!NumberOf, Lit!FoldLeft, Lit!MapThenFoldSet
<1>7. Lit!Supported' = Lit!Supported
  BY <1>3, <1>6 DEF Lit!Supported
<1>8. Lit!Width' = Lit!Width
  BY <1>1, <1>3, <1>5, <1>6 DEF Lit!Width, Lit!BitWidth
<1>9. Shape' = Shape
  BY <1>1, <1>2 DEF Shape
<1>10. \A a, c : PartNumber(a, c)' = PartNumber(a, c)
  BY <1>1 DEF PartNumber, Lit!NumberOf, Lit!FoldLeft, Lit!MapThenFoldSet
<1> QED BY <1>1, <1>2, <1>3, <1>6, <1>7, <1>8, <1>9, <1>10

\* The number and the size a literal writes.
LEMMA PartsAre ==
  /\ Lit!NumberOf(Lit!DataPart) =
       PartNumber(IF Lit!SizeMark = 0 THEN Lit!PrefixChars ELSE Lit!SizeMark, Len(str))
  /\ Lit!NumberOf(Lit!SizePart) = PartNumber(Lit!PrefixChars, Lit!SizeMark - 1)
<1>1. Lit!DataPart = SubSeq(str, (IF Lit!SizeMark = 0 THEN Lit!PrefixChars ELSE Lit!SizeMark) + 1, Len(str))
  BY DEF Lit!DataPart
<1>2. Lit!SizePart = SubSeq(str, Lit!PrefixChars + 1, Lit!SizeMark - 1)
  BY DEF Lit!SizePart
<1> QED BY <1>1, <1>2 DEF PartNumber

LEMMA BitWidthIs ==
  ASSUME NEW v \in Nat, v < Lit!Limit
  PROVE  Lit!BitWidth(v) \in Nat
<1> DEFINE P(n) == v < Power(n) /\ (n = 0 \/ v >= Power(n - 1))
           l == CHOOSE n \in 0 .. NumBits : P(n)
<1>1. NumBits \in Nat /\ v < Power(NumBits)
  BY LiteralConstants
<1>2. \E n \in 0 .. NumBits : P(n)
  BY <1>1, ShortestPower
<1>3. Lit!BitWidth(v) = l
  BY DEF Lit!BitWidth, Power
<1>4. l \in 0 .. NumBits
  BY <1>2
<1> QED BY <1>1, <1>3, <1>4

LEMMA LiteralFacts ==
  ASSUME LiteralInv
  PROVE  /\ cursor \in Nat /\ cursor <= Len(str) /\ Len(str) \in Nat
         /\ base \in {0, 2, 10, 16} /\ base \in Nat /\ bits \in Nat
         /\ number \in Nat /\ number < Lit!Limit
         /\ prefix_len \in Nat /\ prefix_len <= cursor
<1>1. Len(str) \in Nat /\ cursor \in 0 .. Len(str)
  BY ShapeFacts DEF LiteralInv, Lit!TypeOK
<1>2. prefix_len \in 0 .. cursor /\ number \in 0 .. (Lit!Limit - 1) /\ base \in {0, 2, 10, 16} /\ bits \in Nat
  BY DEF LiteralInv, Lit!TypeOK
<1> QED BY <1>1, <1>2, LiteralConstants

LEMMA Wrapped ==
  ASSUME NEW v \in Nat
  PROVE  /\ v % Lit!Limit \in 0 .. (Lit!Limit - 1)
         /\ v < Lit!Limit => v % Lit!Limit = v
<1>1. Lit!Limit \in Nat /\ Lit!Limit > 0 /\ v \in Int
  BY LiteralConstants
<1>2. v % Lit!Limit \in Nat /\ v % Lit!Limit < Lit!Limit
  BY <1>1, Dividing
<1> QED BY <1>1, <1>2, SmallRemainder

\* The types, in the order of the steps of Next.
LEMMA LiteralType ==
  ASSUME LiteralInv, Lit!Next
  PROVE  Lit!TypeOK'
<1>1. /\ cursor \in Nat /\ cursor <= Len(str) /\ Len(str) \in Nat
      /\ base \in {0, 2, 10, 16} /\ base \in Nat /\ bits \in Nat
      /\ number \in Nat /\ number < Lit!Limit /\ number \in 0 .. (Lit!Limit - 1)
      /\ prefix_len \in Nat /\ prefix_len <= cursor /\ pc \in {"read", "array", "refused"}
      /\ Lit!Limit \in Nat /\ Lit!Limit >= 1 /\ 0 \in 0 .. (Lit!Limit - 1)
  BY LiteralFacts, LiteralConstants DEF LiteralInv, Lit!TypeOK
<1>2. ASSUME cursor' = cursor + 1, cursor < Len(str), str' = str, pc' = pc,
             base' \in {0, 2, 10, 16}, bits' \in Nat, number' \in 0 .. (Lit!Limit - 1),
             prefix_len' = prefix_len \/ prefix_len' = prefix_len + 1
      PROVE  Lit!TypeOK'
  <2>1. cursor' \in 0 .. Len(str') /\ prefix_len' \in 0 .. cursor'
    BY <1>1, <1>2
  <2>2. Lit!Limit' = Lit!Limit
    BY DEF Lit!Limit
  <2> QED BY <1>1, <1>2, <2>1, <2>2 DEF Lit!TypeOK
<1>3. CASE Lit!Separator
  BY <1>1, <1>2, <1>3 DEF Lit!Separator, Lit!IsNext, Lit!Passed
<1>4. CASE Lit!SizeEnd
  BY <1>1, <1>2, <1>4 DEF Lit!SizeEnd, Lit!IsNext, Lit!Passed
<1>5. CASE Lit!PrefixEnd(Lit!B, 2) \/ Lit!PrefixEnd(Lit!X, 16)
  BY <1>1, <1>2, <1>5 DEF Lit!PrefixEnd, Lit!IsNext, Lit!Passed
<1>6. ASSUME NEW c \in (LiteralDigits \cup {0}) \ {Lit!B}, Lit!FirstDigit(c)
      PROVE  Lit!TypeOK'
  <2>1. c \in Nat /\ number * 10 + c \in Nat
    BY <1>1, LiteralConstants
  <2>2. (number * 10 + c) % Lit!Limit \in 0 .. (Lit!Limit - 1)
    BY <2>1, Wrapped
  <2> QED BY <1>1, <1>2, <1>6, <2>2 DEF Lit!FirstDigit, Lit!IsNext, Lit!Passed
<1>7. ASSUME NEW c \in LiteralDigits, Lit!Digit(c)
      PROVE  Lit!TypeOK'
  <2>1. c \in Nat /\ number * base + c \in Nat
    BY <1>1, LiteralConstants
  <2>2. (number * base + c) % Lit!Limit \in 0 .. (Lit!Limit - 1)
    BY <2>1, Wrapped
  <2> QED BY <1>1, <1>2, <1>7, <2>2 DEF Lit!Digit, Lit!IsNext, Lit!Passed
<1>8. CASE Lit!Decode
  <2>1. Lit!NaturalBits \in Nat
    <3>1. cursor = Len(str)
      BY <1>8 DEF Lit!Decode
    <3>2. Len(str) - prefix_len \in Nat /\ 4 * (Len(str) - prefix_len) \in Nat /\ Lit!BitWidth(number) \in Nat
      BY <1>1, <3>1, BitWidthIs
    <3> QED BY <1>1, <3>2 DEF Lit!NaturalBits
  <2>2. bits' \in Nat /\ pc' \in {"read", "array", "refused"}
        /\ str' = str /\ cursor' = cursor /\ base' = base /\ prefix_len' = prefix_len /\ number' = number
    BY <1>1, <1>8, <2>1 DEF Lit!Decode
  <2> QED BY <2>2 DEF LiteralInv, Lit!TypeOK, Lit!Limit
<1>9. CASE Lit!Finished
  BY <1>9 DEF Lit!Finished, Lit!vars, LiteralInv, Lit!TypeOK, Lit!Limit
<1> QED BY <1>3, <1>4, <1>5, <1>6, <1>7, <1>8, <1>9 DEF Lit!Next

\* A prefix and what is allowed after it.
LEMMA LiteralShape ==
  ASSUME NEW prefix \in Lit!BasePrefixes, NEW s \in Lit!Allowed(prefix), str = prefix \o s
  PROVE  Shape
<1> DEFINE wb == IF prefix = <<>> THEN 10 ELSE IF prefix = <<0, 11>> THEN 2 ELSE 16
           p  == IF prefix = <<>> THEN 0 ELSE 2
<1>1. prefix \in {<<>>, <<0, 11>>, <<0, 16>>}
  BY DEF Lit!BasePrefixes, Lit!B, Lit!X
<1>2. Lit!BaseOf(prefix) = wb
  <2>1. Len(<<>>) = 0 /\ Len(<<0, 11>>) = 2
    OBVIOUS
  <2>2. <<>> # <<0, 11>>
    BY <2>1
  <2>3. Len(<<0, 16>>) = 2
    OBVIOUS
  <2>4. <<>> # <<0, 16>>
    BY <2>1, <2>3
  <2>5. <<0, 11>>[2] = 11 /\ <<0, 16>>[2] = 16
    OBVIOUS
  <2>6. <<0, 11>> # <<0, 16>>
    BY <2>5
  <2> DEFINE t0 == <<>>
             t1 == <<0, 11>>
             t2 == <<0, 16>>
  <2>7. t0 # t1 /\ t0 # t2 /\ t1 # t2 /\ prefix \in {t0, t1, t2}
    BY <1>1, <2>2, <2>4, <2>6
  <2>8. Lit!BaseOf(prefix) = CASE prefix = t0 -> 10 [] prefix = t1 -> 2 [] prefix = t2 -> 16
    BY DEF Lit!BaseOf, Lit!B, Lit!X
  <2>9. wb = IF prefix = t0 THEN 10 ELSE IF prefix = t1 THEN 2 ELSE 16
    OBVIOUS
  <2> HIDE DEF t0, t1, t2, wb
  <2>10. CASE prefix = t0
    BY <2>7, <2>8, <2>9, <2>10
  <2>11. CASE prefix = t1
    BY <2>7, <2>8, <2>9, <2>11
  <2>12. CASE prefix = t2
    BY <2>7, <2>8, <2>9, <2>12
  <2> QED BY <2>7, <2>10, <2>11, <2>12
<1>3. PICK n \in 1 .. LiteralChars : s \in [1 .. n -> LiteralDigits \cup {17}]
  BY DEF Lit!Allowed, Lit!Apostrophe
<1>4. n \in Nat /\ n >= 1 /\ s \in Seq(0 .. 17) /\ Len(s) = n
  <2>1. DOMAIN s = 1 .. n /\ s = [i \in 1 .. n |-> s[i]] /\ n \in Nat /\ n >= 1
    BY <1>3, LiteralConstants
  <2>2. ASSUME NEW i \in 1 .. n PROVE s[i] \in 0 .. 17
    <3>1. s[i] \in LiteralDigits \cup {17} /\ LiteralDigits \subseteq 0 .. 15
      BY <1>3, LiteralConstants
    <3>2. \A x : x \in 0 .. 15 => x \in 0 .. 17
      OBVIOUS
    <3>3. 17 \in 0 .. 17
      OBVIOUS
    <3> QED BY <3>1, <3>2, <3>3
  <2> QED BY <2>1, <2>2, SequenceIs
<1>5. /\ s[1] # 17 /\ s[n] # 17
      /\ \A i \in 1 .. n : s[i] = 17 \/ (s[i] \in LiteralDigits /\ s[i] < wb)
      /\ prefix = <<>> => s = <<0>> \/ s[1] # 0
  <2>1. /\ s[1] # 17 /\ s[n] # 17
        /\ \A i \in DOMAIN s : s[i] = 17 \/ s[i] < wb
        /\ prefix = <<>> => s = <<0>> \/ s[1] # 0
    BY <1>2, <1>4 DEF Lit!Allowed, Lit!Apostrophe
  <2> HIDE DEF wb
  <2> QED BY <1>3, <2>1
<1>6. /\ p \in {0, 2} /\ Len(prefix) = p /\ prefix \in Seq(0 .. 17)
      /\ p = 2 => prefix[1] = 0 /\ prefix[2] = (IF prefix = <<0, 11>> THEN 11 ELSE 16)
  <2>1. CASE prefix = <<>>
    <3>1. Len(<<>>) = 0 /\ <<>> \in Seq(0 .. 17)
      OBVIOUS
    <3> QED BY <2>1, <3>1
  <2>2. CASE prefix = <<0, 11>>
    <3>1. Len(<<0, 11>>) = 2 /\ <<0, 11>>[1] = 0 /\ <<0, 11>>[2] = 11
      OBVIOUS
    <3>2. <<0, 11>> \in Seq(0 .. 17)
      <4>1. 0 \in 0 .. 17 /\ 11 \in 0 .. 17
        OBVIOUS
      <4> QED BY <4>1
    <3>3. Len(<<>>) = 0
      OBVIOUS
    <3> QED BY <2>2, <3>1, <3>2, <3>3
  <2>3. CASE prefix = <<0, 16>>
    <3>1. Len(<<0, 16>>) = 2 /\ <<0, 16>>[1] = 0 /\ <<0, 16>>[2] = 16
      OBVIOUS
    <3>2. <<0, 16>> \in Seq(0 .. 17)
      <4>1. 0 \in 0 .. 17 /\ 16 \in 0 .. 17
        OBVIOUS
      <4> QED BY <4>1
    <3>3. Len(<<>>) = 0 /\ <<0, 11>>[2] = 11
      OBVIOUS
    <3> QED BY <2>3, <3>1, <3>2, <3>3
  <2> QED BY <1>1, <2>1, <2>2, <2>3
<1>7. /\ str \in Seq(0 .. 17) /\ Len(str) = p + n
      /\ p = 2 => str[1] = prefix[1] /\ str[2] = prefix[2]
      /\ \A i \in 1 .. n : str[p + i] = s[i]
  <2> HIDE DEF p
  <2>1. /\ prefix \o s \in Seq(0 .. 17) /\ Len(prefix \o s) = Len(prefix) + Len(s)
        /\ \A i \in 1 .. (Len(prefix) + Len(s)) :
             (prefix \o s)[i] = IF i <= Len(prefix) THEN prefix[i] ELSE s[i - Len(prefix)]
    BY <1>4, <1>6, ConcatProperties
  <2>2. /\ Len(str) = p + n
        /\ \A i \in 1 .. (p + n) : str[i] = IF i <= p THEN prefix[i] ELSE s[i - p]
    BY <1>4, <1>6, <2>1
  <2>3. p = 2 => str[1] = prefix[1] /\ str[2] = prefix[2]
    BY <1>4, <2>2
  <2>4. ASSUME NEW i \in 1 .. n PROVE str[p + i] = s[i]
    <3>1. p + i \in 1 .. (p + n) /\ ~(p + i <= p) /\ (p + i) - p = i
      BY <1>4, <1>6
    <3> QED BY <2>2, <3>1
  <2> QED BY <2>1, <2>2, <2>3, <2>4
<1>8. Lit!WrittenBase = wb /\ Lit!PrefixChars = p
  <2>1. CASE prefix = <<>>
    <3>1. Len(str) = n /\ p = 0 /\ wb = 10 /\ str[1] = s[1]
      BY <1>4, <1>7, <2>1
    <3>2. n > 1 => str[1] # 0
      <4>1. s = <<0>> => Len(s) = 1
        OBVIOUS
      <4> QED BY <1>4, <1>5, <2>1, <3>1, <4>1
    <3> QED BY <3>1, <3>2 DEF Lit!WrittenBase, Lit!PrefixChars
  <2>2. CASE prefix = <<0, 11>>
    <3>1. /\ Len(str) > 1 /\ str[1] = 0 /\ str[2] = 11 /\ p = 2 /\ wb = 2
      BY <1>4, <1>6, <1>7, <2>2
    <3> QED BY <3>1 DEF Lit!WrittenBase, Lit!PrefixChars, Lit!B
  <2>3. CASE prefix = <<0, 16>>
    <3>1. /\ Len(str) > 1 /\ str[1] = 0 /\ str[2] = 16 /\ p = 2 /\ wb = 16
      BY <1>4, <1>6, <1>7, <2>3
    <3> QED BY <3>1 DEF Lit!WrittenBase, Lit!PrefixChars, Lit!B, Lit!X
  <2> QED BY <1>1, <2>1, <2>2, <2>3
<1>9. p = 2 => str[1] = 0 /\ str[2] = IF wb = 2 THEN 11 ELSE 16
  BY <1>6, <1>7
<1> HIDE DEF p, wb
<1>10. \A i \in (p + 1) .. Len(str) : str[i] = 17 \/ (str[i] \in LiteralDigits /\ str[i] < wb)
  <2>1. ASSUME NEW i \in (p + 1) .. Len(str)
        PROVE  str[i] = 17 \/ (str[i] \in LiteralDigits /\ str[i] < wb)
    <3>1. i - p \in 1 .. n /\ p + (i - p) = i
      BY <1>4, <1>6, <1>7
    <3> QED BY <1>5, <1>7, <3>1
  <2> QED BY <2>1
<1>11. p < Len(str) /\ str[p + 1] # 17 /\ str[Len(str)] # 17
  <2>1. 1 \in 1 .. n /\ n \in 1 .. n
    BY <1>4
  <2> QED BY <1>4, <1>5, <1>6, <1>7, <2>1
<1> QED BY <1>7, <1>8, <1>9, <1>10, <1>11 DEF Shape

LEMMA LiteralInit ==
  ASSUME Lit!Init
  PROVE  LiteralInv
<1>1. Shape
  BY LiteralShape DEF Lit!Init
<1>2. cursor = 0 /\ base = 0 /\ bits = 0 /\ prefix_len = 0 /\ number = 0 /\ pc = "read"
  BY DEF Lit!Init
<1>3. Len(str) \in Nat /\ Lit!PrefixChars \in {0, 2} /\ Lit!WrittenBase \in {2, 10, 16}
      /\ (Lit!PrefixChars = 0 => Lit!WrittenBase = 10)
  BY <1>1, ShapeFacts
<1>4. Lit!TypeOK /\ Lit!LiteralCorrect
  BY <1>2, <1>3, LiteralConstants DEF Lit!TypeOK, Lit!LiteralCorrect
<1>5. ASSUME cursor >= Lit!PrefixChars
      PROVE  /\ ~SizeRead /\ Lit!WrittenBase = 10 /\ PartStart = 0 /\ PartNumber(0, 0) = 0
  <2>1. Lit!PrefixChars = 0
    BY <1>2, <1>3, <1>5
  <2>2. ~SizeRead
    BY <1>1, <1>2, SizeMarkIs DEF SizeRead
  <2>3. PartNumber(0, 0) = 0
    BY <1>1, <1>3, <2>1, PartNumberIs
  <2> QED BY <1>3, <2>1, <2>2, <2>3 DEF PartStart
<1> QED BY <1>1, <1>2, <1>4, <1>5 DEF LiteralInv

\* The characters of the prefix.
LEMMA PrefixStep ==
  ASSUME LiteralInv, Lit!Next, pc = "read", cursor < Lit!PrefixChars
  PROVE  /\ pc' = "read" /\ str' = str /\ cursor' = cursor + 1 /\ bits' = 0 /\ number' = 0
         /\ prefix_len' = cursor'
         /\ base' = IF cursor' = 2 THEN Lit!WrittenBase ELSE 0
<1> DEFINE wb == Lit!WrittenBase
<1>1. /\ Shape /\ base = 0 /\ bits = 0 /\ number = 0 /\ prefix_len = cursor
  BY DEF LiteralInv
<1>2. /\ Lit!PrefixChars = 2 /\ cursor \in {0, 1} /\ wb \in {2, 16} /\ cursor # Len(str)
      /\ str[1] = 0 /\ str[2] = (IF wb = 2 THEN 11 ELSE 16)
  BY <1>1, ShapeFacts, LiteralFacts DEF Shape
<1>3. str[cursor + 1] = IF cursor = 0 THEN 0 ELSE IF wb = 2 THEN 11 ELSE 16
  BY <1>2
<1> HIDE DEF wb
<1>4. CASE Lit!PrefixEnd(Lit!B, 2)
  BY <1>1, <1>2, <1>3, <1>4 DEF Lit!PrefixEnd, Lit!IsNext, Lit!Passed, Lit!B, wb
<1>5. CASE Lit!PrefixEnd(Lit!X, 16)
  BY <1>1, <1>2, <1>3, <1>5 DEF Lit!PrefixEnd, Lit!IsNext, Lit!Passed, Lit!X, wb
<1>6. ASSUME NEW c \in (LiteralDigits \cup {0}) \ {Lit!B}, Lit!FirstDigit(c)
      PROVE  /\ pc' = "read" /\ str' = str /\ cursor' = cursor + 1 /\ bits' = 0 /\ number' = 0
             /\ prefix_len' = cursor' /\ base' = 0 /\ cursor' # 2
  <2>1. c = str[cursor + 1] /\ c # 11 /\ c # 16
    BY <1>6, LiteralConstants DEF Lit!FirstDigit, Lit!IsNext, Lit!B
  <2>2. c = 0 /\ cursor = 0
    BY <1>2, <1>3, <2>1
  <2>3. (0 * 10 + 0) % Lit!Limit = 0
    <3>1. 0 \in Nat /\ 0 < Lit!Limit /\ 0 * 10 + 0 = 0
      BY LiteralConstants
    <3> QED BY <3>1, Wrapped
  <2> QED BY <1>1, <1>6, <2>2, <2>3 DEF Lit!FirstDigit, Lit!IsNext, Lit!Passed
<1>7. ~Lit!Separator /\ ~Lit!SizeEnd
  BY <1>2, <1>3 DEF Lit!Separator, Lit!SizeEnd, Lit!IsNext, Lit!Apostrophe
<1>8. ~Lit!Decode /\ ~Lit!Finished /\ \A c : ~Lit!Digit(c)
  BY <1>1, <1>2 DEF Lit!Decode, Lit!Finished, Lit!Digit
<1> QED BY <1>4, <1>5, <1>6, <1>7, <1>8 DEF Lit!Next, wb

\* A step that reads a character.
LEMMA CharacterRead ==
  ASSUME LiteralInv, Lit!Next
  PROVE  /\ str' = str
         /\ pc = "read" /\ cursor # Len(str) => pc' = "read" /\ cursor' = cursor + 1
         /\ pc = "read" /\ cursor = Len(str) => Lit!Decode
         /\ pc # "read" => Lit!Finished
<1>1. cursor \in Nat /\ Len(str) \in Nat
  BY LiteralFacts
<1>2. CASE Lit!Separator \/ Lit!SizeEnd \/ Lit!PrefixEnd(Lit!B, 2) \/ Lit!PrefixEnd(Lit!X, 16)
  BY <1>1, <1>2 DEF Lit!Separator, Lit!SizeEnd, Lit!PrefixEnd, Lit!IsNext, Lit!Passed
<1>3. ASSUME NEW c, Lit!FirstDigit(c) \/ Lit!Digit(c)
      PROVE  str' = str /\ pc = "read" /\ pc' = "read" /\ cursor' = cursor + 1 /\ cursor # Len(str)
  BY <1>1, <1>3 DEF Lit!FirstDigit, Lit!Digit, Lit!IsNext, Lit!Passed
<1>4. CASE Lit!Decode
  BY <1>4 DEF Lit!Decode
<1>5. CASE Lit!Finished
  BY <1>5 DEF Lit!Finished, Lit!vars
<1> QED BY <1>2, <1>3, <1>4, <1>5 DEF Lit!Next

\* Between two characters of a supported literal after the prefix.
LEMMA Walking ==
  ASSUME LiteralInv, pc = "read", cursor >= Lit!PrefixChars, Lit!Supported
  PROVE  /\ PartStart \in Nat /\ Lit!PrefixChars <= PartStart /\ PartStart <= cursor
         /\ number = PartNumber(PartStart, cursor)
         /\ bits = IF SizeRead THEN PartNumber(Lit!PrefixChars, Lit!SizeMark - 1) ELSE 0
         /\ SizeRead <=> bits # 0
         /\ base = IF Lit!WrittenBase = 10 /\ ~SizeRead THEN 0 ELSE Lit!WrittenBase
         /\ Lit!WrittenBase # 10 /\ ~SizeRead => prefix_len = 2
<1>1. /\ Shape /\ number = PartNumber(PartStart, cursor)
      /\ bits = IF SizeRead THEN PartNumber(Lit!PrefixChars, Lit!SizeMark - 1) ELSE 0
      /\ base = IF Lit!WrittenBase = 10 /\ ~SizeRead THEN 0 ELSE Lit!WrittenBase
      /\ Lit!WrittenBase # 10 /\ ~SizeRead => prefix_len = 2
  BY DEF LiteralInv
<1>2. PartStart \in Nat /\ Lit!PrefixChars <= PartStart /\ PartStart <= cursor
  BY <1>1, ShapeFacts, SizeMarkIs, LiteralFacts DEF PartStart, SizeRead
<1>3. SizeRead => PartNumber(Lit!PrefixChars, Lit!SizeMark - 1) # 0
  BY PartsAre DEF SizeRead, Lit!Supported
<1> QED BY <1>1, <1>2, <1>3

\* A digit is added to the number without a wrap.
LEMMA DigitAdded ==
  ASSUME LiteralInv, pc = "read", cursor >= Lit!PrefixChars, Lit!Supported,
         cursor # Len(str), str[cursor + 1] # 17
  PROVE  /\ (number * Lit!WrittenBase + str[cursor + 1]) % Lit!Limit = PartNumber(PartStart, cursor + 1)
         /\ Lit!SizeMark # cursor + 1
<1> DEFINE a == PartStart
           c == cursor + 1
           v == number * Lit!WrittenBase + str[cursor + 1]
           e == IF SizeRead \/ Lit!SizeMark = 0 THEN Len(str) ELSE Lit!SizeMark - 1
<1>1. /\ Shape /\ cursor \in Nat /\ Len(str) \in Nat /\ cursor < Len(str) /\ Lit!Limit \in Nat
      /\ Lit!SizeMark \in Nat /\ Lit!PrefixChars \in Nat
  BY LiteralFacts, LiteralConstants, SizeMarkIs, ShapeFacts DEF LiteralInv
<1>2. /\ a \in Nat /\ Lit!PrefixChars <= a /\ a <= cursor /\ number = PartNumber(a, cursor)
  BY Walking
<1>3. Lit!SizeMark # c
  BY <1>1, SizeMarkIs
<1>4. e \in Nat /\ c <= e /\ e <= Len(str) /\ c \in Nat /\ a <= c /\ c <= Len(str)
  BY <1>1, <1>2, <1>3, SizeMarkIs DEF SizeRead
<1>5. PartNumber(a, e) < Lit!Limit
  <2>1. CASE SizeRead \/ Lit!SizeMark = 0
    <3>1. PartNumber(a, e) = Lit!NumberOf(Lit!DataPart)
      BY <2>1, PartsAre DEF PartStart, SizeRead
    <3> QED BY <3>1 DEF Lit!Supported
  <2>2. CASE ~SizeRead /\ Lit!SizeMark # 0
    <3>1. PartNumber(a, e) = Lit!NumberOf(Lit!SizePart)
      BY <2>2, PartsAre DEF PartStart
    <3> QED BY <1>1, <2>2, <3>1 DEF Lit!Supported
  <2> QED BY <2>1, <2>2
<1> HIDE DEF a, e
<1>6. v = PartNumber(a, c)
  BY <1>1, <1>2, PartNumberIs
<1>7. PartNumber(a, c) <= PartNumber(a, e) /\ PartNumber(a, c) \in Nat /\ PartNumber(a, e) \in Nat
  <2>1. Lit!PrefixChars <= a /\ a <= e
    BY <1>2, <1>4
  <2>2. PartNumber(a, e) \in Nat
    BY <1>1, <1>2, <1>4, <2>1, PartNumberIs
  <2> HIDE DEF c
  <2> QED BY <1>1, <1>2, <1>4, <2>1, <2>2, PartNumberIs
<1>8. v \in Nat /\ v < Lit!Limit
  BY <1>1, <1>5, <1>6, <1>7
<1> HIDE DEF v
<1>9. v % Lit!Limit = v
  BY <1>8, Wrapped
<1> QED BY <1>3, <1>6, <1>9 DEF v, a, c

\* The characters after the prefix.
LEMMA WalkStep ==
  ASSUME LiteralInv, Lit!Next, pc = "read", cursor >= Lit!PrefixChars, Lit!Supported,
         cursor # Len(str),
         NEW sized, sized = (Lit!SizeMark # 0 /\ Lit!SizeMark <= cursor + 1)
  PROVE  /\ number' = PartNumber(IF sized THEN Lit!SizeMark ELSE Lit!PrefixChars, cursor + 1)
         /\ bits' = IF sized THEN PartNumber(Lit!PrefixChars, Lit!SizeMark - 1) ELSE 0
         /\ base' = IF Lit!WrittenBase = 10 /\ ~sized THEN 0 ELSE Lit!WrittenBase
         /\ Lit!WrittenBase # 10 /\ ~sized => prefix_len' = 2
<1> DEFINE c  == cursor + 1
           x  == str[cursor + 1]
           wb == Lit!WrittenBase
           p  == Lit!PrefixChars
           m  == Lit!SizeMark
           start == IF sized THEN m ELSE p
<1>1. /\ Shape /\ cursor \in Nat /\ Len(str) \in Nat /\ cursor < Len(str) /\ c \in 1 .. Len(str)
      /\ m \in Nat /\ p \in Nat /\ wb \in {2, 10, 16} /\ cursor >= p
  BY LiteralFacts, SizeMarkIs, ShapeFacts DEF LiteralInv
<1>2. /\ PartStart = (IF SizeRead THEN m ELSE p) /\ PartStart \in Nat /\ p <= PartStart /\ PartStart <= cursor
      /\ number = PartNumber(PartStart, cursor)
      /\ bits = IF SizeRead THEN PartNumber(p, m - 1) ELSE 0
      /\ (SizeRead <=> bits # 0)
      /\ base = IF wb = 10 /\ ~SizeRead THEN 0 ELSE wb
      /\ wb # 10 /\ ~SizeRead => prefix_len = 2
      /\ (SizeRead <=> m # 0 /\ m <= cursor)
  BY Walking DEF PartStart, SizeRead
<1>3. x # 17 => x < wb /\ x \in Nat
  <2>1. cursor + 1 \in (Lit!PrefixChars + 1) .. Len(str)
    BY <1>1
  <2>2. \A i \in (Lit!PrefixChars + 1) .. Len(str) :
          str[i] # 17 => str[i] \in Nat /\ str[i] < Lit!WrittenBase
    <3>1. Shape
      BY <1>1
    <3> QED BY <3>1, ShapeFacts
  <2>3. str[cursor + 1] # 17 => str[cursor + 1] \in Nat /\ str[cursor + 1] < Lit!WrittenBase
    BY <2>1, <2>2
  <2> QED BY <2>3
<1>4. x = 17 => m # 0 /\ m <= c
  BY <1>1, SizeMarkIs
<1>5. x # 17 => (sized <=> SizeRead) /\ start = PartStart
  <2>1. x # 17 => m # c
    BY DigitAdded
  <2>2. sized <=> m # 0 /\ m <= c
    OBVIOUS
  <2> HIDE DEF m, p, x
  <2>3. x # 17 => (sized <=> SizeRead)
    BY <1>1, <1>2, <2>1, <2>2
  <2> QED BY <1>2, <2>3
<1>6. x # 17 => (number * wb + x) % Lit!Limit = PartNumber(PartStart, c)
  BY DigitAdded
<1>7. PartNumber(PartStart, c) = IF x = 17 THEN number ELSE number * wb + x
  BY <1>1, <1>2, PartNumberIs
<1>8. c \in Nat /\ p <= c /\ c <= Len(str) /\ PartNumber(c, c) = 0
  BY <1>1, PartNumberIs
<1> HIDE DEF wb, p, m, x
<1>9. CASE Lit!Separator
  <2>1. x = 17 /\ bits # 0 /\ bits' = bits /\ number' = number /\ base' = base
    BY <1>9 DEF Lit!Separator, Lit!IsNext, Lit!Apostrophe, x
  <2>2. SizeRead /\ sized /\ start = PartStart
    BY <1>1, <1>2, <1>4, <2>1 DEF m
  <2> QED BY <1>2, <1>7, <2>1, <2>2 DEF wb, p, m
<1>10. CASE Lit!SizeEnd
  <2>1. x = 17 /\ bits = 0 /\ bits' = number /\ number' = 0 /\ base' = IF base = 0 THEN 10 ELSE base
    BY <1>10 DEF Lit!SizeEnd, Lit!IsNext, Lit!Apostrophe, x
  <2>2. ~SizeRead /\ m # 0 /\ m <= c /\ PartStart = p
    BY <1>2, <1>4, <2>1
  <2>3. m = c /\ m - 1 = cursor
    BY <1>1, <1>2, <2>2
  <2>4. sized /\ start = m
    BY <2>2 DEF m
  <2>5. number' = PartNumber(start, c) /\ bits' = PartNumber(p, m - 1)
    BY <1>2, <1>8, <2>1, <2>2, <2>3, <2>4
  <2>6. base' = wb
    BY <1>1, <1>2, <2>1, <2>2
  <2> QED BY <2>4, <2>5, <2>6 DEF wb, p, m
<1>11. ~Lit!PrefixEnd(Lit!B, 2) /\ ~Lit!PrefixEnd(Lit!X, 16)
  <2>1. SUFFICES ASSUME NEW y \in {11, 16}, x = y, base = 0 PROVE FALSE
    BY DEF Lit!PrefixEnd, Lit!IsNext, Lit!B, Lit!X, x
  <2>2. wb = 10
    BY <1>1, <1>2, <2>1
  <2> QED BY <1>3, <2>1, <2>2
<1>12. ASSUME NEW y, y \in LiteralDigits \cup {0}, Lit!FirstDigit(y) \/ Lit!Digit(y)
       PROVE  number' = PartNumber(start, c) /\ bits' = bits /\ base' = base /\ prefix_len' = prefix_len + (IF base = 0 THEN 1 ELSE 0) /\ x # 17
  <2>1. x = y /\ x # 17
    BY <1>12, LiteralConstants DEF Lit!FirstDigit, Lit!Digit, Lit!IsNext, x
  <2>2. CASE Lit!FirstDigit(y)
    <3>1. /\ base = 0 /\ number' = (number * 10 + y) % Lit!Limit /\ bits' = bits /\ base' = base
          /\ prefix_len' = prefix_len + 1
      BY <2>2 DEF Lit!FirstDigit
    <3>2. wb = 10
      BY <1>1, <1>2, <3>1
    <3> QED BY <1>5, <1>6, <2>1, <3>1, <3>2
  <2>3. CASE Lit!Digit(y)
    <3>1. /\ base # 0 /\ number' = (number * base + y) % Lit!Limit /\ bits' = bits /\ base' = base
          /\ prefix_len' = prefix_len
      BY <2>3 DEF Lit!Digit
    <3>2. base = wb /\ prefix_len + 0 = prefix_len
      BY <1>2, <3>1, LiteralFacts
    <3> QED BY <1>5, <1>6, <2>1, <3>1, <3>2
  <2> QED BY <1>12, <2>2, <2>3
<1>13. ASSUME NEW y, y \in LiteralDigits \cup {0}, Lit!FirstDigit(y) \/ Lit!Digit(y)
       PROVE  /\ number' = PartNumber(start, c)
              /\ bits' = IF sized THEN PartNumber(p, m - 1) ELSE 0
              /\ base' = IF wb = 10 /\ ~sized THEN 0 ELSE wb
              /\ wb # 10 /\ ~sized => prefix_len' = 2
  <2>1. /\ number' = PartNumber(start, c) /\ bits' = bits /\ base' = base /\ x # 17
        /\ prefix_len' = prefix_len + (IF base = 0 THEN 1 ELSE 0)
    BY <1>12, <1>13
  <2>2. sized <=> SizeRead
    BY <1>5, <2>1
  <2>3. wb # 10 /\ ~sized => prefix_len' = 2
    BY <1>1, <1>2, <2>1, <2>2
  <2> QED BY <1>2, <2>1, <2>2, <2>3
<1>14. ~Lit!Decode /\ ~Lit!Finished
  BY DEF Lit!Decode, Lit!Finished
<1> QED BY <1>9, <1>10, <1>11, <1>13, <1>14 DEF Lit!Next, wb, p, m

\* The decoding of all the characters.
LEMMA DecodeStep ==
  ASSUME LiteralInv, Lit!Decode
  PROVE  Lit!LiteralCorrect'
<1> DEFINE wb == Lit!WrittenBase
           p  == Lit!PrefixChars
           m  == Lit!SizeMark
           l  == Len(str)
           data == Lit!NumberOf(Lit!DataPart)
<1>1. /\ pc = "read" /\ cursor = l /\ str' = str /\ number' = number
      /\ bits' = (IF bits # 0 THEN bits ELSE Lit!NaturalBits)
      /\ pc' = IF bits' < NumBits /\ number <= 2 ^ bits' - 1 THEN "array" ELSE "refused"
  BY DEF Lit!Decode
<1>2. /\ Lit!Supported' = Lit!Supported /\ Lit!Width' = Lit!Width /\ (Lit!NumberOf(Lit!DataPart))' = data
  BY <1>1, LiteralStays
<1>3. SUFFICES ASSUME Lit!Supported
               PROVE  bits' = Lit!Width /\ number' = data /\ bits' \in Nat
  <2>0. SUFFICES ASSUME Lit!Supported PROVE Lit!LiteralCorrect'
    BY <1>2 DEF Lit!LiteralCorrect
  <2>1. bits' = Lit!Width /\ number' = data /\ bits' \in Nat
    BY <1>3, <2>0
  <2>2. Power(bits') = 2 ^ bits' /\ Power(bits') \in Nat /\ number \in Nat
    BY <2>1, PowerPositive, LiteralFacts DEF Power
  <2>3. number <= 2 ^ bits' - 1 <=> number < 2 ^ bits'
    BY <2>2
  <2> HIDE DEF data
  <2> QED BY <1>1, <1>2, <2>1, <2>3 DEF Lit!LiteralCorrect
<1>4. /\ Shape /\ l \in Nat /\ m \in Nat /\ p \in Nat /\ p < l /\ (m < l \/ m = 0)
      /\ wb \in {2, 10, 16} /\ p = (IF wb = 10 THEN 0 ELSE 2)
  BY LiteralFacts, SizeMarkIs, ShapeFacts DEF LiteralInv
<1>5. /\ number = PartNumber(PartStart, l)
      /\ bits = IF SizeRead THEN PartNumber(p, m - 1) ELSE 0
      /\ (SizeRead <=> bits # 0)
      /\ base = IF wb = 10 /\ ~SizeRead THEN 0 ELSE wb
      /\ wb # 10 /\ ~SizeRead => prefix_len = 2
  BY <1>1, <1>3, Walking, ShapeFacts DEF LiteralInv
<1>6. (SizeRead <=> m # 0) /\ PartStart = IF m = 0 THEN p ELSE m
  BY <1>1, <1>4, SizeMarkIs, LiteralFacts, ShapeFacts DEF SizeRead, PartStart, LiteralInv
<1>7. number' = data
  BY <1>1, <1>5, <1>6, PartsAre
<1>8. CASE m # 0
  <2>1. bits' = bits /\ bits = Lit!NumberOf(Lit!SizePart)
    BY <1>1, <1>5, <1>6, <1>8, PartsAre
  <2>2. bits' = Lit!Width
    BY <1>8, <2>1 DEF Lit!Width
  <2> QED BY <1>7, <2>1, <2>2, LiteralFacts
<1>9. CASE m = 0
  <2>1. bits' = Lit!NaturalBits /\ ~SizeRead
    BY <1>1, <1>5, <1>6, <1>9
  <2>2. Len(Lit!DataPart) = l - p
    <3>1. Lit!DataPart = SubSeq(str, p + 1, l)
      BY <1>9 DEF Lit!DataPart
    <3>2. str \in Seq(0 .. 17) /\ p \in Nat /\ l \in Nat /\ p <= l /\ l <= Len(str)
      BY <1>4 DEF Shape
    <3> HIDE DEF p, l
    <3> QED BY <3>1, <3>2, PartIs
  <2>3. CASE wb = 10
    <3>1. base = 0 /\ Lit!NaturalBits = Lit!BitWidth(number)
      BY <1>5, <2>1, <2>3 DEF Lit!NaturalBits
    <3>2. Lit!Width = Lit!BitWidth(data)
      BY <1>9, <2>3 DEF Lit!Width
    <3>3. Lit!BitWidth(number) \in Nat
      BY LiteralFacts, BitWidthIs
    <3> QED BY <1>1, <1>7, <2>1, <3>1, <3>2, <3>3
  <2>4. CASE wb = 2
    <3>1. base = 2 /\ prefix_len = 2 /\ Lit!NaturalBits = l - 2
      BY <1>5, <2>1, <2>4 DEF Lit!NaturalBits
    <3>2. Lit!Width = l - 2 /\ l - 2 \in Nat
      BY <1>4, <1>9, <2>2, <2>4 DEF Lit!Width
    <3> QED BY <1>7, <2>1, <3>1, <3>2
  <2>5. CASE wb = 16
    <3>1. base = 16 /\ prefix_len = 2 /\ Lit!NaturalBits = 4 * (l - 2)
      BY <1>5, <2>1, <2>5 DEF Lit!NaturalBits
    <3>2. Lit!Width = 4 * (l - 2) /\ 4 * (l - 2) \in Nat
      BY <1>4, <1>9, <2>2, <2>5 DEF Lit!Width
    <3> QED BY <1>7, <2>1, <3>1, <3>2
  <2> QED BY <1>4, <2>3, <2>4, <2>5
<1> QED BY <1>8, <1>9

LEMMA LiteralStutter ==
  ASSUME LiteralInv, UNCHANGED <<str, cursor, base, bits, prefix_len, number, pc>>
  PROVE  LiteralInv'
<1>1. /\ str' = str /\ cursor' = cursor /\ base' = base /\ bits' = bits /\ prefix_len' = prefix_len
      /\ number' = number /\ pc' = pc
  OBVIOUS
<1>2. /\ Shape' /\ Lit!PrefixChars' = Lit!PrefixChars /\ Lit!WrittenBase' = Lit!WrittenBase
      /\ Lit!SizeMark' = Lit!SizeMark /\ Lit!Supported' = Lit!Supported
      /\ Lit!Width' = Lit!Width /\ (Lit!NumberOf(Lit!DataPart))' = Lit!NumberOf(Lit!DataPart)
      /\ \A a, c : PartNumber(a, c)' = PartNumber(a, c)
  BY <1>1, LiteralStays DEF LiteralInv
<1>3. Lit!TypeOK'
  BY <1>1 DEF LiteralInv, Lit!TypeOK, Lit!Limit
<1>4. Lit!LiteralCorrect'
  BY <1>1, <1>2 DEF LiteralInv, Lit!LiteralCorrect
<1>5. (SizeRead' <=> SizeRead) /\ PartStart' = PartStart
  BY <1>1, <1>2 DEF SizeRead, PartStart
<1>6. /\ PartNumber(PartStart, cursor)' = PartNumber(PartStart, cursor)
      /\ PartNumber(Lit!PrefixChars, Lit!SizeMark - 1)' = PartNumber(Lit!PrefixChars, Lit!SizeMark - 1)
  BY <1>1, <1>2, <1>5 DEF PartNumber, Lit!NumberOf, Lit!FoldLeft, Lit!MapThenFoldSet
<1> QED BY <1>1, <1>2, <1>3, <1>4, <1>5, <1>6 DEF LiteralInv

LEMMA LiteralNext ==
  ASSUME LiteralInv, Lit!Next
  PROVE  LiteralInv'
<1>1. str' = str
  BY CharacterRead
<1>2. /\ Shape' /\ Lit!PrefixChars' = Lit!PrefixChars /\ Lit!WrittenBase' = Lit!WrittenBase
      /\ Lit!SizeMark' = Lit!SizeMark /\ Lit!Supported' = Lit!Supported /\ Shape
  BY <1>1, LiteralStays DEF LiteralInv
<1>3. Lit!TypeOK'
  BY LiteralType
<1>4. /\ cursor \in Nat /\ Len(str) \in Nat /\ cursor <= Len(str)
      /\ Lit!PrefixChars \in Nat /\ Lit!PrefixChars < Len(str)
      /\ Lit!PrefixChars = IF Lit!WrittenBase = 10 THEN 0 ELSE 2
  BY <1>2, LiteralFacts, ShapeFacts
<1>5. CASE pc # "read"
  <2>1. Lit!Finished
    BY <1>5, CharacterRead
  <2> QED BY <2>1, LiteralStutter DEF Lit!Finished, Lit!vars
<1>6. CASE pc = "read" /\ cursor = Len(str)
  <2>1. Lit!Decode
    BY <1>6, CharacterRead
  <2>2. Lit!LiteralCorrect' /\ pc' # "read"
    BY <2>1, DecodeStep DEF Lit!Decode
  <2> QED BY <1>2, <1>3, <2>2 DEF LiteralInv
<1>7. CASE pc = "read" /\ cursor # Len(str)
  <2>1. pc' = "read" /\ cursor' = cursor + 1
    BY <1>7, CharacterRead
  <2>2. Lit!LiteralCorrect'
    BY <2>1 DEF Lit!LiteralCorrect
  <2>3. CASE cursor < Lit!PrefixChars
    <3>1. /\ bits' = 0 /\ number' = 0 /\ prefix_len' = cursor'
          /\ base' = IF cursor' = 2 THEN Lit!WrittenBase ELSE 0
      BY <1>7, <2>3, PrefixStep
    <3>2. Lit!PrefixChars = 2 /\ cursor' \in {1, 2}
      BY <1>4, <2>1, <2>3
    <3>3. ASSUME cursor' = 2
          PROVE  /\ ~SizeRead' /\ PartStart' = 2 /\ PartNumber(PartStart, cursor)' = 0
      <4>1. ~SizeRead'
        BY <1>2, <3>2, <3>3, SizeMarkIs DEF SizeRead
      <4>2. PartStart' = 2
        BY <1>2, <3>2, <4>1 DEF PartStart
      <4>3. PartNumber(2, 2) = 0
        BY <1>2, <1>4, <3>2, PartNumberIs
      <4>4. PartNumber(PartStart, cursor)' = PartNumber(2, 2)
        BY <1>1, <1>2, <3>3, <4>2 DEF PartNumber, Lit!NumberOf, Lit!FoldLeft, Lit!MapThenFoldSet
      <4> QED BY <4>1, <4>2, <4>3, <4>4
    <3>4. base' \in {0, 2, 16} /\ (cursor' = 2 => base' = Lit!WrittenBase /\ Lit!WrittenBase # 10)
          /\ (cursor' < 2 <=> cursor' # 2) /\ (cursor' >= 2 <=> cursor' = 2) /\ (cursor' # 2 => base' = 0)
      BY <1>2, <1>4, <3>1, <3>2, ShapeFacts
    <3> QED BY <1>2, <1>3, <2>1, <2>2, <3>1, <3>2, <3>3, <3>4 DEF LiteralInv
  <2>4. CASE cursor >= Lit!PrefixChars
    <3> DEFINE sized == Lit!SizeMark # 0 /\ Lit!SizeMark <= cursor + 1
               start == IF sized THEN Lit!SizeMark ELSE Lit!PrefixChars
    <3>1. ~(cursor' < Lit!PrefixChars)
      BY <1>4, <2>1, <2>4
    <3>2. (SizeRead' <=> sized) /\ PartStart' = start
      BY <1>2, <2>1 DEF SizeRead, PartStart
    <3>3. /\ PartNumber(PartStart, cursor)' = PartNumber(start, cursor + 1)
          /\ PartNumber(Lit!PrefixChars, Lit!SizeMark - 1)' = PartNumber(Lit!PrefixChars, Lit!SizeMark - 1)
      BY <1>1, <1>2, <2>1, <3>2 DEF PartNumber, Lit!NumberOf, Lit!FoldLeft, Lit!MapThenFoldSet
    <3>4. ASSUME Lit!Supported
          PROVE  /\ number' = PartNumber(start, cursor + 1)
                 /\ bits' = IF sized THEN PartNumber(Lit!PrefixChars, Lit!SizeMark - 1) ELSE 0
                 /\ base' = IF Lit!WrittenBase = 10 /\ ~sized THEN 0 ELSE Lit!WrittenBase
                 /\ Lit!WrittenBase # 10 /\ ~sized => prefix_len' = 2
      BY <1>7, <2>4, <3>4, WalkStep
    <3> HIDE DEF sized, start
    <3> QED BY <1>2, <1>3, <2>1, <2>2, <3>1, <3>2, <3>3, <3>4 DEF LiteralInv
  <2> QED BY <1>4, <2>3, <2>4
<1> QED BY <1>5, <1>6, <1>7

LEMMA LiteralImplies ==
  ASSUME LiteralInv
  PROVE  Lit!TypeOK /\ Lit!LiteralCorrect /\ Lit!ReadSoFar
<1>1. ASSUME pc = "read", cursor >= Lit!PrefixChars, Lit!Supported
      PROVE  LET sized == Lit!SizeMark # 0 /\ Lit!SizeMark <= cursor
             IN  /\ number = Lit!NumberOf(SubSeq(str, IF sized THEN Lit!SizeMark + 1 ELSE Lit!PrefixChars + 1, cursor))
                 /\ bits = IF sized THEN Lit!NumberOf(Lit!SizePart) ELSE 0
  <2> DEFINE sized == Lit!SizeMark # 0 /\ Lit!SizeMark <= cursor
  <2>1. (SizeRead <=> sized) /\ PartStart + 1 = IF sized THEN Lit!SizeMark + 1 ELSE Lit!PrefixChars + 1
    BY DEF SizeRead, PartStart
  <2>2. /\ number = PartNumber(PartStart, cursor)
        /\ bits = IF SizeRead THEN PartNumber(Lit!PrefixChars, Lit!SizeMark - 1) ELSE 0
    BY <1>1, Walking
  <2>3. number = Lit!NumberOf(SubSeq(str, PartStart + 1, cursor))
    BY <2>2 DEF PartNumber
  <2> HIDE DEF sized
  <2>4. /\ number = Lit!NumberOf(SubSeq(str, IF sized THEN Lit!SizeMark + 1 ELSE Lit!PrefixChars + 1, cursor))
        /\ bits = IF sized THEN Lit!NumberOf(Lit!SizePart) ELSE 0
    BY <2>1, <2>2, <2>3, PartsAre
  <2> QED BY <2>4 DEF sized
<1>2. Lit!ReadSoFar
  BY <1>1 DEF Lit!ReadSoFar
<1> QED BY <1>2 DEF LiteralInv

----------------------------------------------------------------------------
(* The whole                                                               *)

\* The invariant of the algorithm called.
IInv ==
  /\ algorithm = "bit_not"        => NotInv
  /\ algorithm = "addition"       => AddInv
  /\ algorithm = "multiplication" => MultiplyInv
  /\ algorithm = "division"       => DivInv
  /\ algorithm = "_divx"          => WideInv
  /\ algorithm = "to_string"      => ToInv
  /\ algorithm = "from_string"    => FromInv
  /\ algorithm = "to_decimal"     => ToDecimalInv
  /\ algorithm = "from_decimal"   => FromDecimalInv
  /\ algorithm = "literal"        => LiteralInv
  /\ algorithm = "dynamic"        => IntegralInv
  /\ algorithm = "static"         => StaticInv

LEMMA InitIInv == Init => IInv
<1>1. ArithmeticInit => IInv
  BY NotInit, AddInit, MultiplyInit, DivInit DEF ArithmeticInit, IInv
<1>2. algorithm = "_divx" /\ Wide!Init => IInv
  BY WideInit DEF IInv
<1>3. StringInit => IInv
  BY ToInit, FromInit, ToDecimalInit, FromDecimalInit, LiteralInit DEF StringInit, IInv
<1>4. IntegralInit => IInv
  BY DynamicInit, StaticInit DEF IntegralInit, IInv
<1> QED BY <1>1, <1>2, <1>3, <1>4 DEF Init

LEMMA Stutters ==
  ASSUME IInv, UNCHANGED vars
  PROVE  IInv'
<1>1. /\ algorithm' = algorithm /\ mem' = mem /\ orig' = orig /\ first' = first /\ last' = last
      /\ d_first' = d_first /\ operand' = operand /\ src' = src /\ it' = it
      /\ remaining' = remaining /\ whole_words' = whole_words /\ carry' = carry /\ pc' = pc
      /\ used' = used /\ d_used' = d_used
      /\ hi' = hi /\ lo' = lo /\ d' = d /\ shift' = shift /\ numhi' = numhi /\ numlo' = numlo
      /\ den' = den /\ q1' = q1 /\ q0' = q0 /\ rem' = rem
  BY DEF vars, call_vars, local_vars, word_vars
<1>2. /\ Number(mem, d_first + (src - first), last - src)' = Number(mem, d_first + (src - first), last - src)
      /\ Number(orig, src, last - src)' = Number(orig, src, last - src)
      /\ Number(mem, d_first, last - first)' = Number(mem, d_first, last - first)
      /\ Number(orig, first, last - first)' = Number(orig, first, last - first)
      /\ Power(W)' = Power(W) /\ Power(last - first)' = Power(last - first)
      /\ Power(shift)' = Power(shift)
  BY <1>1 DEF Number, Divide!Number, Divide!MapThenSumSet, Divide!MapThenFoldSet, Power
<1>3. OneWord => OneWord'
  BY <1>1 DEF OneWord
<1>4. CASE algorithm = "bit_not"
  BY <1>1, <1>4 DEF IInv, NotInv, Not!TypeOK, Not!AccessInRange, Flipped
<1>5. CASE algorithm = "addition"
  BY <1>1, <1>2, <1>3, <1>5 DEF IInv, AddInv, AddResult, Total
<1>6. CASE algorithm = "multiplication"
  BY <1>1, <1>2, <1>3, <1>6 DEF IInv, MultiplyInv, MultiplyResult, Product
<1>7. CASE algorithm = "division"
  <2>1. Divide!TypeOK' = Divide!TypeOK /\ Divide!AccessInRange' = Divide!AccessInRange
    BY <1>1 DEF Divide!TypeOK, Divide!AccessInRange, Divide!Limit, Divide!Addr, Divide!MemBits,
                Divide!d_last, Divide!Bits, Divide!Holds
  <2>2. Pos(d_first)' = Pos(d_first) /\ Base(d_first + (last - first))' = Base(d_first + (last - first))
    BY <1>1 DEF Pos, Base
  <2> QED BY <1>1, <1>2, <1>7, <2>1, <2>2 DEF IInv, DivInv
<1>8. CASE algorithm = "_divx"
  <2>1. Wide!Half' = Wide!Half /\ Wide!Limit' = Wide!Limit
    BY DEF Wide!Half, Wide!Limit
  <2> QED BY <1>1, <1>2, <1>8, <2>1
          DEF IInv, WideInv, Wide!TypeOK, Wide!Words, Wide!DivxCorrect, Wide!RemainderReduced
<1>9. UNCHANGED <<string_vars, to_vars, from_vars, decimal_vars, literal_vars, integral_vars>>
  BY DEF vars
<1>10. CASE algorithm = "to_string"
  <2>1. UNCHANGED <<range, position, cursor, pc, version, buffer, room, src>>
    BY <1>1, <1>9 DEF string_vars, to_vars
  <2> QED BY <1>1, <1>10, <2>1, ToStays DEF IInv
<1>11. CASE algorithm = "from_string"
  BY <1>1, <1>9, <1>11, FromStays DEF IInv, string_vars, from_vars
<1>12. CASE algorithm = "to_decimal"
  BY <1>1, <1>9, <1>12, ToDecimalStutter DEF IInv, string_vars, to_vars, from_vars, decimal_vars
<1>13. CASE algorithm = "from_decimal"
  <2>1. /\ UNCHANGED <<range, version, buffer, room, vec, store_bits, str>>
        /\ cursor' = cursor /\ pc' = pc
    BY <1>1, <1>9 DEF string_vars, to_vars, from_vars, decimal_vars
  <2> QED BY <1>1, <1>13, <2>1, FromDecimalStays DEF IInv
<1>14. CASE algorithm = "literal"
  BY <1>1, <1>9, <1>14, LiteralStutter DEF IInv, string_vars, from_vars, literal_vars
<1>15. CASE algorithm \in {"dynamic", "static"}
  BY <1>1, <1>9, <1>15, IntegralStays DEF IInv
<1> QED BY <1>1, <1>4, <1>5, <1>6, <1>7, <1>8, <1>10, <1>11, <1>12, <1>13, <1>14, <1>15 DEF IInv

LEMMA NextIInv == IInv /\ [Next]_vars => IInv'
<1> SUFFICES ASSUME IInv, [Next]_vars
             PROVE  IInv'
  OBVIOUS
<1>1. CASE algorithm = "bit_not" /\ algorithm' = algorithm /\ Not!Next
  BY <1>1, NotNext DEF IInv
<1>2. CASE algorithm = "addition" /\ algorithm' = algorithm /\ Add!Next
  BY <1>2, AddNext DEF IInv
<1>3. CASE algorithm = "multiplication" /\ algorithm' = algorithm /\ Multiply!Next
  BY <1>3, MultiplyNext DEF IInv
<1>4. CASE algorithm = "division" /\ algorithm' = algorithm /\ Divide!Next
  BY <1>4, DivNext DEF IInv
<1>5. CASE algorithm = "_divx" /\ algorithm' = algorithm /\ Wide!Next
  BY <1>5, WideNext DEF IInv
<1>6. CASE algorithm = "to_string" /\ algorithm' = algorithm /\ Digits!ToNext
  BY <1>6, ToNext DEF IInv
<1>7. CASE algorithm = "from_string" /\ algorithm' = algorithm /\ Digits!FromNext
  BY <1>7, FromNext DEF IInv
<1>8. CASE algorithm = "to_decimal" /\ algorithm' = algorithm /\ Decimal!ToNext
  BY <1>8, ToDecimalNext DEF IInv
<1>9. CASE algorithm = "from_decimal" /\ algorithm' = algorithm /\ Decimal!FromNext
  BY <1>9, FromDecimalNext DEF IInv
<1>10. CASE algorithm = "literal" /\ algorithm' = algorithm /\ Lit!Next
  BY <1>10, LiteralNext DEF IInv
<1>11. CASE algorithm = "dynamic" /\ algorithm' = algorithm /\ Dynamic!Next
  BY <1>11, DynamicNext DEF IInv
<1>12. CASE algorithm = "static" /\ algorithm' = algorithm /\ Static!Next
  BY <1>12, StaticNext DEF IInv
<1>13. CASE UNCHANGED vars
  BY <1>13, Stutters
<1> QED BY <1>1, <1>2, <1>3, <1>4, <1>5, <1>6, <1>7, <1>8, <1>9, <1>10, <1>11, <1>12, <1>13
        DEF Next, ArithmeticNext, StringNext, IntegralNext

\* What IntegralsExact says of the state a step leaves.
IntegralsHold ==
  /\ algorithm = "dynamic" => Dynamic!ArrayHoldsValue /\ Dynamic!CastAgrees
  /\ algorithm = "static"  => Static!ArrayHoldsValue /\ Static!CastAgrees

LEMMA IInvImplies ==
  IInv => /\ TypeOK /\ ArithmeticCorrect /\ StringsCorrect /\ AccountedFor /\ RangesRespected
          /\ IntegralsHold
<1>1. IInv => TypeOK
  BY NotImplies, AddImplies, MultiplyImplies, DivImplies, WideImplies, ToImplies, StaticImplies
     DEF IInv, TypeOK, FromInv, ToDecimalInv, FromDecimalInv, LiteralInv, IntegralInv
<1>2. IInv => ArithmeticCorrect /\ RangesRespected
  BY NotImplies, AddImplies, MultiplyImplies, DivImplies, WideImplies
     DEF IInv, ArithmeticCorrect, RangesRespected
<1>3. IInv => StringsCorrect /\ AccountedFor
  BY DivImplies, WideImplies, ToImplies, LiteralImplies
     DEF IInv, StringsCorrect, AccountedFor, FromInv, ToDecimalInv, FromDecimalInv
<1>4. IInv => IntegralsHold
  BY StaticImplies DEF IInv, IntegralsHold, IntegralInv
<1> QED BY <1>1, <1>2, <1>3, <1>4

LEMMA IntegralStep ==
  IInv /\ IntegralsHold' /\ [Next]_vars =>
    [/\ algorithm = "dynamic" => /\ Dynamic!ArrayHoldsValue' /\ Dynamic!CastAgrees'
                                 /\ Dynamic!ConversionExact
     /\ algorithm = "static"  => /\ Static!ArrayHoldsValue' /\ Static!CastAgrees'
                                 /\ Static!ConversionExact]_vars
<1> SUFFICES ASSUME IInv, IntegralsHold', Next
             PROVE  /\ algorithm = "dynamic" => /\ Dynamic!ArrayHoldsValue' /\ Dynamic!CastAgrees'
                                                /\ Dynamic!ConversionExact
                    /\ algorithm = "static"  => /\ Static!ArrayHoldsValue' /\ Static!CastAgrees'
                                                /\ Static!ConversionExact
  OBVIOUS
<1>1. algorithm' = algorithm
  BY DEF Next
<1>2. algorithm \in {"dynamic", "static"} => Dynamic!ConversionExact /\ Static!ConversionExact
  BY DynamicExact DEF IInv, StaticInv
<1> QED BY <1>1, <1>2 DEF IntegralsHold

\* The invariant the others follow from holds of every state of the arithmetic.
THEOREM Inductive == Spec => []IInv
BY InitIInv, NextIInv, PTL DEF Spec

\* The variables of the arithmetic keep their types; the remainder long_div
\* carries down is below the operand, so that _divx's overflow is never reached
\* from division, and normalizing sets the denominator's leading bit
\* (transform.hpp, transform_accumulate.hpp, division.hpp, bit_details.hpp).
THEOREM TypeCorrect == Spec => []TypeOK
BY Inductive, IInvImplies, PTL

\* bit_not leaves the complement of a range, addition the sum with its carry,
\* multiplication the product with its high part, division the quotient and the
\* remainder; _divx with its two estimated digits, _mulx from its four products
\* of half words, add_carry and sub_borrow compute what their double words say.
THEOREM Correct == Spec => []ArithmeticCorrect
BY Inductive, IInvImplies, PTL

\* In a base that is a power of two, to_string leaves the range's digits, wherever
\* in a word the range begins: all of them, as many as the caller's buffer holds,
\* or, where count_msb is exact, those without leading zeros; that is for less than
\* two words' bits or a range that ends with a word, and of the others' strings
\* without zeros it says only that they end as they should.  from_string leaves the
\* number the characters write, truncated or extended, the or of their digits when
\* some are not of the base, and the range as it was when there are none.  In
\* another base to_string is right of a range that begins with a word if it and its
\* quotients are counted exactly, and from_string into at most one word, or it
\* refuses the number (to_from_string.hpp, accumulate.hpp, count.hpp); a literal is
\* the array of the size and number it writes (bit_literal.hpp).
THEOREM StringsRight == Spec => []StringsCorrect
BY Inductive, IInvImplies, PTL

\* At every word of division, and at the half word between the digits of _divx,
\* the quotient so far times the divisor plus the remainder so far is the part of
\* the number read, and the remainder leaves room for the next digit; and at every
\* word, digit and character of a string or a literal what was converted is where it
\* belongs.
THEOREM Accounted == Spec => []AccountedFor
BY Inductive, IInvImplies, PTL

\* The masks and blends of transform and transform_accumulate_backward change no
\* bit outside the destination, and no word outside the ranges is dereferenced.
THEOREM RangesSafe == Spec => []RangesRespected
BY Inductive, IInvImplies, PTL

\* A bit array made from an integral holds it modulo 2^size, the integral it
\* converts to is what its bits stand for modulo 2^bits, and the two make a cast
\* where the array has the room (bit_policy.hpp, bit_array_base.hpp).
THEOREM IntegralsRight == Spec => IntegralsExact
BY Inductive, IInvImplies, IntegralStep, PTL DEF Spec, IntegralsExact
=============================================================================
