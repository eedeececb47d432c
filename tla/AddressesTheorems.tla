------------------------- MODULE AddressesTheorems -------------------------
(***************************************************************************)
(* What designates bits and words is right for every width of a word, of   *)
(* size_t, and of the words an adapter makes of others: whatever calls are *)
(* made, an iterator is at the bit they add up to, and a write by way of a *)
(* reference or a view reaches the bits it stands for and no others.       *)
(*                                                                         *)
(* Of the arithmetic, what needs a proof is that a truncated quotient,     *)
(* corrected when stepping back, rounds down, and that a remainder         *)
(* survives the cast to size_t.                                            *)
(***************************************************************************)
EXTENDS MCAddresses, SequenceTheorems, TLAPS

\* A width that size_t is a multiple of: digits, or an adapter's ratio.
Divides(d) == d \in Nat /\ d > 0 /\ SizeMod \in Nat /\ SizeMod > 0 /\ SizeMod % d = 0

LEMMA Widths ==
  /\ W \in Nat /\ W > 0 /\ Divides(W)
  /\ Ratio \in Nat /\ Ratio > 1 /\ Divides(Ratio)
  /\ Digits \in Nat /\ Digits > 0 /\ Divides(Digits)
BY WAssumption, SizeAssumption, SizeModAssumption, RatioAssumption DEF Divides

\* A number is written in one way as a multiple of a width and a remainder.
LEMMA DivisionUnique ==
  ASSUME NEW d \in Nat, d > 0, NEW a \in Int, NEW q \in Int, NEW r \in 0 .. (d - 1),
         a = d * q + r
  PROVE  a \div d = q /\ a % d = r
<1> DEFINE x == a \div d
           y == a % d
<1>1. x \in Int /\ y \in 0 .. (d - 1) /\ a = d * x + y
  OBVIOUS
<1> HIDE DEF x, y
<1>2. d * (x - q) = r - y
  BY <1>1
<1>3. x - q = 0
  <2>1. CASE x - q >= 1
    <3>1. d * (x - q) >= d
      BY <1>1, <2>1, SMTT(30)
    <3> QED BY <1>1, <1>2, <3>1
  <2>2. CASE x - q <= -1
    <3>1. d * (x - q) <= -d
      BY <1>1, <2>2, SMTT(30)
    <3> QED BY <1>1, <1>2, <3>1
  <2> QED BY <1>1, <2>1, <2>2
<1>4. y = r
  BY <1>1, <1>2, <1>3
<1> QED BY <1>1, <1>3, <1>4 DEF x, y

\* static_cast<size_t>(sum) % d is the remainder of sum, negative or not: the
\* range of size_t is a multiple of d.
LEMMA CastKeepsPosition ==
  ASSUME NEW d, Divides(d), NEW sum \in Int
  PROVE  Unsigned(sum) % d = sum % d
<1> DEFINE k == SizeMod \div d
           q == sum \div SizeMod
           u == sum % SizeMod
           a == u \div d
           r == u % d
<1>0. d \in Nat /\ d > 0 /\ SizeMod \in Nat /\ SizeMod > 0
  BY DEF Divides
<1>1. SizeMod = d * k /\ k \in Int
  BY DEF Divides
<1>2. sum = SizeMod * q + u /\ q \in Int /\ u \in Int
  BY <1>0
<1>3. u = d * a + r /\ a \in Int /\ r \in 0 .. (d - 1)
  BY <1>0, <1>2
<1> HIDE DEF k, q, u, a, r
<1>4. sum = d * (k * q + a) + r
  <2>1. sum = d * (k * q) + d * a + r
    BY <1>0, <1>1, <1>2, <1>3, SMTT(30)
  <2> QED BY <2>1, <1>0, <1>1, <1>2, <1>3, SMTT(30)
<1>5. k * q + a \in Int
  BY <1>1, <1>2, <1>3
<1>6. sum % d = r
  BY <1>0, <1>3, <1>4, <1>5, DivisionUnique
<1> QED BY <1>6 DEF Unsigned, r, u

\* The units of width d moved by when a position becomes sum.
Carry(sum, back, d) == Quotient(sum - (IF back THEN d - 1 ELSE 0), d)

\* The corrected quotient rounds down: a step back that stays at a position >= 0
\* moves by no word, though the correction makes the dividend negative.
LEMMA BackRoundsDown ==
  ASSUME NEW d \in Nat, d > 0, NEW sum \in Int, sum < d - 1
  PROVE  Carry(sum, TRUE, d) = sum \div d
<1> DEFINE q == sum \div d
           r == sum % d
<1>1. sum = d * q + r /\ q \in Int /\ r \in 0 .. (d - 1)
  OBVIOUS
<1>2. Carry(sum, TRUE, d) = -((d - 1 - sum) \div d)
  <2>1. Carry(sum, TRUE, d) = Quotient(sum - (d - 1), d)
    BY DEF Carry
  <2>2. ~(sum - (d - 1) >= 0) /\ -(sum - (d - 1)) = d - 1 - sum
    OBVIOUS
  <2> QED BY <2>1, <2>2 DEF Quotient
<1> HIDE DEF q, r
<1>3. d - 1 - sum = d * (-q) + (d - 1 - r)
  BY <1>1, SMTT(30)
<1>4. (d - 1 - sum) \div d = -q
  <2>1. d - 1 - r \in 0 .. (d - 1) /\ -q \in Int /\ d - 1 - sum \in Int
    BY <1>1
  <2> QED BY <1>3, <2>1, DivisionUnique
<1>5. -(-q) = q
  BY <1>1
<1> QED BY <1>2, <1>4, <1>5 DEF q

LEMMA ForwardRoundsDown ==
  ASSUME NEW d \in Nat, d > 0, NEW sum \in Int, sum >= 0
  PROVE  Carry(sum, FALSE, d) = sum \div d
<1>1. Carry(sum, FALSE, d) = Quotient(sum - 0, d)
  BY DEF Carry
<1>2. sum - 0 = sum
  OBVIOUS
<1> QED BY <1>1, <1>2 DEF Quotient

\* What the operators take for a sum that may be negative is the pair that
\* designates it.
Exact(d, whole, sum) ==
  /\ whole \in Int
  /\ Unsigned(sum) % d \in 0 .. (d - 1)
  /\ d * whole + (Unsigned(sum) % d) = sum

LEMMA PairExact ==
  ASSUME NEW d, Divides(d), NEW sum \in Int
  PROVE  Exact(d, sum \div d, sum)
<1> DEFINE q == sum \div d
           r == sum % d
<1>1. Unsigned(sum) % d = r
  BY CastKeepsPosition
<1>2. sum = d * q + r /\ q \in Int /\ r \in 0 .. (d - 1)
  BY DEF Divides
<1> HIDE DEF q, r
<1>3. q \in Int /\ Unsigned(sum) % d \in 0 .. (d - 1) /\ d * q + (Unsigned(sum) % d) = sum
  BY <1>1, <1>2
<1> QED BY <1>3 DEF q, Exact

LEMMA CarryExact ==
  ASSUME NEW d, Divides(d), NEW p \in 0 .. (d - 1), NEW n \in Int
  PROVE  Exact(d, Carry(p + n, n < 0, d), p + n)
<1>0. d \in Nat /\ d > 0
  BY DEF Divides
<1>1. CASE n < 0
  <2>1. p + n \in Int /\ p + n < d - 1
    BY <1>0, <1>1
  <2>2. Carry(p + n, n < 0, d) = Carry(p + n, TRUE, d)
    BY <1>1 DEF Carry
  <2> QED BY <1>0, <2>1, <2>2, BackRoundsDown, PairExact
<1>2. CASE ~(n < 0)
  <2>1. p + n \in Int /\ p + n >= 0
    BY <1>0, <1>2
  <2>2. Carry(p + n, n < 0, d) = Carry(p + n, FALSE, d)
    BY <1>2 DEF Carry
  <2> QED BY <1>0, <2>1, <2>2, ForwardRoundsDown, PairExact
<1> QED BY <1>1, <1>2

\* -= n is += -n.
LEMMA BorrowExact ==
  ASSUME NEW d, Divides(d), NEW p \in 0 .. (d - 1), NEW n \in Int
  PROVE  Exact(d, Carry(p - n, n > 0, d), p - n)
<1>0. d \in Nat /\ d > 0
  BY DEF Divides
<1>1. p - n = p + (-n) /\ -n \in Int /\ (n > 0 <=> -n < 0)
  BY <1>0
<1>2. Carry(p - n, n > 0, d) = Carry(p + (-n), -n < 0, d)
  BY <1>1 DEF Carry
<1> QED BY <1>1, <1>2, CarryExact

\* ++ and -- move to the next word and the one before just when a sum would.
LEMMA IncrementExact ==
  ASSUME NEW d, Divides(d), NEW p \in 0 .. (d - 1)
  PROVE  Exact(d, IF Unsigned(p + 1) % d = 0 THEN 1 ELSE 0, p + 1)
<1>0. d \in Nat /\ d > 0
  BY DEF Divides
<1>1. Exact(d, (p + 1) \div d, p + 1) /\ Unsigned(p + 1) % d = (p + 1) % d
  BY <1>0, PairExact, CastKeepsPosition
<1>2. CASE p + 1 = d
  <2>1. p + 1 = d * 1 + 0 /\ 0 \in 0 .. (d - 1)
    BY <1>0, <1>2
  <2>2. (p + 1) \div d = 1 /\ (p + 1) % d = 0
    BY <1>0, <2>1, DivisionUnique
  <2> QED BY <1>1, <2>2
<1>3. CASE p + 1 # d
  <2>1. p + 1 = d * 0 + (p + 1) /\ p + 1 \in 0 .. (d - 1)
    BY <1>0, <1>3
  <2>2. (p + 1) \div d = 0 /\ (p + 1) % d = p + 1 /\ p + 1 # 0
    BY <1>0, <2>1, DivisionUnique
  <2> QED BY <1>1, <2>2
<1> QED BY <1>2, <1>3

LEMMA DecrementExact ==
  ASSUME NEW d, Divides(d), NEW p \in 0 .. (d - 1)
  PROVE  Exact(d, IF p = 0 THEN -1 ELSE 0, p - 1)
<1>0. d \in Nat /\ d > 0
  BY DEF Divides
<1>1. Exact(d, (p - 1) \div d, p - 1)
  BY <1>0, PairExact
<1>2. CASE p = 0
  <2>1. p - 1 = d * (-1) + (d - 1) /\ d - 1 \in 0 .. (d - 1) /\ p - 1 \in Int
    BY <1>0, <1>2
  <2>2. (p - 1) \div d = -1
    BY <1>0, <2>1, DivisionUnique
  <2> QED BY <1>1, <1>2, <2>2
<1>3. CASE p # 0
  <2>1. p - 1 = d * 0 + (p - 1) /\ p - 1 \in 0 .. (d - 1)
    BY <1>0, <1>3
  <2>2. (p - 1) \div d = 0
    BY <1>0, <2>1, DivisionUnique
  <2> QED BY <1>1, <1>3, <2>2
<1> QED BY <1>2, <1>3

\* A word c moved by such a pair is at the sum, c's own bits away.
LEMMA Moved ==
  ASSUME NEW d, Divides(d), NEW c \in Int, NEW whole, NEW sum \in Int, Exact(d, whole, sum)
  PROVE  /\ c + whole \in Int
         /\ Unsigned(sum) % d \in 0 .. (d - 1)
         /\ d * (c + whole) + (Unsigned(sum) % d) = d * c + sum
<1> DEFINE r == Unsigned(sum) % d
<1>0. d \in Nat
  BY DEF Divides
<1>1. whole \in Int /\ r \in 0 .. (d - 1) /\ d * whole + r = sum
  BY DEF Exact
<1> HIDE DEF r
<1>2. d * (c + whole) = d * c + d * whole
  BY <1>0, <1>1, SMTT(30)
<1>3. c + whole \in Int /\ r \in 0 .. (d - 1) /\ d * (c + whole) + r = d * c + sum
  BY <1>0, <1>1, <1>2
<1> QED BY <1>3 DEF r

\* A later word's first bit is beyond an earlier one's last.
LEMMA Apart ==
  ASSUME NEW d \in Nat, NEW a \in Int, NEW b \in Int, a < b
  PROVE  d * a + d <= d * b
<1>1. d * (b - a - 1) >= 0
  <2>1. b - a - 1 \in Nat
    OBVIOUS
  <2> QED BY <2>1, SMTT(30)
<1>2. d * (b - a - 1) = d * b - d * a - d
  BY SMTT(30)
<1>3. d * a \in Int /\ d * b \in Int
  OBVIOUS
<1> QED BY <1>1, <1>2, <1>3

----------------------------------------------------------------------------
(* bit_iterator                                                            *)

IteratorInv == TypeOK /\ Designates

LEMMA IteratorInit == Init => IteratorInv
BY Widths DEF Init, IteratorInv, TypeOK, Designates

LEMMA IteratorNext ==
  ASSUME IteratorInv, [Next]_vars
  PROVE  IteratorInv'
<1>0. /\ current \in Int /\ position \in 0 .. (W - 1) /\ position \in Int
      /\ W * current + position = address /\ Divides(W)
  BY Widths DEF IteratorInv, TypeOK, Designates
<1>1. \A sum, back : WordsMoved(sum, back) = Carry(sum, back, W)
  BY DEF WordsMoved, Carry
\* What every action on `it' does: its position becomes sum, distance away.
<1>2. ASSUME NEW whole, NEW sum \in Int, NEW distance \in Int,
             Exact(W, whole, sum), sum = position + distance,
             current' = current + whole, position' = Unsigned(sum) % W,
             address' = address + distance, UNCHANGED Other
      PROVE  IteratorInv'
  <2> DEFINE r == Unsigned(sum) % W
             c == current + whole
  <2>1. c \in Int /\ r \in 0 .. (W - 1) /\ W * c + r = W * current + sum
    BY <1>0, <1>2, Moved
  <2>2. current' = c /\ position' = r
    BY <1>2
  <2> HIDE DEF r, c
  <2>3. W * c + r = address + distance
    BY <2>1, <1>0, <1>2, Widths
  <2>4. TypeOK'
    BY <2>1, <2>2, <1>2, <1>0 DEF TypeOK, IteratorInv, Other, Designates
  <2>5. Designates'
    BY <2>2, <2>3, <1>2 DEF Designates, IteratorInv, Other
  <2> QED BY <2>4, <2>5 DEF IteratorInv
<1>3. CASE Increment
  <2> DEFINE whole == IF Unsigned(position + 1) % W = 0 THEN 1 ELSE 0
  <2>1. Exact(W, whole, position + 1)
    BY <1>0, IncrementExact
  <2>2. current' = current + whole /\ position' = Unsigned(position + 1) % W
    BY <1>3, <1>0 DEF Increment
  <2>3. address' = address + 1 /\ UNCHANGED Other
    BY <1>3 DEF Increment
  <2> HIDE DEF whole
  <2> QED BY <1>0, <1>2, <2>1, <2>2, <2>3
<1>4. CASE Decrement
  <2> DEFINE whole == IF position = 0 THEN -1 ELSE 0
  <2>1. Exact(W, whole, position - 1)
    BY <1>0, DecrementExact
  <2>2. current' = current + whole /\ position' = Unsigned(position - 1) % W
    BY <1>4, <1>0 DEF Decrement
  <2>3. address' = address + (-1) /\ UNCHANGED Other
    BY <1>4 DEF Decrement, IteratorInv, TypeOK
  <2> HIDE DEF whole
  <2>4. position - 1 \in Int /\ -1 \in Int /\ position - 1 = position + (-1)
    BY <1>0
  <2> QED BY <1>2, <2>1, <2>2, <2>3, <2>4
<1>5. ASSUME NEW n \in Int, Add(n) PROVE IteratorInv'
  <2> DEFINE whole == WordsMoved(position + n, n < 0)
  <2>1. Exact(W, whole, position + n)
    BY <1>0, <1>1, CarryExact
  <2>2. /\ current' = current + whole /\ position' = Unsigned(position + n) % W
        /\ address' = address + n /\ UNCHANGED Other
    BY <1>5 DEF Add
  <2> HIDE DEF whole
  <2>3. position + n \in Int
    BY <1>0
  <2> QED BY <1>2, <2>1, <2>2, <2>3
<1>6. ASSUME NEW n \in Int, Subtract(n) PROVE IteratorInv'
  <2> DEFINE whole == WordsMoved(position - n, n > 0)
  <2>1. Exact(W, whole, position - n)
    BY <1>0, <1>1, BorrowExact
  <2>2. /\ current' = current + whole /\ position' = Unsigned(position - n) % W
        /\ address' = address + (-n) /\ UNCHANGED Other
    BY <1>6 DEF Subtract, IteratorInv, TypeOK
  <2> HIDE DEF whole
  <2>3. position - n \in Int /\ -n \in Int /\ position - n = position + (-n)
    BY <1>0
  <2> QED BY <1>2, <2>1, <2>2, <2>3
<1>7. CASE Assign
  BY <1>7 DEF Assign, IteratorInv, TypeOK, Designates
<1>8. CASE UNCHANGED vars
  BY <1>8 DEF vars, IteratorInv, TypeOK, Designates
<1> QED
  BY <1>3, <1>4, <1>5, <1>6, <1>7, <1>8, ReachAssumption DEF Next

LEMMA IteratorOrdered == IteratorInv => Ordered
<1> SUFFICES ASSUME IteratorInv PROVE Ordered
  OBVIOUS
<1>1. (current - ocurrent) * W = W * current - W * ocurrent
  BY Widths, SMTT(30) DEF IteratorInv, TypeOK
<1>2. /\ current < ocurrent => W * current + W <= W * ocurrent
      /\ ocurrent < current => W * ocurrent + W <= W * current
  BY Widths, Apart DEF IteratorInv, TypeOK
<1> QED BY <1>1, <1>2, Widths DEF Ordered, Difference, Before, IteratorInv, TypeOK, Designates

----------------------------------------------------------------------------
(* The word pointer adapters                                               *)

\* An adapter to smaller words is at piece index of source, the word_address-th.
At(s, i, a) == s \in Int /\ i \in 0 .. (Ratio - 1) /\ a \in Int /\ Ratio * s + i = a

SmallerInv == At(source, index, word_address) /\ At(osource, oindex, oword_address)

LEMMA SmallerInit ==
  ASSUME source = 0, osource = source, index \in 0 .. (Ratio - 1), oindex = index,
         word_address = index, oword_address = word_address
  PROVE  SmallerInv
BY Widths DEF SmallerInv, At

\* What every move does: its index becomes sum, distance pieces away.
LEMMA SmallerMoves ==
  ASSUME SmallerInv, NEW whole, NEW sum \in Int, NEW distance \in Int,
         Exact(Ratio, whole, sum), sum = index + distance,
         source' = source + whole, index' = Unsigned(sum) % Ratio,
         word_address' = word_address + distance,
         UNCHANGED <<osource, oindex, oword_address>>
  PROVE  SmallerInv'
<1> DEFINE r == Unsigned(sum) % Ratio
           c == source + whole
<1>1. source \in Int /\ index \in Int /\ word_address \in Int /\ Ratio * source + index = word_address
  BY Widths DEF SmallerInv, At
<1>2. c \in Int /\ r \in 0 .. (Ratio - 1) /\ Ratio * c + r = Ratio * source + sum
  BY <1>1, Widths, Moved
<1>3. source' = c /\ index' = r
  OBVIOUS
<1> HIDE DEF r, c
<1>4. Ratio * c + r = word_address + distance /\ word_address + distance \in Int
  BY <1>1, <1>2, Widths
<1> QED BY <1>2, <1>3, <1>4 DEF SmallerInv, At

LEMMA SmallerIncrement ==
  ASSUME SmallerInv, Smaller!Increment
  PROVE  SmallerInv' /\ word_address' = word_address + 1
<1>1. /\ source \in Int /\ index \in 0 .. (Ratio - 1) /\ Ratio * source + index = word_address
      /\ word_address \in Int /\ word_address' = word_address + 1
      /\ UNCHANGED <<osource, oindex, oword_address>>
      /\ IF index + 1 >= Ratio THEN source' = source + 1 /\ index' = index + 1 - Ratio
         ELSE index' = index + 1 /\ source' = source
  BY DEF SmallerInv, At, Smaller!Increment, Smaller!Step, Smaller!Other
<1>2. CASE index + 1 >= Ratio
  <2>1. source' = source + 1 /\ index' = 0 /\ index = Ratio - 1
    BY <1>1, <1>2, Widths
  <2>2. Ratio * (source + 1) = Ratio * source + Ratio
    BY <1>1, Widths
  <2> QED BY <1>1, <2>1, <2>2, Widths DEF SmallerInv, At
<1>3. CASE ~(index + 1 >= Ratio)
  BY <1>1, <1>3, Widths DEF SmallerInv, At
<1> QED BY <1>1, <1>2, <1>3

\* The index wraps round before Ratio is added to it.
LEMMA WrapsRound == Unsigned(Unsigned(0 - 1) + Ratio) = Ratio - 1
<1>1. /\ SizeMod \in Nat /\ SizeMod > 0 /\ Ratio \in Nat /\ Ratio > 0 /\ SizeMod % Ratio = 0
  BY Widths DEF Divides
<1>2. SizeMod >= Ratio
  <2>1. SizeMod = Ratio * (SizeMod \div Ratio) /\ SizeMod \div Ratio \in Int
    BY <1>1
  <2>2. SizeMod \div Ratio >= 1
    BY <1>1, <2>1, SMTT(30)
  <2> QED BY <1>1, <2>1, <2>2, SMTT(30)
<1>3. (0 - 1) % SizeMod = SizeMod - 1
  <2>1. 0 - 1 = SizeMod * (-1) + (SizeMod - 1) /\ SizeMod - 1 \in 0 .. (SizeMod - 1)
    BY <1>1
  <2> QED BY <1>1, <2>1, DivisionUnique
<1>4. (SizeMod - 1 + Ratio) % SizeMod = Ratio - 1
  <2>1. SizeMod - 1 + Ratio = SizeMod * 1 + (Ratio - 1) /\ Ratio - 1 \in 0 .. (SizeMod - 1)
    BY <1>1, <1>2
  <2>2. SizeMod - 1 + Ratio \in Int
    BY <1>1
  <2> QED BY <1>1, <2>1, <2>2, DivisionUnique
<1> QED BY <1>3, <1>4 DEF Unsigned

LEMMA SmallerDecrement ==
  ASSUME SmallerInv, Smaller!Decrement
  PROVE  SmallerInv' /\ word_address' = word_address - 1
<1>1. /\ source \in Int /\ index \in 0 .. (Ratio - 1) /\ Ratio * source + index = word_address
      /\ word_address \in Int /\ word_address' = word_address - 1
      /\ UNCHANGED <<osource, oindex, oword_address>>
      /\ index = 0 => source' = source - 1 /\ index' = Unsigned(Unsigned(index - 1) + Ratio)
      /\ index # 0 => source' = source /\ index' = index - 1
  BY DEF SmallerInv, At, Smaller!Decrement, Smaller!Step, Smaller!Other, Smaller!Unsigned, Unsigned
<1>2. CASE index = 0
  <2>1. source' = source - 1 /\ index' = Ratio - 1
    BY <1>1, <1>2, WrapsRound
  <2>2. Ratio * (source - 1) = Ratio * source - Ratio
    BY <1>1, Widths
  <2>3. source - 1 \in Int /\ Ratio - 1 \in 0 .. (Ratio - 1) /\ word_address - 1 \in Int
        /\ Ratio * (source - 1) + (Ratio - 1) = word_address - 1
    BY <1>1, <1>2, <2>2, Widths
  <2> QED BY <1>1, <2>1, <2>3 DEF SmallerInv, At
<1>3. CASE index # 0
  BY <1>1, <1>3, Widths DEF SmallerInv, At
<1> QED BY <1>1, <1>2, <1>3

LEMMA SmallerAdd ==
  ASSUME SmallerInv, NEW n \in Int, Smaller!Add(n)
  PROVE  SmallerInv' /\ word_address' = word_address + n
<1> DEFINE whole == Carry(index + n, n < 0, Ratio)
<1>1. /\ source' = source + whole /\ index' = Unsigned(index + n) % Ratio
      /\ word_address' = word_address + n * 1 /\ UNCHANGED <<osource, oindex, oword_address>>
  BY DEF Smaller!Add, Smaller!SourceMoved, Smaller!Quotient, Smaller!Unsigned, Smaller!Step,
         Smaller!Other, Carry, Quotient, Unsigned
<1>2. index \in 0 .. (Ratio - 1) /\ index + n \in Int /\ n * 1 = n
  BY Widths DEF SmallerInv, At
<1>3. Exact(Ratio, whole, index + n)
  BY <1>2, Widths, CarryExact
<1> HIDE DEF whole
<1> QED BY <1>1, <1>2, <1>3, SmallerMoves

LEMMA SmallerSubtract ==
  ASSUME SmallerInv, NEW n \in Int, Smaller!Subtract(n)
  PROVE  SmallerInv' /\ word_address' = word_address - n
<1> DEFINE whole == Carry(index - n, n > 0, Ratio)
<1>1. /\ source' = source + whole /\ index' = Unsigned(index - n) % Ratio
      /\ word_address' = word_address - n * 1 /\ UNCHANGED <<osource, oindex, oword_address>>
  BY DEF Smaller!Subtract, Smaller!SourceMoved, Smaller!Quotient, Smaller!Unsigned, Smaller!Step,
         Smaller!Other, Carry, Quotient, Unsigned
<1>2. /\ index \in 0 .. (Ratio - 1) /\ index - n \in Int /\ n * 1 = n /\ -n \in Int
      /\ index - n = index + (-n) /\ word_address - n = word_address + (-n)
  BY Widths DEF SmallerInv, At
<1>3. Exact(Ratio, whole, index - n)
  BY <1>2, Widths, BorrowExact
<1> HIDE DEF whole
<1> QED BY <1>1, <1>2, <1>3, SmallerMoves

LEMMA SmallerNext ==
  ASSUME SmallerInv, Smaller!Next
  PROVE  SmallerInv'
<1>1. CASE Smaller!Assign
  BY <1>1 DEF Smaller!Assign, SmallerInv, At
<1>2. ASSUME NEW s \in Int, Smaller!Construct(s) PROVE SmallerInv'
  <2>1. /\ osource' = s /\ oindex' \in 0 .. (Ratio - 1) /\ oword_address' = s * Ratio + oindex'
        /\ UNCHANGED <<source, index, word_address>>
    BY <1>2 DEF Smaller!Construct, Smaller!FreshIndex
  <2> DEFINE i == oindex'
  <2>2. i \in 0 .. (Ratio - 1) /\ oindex' = i
    BY <2>1
  <2> HIDE DEF i
  <2>3. s * Ratio = Ratio * s /\ Ratio * s \in Int /\ i \in Int
    BY <2>2, Widths
  <2>4. s * Ratio + i \in Int
    BY <2>3
  <2> QED BY <2>1, <2>2, <2>3, <2>4 DEF SmallerInv, At
<1>3. PointerReach \in Nat
  BY RatioAssumption
<1> QED BY <1>1, <1>2, <1>3, SmallerIncrement, SmallerDecrement, SmallerAdd, SmallerSubtract
        DEF Smaller!Next

LEMMA SmallerImplies ==
  ASSUME SmallerInv
  PROVE  Smaller!TypeOK /\ Smaller!Designates /\ Smaller!Distance /\ Smaller!Compares
<1>1. /\ source \in Int /\ index \in 0 .. (Ratio - 1) /\ word_address \in Int
      /\ osource \in Int /\ oindex \in 0 .. (Ratio - 1) /\ oword_address \in Int
      /\ Ratio * source + index = word_address /\ Ratio * osource + oindex = oword_address
      /\ Ratio \in Nat /\ Ratio > 1
  BY Widths DEF SmallerInv, At
<1>2. /\ source * Ratio = Ratio * source /\ osource * Ratio = Ratio * osource
      /\ (source - osource) * Ratio = Ratio * source - Ratio * osource
      /\ Ratio * source \in Int /\ Ratio * osource \in Int
  BY <1>1, SMTT(30)
<1>3. Smaller!TypeOK /\ Smaller!Designates
  BY <1>1, <1>2 DEF Smaller!TypeOK, Smaller!Designates, Smaller!Place
<1>4. Smaller!Distance
  BY <1>1, <1>2 DEF Smaller!Distance, Smaller!Step, Smaller!Difference
<1>5. Smaller!Compares
  <2>1. /\ source < osource => Ratio * source + Ratio <= Ratio * osource
        /\ osource < source => Ratio * osource + Ratio <= Ratio * source
    BY <1>1, Apart
  <2>2. source = osource => Ratio * source = Ratio * osource
    OBVIOUS
  <2> QED BY <1>1, <1>2, <2>1, <2>2 DEF Smaller!Compares, Smaller!Equal, Smaller!Before
<1> QED BY <1>3, <1>4, <1>5

\* An adapter to bigger words is at a source word; its index is not used.
BiggerInv == Bigger!TypeOK /\ Bigger!Designates

LEMMA BiggerInit ==
  ASSUME Bigger!Init
  PROVE  BiggerInv
BY Widths DEF Bigger!Init, Bigger!FreshIndex, BiggerInv, Bigger!TypeOK, Bigger!Designates,
              Bigger!Place

LEMMA BiggerNext ==
  ASSUME BiggerInv, Bigger!Next
  PROVE  BiggerInv'
<1> USE DEF BiggerInv, Bigger!TypeOK, Bigger!Designates, Bigger!Place, Bigger!Step, Bigger!Other
<1>1. CASE Bigger!Increment
  BY <1>1, Widths DEF Bigger!Increment
<1>2. CASE Bigger!Decrement
  BY <1>2, Widths DEF Bigger!Decrement
<1>3. ASSUME NEW n \in Int, Bigger!Add(n) PROVE BiggerInv'
  <2>1. n * Ratio \in Int
    BY Widths
  <2> QED BY <1>3, <2>1 DEF Bigger!Add
<1>4. ASSUME NEW n \in Int, Bigger!Subtract(n) PROVE BiggerInv'
  <2>1. n * Ratio \in Int
    BY Widths
  <2> QED BY <1>4, <2>1 DEF Bigger!Subtract
<1>5. CASE Bigger!Assign
  BY <1>5 DEF Bigger!Assign
<1>6. ASSUME NEW s \in Int, Bigger!Construct(s) PROVE BiggerInv'
  BY <1>6, Widths DEF Bigger!Construct, Bigger!FreshIndex
<1>7. Ratio * PointerReach \in Int /\ -2 * (Ratio * PointerReach) \in Int
      /\ 2 * (Ratio * PointerReach) \in Int /\ -(Ratio * PointerReach) \in Int
  BY RatioAssumption
<1>8. ASSUME NEW n \in -2 * (Ratio * PointerReach) .. 2 * (Ratio * PointerReach) PROVE n \in Int
  BY <1>7
<1>9. ASSUME NEW n \in -(Ratio * PointerReach) .. Ratio * PointerReach PROVE n \in Int
  BY <1>7
<1> QED BY <1>1, <1>2, <1>3, <1>4, <1>5, <1>6, <1>8, <1>9 DEF Bigger!Next

\* C++'s quotient of a multiple is the factor.
LEMMA QuotientOfMultiple ==
  ASSUME NEW a \in Int, a % Ratio = 0
  PROVE  Quotient(a, Ratio) * Ratio = a
<1> DEFINE q == a \div Ratio
<1>1. a = Ratio * q /\ q \in Int /\ Ratio \in Nat /\ Ratio > 0
  BY Widths
<1>2. CASE a >= 0
  BY <1>1, <1>2 DEF Quotient
<1>3. CASE ~(a >= 0)
  <2> HIDE DEF q
  <2>1. -a = Ratio * (-q) + 0 /\ 0 \in 0 .. (Ratio - 1) /\ -q \in Int /\ -a \in Int
    BY <1>1, SMTT(30)
  <2>2. (-a) \div Ratio = -q
    BY <1>1, <2>1, DivisionUnique
  <2>3. Quotient(a, Ratio) = q
    BY <1>1, <1>3, <2>2 DEF Quotient
  <2> QED BY <1>1, <2>3
<1> QED BY <1>2, <1>3

LEMMA BiggerImplies ==
  ASSUME BiggerInv
  PROVE  Bigger!Designates /\ Bigger!Distance
<1>1. source = word_address /\ osource = oword_address /\ source \in Int /\ osource \in Int
  BY DEF BiggerInv, Bigger!TypeOK, Bigger!Designates, Bigger!Place
<1>2. ASSUME (source - osource) % Ratio = 0
      PROVE  Quotient(source - osource, Ratio) * Ratio = source - osource
  BY <1>1, <1>2, QuotientOfMultiple
<1>3. Bigger!Quotient(source - osource, Ratio) = Quotient(source - osource, Ratio)
  BY DEF Bigger!Quotient, Quotient
<1> QED BY <1>1, <1>2, <1>3 DEF BiggerInv, Bigger!Distance, Bigger!Difference, Bigger!Step

----------------------------------------------------------------------------
(* A bit iterator over an adapter                                          *)

\* The position is in the piece the adapter designates.
AdaptedInv ==
  /\ SmallerInv
  /\ in_piece \in 0 .. (Digits - 1) /\ bit \in Int /\ Digits * word_address + in_piece = bit
  /\ oin_piece \in 0 .. (Digits - 1) /\ obit \in Int /\ Digits * oword_address + oin_piece = obit

LEMMA AdaptedInit ==
  ASSUME Smaller!AdaptedInit
  PROVE  AdaptedInv
<1>1. PICK p \in 0 .. (Ratio * Digits - 1) :
        /\ source = 0 /\ index = p \div Digits /\ in_piece = p % Digits /\ bit = p
        /\ osource = source /\ oindex = index /\ oin_piece = in_piece /\ obit = bit
        /\ word_address = source * Ratio + index /\ oword_address = word_address
  BY DEF Smaller!AdaptedInit, Smaller!SourceDigits, Smaller!Adapted
<1> DEFINE q == p \div Digits
           r == p % Digits
<1>2. Ratio * Digits \in Int /\ p \in Int /\ 0 <= p /\ p < Ratio * Digits
  BY Widths
<1>3. p = Digits * q + r /\ q \in Int /\ r \in 0 .. (Digits - 1)
  BY <1>2, Widths
<1>4. index = q /\ in_piece = r
  BY <1>1
<1> HIDE DEF q, r
<1>5. q \in 0 .. (Ratio - 1)
  <2>1. q >= 0
    <3>1. CASE q < 0
      <4>1. Digits * q + Digits <= Digits * 0
        BY <1>3, <3>1, Widths, Apart
      <4> QED BY <1>2, <1>3, <4>1, Widths
    <3> QED BY <1>3, <3>1
  <2>2. q < Ratio
    <3>1. CASE q > Ratio - 1
      <4>1. Digits * (Ratio - 1) + Digits <= Digits * q
        BY <1>3, <3>1, Widths, Apart
      <4>2. Digits * (Ratio - 1) + Digits = Ratio * Digits
        BY Widths, SMTT(30)
      <4> QED BY <1>2, <1>3, <4>1, <4>2, Widths
    <3> QED BY <1>3, <3>1, Widths
  <2> QED BY <1>3, <2>1, <2>2, Widths
<1>6. word_address = q /\ oword_address = word_address
  BY <1>1, <1>3, <1>4, Widths
<1>7. SmallerInv
  BY <1>1, <1>4, <1>5, <1>6, SmallerInit
<1> QED BY <1>1, <1>2, <1>3, <1>4, <1>6, <1>7 DEF AdaptedInv

\* What every move does: its position becomes sum, distance bits away.
LEMMA AdaptedMoves ==
  ASSUME AdaptedInv, SmallerInv', NEW whole, NEW sum \in Int, NEW distance \in Int,
         Exact(Digits, whole, sum), sum = in_piece + distance,
         word_address' = word_address + whole, in_piece' = Unsigned(sum) % Digits,
         bit' = bit + distance, UNCHANGED <<oword_address, oin_piece, obit>>
  PROVE  AdaptedInv'
<1> DEFINE r == Unsigned(sum) % Digits
           c == word_address + whole
<1>1. /\ word_address \in Int /\ in_piece \in Int /\ bit \in Int
      /\ Digits * word_address + in_piece = bit
  BY Widths DEF AdaptedInv, SmallerInv, At
<1>2. c \in Int /\ r \in 0 .. (Digits - 1) /\ Digits * c + r = Digits * word_address + sum
  BY <1>1, Widths, Moved
<1>3. word_address' = c /\ in_piece' = r
  OBVIOUS
<1> HIDE DEF r, c
<1>4. Digits * c + r = bit + distance /\ bit + distance \in Int
  BY <1>1, <1>2, Widths
<1> QED BY <1>2, <1>3, <1>4 DEF AdaptedInv

LEMMA AdaptedNext ==
  ASSUME AdaptedInv, Smaller!AdaptedNext
  PROVE  AdaptedInv'
<1>1. /\ in_piece \in 0 .. (Digits - 1) /\ in_piece \in Int /\ bit \in Int /\ word_address \in Int
      /\ SmallerInv /\ Divides(Digits)
  BY Widths DEF AdaptedInv, SmallerInv, At
<1>2. CASE Smaller!BitIncrement
  <2> DEFINE whole == IF Unsigned(in_piece + 1) % Digits = 0 THEN 1 ELSE 0
  <2>1. Exact(Digits, whole, in_piece + 1)
    BY <1>1, IncrementExact
  <2>2. /\ in_piece' = Unsigned(in_piece + 1) % Digits /\ bit' = bit + 1
        /\ UNCHANGED <<oin_piece, obit>>
    BY <1>2 DEF Smaller!BitIncrement, Smaller!Unsigned, Unsigned
  <2>3. SmallerInv' /\ word_address' = word_address + whole /\ oword_address' = oword_address
    <3>1. CASE in_piece' = 0
      <4>1. Smaller!Increment
        BY <1>2, <3>1 DEF Smaller!BitIncrement
      <4> QED BY <1>1, <2>2, <3>1, <4>1, SmallerIncrement DEF Smaller!Increment, Smaller!Other
    <3>2. CASE in_piece' # 0
      <4>1. UNCHANGED pointer_vars
        BY <1>2, <3>2 DEF Smaller!BitIncrement, Smaller!vars, pointer_vars
      <4> QED BY <1>1, <2>2, <3>2, <4>1 DEF pointer_vars, SmallerInv, At
    <3> QED BY <3>1, <3>2
  <2> HIDE DEF whole
  <2>4. in_piece + 1 \in Int
    BY <1>1
  <2> QED BY <2>1, <2>2, <2>3, <2>4, AdaptedMoves
<1>3. CASE Smaller!BitDecrement
  <2> DEFINE whole == IF in_piece = 0 THEN -1 ELSE 0
  <2>1. Exact(Digits, whole, in_piece - 1)
    BY <1>1, DecrementExact
  <2>2. /\ in_piece' = Unsigned(in_piece - 1) % Digits /\ bit' = bit - 1
        /\ UNCHANGED <<oin_piece, obit>>
    BY <1>3 DEF Smaller!BitDecrement, Smaller!Unsigned, Unsigned
  <2>3. SmallerInv' /\ word_address' = word_address + whole /\ oword_address' = oword_address
    <3>1. CASE in_piece = 0
      <4>1. Smaller!Decrement
        BY <1>3, <3>1 DEF Smaller!BitDecrement
      <4> QED BY <1>1, <3>1, <4>1, SmallerDecrement DEF Smaller!Decrement, Smaller!Other
    <3>2. CASE in_piece # 0
      <4>1. UNCHANGED pointer_vars
        BY <1>3, <3>2 DEF Smaller!BitDecrement, Smaller!vars, pointer_vars
      <4> QED BY <1>1, <3>2, <4>1 DEF pointer_vars, SmallerInv, At
    <3> QED BY <3>1, <3>2
  <2> HIDE DEF whole
  <2>4. in_piece - 1 \in Int /\ -1 \in Int /\ in_piece - 1 = in_piece + (-1) /\ bit - 1 = bit + (-1)
    BY <1>1
  <2> QED BY <2>1, <2>2, <2>3, <2>4, AdaptedMoves
<1>4. ASSUME NEW n \in Int, Smaller!Advance(n) PROVE AdaptedInv'
  <2> DEFINE whole == Carry(in_piece + n, n < 0, Digits)
  <2>1. Exact(Digits, whole, in_piece + n)
    BY <1>1, CarryExact
  <2>2. /\ in_piece' = Unsigned(in_piece + n) % Digits /\ bit' = bit + n
        /\ Smaller!Add(whole) /\ UNCHANGED <<oin_piece, obit>>
    BY <1>4 DEF Smaller!Advance, Smaller!PiecesMoved, Smaller!Quotient, Smaller!Unsigned, Unsigned,
                Carry, Quotient
  <2> HIDE DEF whole
  <2>3. whole \in Int /\ Smaller!Add(whole) /\ in_piece + n \in Int
    BY <1>1, <2>1, <2>2 DEF Exact
  <2>4. SmallerInv' /\ word_address' = word_address + whole /\ oword_address' = oword_address
    BY <1>1, <2>3, SmallerAdd DEF Smaller!Add, Smaller!Other
  <2> QED BY <2>1, <2>2, <2>3, <2>4, AdaptedMoves
<1>5. CASE Smaller!BitAssign
  <2>1. SmallerInv' /\ UNCHANGED word_address /\ oword_address' = word_address
    BY <1>1, <1>5 DEF Smaller!BitAssign, Smaller!Assign, SmallerInv, At
  <2> QED BY <1>5, <2>1 DEF Smaller!BitAssign, AdaptedInv
<1>6. ASSUME NEW n \in (-2 * PointerReach * Smaller!SourceDigits)
                         .. (2 * PointerReach * Smaller!SourceDigits)
      PROVE  n \in Int
  <2>1. PointerReach \in Int /\ Smaller!SourceDigits \in Int
    BY Widths, RatioAssumption DEF Smaller!SourceDigits
  <2>2. -2 * PointerReach * Smaller!SourceDigits \in Int /\ 2 * PointerReach * Smaller!SourceDigits \in Int
    BY <2>1
  <2> QED BY <2>2
<1> QED BY <1>2, <1>3, <1>4, <1>5, <1>6 DEF Smaller!AdaptedNext

LEMMA AdaptedImplies ==
  ASSUME AdaptedInv
  PROVE  Smaller!AdaptedTypeOK /\ Smaller!ConvertsBack /\ Smaller!BitDistance
<1>1. /\ source \in Int /\ index \in 0 .. (Ratio - 1) /\ word_address \in Int
      /\ osource \in Int /\ oindex \in 0 .. (Ratio - 1) /\ oword_address \in Int
      /\ Ratio * source + index = word_address /\ Ratio * osource + oindex = oword_address
      /\ in_piece \in 0 .. (Digits - 1) /\ bit \in Int /\ Digits * word_address + in_piece = bit
      /\ oin_piece \in 0 .. (Digits - 1) /\ obit \in Int
      /\ Digits * oword_address + oin_piece = obit
      /\ Ratio \in Nat /\ Ratio > 1 /\ Digits \in Nat /\ Digits > 0
  BY Widths DEF AdaptedInv, SmallerInv, At
<1>2. Smaller!AdaptedTypeOK
  BY <1>1 DEF Smaller!AdaptedTypeOK, Smaller!TypeOK
<1>3. Smaller!ConvertsBack
  <2>1. index * Digits + in_piece \in 0 .. (Ratio * Digits - 1)
    <3>1. index * Digits >= 0 /\ index * Digits \in Int /\ Ratio * Digits \in Int
      BY <1>1, SMTT(30)
    <3>2. Digits * index + Digits <= Digits * Ratio
      BY <1>1, Apart
    <3>3. Digits * index = index * Digits /\ Digits * Ratio = Ratio * Digits
      BY <1>1
    <3> QED BY <1>1, <3>1, <3>2, <3>3
  <2>2. source * (Ratio * Digits) + (index * Digits + in_piece) = bit
    <3>1. Digits * (Ratio * source + index) = source * (Ratio * Digits) + index * Digits
      BY <1>1, SMTT(30)
    <3>2. source * (Ratio * Digits) \in Int /\ index * Digits \in Int
      BY <1>1
    <3> QED BY <1>1, <3>1, <3>2
  <2> QED BY <2>1, <2>2 DEF Smaller!ConvertsBack, Smaller!Converted, Smaller!SourceDigits
<1>4. Smaller!BitDistance
  <2>1. (source - osource) * Ratio + (index - oindex) = word_address - oword_address
    <3>1. (source - osource) * Ratio = Ratio * source - Ratio * osource
      BY <1>1, SMTT(30)
    <3>2. Ratio * source \in Int /\ Ratio * osource \in Int
      BY <1>1
    <3> QED BY <1>1, <3>1, <3>2
  <2>2. (word_address - oword_address) * Digits = Digits * word_address - Digits * oword_address
    BY <1>1, SMTT(30)
  <2>3. Digits * word_address \in Int /\ Digits * oword_address \in Int
    BY <1>1
  <2>4. (word_address - oword_address) * Digits + (in_piece - oin_piece) = bit - obit
    BY <1>1, <2>2, <2>3
  <2> QED BY <2>1, <2>4 DEF Smaller!BitDistance, Smaller!Difference
<1> QED BY <1>2, <1>3, <1>4

----------------------------------------------------------------------------
(* References to the words an adapter designates                           *)

NewPieces == 0 .. (NumPieces - 1)

\* Pieces between two others of one word are of the memory, as it holds whole words.
LEMMA WholeWords ==
  ASSUME NEW s \in Int, NEW i \in 0 .. (PieceRatio - 1), NEW j \in 0 .. (PieceRatio - 1),
         s * PieceRatio + i \in NewPieces
  PROVE  s * PieceRatio + j \in NewPieces
<1> DEFINE q == NumPieces \div PieceRatio
<1>1. /\ PieceRatio \in Nat /\ PieceRatio > 1 /\ NumPieces \in Nat
      /\ NumPieces = PieceRatio * q /\ q \in Int
  BY PieceAssumption
<1> HIDE DEF q
<1>2. s * PieceRatio = PieceRatio * s /\ PieceRatio * s \in Int
  BY <1>1
<1>3. s < q
  <2>1. CASE s >= q
    <3>1. PieceRatio * s >= PieceRatio * q
      BY <1>1, <2>1, SMTT(30)
    <3> QED BY <1>1, <1>2, <3>1 DEF NewPieces
  <2> QED BY <1>1, <2>1
<1>4. s >= 0
  <2>1. CASE s < 0
    <3>1. PieceRatio * s + PieceRatio <= PieceRatio * 0
      BY <1>1, <2>1, Apart
    <3> QED BY <1>1, <1>2, <3>1 DEF NewPieces
  <2> QED BY <2>1
<1>5. PieceRatio * s >= 0
  BY <1>1, <1>4, SMTT(30)
<1>6. PieceRatio * s + PieceRatio <= PieceRatio * q
  BY <1>1, <1>3, Apart
<1> QED BY <1>1, <1>2, <1>5, <1>6 DEF NewPieces

\* A piece is at one place of one word.
LEMMA PlaceOfPiece ==
  ASSUME NEW s \in Int, NEW i \in 0 .. (PieceRatio - 1)
  PROVE  (s * PieceRatio + i) \div PieceRatio = s /\ (s * PieceRatio + i) % PieceRatio = i
<1>1. PieceRatio \in Nat /\ PieceRatio > 0
  BY PieceAssumption
<1>2. s * PieceRatio + i = PieceRatio * s + i /\ s * PieceRatio + i \in Int
  BY <1>1
<1> QED BY <1>1, <1>2, DivisionUnique

LEMMA PieceOfPlace ==
  ASSUME NEW p \in Int
  PROVE  /\ p \div PieceRatio \in Int /\ p % PieceRatio \in 0 .. (PieceRatio - 1)
         /\ (p \div PieceRatio) * PieceRatio + (p % PieceRatio) = p
<1>1. PieceRatio \in Nat /\ PieceRatio > 0
  BY PieceAssumption
<1>2. p = PieceRatio * (p \div PieceRatio) + (p % PieceRatio)
      /\ p \div PieceRatio \in Int /\ p % PieceRatio \in 0 .. (PieceRatio - 1)
  BY <1>1
<1> QED BY <1>1, <1>2

\* The piece an adapter to smaller words stands for.
Stood(ref) == ref.source * PieceRatio + ref.index

\* Such an adapter reads the piece at its index of its source word.
ToSmallerInv ==
  /\ memory \in [NewPieces -> Piece] /\ expected = memory
  /\ lhs \in [source : Int, index : 0 .. (PieceRatio - 1)] /\ Stood(lhs) \in NewPieces
  /\ rhs \in [source : Int, index : 0 .. (PieceRatio - 1)] /\ Stood(rhs) \in NewPieces
  /\ lvalue = [i \in {0} |-> memory[Stood(lhs)]]
  /\ rvalue = [i \in {0} |-> memory[Stood(rhs)]]

LEMMA ToSmallerImplies ==
  ASSUME ToSmallerInv
  PROVE  ToSmaller!TypeOK /\ ToSmaller!WordsExact
<1>1. 0 .. (1 - 1) = {0}
  OBVIOUS
<1>2. Stood(lhs) + 0 = Stood(lhs) /\ Stood(rhs) + 0 = Stood(rhs)
  BY PieceAssumption DEF ToSmallerInv, NewPieces
<1>3. /\ ToSmaller!Begin(lhs) = Stood(lhs) /\ ToSmaller!Begin(rhs) = Stood(rhs)
      /\ ToSmaller!InSource = PieceRatio /\ ToSmaller!InTarget = 1 /\ ToSmaller!Pieces = NewPieces
  BY DEF ToSmaller!Begin, ToSmaller!InSource, ToSmaller!InTarget, ToSmaller!Pieces, Stood, NewPieces
<1>4. lvalue \in ToSmaller!Value /\ rvalue \in ToSmaller!Value
  BY <1>1, <1>3 DEF ToSmaller!Value, ToSmallerInv
<1>5. ToSmaller!WordsExact
  BY <1>1, <1>2, <1>3 DEF ToSmaller!WordsExact, ToSmaller!Read, ToSmallerInv
<1>6. ToSmaller!TypeOK
  BY <1>3, <1>4 DEF ToSmaller!TypeOK, ToSmaller!Stands, NewPieces, ToSmallerInv
<1> QED BY <1>5, <1>6

LEMMA ToSmallerInit ==
  ASSUME ToSmaller!Init
  PROVE  ToSmallerInv
<1> USE DEF ToSmaller!InSource, ToSmaller!InTarget, ToSmaller!Pieces
<1>1. PICK p, q \in NewPieces :
        /\ memory \in [NewPieces -> Piece] /\ expected = memory
        /\ lhs = [source |-> p \div PieceRatio, index |-> p % PieceRatio]
        /\ rhs = [source |-> q \div PieceRatio, index |-> q % PieceRatio]
        /\ lvalue = [i \in 0 .. (1 - 1) |-> memory[p + i]]
        /\ rvalue = [i \in 0 .. (1 - 1) |-> memory[q + i]]
  BY DEF ToSmaller!Init, ToSmaller!Adapter, NewPieces
<1>2. 0 .. (1 - 1) = {0} /\ p + 0 = p /\ q + 0 = q /\ p \in Int /\ q \in Int
  BY PieceAssumption DEF NewPieces
<1>3. /\ lhs \in [source : Int, index : 0 .. (PieceRatio - 1)] /\ Stood(lhs) = p
      /\ rhs \in [source : Int, index : 0 .. (PieceRatio - 1)] /\ Stood(rhs) = q
  BY <1>1, <1>2, PieceOfPlace DEF Stood
<1> QED BY <1>1, <1>2, <1>3 DEF ToSmallerInv

\* What is written is there, and rhs reads what the memory has.
LEMMA ToSmallerWrites ==
  ASSUME ToSmallerInv, NEW v \in [{0} -> Piece],
         memory' = ToSmaller!Stored(memory, lhs, v), ToSmaller!Wrote(v)
  PROVE  ToSmallerInv'
<1>1. /\ memory \in [NewPieces -> Piece] /\ expected = memory
      /\ lhs \in [source : Int, index : 0 .. (PieceRatio - 1)] /\ Stood(lhs) \in NewPieces
      /\ rhs \in [source : Int, index : 0 .. (PieceRatio - 1)] /\ Stood(rhs) \in NewPieces
  BY DEF ToSmallerInv
<1>2. /\ memory' = [p \in NewPieces |-> IF p - Stood(lhs) \in 0 .. (1 - 1) THEN v[p - Stood(lhs)]
                                        ELSE memory[p]]
      /\ expected' = memory' /\ lvalue' = v
      /\ rvalue' = [i \in 0 .. (1 - 1) |-> memory'[Stood(rhs) + i]]
      /\ lhs' = lhs /\ rhs' = rhs
  BY <1>1 DEF ToSmaller!Stored, ToSmaller!Wrote, ToSmaller!Read, ToSmaller!Begin,
         ToSmaller!InSource, ToSmaller!InTarget, ToSmaller!Pieces, Stood, NewPieces
<1>3. 0 .. (1 - 1) = {0} /\ Stood(rhs) + 0 = Stood(rhs) /\ Stood(lhs) - Stood(lhs) = 0
  BY <1>1, PieceAssumption DEF NewPieces
<1>4. memory' \in [NewPieces -> Piece]
  BY <1>1, <1>2, <1>3
<1>5. lvalue' = [i \in {0} |-> memory'[Stood(lhs)]]
  BY <1>1, <1>2, <1>3
<1>6. rvalue' = [i \in {0} |-> memory'[Stood(rhs)]]
  BY <1>2, <1>3
<1>7. Stood(lhs)' = Stood(lhs) /\ Stood(rhs)' = Stood(rhs)
  BY <1>2 DEF Stood
<1> QED BY <1>1, <1>2, <1>4, <1>5, <1>6, <1>7 DEF ToSmallerInv

\* The piece p of the memory SourcesSwapped makes was there: in the other source
\* word, if p is in one of the two.
LEMMA ToSmallerSwapped ==
  ASSUME ToSmallerInv
  PROVE  /\ ToSmaller!SourcesSwapped(lhs, rhs) \in [NewPieces -> Piece]
         /\ \A i \in 0 .. (PieceRatio - 1) :
              /\ lhs.source * PieceRatio + i \in NewPieces
              /\ rhs.source * PieceRatio + i \in NewPieces
              /\ ToSmaller!SourcesSwapped(lhs, rhs)[lhs.source * PieceRatio + i]
                   = memory[rhs.source * PieceRatio + i]
              /\ ToSmaller!SourcesSwapped(lhs, rhs)[rhs.source * PieceRatio + i]
                   = memory[lhs.source * PieceRatio + i]
<1> DEFINE a == lhs.source
           b == rhs.source
           from(p) == IF p \div PieceRatio = a THEN p + (b - a) * PieceRatio
                      ELSE IF p \div PieceRatio = b THEN p + (a - b) * PieceRatio
                      ELSE p
<1>1. /\ memory \in [NewPieces -> Piece] /\ PieceRatio \in Nat /\ PieceRatio > 0
      /\ a \in Int /\ b \in Int
      /\ lhs.index \in 0 .. (PieceRatio - 1) /\ rhs.index \in 0 .. (PieceRatio - 1)
      /\ a * PieceRatio + lhs.index \in NewPieces /\ b * PieceRatio + rhs.index \in NewPieces
  BY PieceAssumption DEF ToSmallerInv, Stood
<1>2. ToSmaller!SourcesSwapped(lhs, rhs) = [p \in NewPieces |-> memory[from(p)]]
  BY DEF ToSmaller!SourcesSwapped, ToSmaller!InSource, ToSmaller!Pieces, NewPieces
<1> HIDE DEF a, b
<1>3. ASSUME NEW i \in 0 .. (PieceRatio - 1)
      PROVE  a * PieceRatio + i \in NewPieces /\ b * PieceRatio + i \in NewPieces
  BY <1>1, WholeWords
<1>4. \A i \in 0 .. (PieceRatio - 1) :
        /\ from(a * PieceRatio + i) = b * PieceRatio + i
        /\ from(b * PieceRatio + i) = a * PieceRatio + i
  <2> TAKE i \in 0 .. (PieceRatio - 1)
  <2>1. (a * PieceRatio + i) \div PieceRatio = a /\ (b * PieceRatio + i) \div PieceRatio = b
    BY <1>1, PlaceOfPiece
  <2>2. /\ a * PieceRatio + i + (b - a) * PieceRatio = b * PieceRatio + i
        /\ b * PieceRatio + i + (a - b) * PieceRatio = a * PieceRatio + i
    <3>1. /\ (b - a) * PieceRatio = b * PieceRatio - a * PieceRatio
          /\ (a - b) * PieceRatio = a * PieceRatio - b * PieceRatio
      BY <1>1, SMTT(30)
    <3>2. a * PieceRatio \in Int /\ b * PieceRatio \in Int
      BY <1>1
    <3> QED BY <1>1, <3>1, <3>2
  <2> QED BY <2>1, <2>2
<1>5. \A p \in NewPieces : from(p) \in NewPieces
  <2> TAKE p \in NewPieces
  <2>1. /\ p \in Int /\ p % PieceRatio \in 0 .. (PieceRatio - 1)
        /\ (p \div PieceRatio) * PieceRatio + (p % PieceRatio) = p
    BY PieceOfPlace, PieceAssumption DEF NewPieces
  <2>2. CASE p \div PieceRatio = a
    BY <1>3, <1>4, <2>1, <2>2
  <2>3. CASE p \div PieceRatio = b
    BY <1>3, <1>4, <2>1, <2>3
  <2> QED BY <2>2, <2>3
<1> HIDE DEF from
<1>6. [p \in NewPieces |-> memory[from(p)]] \in [NewPieces -> Piece]
  BY <1>1, <1>5
<1> QED BY <1>2, <1>3, <1>4, <1>6 DEF a, b

LEMMA ToSmallerNext ==
  ASSUME ToSmallerInv, ToSmaller!Next
  PROVE  ToSmallerInv'
<1>0. 0 .. (1 - 1) = {0}
  OBVIOUS
<1>1. ASSUME NEW v \in ToSmaller!Value, ToSmaller!Assign(v) PROVE ToSmallerInv'
  <2>1. v \in [{0} -> Piece]
    BY <1>0 DEF ToSmaller!Value, ToSmaller!InTarget
  <2> QED BY <1>1, <2>1, ToSmallerWrites DEF ToSmaller!Assign
<1>2. CASE ToSmaller!AssignReference
  <2>1. rvalue \in [{0} -> Piece] /\ ToSmaller!Read(memory, rhs) = rvalue
    BY <1>0, ToSmallerImplies DEF ToSmaller!TypeOK, ToSmaller!WordsExact, ToSmaller!Value,
                                  ToSmaller!InTarget
  <2> QED BY <1>2, <2>1, ToSmallerWrites DEF ToSmaller!AssignReference
<1>3. CASE ToSmaller!Swap
  <2>1. /\ memory' = ToSmaller!SourcesSwapped(lhs, rhs) /\ expected' = memory'
        /\ lhs' = [lhs EXCEPT !.index = rhs.index] /\ rhs' = [rhs EXCEPT !.index = lhs.index]
        /\ lvalue' = rvalue /\ rvalue' = lvalue
    BY <1>3 DEF ToSmaller!Swap
  <2>2. /\ lhs' = [source |-> lhs.source, index |-> rhs.index]
        /\ rhs' = [source |-> rhs.source, index |-> lhs.index]
        /\ lhs.source \in Int /\ rhs.source \in Int
        /\ lhs.index \in 0 .. (PieceRatio - 1) /\ rhs.index \in 0 .. (PieceRatio - 1)
    BY <2>1 DEF ToSmallerInv
  <2>3. /\ Stood(lhs)' = lhs.source * PieceRatio + rhs.index
        /\ Stood(rhs)' = rhs.source * PieceRatio + lhs.index
    BY <2>2 DEF Stood
  <2>4. /\ memory' \in [NewPieces -> Piece] /\ Stood(lhs)' \in NewPieces /\ Stood(rhs)' \in NewPieces
        /\ memory'[Stood(lhs)'] = memory[Stood(rhs)] /\ memory'[Stood(rhs)'] = memory[Stood(lhs)]
    BY <2>1, <2>2, <2>3, ToSmallerSwapped DEF Stood
  <2> QED BY <2>1, <2>2, <2>4 DEF ToSmallerInv
<1>4. CASE ToSmaller!SwapCopies
  <2>1. /\ memory' = ToSmaller!SourcesSwapped(lhs, rhs) /\ expected' = memory'
        /\ lhs' = lhs /\ rhs' = rhs
        /\ IF lhs.index = rhs.index THEN lvalue' = rvalue /\ rvalue' = lvalue
           ELSE /\ lvalue' = [i \in 0 .. (1 - 1) |-> memory'[Stood(lhs) + i]]
                /\ rvalue' = [i \in 0 .. (1 - 1) |-> memory'[Stood(rhs) + i]]
    BY <1>4 DEF ToSmaller!SwapCopies, ToSmaller!Read, ToSmaller!Begin, ToSmaller!InSource,
                ToSmaller!InTarget, Stood
  <2>2. /\ lhs.index \in 0 .. (PieceRatio - 1) /\ rhs.index \in 0 .. (PieceRatio - 1)
        /\ Stood(lhs) + 0 = Stood(lhs) /\ Stood(rhs) + 0 = Stood(rhs)
        /\ Stood(lhs)' = Stood(lhs) /\ Stood(rhs)' = Stood(rhs)
    BY <2>1, PieceAssumption DEF ToSmallerInv, Stood, NewPieces
  <2>3. /\ memory' \in [NewPieces -> Piece]
        /\ lhs.index = rhs.index =>
             memory'[Stood(lhs)] = memory[Stood(rhs)] /\ memory'[Stood(rhs)] = memory[Stood(lhs)]
    BY <2>1, <2>2, ToSmallerSwapped DEF Stood
  <2> QED BY <1>0, <2>1, <2>2, <2>3 DEF ToSmallerInv
<1>5. ASSUME NEW n \in Int, ToSmaller!Dereference(n) PROVE ToSmallerInv'
  <2> DEFINE p == ToSmaller!Begin(lhs) + n * 1
  <2>1. /\ p \in NewPieces
        /\ rhs' = [source |-> p \div PieceRatio, index |-> p % PieceRatio]
        /\ rvalue' = [i \in 0 .. (1 - 1) |-> expected[p + i]]
        /\ UNCHANGED <<memory, lhs, expected, lvalue>>
    BY <1>5 DEF ToSmaller!Dereference, ToSmaller!Adapter, ToSmaller!Stands, ToSmaller!InSource,
                ToSmaller!InTarget, NewPieces
  <2> HIDE DEF p
  <2>2. p \in Int /\ p + 0 = p
    BY <2>1, PieceAssumption DEF NewPieces
  <2>3. Stood(rhs)' = p /\ rhs' \in [source : Int, index : 0 .. (PieceRatio - 1)]
    BY <2>1, <2>2, PieceOfPlace DEF Stood
  <2>4. Stood(lhs)' = Stood(lhs)
    BY <2>1 DEF Stood
  <2> QED BY <1>0, <2>1, <2>2, <2>3, <2>4 DEF ToSmallerInv
<1> QED BY <1>1, <1>2, <1>3, <1>4, <1>5, PieceAssumption DEF ToSmaller!Next

\* An adapter to bigger words reads the pieces from its source word on.
ToBiggerInv ==
  /\ memory \in [NewPieces -> Piece] /\ expected = memory
  /\ lhs \in [source : 0 .. (NumPieces - PieceRatio), index : {0}]
  /\ rhs \in [source : 0 .. (NumPieces - PieceRatio), index : {0}]
  /\ lvalue = [i \in 0 .. (PieceRatio - 1) |-> memory[lhs.source + i]]
  /\ rvalue = [i \in 0 .. (PieceRatio - 1) |-> memory[rhs.source + i]]

\* Such an adapter's word begins where its source word does.
LEMMA BiggerWord ==
  ASSUME NEW ref \in [source : 0 .. (NumPieces - PieceRatio), index : {0}]
  PROVE  /\ ToBigger!Begin(ref) = ref.source
         /\ \A i \in 0 .. (PieceRatio - 1) : ref.source + i \in NewPieces
         /\ \A m : ToBigger!Read(m, ref) = [i \in 0 .. (PieceRatio - 1) |-> m[ref.source + i]]
<1>1. /\ ref.source \in 0 .. (NumPieces - PieceRatio) /\ ref.index = 0
      /\ PieceRatio \in Nat /\ NumPieces \in Nat
  BY PieceAssumption
<1>2. ToBigger!Begin(ref) = ref.source
  BY <1>1 DEF ToBigger!Begin, ToBigger!InSource
<1> QED BY <1>1, <1>2 DEF ToBigger!Read, ToBigger!InTarget, NewPieces

LEMMA ToBiggerImplies ==
  ASSUME ToBiggerInv
  PROVE  ToBigger!TypeOK /\ ToBigger!WordsExact
<1>1. /\ PieceRatio \in Nat /\ PieceRatio > 1 /\ NumPieces \in Nat
      /\ lhs \in [source : 0 .. (NumPieces - PieceRatio), index : {0}]
      /\ rhs \in [source : 0 .. (NumPieces - PieceRatio), index : {0}]
  BY PieceAssumption DEF ToBiggerInv
<1>2. ToBigger!WordsExact
  BY <1>1, BiggerWord DEF ToBigger!WordsExact, ToBiggerInv
<1>3. lvalue \in [0 .. (PieceRatio - 1) -> Piece] /\ rvalue \in [0 .. (PieceRatio - 1) -> Piece]
  BY <1>1, BiggerWord DEF ToBiggerInv
<1>4. ToBigger!TypeOK
  BY <1>1, <1>3, BiggerWord
     DEF ToBigger!TypeOK, ToBigger!Stands, ToBigger!InSource, ToBigger!InTarget, ToBigger!Pieces,
         ToBigger!Value, ToBiggerInv, NewPieces
<1> QED BY <1>2, <1>4

LEMMA AdapterToBigger ==
  ASSUME NEW p \in Int, ToBigger!Stands(p)
  PROVE  /\ ToBigger!Adapter(p) \in [source : 0 .. (NumPieces - PieceRatio), index : {0}]
         /\ ToBigger!Adapter(p).source = p
<1>1. p \div 1 = p /\ p % 1 = 0
  OBVIOUS
<1> QED BY <1>1 DEF ToBigger!Stands, ToBigger!Adapter, ToBigger!InSource, ToBigger!InTarget

LEMMA ToBiggerInit ==
  ASSUME ToBigger!Init
  PROVE  ToBiggerInv
<1>1. PICK p, q \in ToBigger!Pieces :
        /\ memory \in [NewPieces -> Piece] /\ expected = memory
        /\ ToBigger!Stands(p) /\ lhs = ToBigger!Adapter(p)
        /\ ToBigger!Stands(q) /\ rhs = ToBigger!Adapter(q)
        /\ lvalue = [i \in 0 .. (PieceRatio - 1) |-> memory[p + i]]
        /\ rvalue = [i \in 0 .. (PieceRatio - 1) |-> memory[q + i]]
  BY DEF ToBigger!Init, ToBigger!Pieces, ToBigger!InTarget, NewPieces
<1>2. p \in Int /\ q \in Int
  BY PieceAssumption DEF ToBigger!Pieces
<1> QED BY <1>1, <1>2, AdapterToBigger DEF ToBiggerInv

\* A word stored is there, and the pieces beside it are as they were.
LEMMA ToBiggerWrites ==
  ASSUME ToBiggerInv, NEW v \in [0 .. (PieceRatio - 1) -> Piece],
         memory' = ToBigger!Stored(memory, lhs, v), ToBigger!Wrote(v)
  PROVE  ToBiggerInv'
<1>1. /\ memory \in [NewPieces -> Piece] /\ expected = memory
      /\ lhs \in [source : 0 .. (NumPieces - PieceRatio), index : {0}]
      /\ rhs \in [source : 0 .. (NumPieces - PieceRatio), index : {0}]
      /\ lhs.source \in Int
  BY PieceAssumption DEF ToBiggerInv
<1>2. /\ memory' = [p \in NewPieces |-> IF p - lhs.source \in 0 .. (PieceRatio - 1)
                                          THEN v[p - lhs.source] ELSE memory[p]]
      /\ expected' = memory' /\ lvalue' = v
      /\ rvalue' = [i \in 0 .. (PieceRatio - 1) |-> memory'[rhs.source + i]]
      /\ lhs' = lhs /\ rhs' = rhs
  <2>1. ToBigger!Begin(lhs) = lhs.source
    BY <1>1, BiggerWord
  <2>2. memory' = [p \in NewPieces |-> IF p - lhs.source \in 0 .. (PieceRatio - 1)
                                         THEN v[p - lhs.source] ELSE memory[p]]
    BY <2>1 DEF ToBigger!Stored, ToBigger!InTarget, ToBigger!Pieces, NewPieces
  <2>3. expected' = memory' /\ lvalue' = v /\ rvalue' = ToBigger!Read(expected', rhs)
        /\ lhs' = lhs /\ rhs' = rhs
    BY <1>1 DEF ToBigger!Wrote
  <2>4. rvalue' = [i \in 0 .. (PieceRatio - 1) |-> memory'[rhs.source + i]]
    BY <1>1, <2>3, BiggerWord
  <2> QED BY <2>2, <2>3, <2>4
<1>3. memory' \in [NewPieces -> Piece]
  BY <1>1, <1>2
<1>4. ASSUME NEW i \in 0 .. (PieceRatio - 1) PROVE memory'[lhs.source + i] = v[i]
  <2> DEFINE p == lhs.source + i
  <2>1. p \in NewPieces /\ p - lhs.source = i
    BY <1>1, BiggerWord, PieceAssumption
  <2> HIDE DEF p
  <2>2. memory'[p] = v[i]
    BY <1>2, <2>1
  <2> QED BY <2>2 DEF p
<1>5. v = [i \in 0 .. (PieceRatio - 1) |-> memory'[lhs.source + i]]
  BY <1>4
<1> QED BY <1>1, <1>2, <1>3, <1>5 DEF ToBiggerInv

\* What SourcesSwapped makes of a memory is a memory.
LEMMA ToBiggerSwapped ==
  ASSUME ToBiggerInv
  PROVE  ToBigger!SourcesSwapped(lhs, rhs) \in [NewPieces -> Piece]
<1> DEFINE a == lhs.source
           b == rhs.source
           from(p) == IF p \div 1 = a THEN p + (b - a) * 1
                      ELSE IF p \div 1 = b THEN p + (a - b) * 1
                      ELSE p
<1>1. /\ memory \in [NewPieces -> Piece] /\ a \in Int /\ b \in Int
      /\ a \in NewPieces /\ b \in NewPieces
  BY PieceAssumption DEF ToBiggerInv, NewPieces
<1>2. ToBigger!SourcesSwapped(lhs, rhs) = [p \in NewPieces |-> memory[from(p)]]
  BY DEF ToBigger!SourcesSwapped, ToBigger!InSource, ToBigger!Pieces, NewPieces
<1> HIDE DEF a, b
<1>3. \A p \in NewPieces : p \div 1 = p
  BY PieceAssumption DEF NewPieces
<1>4. \A p \in NewPieces : from(p) \in NewPieces
  BY <1>1, <1>3 DEF NewPieces
<1> QED BY <1>1, <1>2, <1>4

LEMMA ToBiggerNext ==
  ASSUME ToBiggerInv, ToBigger!Next
  PROVE  ToBiggerInv'
<1>0. /\ lhs \in [source : 0 .. (NumPieces - PieceRatio), index : {0}]
      /\ rhs \in [source : 0 .. (NumPieces - PieceRatio), index : {0}]
  BY DEF ToBiggerInv
<1>1. ASSUME NEW v \in ToBigger!Value, ToBigger!Assign(v) PROVE ToBiggerInv'
  BY <1>1, ToBiggerWrites DEF ToBigger!Assign, ToBigger!Value, ToBigger!InTarget
<1>2. CASE ToBigger!AssignReference
  <2>1. rvalue \in [0 .. (PieceRatio - 1) -> Piece] /\ ToBigger!Read(memory, rhs) = rvalue
    BY ToBiggerImplies DEF ToBigger!TypeOK, ToBigger!WordsExact, ToBigger!Value, ToBigger!InTarget
  <2> QED BY <1>2, <2>1, ToBiggerWrites DEF ToBigger!AssignReference
<1>3. ASSUME memory' = ToBigger!SourcesSwapped(lhs, rhs), expected' = memory', lhs' = lhs, rhs' = rhs,
             lvalue' = ToBigger!Read(memory', lhs), rvalue' = ToBigger!Read(memory', rhs)
      PROVE  ToBiggerInv'
  <2>1. memory' \in [NewPieces -> Piece]
    BY <1>3, ToBiggerSwapped
  <2> QED BY <1>0, <1>3, <2>1, BiggerWord DEF ToBiggerInv
<1>4. CASE ToBigger!Swap
  <2>1. lhs.index = rhs.index /\ lhs' = lhs /\ rhs' = rhs
    BY <1>0, <1>4 DEF ToBigger!Swap
  <2> QED BY <1>3, <1>4, <2>1 DEF ToBigger!Swap
<1>5. CASE ToBigger!SwapCopies
  BY <1>3, <1>5 DEF ToBigger!SwapCopies
<1>6. ASSUME NEW n \in Int, ToBigger!Dereference(n) PROVE ToBiggerInv'
  <2> DEFINE p == ToBigger!Begin(lhs) + n * PieceRatio
  <2>1. /\ ToBigger!Stands(p) /\ rhs' = ToBigger!Adapter(p)
        /\ rvalue' = [i \in 0 .. (PieceRatio - 1) |-> expected[p + i]]
        /\ UNCHANGED <<memory, lhs, expected, lvalue>>
    BY <1>6 DEF ToBigger!Dereference, ToBigger!InTarget
  <2>2. p \in Int
    BY <1>0, BiggerWord, PieceAssumption
  <2> HIDE DEF p
  <2> QED BY <2>1, <2>2, AdapterToBigger DEF ToBiggerInv
<1> QED BY <1>1, <1>2, <1>4, <1>5, <1>6, PieceAssumption DEF ToBigger!Next
----------------------------------------------------------------------------
(* References to bits                                                      *)

\* The words of m hold the bits of c.
Holds(m, c) == \A a \in Proxy!Addr : m[a \div RefDigits][a % RefDigits] = c[a]

\* m with its bit a made b.
Become(m, a, b) ==
  [m EXCEPT ![a \div RefDigits] =
     [i \in Proxy!BitPos |-> IF i = a % RefDigits THEN b ELSE m[a \div RefDigits][i]]]

ProxyInv ==
  /\ words \in [Proxy!Words -> Proxy!Word] /\ bits \in [Proxy!Addr -> Proxy!Bit]
  /\ Holds(words, bits)
  /\ lbit \in Proxy!Addr /\ lhs = Proxy!Reference(lbit)
  /\ rbit \in Proxy!Addr /\ rhs = Proxy!Reference(rbit)
  /\ value \in Proxy!Bit /\ bvalue = value

\* Every bit is at a place of its own.
LEMMA PlaceOfBit ==
  ASSUME NEW a \in Proxy!Addr
  PROVE  /\ a \in Int /\ a \div RefDigits \in Proxy!Words /\ a % RefDigits \in Proxy!BitPos
         /\ a = RefDigits * (a \div RefDigits) + (a % RefDigits)
<1> DEFINE q == a \div RefDigits
           r == a % RefDigits
<1>1. /\ RefDigits \in Nat /\ RefDigits > 0 /\ RefWords \in Nat /\ RefWords > 0
      /\ RefWords * RefDigits \in Int /\ RefWords * RefDigits = RefDigits * RefWords
  BY ReferenceAssumption
<1>2. a \in Int /\ 0 <= a /\ a < RefDigits * RefWords
  BY <1>1 DEF Proxy!Addr
<1>3. a = RefDigits * q + r /\ q \in Int /\ r \in 0 .. (RefDigits - 1)
  BY <1>1, <1>2
<1> HIDE DEF q, r
<1>4. q >= 0
  <2>1. CASE q < 0
    <3>1. RefDigits * q + RefDigits <= RefDigits * 0
      BY <1>1, <1>3, <2>1, Apart
    <3> QED BY <1>1, <1>2, <1>3, <3>1
  <2> QED BY <1>3, <2>1
<1>5. q < RefWords
  <2>1. CASE q > RefWords - 1
    <3>1. RefDigits * (RefWords - 1) + RefDigits <= RefDigits * q
      BY <1>1, <1>3, <2>1, Apart
    <3>2. RefDigits * (RefWords - 1) + RefDigits = RefDigits * RefWords
      BY <1>1, SMTT(30)
    <3> QED BY <1>1, <1>2, <1>3, <3>1, <3>2
  <2> QED BY <1>1, <1>3, <2>1
<1> QED BY <1>1, <1>2, <1>3, <1>4, <1>5 DEF q, r, Proxy!Words, Proxy!BitPos

LEMMA OwnPlace ==
  ASSUME NEW a \in Proxy!Addr, NEW c \in Proxy!Addr,
         a \div RefDigits = c \div RefDigits, a % RefDigits = c % RefDigits
  PROVE  a = c
BY PlaceOfBit

\* A bit written is there, and the others are as they were.
LEMMA BecomeHolds ==
  ASSUME NEW m \in [Proxy!Words -> Proxy!Word], NEW c \in [Proxy!Addr -> Proxy!Bit], Holds(m, c),
         NEW a \in Proxy!Addr, NEW b \in Proxy!Bit
  PROVE  /\ Become(m, a, b) \in [Proxy!Words -> Proxy!Word]
         /\ [c EXCEPT ![a] = b] \in [Proxy!Addr -> Proxy!Bit]
         /\ Holds(Become(m, a, b), [c EXCEPT ![a] = b])
<1> DEFINE w == [i \in Proxy!BitPos |-> IF i = a % RefDigits THEN b ELSE m[a \div RefDigits][i]]
           n == [m EXCEPT ![a \div RefDigits] = w]
<1>1. a \div RefDigits \in Proxy!Words /\ a % RefDigits \in Proxy!BitPos
  BY PlaceOfBit
<1>2. w \in Proxy!Word
  BY <1>1 DEF Proxy!Word
<1>3. ASSUME NEW e \in Proxy!Addr
      PROVE  n[e \div RefDigits][e % RefDigits] = [c EXCEPT ![a] = b][e]
  <2>1. e \div RefDigits \in Proxy!Words /\ e % RefDigits \in Proxy!BitPos
    BY PlaceOfBit
  <2>2. m[e \div RefDigits][e % RefDigits] = c[e]
    BY DEF Holds
  <2>3. CASE e \div RefDigits = a \div RefDigits
    <3>1. n[e \div RefDigits] = w
      BY <1>1, <2>3
    <3>2. w[e % RefDigits] = IF e % RefDigits = a % RefDigits THEN b ELSE c[e]
      BY <2>1, <2>2, <2>3
    <3>3. e % RefDigits = a % RefDigits <=> e = a
      BY <2>3, OwnPlace
    <3> QED BY <3>1, <3>2, <3>3
  <2>4. CASE e \div RefDigits # a \div RefDigits
    <3>1. n[e \div RefDigits] = m[e \div RefDigits] /\ e # a
      BY <2>1, <2>4
    <3> QED BY <2>2, <3>1
  <2> QED BY <2>3, <2>4
<1> HIDE DEF w
<1>4. n \in [Proxy!Words -> Proxy!Word]
  BY <1>1, <1>2
<1> QED BY <1>3, <1>4 DEF Holds, Become, w

\* The operations on a word, with the mask of a reference, are about its bit alone.
LEMMA MaskedBit ==
  ASSUME NEW v \in Proxy!Word, NEW k \in Proxy!BitPos
  PROVE  /\ Proxy!Or(v, Proxy!Mask(k)) = [i \in Proxy!BitPos |-> IF i = k THEN 1 ELSE v[i]]
         /\ Proxy!And(v, Proxy!Not(Proxy!Mask(k))) =
              [i \in Proxy!BitPos |-> IF i = k THEN 0 ELSE v[i]]
         /\ Proxy!Xor(v, Proxy!Mask(k)) = [i \in Proxy!BitPos |-> IF i = k THEN 1 - v[i] ELSE v[i]]
         /\ Proxy!And(v, Proxy!Mask(k)) # Proxy!NoBit <=> v[k] = 1
<1>1. \A i \in Proxy!BitPos : v[i] \in {0, 1} /\ Proxy!Mask(k)[i] = IF i = k THEN 1 ELSE 0
  BY DEF Proxy!Word, Proxy!Bit, Proxy!Mask
<1>2. \A i \in Proxy!BitPos : v[i] + 1 > 0 /\ (v[i] + 0 > 0 <=> v[i] = 1)
  BY <1>1
<1>3. Proxy!Or(v, Proxy!Mask(k)) = [i \in Proxy!BitPos |-> IF i = k THEN 1 ELSE v[i]]
  <2>1. \A i \in Proxy!BitPos : (IF v[i] + Proxy!Mask(k)[i] > 0 THEN 1 ELSE 0)
                                  = IF i = k THEN 1 ELSE v[i]
    BY <1>1, <1>2
  <2> QED BY <2>1 DEF Proxy!Or
<1>4. Proxy!And(v, Proxy!Not(Proxy!Mask(k))) = [i \in Proxy!BitPos |-> IF i = k THEN 0 ELSE v[i]]
  <2>1. \A i \in Proxy!BitPos : v[i] * (1 - Proxy!Mask(k)[i]) = IF i = k THEN 0 ELSE v[i]
    BY <1>1
  <2> QED BY <2>1 DEF Proxy!And, Proxy!Not
<1>5. Proxy!Xor(v, Proxy!Mask(k)) = [i \in Proxy!BitPos |-> IF i = k THEN 1 - v[i] ELSE v[i]]
  <2>1. \A i \in Proxy!BitPos : (v[i] + Proxy!Mask(k)[i]) % 2 = IF i = k THEN 1 - v[i] ELSE v[i]
    BY <1>1
  <2> QED BY <2>1 DEF Proxy!Xor
<1>6. Proxy!And(v, Proxy!Mask(k)) # Proxy!NoBit <=> v[k] = 1
  <2>1. \A i \in Proxy!BitPos : v[i] * Proxy!Mask(k)[i] = IF i = k THEN v[i] ELSE 0
    BY <1>1
  <2>2. Proxy!And(v, Proxy!Mask(k)) = [i \in Proxy!BitPos |-> IF i = k THEN v[i] ELSE 0]
    BY <2>1 DEF Proxy!And
  <2>3. CASE v[k] = 1
    BY <2>2, <2>3 DEF Proxy!NoBit
  <2>4. CASE v[k] = 0
    BY <2>2, <2>4 DEF Proxy!NoBit
  <2> QED BY <1>1, <2>3, <2>4
<1> QED BY <1>3, <1>4, <1>5, <1>6

LEMMA BitOfWord ==
  ASSUME NEW m \in [Proxy!Words -> Proxy!Word], NEW a \in Proxy!Addr
  PROVE  /\ Proxy!Set(m, Proxy!Reference(a)) = Become(m, a, 1)
         /\ Proxy!Reset(m, Proxy!Reference(a)) = Become(m, a, 0)
         /\ Proxy!Flip(m, Proxy!Reference(a))
              = Become(m, a, 1 - m[a \div RefDigits][a % RefDigits])
         /\ Proxy!Put(m, Proxy!Reference(a), TRUE) = Become(m, a, 1)
         /\ Proxy!Put(m, Proxy!Reference(a), FALSE) = Become(m, a, 0)
<1> DEFINE q == a \div RefDigits
           k == a % RefDigits
<1>1. /\ q \in Proxy!Words /\ k \in Proxy!BitPos /\ m[q] \in Proxy!Word
      /\ Proxy!Reference(a) = [word |-> q, mask |-> Proxy!Mask(k)]
  BY PlaceOfBit DEF Proxy!Reference
<1> HIDE DEF q, k
<1>2. /\ Proxy!Set(m, Proxy!Reference(a)) = [m EXCEPT ![q] = Proxy!Or(m[q], Proxy!Mask(k))]
      /\ Proxy!Reset(m, Proxy!Reference(a))
           = [m EXCEPT ![q] = Proxy!And(m[q], Proxy!Not(Proxy!Mask(k)))]
      /\ Proxy!Flip(m, Proxy!Reference(a)) = [m EXCEPT ![q] = Proxy!Xor(m[q], Proxy!Mask(k))]
  BY <1>1 DEF Proxy!Set, Proxy!Reset, Proxy!Flip
<1>3. [i \in Proxy!BitPos |-> IF i = k THEN 1 - m[q][i] ELSE m[q][i]]
        = [i \in Proxy!BitPos |-> IF i = k THEN 1 - m[q][k] ELSE m[q][i]]
  OBVIOUS
<1>4. /\ Proxy!Set(m, Proxy!Reference(a)) = Become(m, a, 1)
      /\ Proxy!Reset(m, Proxy!Reference(a)) = Become(m, a, 0)
      /\ Proxy!Flip(m, Proxy!Reference(a)) = Become(m, a, 1 - m[q][k])
  BY <1>1, <1>2, <1>3, MaskedBit DEF Become, q, k
<1> QED BY <1>4 DEF Proxy!Put, q, k

\* What a reference, and a bit_value made of a word, read.
LEMMA TestReadsBit ==
  ASSUME ProxyInv, NEW a \in Proxy!Addr
  PROVE  /\ bits[a] \in {0, 1} /\ words[a \div RefDigits][a % RefDigits] = bits[a]
         /\ Proxy!Test(Proxy!Reference(a)) = (bits[a] = 1)
         /\ Proxy!ValueOf(Proxy!Reference(a)) = bits[a]
<1> DEFINE q == a \div RefDigits
           k == a % RefDigits
<1>1. /\ q \in Proxy!Words /\ k \in Proxy!BitPos /\ words[q] \in Proxy!Word
      /\ Proxy!Reference(a) = [word |-> q, mask |-> Proxy!Mask(k)]
  BY PlaceOfBit DEF Proxy!Reference, ProxyInv
<1>2. bits[a] \in {0, 1} /\ words[q][k] = bits[a]
  BY DEF ProxyInv, Proxy!Bit, Holds
<1> HIDE DEF q, k
<1>3. Proxy!Test(Proxy!Reference(a)) = (words[q][k] = 1)
  BY <1>1, MaskedBit DEF Proxy!Test
<1> QED BY <1>2, <1>3 DEF Proxy!ValueOf, q, k

LEMMA ValueAtReadsBit ==
  ASSUME NEW v \in Proxy!Word, NEW k \in Proxy!BitPos
  PROVE  v[k] \in {0, 1} /\ Proxy!ValueAt(v, k) = v[k]
<1>1. /\ RefDigits \in Nat /\ RefDigits > 0 /\ k \in 0 .. (RefDigits - 1)
      /\ \A i \in Proxy!BitPos : v[i] \in {0, 1}
  BY ReferenceAssumption DEF Proxy!BitPos, Proxy!Word, Proxy!Bit
<1>2. 0 \in Proxy!BitPos /\ 0 + k = k /\ 0 + k < RefDigits
  BY <1>1 DEF Proxy!BitPos
<1>3. \A i \in Proxy!BitPos : i + k < RefDigits => i + k \in Proxy!BitPos
  BY <1>1 DEF Proxy!BitPos
<1>4. Proxy!Shifted(v, k) \in Proxy!Word
  BY <1>1, <1>3 DEF Proxy!Shifted, Proxy!Word, Proxy!Bit
<1>5. Proxy!Shifted(v, k)[0] = v[k]
  BY <1>2 DEF Proxy!Shifted
<1>6. Proxy!And(Proxy!Shifted(v, k), Proxy!Mask(0)) # Proxy!NoBit <=> v[k] = 1
  BY <1>2, <1>4, <1>5, MaskedBit
<1>7. v[k] \in {0, 1}
  BY <1>1
<1> QED BY <1>6, <1>7 DEF Proxy!ValueAt

LEMMA MaskPosition ==
  ASSUME NEW k \in Proxy!BitPos
  PROVE  Proxy!CountrZero(Proxy!Mask(k)) = k
<1>1. Proxy!Mask(k)[k] = 1
  BY DEF Proxy!Mask
<1>2. \A pos \in Proxy!BitPos : Proxy!Mask(k)[pos] = 1 => pos = k
  BY DEF Proxy!Mask
<1> QED BY <1>1, <1>2 DEF Proxy!CountrZero

LEMMA ProxyImplies ==
  ASSUME ProxyInv
  PROVE  Proxy!TypeOK /\ Proxy!ProxiesExact /\ Proxy!PointersExact
<1>1. \A a \in Proxy!Addr : Proxy!Reference(a) \in [word : Proxy!Words, mask : Proxy!Masks]
  BY PlaceOfBit DEF Proxy!Reference, Proxy!Masks
<1>2. Proxy!TypeOK
  BY <1>1 DEF ProxyInv, Proxy!TypeOK
<1>3. Proxy!ValueOf(rhs) = bits[rbit]
  BY TestReadsBit DEF ProxyInv
<1> QED BY <1>2, <1>3 DEF ProxyInv, Holds, Proxy!ProxiesExact, Proxy!PointersExact

LEMMA ProxyInit ==
  ASSUME Proxy!Init
  PROVE  ProxyInv
<1>1. \A a \in Proxy!Addr : words[a \div RefDigits][a % RefDigits] \in Proxy!Bit
  BY PlaceOfBit DEF Proxy!Init, Proxy!Word
<1>2. bits \in [Proxy!Addr -> Proxy!Bit] /\ Holds(words, bits)
  BY <1>1 DEF Proxy!Init, Holds
<1> QED BY <1>2 DEF Proxy!Init, ProxyInv

\* What every call that writes lhs's bit does: the word has it, with b in its place.
LEMMA ProxyWrites ==
  ASSUME ProxyInv, NEW b \in Proxy!Bit,
         words' = Become(words, lbit, b), Proxy!Wrote(b)
  PROVE  ProxyInv'
<1>1. /\ words' \in [Proxy!Words -> Proxy!Word] /\ bits' \in [Proxy!Addr -> Proxy!Bit]
      /\ Holds(words', bits')
  BY BecomeHolds DEF ProxyInv, Proxy!Wrote
<1>2. Holds(words, bits)' 
  BY <1>1 DEF Holds
<1> QED BY <1>1, <1>2 DEF ProxyInv, Proxy!Wrote, Proxy!References

\* A bit flipped twice, and another once, by two references that differ.
LEMMA ProxyExchanges ==
  ASSUME ProxyInv, bits[lbit] # bits[rbit]
  PROVE  /\ Proxy!Flip(Proxy!Flip(words, lhs), rhs) \in [Proxy!Words -> Proxy!Word]
         /\ [bits EXCEPT ![lbit] = bits[rbit], ![rbit] = bits[lbit]] \in [Proxy!Addr -> Proxy!Bit]
         /\ Holds(Proxy!Flip(Proxy!Flip(words, lhs), rhs),
                  [bits EXCEPT ![lbit] = bits[rbit], ![rbit] = bits[lbit]])
<1> DEFINE n == Become(words, lbit, bits[rbit])
           c == [bits EXCEPT ![lbit] = bits[rbit]]
           m == Become(n, rbit, bits[lbit])
<1>1. /\ lbit \in Proxy!Addr /\ lhs = Proxy!Reference(lbit)
      /\ rbit \in Proxy!Addr /\ rhs = Proxy!Reference(rbit)
      /\ bits \in [Proxy!Addr -> Proxy!Bit] /\ words \in [Proxy!Words -> Proxy!Word]
      /\ Holds(words, bits) /\ lbit # rbit
  BY DEF ProxyInv
<1>2. /\ bits[lbit] \in {0, 1} /\ bits[rbit] \in {0, 1}
      /\ words[lbit \div RefDigits][lbit % RefDigits] = bits[lbit]
  BY <1>1, TestReadsBit
<1>3. 1 - bits[lbit] = bits[rbit] /\ 1 - bits[rbit] = bits[lbit]
  BY <1>2
<1>4. Proxy!Flip(words, lhs) = n
  BY <1>1, <1>2, <1>3, BitOfWord
<1>5. n \in [Proxy!Words -> Proxy!Word] /\ c \in [Proxy!Addr -> Proxy!Bit] /\ Holds(n, c)
  BY <1>1, <1>2, BecomeHolds DEF Proxy!Bit
<1>6. c[rbit] = bits[rbit]
  BY <1>1
<1> HIDE DEF n, c
<1>7. n[rbit \div RefDigits][rbit % RefDigits] = bits[rbit]
  BY <1>1, <1>5, <1>6 DEF Holds
<1>8. Proxy!Flip(n, rhs) = m
  BY <1>1, <1>3, <1>5, <1>7, BitOfWord
<1>9. /\ m \in [Proxy!Words -> Proxy!Word]
      /\ [c EXCEPT ![rbit] = bits[lbit]] \in [Proxy!Addr -> Proxy!Bit]
      /\ Holds(m, [c EXCEPT ![rbit] = bits[lbit]])
  BY <1>1, <1>2, <1>5, BecomeHolds DEF Proxy!Bit
<1> QED BY <1>4, <1>8, <1>9 DEF c

LEMMA PutBit ==
  ASSUME ProxyInv, NEW b \in {0, 1}
  PROVE  Proxy!Put(words, lhs, b = 1) = Become(words, lbit, b)
<1>1. words \in [Proxy!Words -> Proxy!Word] /\ lbit \in Proxy!Addr /\ lhs = Proxy!Reference(lbit)
  BY DEF ProxyInv
<1> QED BY <1>1, BitOfWord DEF Proxy!Put

\* An &=, |= or ^= that has no mask to apply leaves the bit as it is.
LEMMA NothingMasked ==
  ASSUME NEW v \in Proxy!Word
  PROVE  /\ Proxy!And(v, Proxy!Not(Proxy!NoBit)) = v
         /\ Proxy!Or(v, Proxy!NoBit) = v /\ Proxy!Xor(v, Proxy!NoBit) = v
<1>1. \A i \in Proxy!BitPos : v[i] \in {0, 1}
  BY DEF Proxy!Word, Proxy!Bit
<1>2. \A i \in Proxy!BitPos : /\ v[i] * (1 - 0) = v[i]
                              /\ (IF v[i] + 0 > 0 THEN 1 ELSE 0) = v[i]
                              /\ (v[i] + 0) % 2 = v[i]
  BY <1>1
<1>3. v = [i \in Proxy!BitPos |-> v[i]]
  BY DEF Proxy!Word
<1> QED BY <1>2, <1>3 DEF Proxy!And, Proxy!Or, Proxy!Xor, Proxy!Not, Proxy!NoBit

LEMMA AlreadyThere ==
  ASSUME ProxyInv, NEW a \in Proxy!Addr
  PROVE  Become(words, a, bits[a]) = words
<1> DEFINE q == a \div RefDigits
           k == a % RefDigits
<1>1. /\ q \in Proxy!Words /\ k \in Proxy!BitPos /\ words[q] \in Proxy!Word /\ words[q][k] = bits[a]
      /\ words \in [Proxy!Words -> Proxy!Word]
  BY PlaceOfBit DEF ProxyInv, Holds
<1>2. Become(words, a, bits[a])
        = [words EXCEPT ![q] = [i \in Proxy!BitPos |-> IF i = k THEN bits[a] ELSE words[q][i]]]
  BY DEF Become
<1> HIDE DEF q, k
<1>3. [i \in Proxy!BitPos |-> IF i = k THEN bits[a] ELSE words[q][i]] = words[q]
  BY <1>1 DEF Proxy!Word
<1> QED BY <1>1, <1>2, <1>3

LEMMA ProxyJoins ==
  ASSUME ProxyInv, NEW b \in {0, 1}
  PROVE  /\ Proxy!AndAssign(b) => ProxyInv'
         /\ Proxy!OrAssign(b)  => ProxyInv'
         /\ Proxy!XorAssign(b) => ProxyInv'
<1> DEFINE q == lbit \div RefDigits
           k == lbit % RefDigits
<1>1. /\ q \in Proxy!Words /\ k \in Proxy!BitPos /\ words[q] \in Proxy!Word
      /\ lhs.word = q /\ lhs.mask = Proxy!Mask(k) /\ lbit \in Proxy!Addr
      /\ words \in [Proxy!Words -> Proxy!Word] /\ lhs = Proxy!Reference(lbit)
  BY PlaceOfBit DEF Proxy!Reference, ProxyInv
<1>2. /\ bits[lbit] \in {0, 1} /\ words[q][k] = bits[lbit]
      /\ Become(words, lbit, bits[lbit]) = words
  BY <1>1, TestReadsBit, AlreadyThere
<1>3. /\ Proxy!Set(words, lhs) = Become(words, lbit, 1)
      /\ Proxy!Reset(words, lhs) = Become(words, lbit, 0)
      /\ Proxy!Flip(words, lhs) = Become(words, lbit, 1 - bits[lbit])
  BY <1>1, <1>2, BitOfWord
<1>4. [words EXCEPT ![q] = words[q]] = words
  BY <1>1
<1> HIDE DEF q, k
<1>5. ASSUME Proxy!AndAssign(b) PROVE ProxyInv'
  <2>1. CASE b = 0
    <3>1. words' = Proxy!Reset(words, lhs) /\ Proxy!Wrote(0)
      BY <1>2, <1>5, <2>1 DEF Proxy!AndAssign, Proxy!Reset, Proxy!MaskTimes
    <3> QED BY <1>3, <3>1, ProxyWrites DEF Proxy!Bit
  <2>2. CASE b = 1
    <3>0. 1 - b = 0 /\ Proxy!MaskTimes(lhs.mask, 1 - b) = Proxy!NoBit
      BY <2>2 DEF Proxy!MaskTimes
    <3>1. words' = [words EXCEPT ![q] = Proxy!And(words[q], Proxy!Not(Proxy!NoBit))]
      BY <1>1, <1>5, <3>0, Zenon DEF Proxy!AndAssign
    <3>2. Proxy!Wrote(bits[lbit])
      BY <1>2, <1>5, <2>2 DEF Proxy!AndAssign
    <3>3. words' = words
      BY <1>1, <1>4, <3>1, NothingMasked
    <3> QED BY <1>2, <3>2, <3>3, ProxyWrites DEF Proxy!Bit
  <2> QED BY <2>1, <2>2
<1>6. ASSUME Proxy!OrAssign(b) PROVE ProxyInv'
  <2>1. CASE b = 1
    <3>1. words' = Proxy!Set(words, lhs) /\ Proxy!Wrote(1)
      BY <1>6, <2>1 DEF Proxy!OrAssign, Proxy!Set, Proxy!MaskTimes
    <3> QED BY <1>3, <3>1, ProxyWrites DEF Proxy!Bit
  <2>2. CASE b = 0
    <3>0. Proxy!MaskTimes(lhs.mask, b) = Proxy!NoBit
      BY <2>2 DEF Proxy!MaskTimes
    <3>1. words' = [words EXCEPT ![q] = Proxy!Or(words[q], Proxy!NoBit)]
      BY <1>1, <1>6, <3>0, Zenon DEF Proxy!OrAssign
    <3>2. Proxy!Wrote(bits[lbit])
      BY <1>6, <2>2 DEF Proxy!OrAssign
    <3>3. words' = words
      BY <1>1, <1>4, <3>1, NothingMasked
    <3> QED BY <1>2, <3>2, <3>3, ProxyWrites DEF Proxy!Bit
  <2> QED BY <2>1, <2>2
<1>7. ASSUME Proxy!XorAssign(b) PROVE ProxyInv'
  <2>1. CASE b = 1
    <3>1. (bits[lbit] + b) % 2 = 1 - bits[lbit] /\ 1 - bits[lbit] \in {0, 1}
      BY <1>2, <2>1
    <3>2. words' = Proxy!Flip(words, lhs) /\ Proxy!Wrote(1 - bits[lbit])
      BY <1>7, <2>1, <3>1 DEF Proxy!XorAssign, Proxy!Flip, Proxy!MaskTimes
    <3> QED BY <1>3, <3>1, <3>2, ProxyWrites DEF Proxy!Bit
  <2>2. CASE b = 0
    <3>1. (bits[lbit] + b) % 2 = bits[lbit]
      BY <1>2, <2>2
    <3>0. Proxy!MaskTimes(lhs.mask, b) = Proxy!NoBit
      BY <2>2 DEF Proxy!MaskTimes
    <3>2. words' = [words EXCEPT ![q] = Proxy!Xor(words[q], Proxy!NoBit)]
      BY <1>1, <1>7, <3>0, Zenon DEF Proxy!XorAssign
    <3>3. Proxy!Wrote(bits[lbit])
      BY <1>7, <3>1 DEF Proxy!XorAssign
    <3>4. words' = words
      BY <1>1, <1>4, <3>2, NothingMasked
    <3> QED BY <1>2, <3>3, <3>4, ProxyWrites DEF Proxy!Bit
  <2> QED BY <2>1, <2>2
<1> QED BY <1>5, <1>6, <1>7

\* A bit_value that becomes what it should be.
LEMMA ValueExact ==
  ASSUME ProxyInv, NEW b \in {0, 1}, Proxy!ValueBecomes(b, b)
  PROVE  ProxyInv'
BY DEF ProxyInv, Proxy!ValueBecomes, Proxy!References, Proxy!Bit, Holds

LEMMA ProxyNext ==
  ASSUME ProxyInv, Proxy!Next
  PROVE  ProxyInv'
<1>0. /\ lbit \in Proxy!Addr /\ lhs = Proxy!Reference(lbit)
      /\ rbit \in Proxy!Addr /\ rhs = Proxy!Reference(rbit)
      /\ value \in {0, 1} /\ bvalue = value
      /\ words \in [Proxy!Words -> Proxy!Word] /\ bits \in [Proxy!Addr -> Proxy!Bit]
  BY DEF ProxyInv, Proxy!Bit
<1>1. /\ bits[lbit] \in {0, 1} /\ Proxy!Test(lhs) = (bits[lbit] = 1)
      /\ words[lbit \div RefDigits][lbit % RefDigits] = bits[lbit]
      /\ bits[rbit] \in {0, 1} /\ Proxy!Test(rhs) = (bits[rbit] = 1)
      /\ Proxy!ValueOf(rhs) = bits[rbit]
  BY <1>0, TestReadsBit
<1>2. ASSUME NEW b \in {0, 1}, words' = Proxy!Put(words, lhs, b = 1), Proxy!Wrote(b)
      PROVE  ProxyInv'
  BY <1>2, PutBit, ProxyWrites DEF Proxy!Bit
<1>3. ASSUME NEW b \in Proxy!Bit, Proxy!Assign(b) PROVE ProxyInv'
  BY <1>2, <1>3 DEF Proxy!Assign, Proxy!Bit
<1>4. ASSUME NEW b \in Proxy!Bit, Proxy!AndAssign(b) \/ Proxy!OrAssign(b) \/ Proxy!XorAssign(b)
      PROVE  ProxyInv'
  BY <1>4, ProxyJoins DEF Proxy!Bit
<1>5. ASSUME NEW val \in Proxy!Word, NEW pos \in Proxy!BitPos, Proxy!AssignBitOf(val, pos)
      PROVE  ProxyInv'
  BY <1>2, <1>5, ValueAtReadsBit DEF Proxy!AssignBitOf
<1>6. CASE Proxy!AssignReference
  BY <1>1, <1>2, <1>6 DEF Proxy!AssignReference
<1>7. CASE Proxy!FlipBit
  <2>1. words' = Become(words, lbit, 1 - bits[lbit]) /\ Proxy!Wrote(1 - bits[lbit])
    BY <1>0, <1>1, <1>7, BitOfWord DEF Proxy!FlipBit
  <2>2. 1 - bits[lbit] \in {0, 1}
    BY <1>1
  <2> QED BY <2>1, <2>2, ProxyWrites DEF Proxy!Bit
<1>8. CASE Proxy!SwapReferences
  <2>1. /\ words' = IF bits[lbit] # bits[rbit] THEN Proxy!Flip(Proxy!Flip(words, lhs), rhs)
                    ELSE words
        /\ bits' = [bits EXCEPT ![lbit] = bits[rbit], ![rbit] = bits[lbit]]
        /\ UNCHANGED <<lhs, rhs, lbit, rbit, value, bvalue>>
    BY <1>1, <1>8 DEF Proxy!SwapReferences, Proxy!References
  <2>2. /\ words' \in [Proxy!Words -> Proxy!Word] /\ bits' \in [Proxy!Addr -> Proxy!Bit]
        /\ Holds(words', bits')
    <3>1. CASE bits[lbit] # bits[rbit]
      BY <2>1, <3>1, ProxyExchanges
    <3>2. CASE bits[lbit] = bits[rbit]
      <4>1. words' = words /\ bits' = bits
        BY <1>0, <2>1, <3>2
      <4> QED BY <4>1 DEF ProxyInv
    <3> QED BY <3>1, <3>2
  <2> QED BY <2>1, <2>2 DEF ProxyInv, Holds
<1>9. CASE Proxy!SwapValue
  <2>1. CASE bits[lbit] # value
    <3>1. /\ words' = Become(words, lbit, value) /\ value' = bits[lbit] /\ bvalue' = bits[lbit]
          /\ bits' = [bits EXCEPT ![lbit] = value] /\ UNCHANGED <<lhs, rhs, lbit, rbit>>
      <4>1. 1 - value = bits[lbit] /\ 1 - bits[lbit] = value
        BY <1>0, <1>1, <2>1
      <4>2. Proxy!Flip(words, lhs) = Become(words, lbit, value)
        BY <1>0, <1>1, <4>1, BitOfWord
      <4> QED BY <1>0, <1>1, <1>9, <2>1, <4>1, <4>2 DEF Proxy!SwapValue, Proxy!References
    <3>2. /\ words' \in [Proxy!Words -> Proxy!Word] /\ bits' \in [Proxy!Addr -> Proxy!Bit]
          /\ Holds(words', bits')
      BY <1>0, <3>1, BecomeHolds DEF ProxyInv, Proxy!Bit
    <3> QED BY <1>1, <3>1, <3>2 DEF ProxyInv, Holds, Proxy!Bit
  <2>2. CASE bits[lbit] = value
    <3>1. /\ words' = words /\ value' = value /\ bvalue' = value /\ bits' = bits
          /\ UNCHANGED <<lhs, rhs, lbit, rbit>>
      BY <1>0, <1>1, <1>9, <2>2 DEF Proxy!SwapValue, Proxy!References
    <3> QED BY <3>1 DEF ProxyInv, Holds
  <2> QED BY <2>1, <2>2
<1>10. ASSUME NEW c \in {"0", "1", "other", "eof"}, Proxy!Extract(c) PROVE ProxyInv'
  <2>1. CASE c \in {"0", "1"}
    <3> DEFINE b == IF c = "1" THEN 1 ELSE 0
    <3>1. b \in {0, 1} /\ (b = 1) = (c = "1")
      OBVIOUS
    <3>2. words' = Proxy!Put(words, lhs, b = 1) /\ Proxy!Wrote(b)
      BY <1>10, <2>1, <3>1 DEF Proxy!Extract, Proxy!Wrote
    <3> QED BY <1>2, <3>1, <3>2
  <2>2. CASE c \notin {"0", "1"}
    BY <1>10, <2>2 DEF Proxy!Extract, Proxy!References, ProxyInv, Holds
  <2> QED BY <2>1, <2>2
<1>11. ASSUME NEW val \in Proxy!Word, NEW pos \in Proxy!BitPos, Proxy!ValueAssign(val, pos)
       PROVE  ProxyInv'
  BY <1>11, ValueAtReadsBit, ValueExact DEF Proxy!ValueAssign
<1>12. CASE Proxy!ValueFromReference
  BY <1>1, <1>12, ValueExact DEF Proxy!ValueFromReference
<1>13. CASE Proxy!ValueFlip
  <2>1. 1 - value \in {0, 1}
    BY <1>0
  <2> QED BY <1>0, <1>13, <2>1, ValueExact DEF Proxy!ValueFlip
<1>14. CASE Proxy!ValueAndAssign
  <2>1. value * bits[rbit] \in {0, 1} /\ value * bits[rbit] = IF bits[rbit] = 1 THEN value ELSE 0
    BY <1>0, <1>1
  <2> QED BY <1>0, <1>1, <1>14, <2>1, ValueExact DEF Proxy!ValueAndAssign
<1>15. CASE Proxy!ValueOrAssign
  <2> DEFINE b == IF value + bits[rbit] > 0 THEN 1 ELSE 0
  <2>1. b \in {0, 1} /\ b = IF bits[rbit] = 1 THEN 1 ELSE value
    BY <1>0, <1>1
  <2>2. Proxy!ValueBecomes(b, b)
    BY <1>0, <1>1, <1>15, <2>1 DEF Proxy!ValueOrAssign
  <2> QED BY <2>1, <2>2, ValueExact
<1>16. CASE Proxy!ValueXorAssign
  <2> DEFINE b == (value + bits[rbit]) % 2
  <2>1. b \in {0, 1} /\ b = IF bits[rbit] = 1 THEN 1 - value ELSE value
    BY <1>0, <1>1
  <2>2. Proxy!ValueBecomes(b, b)
    BY <1>0, <1>1, <1>16, <2>1 DEF Proxy!ValueXorAssign
  <2> QED BY <2>1, <2>2, ValueExact
<1>17. ASSUME NEW c \in {"0", "1", "other", "eof"}, Proxy!ValueExtract(c) PROVE ProxyInv'
  <2> DEFINE b == IF c = "1" THEN 1 ELSE IF c = "0" THEN 0 ELSE value
  <2>1. b \in {0, 1}
    BY <1>0
  <2>2. Proxy!ValueBecomes(b, b)
    BY <1>0, <1>17 DEF Proxy!ValueExtract
  <2> QED BY <2>1, <2>2, ValueExact
<1>18. ASSUME NEW n, Proxy!Dereference(n) PROVE ProxyInv'
  <2>1. /\ lbit + n \in Proxy!Addr /\ rbit' = lbit + n
        /\ rhs' = Proxy!Reference(lhs.word * RefDigits + Proxy!CountrZero(lhs.mask) + n)
        /\ UNCHANGED <<words, lhs, lbit, value, bits, bvalue>>
    BY <1>18 DEF Proxy!Dereference
  <2>2. lhs.word = lbit \div RefDigits /\ Proxy!CountrZero(lhs.mask) = lbit % RefDigits
    BY <1>0, PlaceOfBit, MaskPosition DEF Proxy!Reference
  <2>3. (lbit \div RefDigits) * RefDigits + (lbit % RefDigits) = lbit
    BY <1>0, PlaceOfBit, ReferenceAssumption
  <2> QED BY <2>1, <2>2, <2>3 DEF ProxyInv, Holds
<1> QED BY <1>3, <1>4, <1>5, <1>6, <1>7, <1>8, <1>9, <1>10, <1>11, <1>12, <1>13, <1>14, <1>15,
           <1>16, <1>17, <1>18 DEF Proxy!Next
----------------------------------------------------------------------------
(* Views                                                                   *)

\* A view is over bits the memory has, and cover names them; nothing else has
\* been written than what the calls wrote.
AView(v) ==
  /\ v \in [kind : View!Kind, start : Nat, size : Nat]
  /\ v.start + v.size <= NumBits

ViewInv ==
  /\ storage \in [View!Addr -> View!Bit] /\ contents = storage /\ running \in BOOLEAN
  /\ AView(view) /\ cover = View!From(view.start, view.size)
  /\ AView(other) /\ covered = View!From(other.start, other.size)

\* The sequence of addresses from s on.
LEMMA FromIs ==
  ASSUME NEW s \in Int, NEW n \in Nat
  PROVE  /\ View!From(s, n) \in Seq(Int) /\ Len(View!From(s, n)) = n
         /\ DOMAIN View!From(s, n) = 1 .. n
         /\ \A i \in 1 .. n : View!From(s, n)[i] = s + i - 1
<1>1. View!From(s, n) \in [1 .. n -> Int]
  BY DEF View!From
<1>2. View!From(s, n) \in Seq(Int)
  BY <1>1
<1>3. Len(View!From(s, n)) = n
  BY <1>1, <1>2
<1> QED BY <1>1, <1>2, <1>3 DEF View!From

\* A part of what a view is over is what a view of that part is over.
LEMMA PartOfFrom ==
  ASSUME NEW s \in Int, NEW n \in Nat, NEW a \in Nat, NEW b \in Nat, a <= b, b <= n
  PROVE  SubSeq(View!From(s, n), a + 1, b) = View!From(s + a, b - a)
<1> DEFINE f == View!From(s, n)
           t == SubSeq(f, a + 1, b)
           g == View!From(s + a, b - a)
<1>1. \A i \in 1 .. n : f[i] = s + i - 1
  BY FromIs
<1>2. \A i \in a + 1 .. b : f[i] \in Int
  BY <1>1
<1>3. b - a \in Nat /\ s + a \in Int /\ a + 1 \in Int /\ b \in Int
  OBVIOUS
<1>4. g \in Seq(Int) /\ Len(g) = b - a /\ \A i \in 1 .. b - a : g[i] = s + a + i - 1
  BY <1>3, FromIs
<1> HIDE DEF f, g
<1>5. /\ t \in Seq(Int) /\ Len(t) = (IF a + 1 <= b THEN b - (a + 1) + 1 ELSE 0)
      /\ \A i \in 1 .. b - (a + 1) + 1 : t[i] = f[a + 1 + i - 1]
  BY <1>2, <1>3, SubSeqProperties
<1> HIDE DEF t
<1>6. Len(t) = b - a
  BY <1>5
<1>7. ASSUME NEW i \in 1 .. b - a PROVE t[i] = g[i]
  <2>1. i \in 1 .. b - (a + 1) + 1 /\ a + 1 + i - 1 = a + i /\ a + i \in 1 .. n
    BY <1>7
  <2>2. t[i] = f[a + i]
    BY <1>5, <2>1
  <2>3. f[a + i] = s + (a + i) - 1
    BY <1>1, <2>1
  <2> QED BY <1>4, <2>2, <2>3
<1>8. t = g
  BY <1>4, <1>5, <1>6, <1>7, SeqEqual
<1> QED BY <1>8 DEF t, f, g

LEMMA ViewFacts ==
  ASSUME ViewInv
  PROVE  /\ NumBits \in Nat /\ NumBits > 0
         /\ storage \in [0 .. (NumBits - 1) -> {0, 1}] /\ contents = storage
         /\ view \in [kind : View!Kind, start : Nat, size : Nat]
         /\ view.start + view.size <= NumBits
         /\ DOMAIN cover = 1 .. view.size /\ Len(cover) = view.size
         /\ \A i \in 1 .. view.size :
              cover[i] = view.start + i - 1 /\ cover[i] \in 0 .. (NumBits - 1)
         /\ other \in [kind : View!Kind, start : Nat, size : Nat]
         /\ other.start + other.size <= NumBits
         /\ DOMAIN covered = 1 .. other.size /\ Len(covered) = other.size
         /\ \A i \in 1 .. other.size :
              covered[i] = other.start + i - 1 /\ covered[i] \in 0 .. (NumBits - 1)
<1>1. NumBits \in Nat /\ NumBits > 0
  BY ViewAssumption
<1>2. /\ view.start \in Int /\ view.size \in Nat /\ view.start \in Nat
      /\ other.start \in Int /\ other.size \in Nat /\ other.start \in Nat
      /\ view.start + view.size <= NumBits /\ other.start + other.size <= NumBits
  BY DEF ViewInv, AView
<1>3. DOMAIN cover = 1 .. view.size /\ Len(cover) = view.size
  BY <1>2, FromIs DEF ViewInv
<1>4. \A i \in 1 .. view.size : cover[i] = view.start + i - 1
  BY <1>2, FromIs DEF ViewInv
<1>5. DOMAIN covered = 1 .. other.size /\ Len(covered) = other.size
  BY <1>2, FromIs DEF ViewInv
<1>6. \A i \in 1 .. other.size : covered[i] = other.start + i - 1
  BY <1>2, FromIs DEF ViewInv
<1> QED BY <1>1, <1>2, <1>3, <1>4, <1>5, <1>6 DEF ViewInv, AView, View!Addr, View!Bit

\* What the calls say view and other hold is what they do hold.
LEMMA ContentsKnown ==
  ASSUME ViewInv
  PROVE  /\ View!ViewsNow = View!BitsOf(storage, view)
         /\ View!OthersNow = View!Others
         /\ View!BitsOf(storage, view) \in [1 .. view.size -> {0, 1}]
         /\ View!Others \in [1 .. other.size -> {0, 1}]
<1>1. \A i \in 1 .. view.size :
        storage[view.start + i - 1] \in {0, 1} /\ contents[cover[i]] = storage[view.start + i - 1]
  BY ViewFacts
<1>2. \A i \in 1 .. other.size :
        storage[other.start + i - 1] \in {0, 1} /\ contents[covered[i]] = storage[other.start + i - 1]
  BY ViewFacts
<1>3. DOMAIN cover = 1 .. view.size /\ DOMAIN covered = 1 .. other.size
  BY ViewFacts
<1> QED BY <1>1, <1>2, <1>3 DEF View!ViewsNow, View!OthersNow, View!Others, View!BitsOf

LEMMA ViewImplies ==
  ASSUME ViewInv
  PROVE  View!TypeOK /\ View!ViewsExact
<1>1. View!TypeOK
  BY ViewFacts DEF View!TypeOK, View!Fits, View!Addr, View!Bit, ViewInv, AView
<1>2. View!Addresses(view) = cover /\ View!Addresses(other) = covered /\ storage = contents
  BY DEF ViewInv, View!Addresses
<1>3. View!Equal = View!ShouldEqual
  <2>1. /\ View!ViewsNow = View!BitsOf(storage, view) /\ View!OthersNow = View!Others
        /\ View!BitsOf(storage, view) \in [1 .. view.size -> {0, 1}]
        /\ View!Others \in [1 .. other.size -> {0, 1}]
    BY ContentsKnown
  <2>2. /\ Len(cover) = view.size /\ Len(covered) = other.size /\ DOMAIN cover = 1 .. view.size
    BY ViewFacts
  <2>3. View!ShouldEqual = (/\ view.size = other.size
                            /\ \A i \in 1 .. view.size : View!BitsOf(storage, view)[i] = View!Others[i])
    BY <2>1, <2>2 DEF View!ShouldEqual
  <2> DEFINE s == View!BitsOf(storage, view)
             t == View!Others
  <2>4. View!Equal = (view.size = other.size /\ s = t)
    BY DEF View!Equal
  <2>5. s \in [1 .. view.size -> {0, 1}] /\ t \in [1 .. other.size -> {0, 1}]
    BY <2>1
  <2> HIDE DEF s, t
  <2>6. ASSUME view.size = other.size, \A i \in 1 .. view.size : s[i] = t[i] PROVE s = t
    <3>1. t \in [1 .. view.size -> {0, 1}]
      BY <2>5, <2>6
    <3>2. s \in [1 .. view.size -> {0, 1}] /\ \A i \in 1 .. view.size : s[i] = t[i]
      BY <2>5, <2>6
    <3>3. s = [i \in 1 .. view.size |-> s[i]] /\ t = [i \in 1 .. view.size |-> t[i]]
      BY <3>1, <3>2
    <3>4. [i \in 1 .. view.size |-> s[i]] = [i \in 1 .. view.size |-> t[i]]
      BY <3>2
    <3> QED BY <3>3, <3>4, Zenon
  <2> QED BY <2>3, <2>4, <2>6 DEF s, t
<1> QED BY <1>1, <1>2, <1>3 DEF View!ViewsExact

LEMMA ViewInit ==
  ASSUME View!Init
  PROVE  ViewInv
<1>1. NumBits \in Nat
  BY ViewAssumption
<1>2. AView(view) /\ AView(other)
  BY <1>1 DEF View!Init, View!Fits, AView
<1> QED BY <1>2 DEF View!Init, View!Addresses, ViewInv

\* Bits written to a view, by the addresses it has or by those the calls give it.
LEMMA WrittenIsShould ==
  ASSUME ViewInv, NEW s \in [1 .. view.size -> {0, 1}]
  PROVE  /\ View!Should(storage, s) = View!Written(storage, s)
         /\ View!Written(storage, s) \in [View!Addr -> View!Bit]
<1>1. /\ view.start \in Nat /\ view.size \in Nat /\ DOMAIN cover = 1 .. view.size
      /\ \A i \in 1 .. view.size : cover[i] = view.start + i - 1
      /\ NumBits \in Nat /\ storage \in [0 .. (NumBits - 1) -> {0, 1}]
  BY ViewFacts
<1>2. ASSUME NEW a \in View!Addr, View!In(a, view)
      PROVE  /\ \E i \in DOMAIN cover : cover[i] = a
             /\ (CHOOSE i \in DOMAIN cover : cover[i] = a) = a - view.start + 1
             /\ a - view.start + 1 \in 1 .. view.size
  <2>1. a - view.start + 1 \in DOMAIN cover /\ cover[a - view.start + 1] = a
    BY <1>1, <1>2 DEF View!In, View!Addr
  <2>2. \A i \in DOMAIN cover : cover[i] = a => i = a - view.start + 1
    BY <1>1 DEF View!Addr
  <2> QED BY <1>1, <2>1, <2>2
<1>3. ASSUME NEW a \in View!Addr, ~View!In(a, view)
      PROVE  ~ \E i \in DOMAIN cover : cover[i] = a
  BY <1>1, <1>3 DEF View!In, View!Addr
<1>4. View!Should(storage, s) = View!Written(storage, s)
  BY <1>2, <1>3 DEF View!Should, View!Written
<1>5. View!Written(storage, s) \in [View!Addr -> View!Bit]
  BY <1>1, <1>2 DEF View!Written, View!Addr, View!Bit
<1> QED BY <1>4, <1>5

LEMMA ViewWrites ==
  ASSUME ViewInv, NEW s \in [1 .. view.size -> {0, 1}], View!Wrote(s, s)
  PROVE  ViewInv'
BY WrittenIsShould DEF View!Wrote, ViewInv

\* The calls name the bits a view has.
LEMMA NamedIs ==
  ASSUME ViewInv
  PROVE  View!Named(cover) = View!Bits(view) /\ View!Named(covered) = View!Bits(other)
<1>1. ASSUME NEW v, v.start \in Nat, v.size \in Nat, v.start + v.size <= NumBits, NEW f,
             DOMAIN f = 1 .. v.size, \A i \in 1 .. v.size : f[i] = v.start + i - 1
      PROVE  View!Named(f) = View!Bits(v)
  <2>1. NumBits \in Nat
    BY ViewAssumption
  <2>2. ASSUME NEW a \in View!Bits(v) PROVE a \in View!Named(f)
    <3>1. a \in Nat /\ v.start <= a /\ a < v.start + v.size
      BY <2>1, <2>2 DEF View!Bits, View!In, View!Addr
    <3>2. a - v.start + 1 \in 1 .. v.size /\ v.start + (a - v.start + 1) - 1 = a
      BY <1>1, <3>1
    <3> QED BY <1>1, <3>2 DEF View!Named
  <2>3. ASSUME NEW i \in DOMAIN f PROVE f[i] \in View!Bits(v)
    BY <1>1, <2>1, <2>3 DEF View!Bits, View!In, View!Addr
  <2> QED BY <2>2, <2>3 DEF View!Named, View!Bits
<1> QED BY <1>1, ViewFacts

LEMMA ViewClobbered ==
  ASSUME ViewInv, NEW written, View!Clobbered(written, written)
  PROVE  ViewInv'
<1>1. PICK s \in [View!Addr -> View!Bit] :
        storage' = [a \in View!Addr |-> IF a \in written THEN s[a] ELSE storage[a]]
  BY DEF View!Clobbered
<1>2. storage' \in [View!Addr -> View!Bit]
  BY <1>1 DEF ViewInv
<1>3. contents' = storage'
  <2>1. contents' = [a \in View!Addr |-> IF a \in written THEN storage'[a] ELSE storage[a]]
    BY DEF View!Clobbered, ViewInv
  <2>2. \A a \in View!Addr : (IF a \in written THEN storage'[a] ELSE storage[a]) = storage'[a]
    BY <1>1
  <2> QED BY <1>2, <2>1, <2>2
<1> QED BY <1>2, <1>3 DEF View!Clobbered, ViewInv

\* A call that gives a view of bits the memory has, with the addresses of those.
LEMMA ViewGiven ==
  ASSUME ViewInv, NEW v, AView(v), View!Gives(v, View!From(v.start, v.size))
  PROVE  ViewInv'
BY DEF View!Gives, ViewInv

LEMMA ViewParted ==
  ASSUME ViewInv, NEW k \in View!Kind, NEW a \in Nat, NEW b \in Nat, a <= b, b <= view.size,
         View!Gives([kind |-> k, start |-> view.start + a, size |-> b - a], SubSeq(cover, a + 1, b))
  PROVE  ViewInv'
<1> DEFINE v == [kind |-> k, start |-> view.start + a, size |-> b - a]
<1>1. view.start \in Nat /\ view.size \in Nat /\ view.start + view.size <= NumBits /\ NumBits \in Nat
  BY ViewFacts
<1>2. AView(v)
  BY <1>1 DEF AView
<1>3. SubSeq(cover, a + 1, b) = View!From(v.start, v.size)
  <2>1. v.start = view.start + a /\ v.size = b - a /\ view.start \in Int
    BY <1>1
  <2>2. SubSeq(View!From(view.start, view.size), a + 1, b) = View!From(view.start + a, b - a)
    BY <1>1, <2>1, PartOfFrom
  <2> QED BY <2>1, <2>2, Zenon DEF ViewInv
<1> HIDE DEF v
<1>4. View!Gives(v, View!From(v.start, v.size))
  BY <1>3 DEF v
<1> QED BY <1>2, <1>4, ViewGiven

\* An exchange of the bits of two views that share none, by the addresses of both.
LEMMA ViewSwapped ==
  ASSUME ViewInv, view.size = other.size, View!Disjoint
  PROVE  LET exchanged == View!ViewsNow \o View!OthersNow
             places    == covered \o cover
             should    == [a \in View!Addr |->
                             IF \E i \in DOMAIN places : places[i] = a
                               THEN exchanged[CHOOSE i \in DOMAIN places : places[i] = a]
                               ELSE contents[a]]
             swapped   == [a \in View!Addr |->
                             IF View!In(a, view) THEN View!Others[a - view.start + 1]
                             ELSE IF View!In(a, other)
                                    THEN View!BitsOf(storage, view)[a - other.start + 1]
                             ELSE storage[a]]
         IN  should = swapped /\ swapped \in [View!Addr -> View!Bit]
<1> DEFINE n == view.size
           x == view.start
           y == other.start
           s == View!BitsOf(storage, view)
           t == View!Others
           exchanged == View!ViewsNow \o View!OthersNow
           places    == covered \o cover
           swapped   == [a \in View!Addr |->
                           IF View!In(a, view) THEN t[a - view.start + 1]
                           ELSE IF View!In(a, other) THEN s[a - other.start + 1]
                           ELSE storage[a]]
<1>1. /\ n \in Nat /\ x \in Nat /\ y \in Nat /\ x + n <= NumBits /\ y + n <= NumBits /\ NumBits \in Nat
      /\ other.size = n /\ storage \in [0 .. (NumBits - 1) -> {0, 1}] /\ contents = storage
      /\ x + n <= y \/ y + n <= x
  BY ViewFacts DEF View!Disjoint
<1>2. /\ cover \in Seq(Int) /\ Len(cover) = n /\ \A i \in 1 .. n : cover[i] = x + i - 1
      /\ covered \in Seq(Int) /\ Len(covered) = n /\ \A i \in 1 .. n : covered[i] = y + i - 1
  <2>1. x \in Int /\ y \in Int /\ n \in Nat /\ other.size \in Nat
    BY <1>1
  <2>2. cover = View!From(x, n) /\ covered = View!From(y, other.size)
    BY DEF ViewInv
  <2>3. View!From(x, n) \in Seq(Int) /\ View!From(y, other.size) \in Seq(Int)
    BY <2>1, FromIs
  <2> QED BY <1>1, <2>2, <2>3, ViewFacts
<1>3. s \in [1 .. n -> {0, 1}] /\ t \in [1 .. n -> {0, 1}] /\ View!ViewsNow = s /\ View!OthersNow = t
  BY ContentsKnown
<1> HIDE DEF n, x, y, s, t
<1>4. s \in Seq({0, 1}) /\ Len(s) = n /\ t \in Seq({0, 1}) /\ Len(t) = n
  BY <1>1, <1>3
<1>5. /\ exchanged = s \o t /\ \A i \in 1 .. n + n : exchanged[i] = IF i <= n THEN s[i] ELSE t[i - n]
  <2>1. exchanged = s \o t
    BY <1>3
  <2> QED BY <1>4, <2>1, ConcatProperties
<1>6. /\ places \in Seq(Int) /\ DOMAIN places = 1 .. n + n
      /\ \A i \in 1 .. n + n : places[i] = IF i <= n THEN covered[i] ELSE cover[i - n]
  <2>1. /\ places \in Seq(Int) /\ Len(places) = Len(covered) + Len(cover)
        /\ \A i \in 1 .. Len(covered) + Len(cover) :
             places[i] = IF i <= Len(covered) THEN covered[i] ELSE cover[i - Len(covered)]
    BY <1>2, ConcatProperties
  <2> HIDE DEF places
  <2> QED BY <1>1, <1>2, <2>1
<1> HIDE DEF exchanged, places
<1>7. \A i \in 1 .. n + n : places[i] = IF i <= n THEN y + i - 1 ELSE x + (i - n) - 1
  <2> TAKE i \in 1 .. n + n
  <2>1. CASE i <= n
    BY <1>1, <1>2, <1>6, <2>1
  <2>2. CASE ~(i <= n)
    <3>1. i - n \in 1 .. n
      BY <1>1, <2>2
    <3> QED BY <1>2, <1>6, <2>2, <3>1
  <2> QED BY <2>1, <2>2
<1>8. ASSUME NEW a \in View!Addr, View!In(a, view)
      PROVE  /\ \E i \in DOMAIN places : places[i] = a
             /\ exchanged[CHOOSE i \in DOMAIN places : places[i] = a] = t[a - x + 1]
             /\ a - x + 1 \in 1 .. n
  <2> DEFINE j == n + (a - x + 1)
  <2>1. a \in Int /\ x <= a /\ a < x + n
    BY <1>1, <1>8 DEF View!In, View!Addr, n, x
  <2>2. j \in 1 .. n + n /\ ~(j <= n) /\ j - n = a - x + 1 /\ places[j] = a
    BY <1>1, <1>7, <2>1
  <2>3. \A i \in 1 .. n + n : places[i] = a => i = j
    BY <1>1, <1>7, <2>1
  <2> HIDE DEF j
  <2>4. (CHOOSE i \in DOMAIN places : places[i] = a) = j
    BY <1>6, <2>2, <2>3
  <2>5. exchanged[j] = t[a - x + 1]
    BY <1>5, <2>2
  <2>6. \E i \in DOMAIN places : places[i] = a
    BY <1>6, <2>2
  <2>7. a - x + 1 \in 1 .. n
    BY <1>1, <2>1
  <2> QED BY <2>4, <2>5, <2>6, <2>7
<1>9. ASSUME NEW a \in View!Addr, View!In(a, other), ~View!In(a, view)
      PROVE  /\ \E i \in DOMAIN places : places[i] = a
             /\ exchanged[CHOOSE i \in DOMAIN places : places[i] = a] = s[a - y + 1]
             /\ a - y + 1 \in 1 .. n
  <2> DEFINE j == a - y + 1
  <2>1. a \in Int /\ y <= a /\ a < y + n
    BY <1>1, <1>9 DEF View!In, View!Addr, y
  <2>2. j \in 1 .. n + n /\ j <= n /\ places[j] = a
    BY <1>1, <1>7, <2>1
  <2>3. \A i \in 1 .. n + n : places[i] = a => i = j
    BY <1>1, <1>7, <2>1
  <2> HIDE DEF j
  <2>4. (CHOOSE i \in DOMAIN places : places[i] = a) = j
    BY <1>6, <2>2, <2>3
  <2>5. exchanged[j] = s[j]
    BY <1>5, <2>2
  <2>6. \E i \in DOMAIN places : places[i] = a
    BY <1>6, <2>2
  <2>7. a - y + 1 \in 1 .. n
    BY <1>1, <2>1
  <2> QED BY <2>4, <2>5, <2>6, <2>7 DEF j
<1>10. ASSUME NEW a \in View!Addr, ~View!In(a, other), ~View!In(a, view)
       PROVE  ~ \E i \in DOMAIN places : places[i] = a
  <2>1. a \in Int /\ ~(x <= a /\ a < x + n) /\ ~(y <= a /\ a < y + n)
    BY <1>1, <1>10 DEF View!In, View!Addr, n, x, y
  <2>2. \A i \in 1 .. n + n : places[i] # a
    BY <1>1, <1>7, <2>1
  <2> QED BY <1>6, <2>2
<1>11. swapped \in [View!Addr -> View!Bit]
  BY <1>1, <1>3, <1>8, <1>9 DEF x, y, View!Addr, View!Bit
<1>12. [a \in View!Addr |-> IF \E i \in DOMAIN places : places[i] = a
                              THEN exchanged[CHOOSE i \in DOMAIN places : places[i] = a]
                              ELSE contents[a]] = swapped
  BY <1>1, <1>8, <1>9, <1>10 DEF x, y
<1> QED BY <1>11, <1>12 DEF exchanged, places, s, t

LEMMA JoinIsBit ==
  ASSUME NEW op \in {"&=", "|=", "^="}, NEW b \in {0, 1}, NEW c \in {0, 1}
  PROVE  View!Join(op, b, c) \in {0, 1}
<1>1. CASE op = "&="
  BY <1>1 DEF View!Join
<1>2. CASE op = "|="
  BY <1>2 DEF View!Join
<1>3. CASE op = "^="
  BY <1>3 DEF View!Join
<1> QED BY <1>1, <1>2, <1>3

\* What a join of the two makes of view, by what they hold or should hold.
LEMMA JoinedBits ==
  ASSUME ViewInv, NEW op \in {"&=", "|=", "^="}, view.size = other.size
  PROVE  LET joined == [i \in 1 .. view.size |->
                          View!Join(op, View!BitsOf(storage, view)[i], View!Others[i])]
             should == [i \in DOMAIN cover |-> View!Join(op, View!ViewsNow[i], View!OthersNow[i])]
         IN  should = joined /\ joined \in [1 .. view.size -> {0, 1}]
<1>1. /\ View!ViewsNow = View!BitsOf(storage, view) /\ View!OthersNow = View!Others
      /\ DOMAIN cover = 1 .. view.size
  BY ContentsKnown, ViewFacts
<1>2. \A i \in 1 .. view.size : View!BitsOf(storage, view)[i] \in {0, 1} /\ View!Others[i] \in {0, 1}
  BY ContentsKnown
<1>3. \A i \in 1 .. view.size :
        View!Join(op, View!BitsOf(storage, view)[i], View!Others[i]) \in {0, 1}
  BY <1>2, JoinIsBit
<1> QED BY <1>1, <1>3

LEMMA ViewContentsNext ==
  ASSUME ViewInv
  PROVE  /\ View!Assign \/ View!Rebind \/ View!Swap \/ View!AssignComplement => ViewInv'
         /\ \A b \in View!Bit : View!Fill(b) => ViewInv'
         /\ \A op \in {"&=", "|=", "^="} : View!JoinAssign(op) \/ View!AssignJoined(op) => ViewInv'
<1>0. /\ View!ViewsNow = View!BitsOf(storage, view) /\ View!OthersNow = View!Others
      /\ View!BitsOf(storage, view) \in [1 .. view.size -> {0, 1}]
      /\ View!Others \in [1 .. other.size -> {0, 1}] /\ DOMAIN cover = 1 .. view.size
  BY ContentsKnown, ViewFacts
<1>1. ASSUME View!Throws PROVE ViewInv'
  BY <1>1 DEF View!Throws, View!vars, ViewInv
<1>2. ASSUME View!Assign PROVE ViewInv'
  <2>1. CASE View!Throws
    BY <1>1, <2>1
  <2>2. CASE view.size = other.size /\ View!Wrote(View!Others, View!OthersNow)
    BY <1>0, <2>2, ViewWrites
  <2>3. CASE View!Clobbered(View!Bits(view), View!Named(cover))
    BY <2>3, NamedIs, ViewClobbered
  <2> QED BY <1>2, <2>1, <2>2, <2>3 DEF View!Assign
<1>3. ASSUME View!Rebind PROVE ViewInv'
  BY <1>3 DEF View!Rebind, ViewInv
<1>4. ASSUME View!Swap PROVE ViewInv'
  <2> DEFINE written == View!Bits(view) \cup View!Bits(other)
             named   == View!Named(cover) \cup View!Named(covered)
  <2>1. CASE View!Throws
    BY <1>1, <2>1
  <2>2. CASE ~View!Throws /\ ~View!Clobbered(written, named)
    BY <1>4, <2>2, ViewSwapped DEF View!Swap, ViewInv
  <2>3. CASE View!Clobbered(written, named)
    BY <2>3, NamedIs, ViewClobbered
  <2> QED BY <1>4, <2>1, <2>2, <2>3 DEF View!Swap
<1>5. ASSUME View!AssignComplement PROVE ViewInv'
  <2> DEFINE s == View!BitsOf(storage, view)
             t == [i \in 1 .. view.size |-> 1 - s[i]]
  <2>1. View!Wrote(t, t)
    BY <1>0, <1>5 DEF View!AssignComplement
  <2>2. t \in [1 .. view.size -> {0, 1}]
    BY <1>0
  <2> HIDE DEF t
  <2> QED BY <2>1, <2>2, ViewWrites
<1>6. ASSUME NEW b \in View!Bit, View!Fill(b) PROVE ViewInv'
  <2> DEFINE t == [i \in 1 .. view.size |-> b]
  <2>1. View!Wrote(t, t)
    BY <1>0, <1>6 DEF View!Fill
  <2>2. t \in [1 .. view.size -> {0, 1}]
    BY <1>6 DEF View!Bit
  <2> HIDE DEF t
  <2> QED BY <2>1, <2>2, ViewWrites
<1>7. ASSUME NEW op \in {"&=", "|=", "^="}, View!JoinAssign(op) \/ View!AssignJoined(op)
      PROVE  ViewInv'
  <2> DEFINE t == [i \in 1 .. view.size |->
                     View!Join(op, View!BitsOf(storage, view)[i], View!Others[i])]
             u == [i \in DOMAIN cover |-> View!Join(op, View!ViewsNow[i], View!OthersNow[i])]
  <2>1. view.size = other.size
    BY <1>7 DEF View!JoinAssign, View!AssignJoined
  <2>2. u = t /\ t \in [1 .. view.size -> {0, 1}]
    BY <2>1, JoinedBits
  <2>3. View!Wrote(t, u) \/ View!Clobbered(View!Bits(view), View!Named(cover))
    BY <1>7 DEF View!JoinAssign, View!AssignJoined
  <2> HIDE DEF t, u
  <2> QED BY <2>2, <2>3, NamedIs, ViewWrites, ViewClobbered
<1> QED BY <1>2, <1>3, <1>4, <1>5, <1>6, <1>7

LEMMA ViewPutAt ==
  ASSUME ViewInv, NEW pos \in Nat, NEW b \in {0, 1}, View!PutAt(pos, b)
  PROVE  ViewInv'
<1>1. CASE View!Throws
  BY <1>1 DEF View!Throws, View!vars, ViewInv
<1>2. CASE ~View!Throws
  <2>1. /\ pos < view.size
        /\ storage' = [storage EXCEPT ![view.start + pos] = b]
        /\ contents' = [contents EXCEPT ![cover[pos + 1]] = b]
        /\ UNCHANGED <<view, other, running, cover, covered>>
    BY <1>2 DEF View!PutAt
  <2>2. cover[pos + 1] = view.start + pos /\ view.start + pos \in View!Addr
    <3>1. /\ view.size \in Nat /\ view.start \in Nat /\ NumBits \in Nat
          /\ view.start + view.size <= NumBits
          /\ \A i \in 1 .. view.size : cover[i] = view.start + i - 1
      BY ViewFacts
    <3>2. pos + 1 \in 1 .. view.size /\ view.start + (pos + 1) - 1 = view.start + pos
      BY <2>1, <3>1
    <3> QED BY <3>1, <3>2, <2>1 DEF View!Addr
  <2>3. contents' = storage'
    BY <2>1, <2>2 DEF ViewInv
  <2>4. storage' \in [View!Addr -> View!Bit]
    BY <2>1, <2>2 DEF ViewInv, View!Bit
  <2> QED BY <2>1, <2>3, <2>4 DEF ViewInv
<1> QED BY <1>1, <1>2

\* The calls that give a view of a part of view.
LEMMA ViewOfView ==
  ASSUME ViewInv, NEW m \in Nat, NEW n \in Nat
  PROVE  /\ View!Slice(m, n) \/ View!SpanSlice(m, n) \/ View!Subspan(m, n) => ViewInv'
         /\ View!WordAccess(m, n) => ViewInv'
         /\ View!SubspanToEnd(n) \/ View!First(n) \/ View!Last(n) => ViewInv'
         /\ View!FirstDynamic(n) \/ View!LastDynamic(n) => ViewInv'
         /\ View!RefOver(n) \/ View!SpanOver(n) => ViewInv'
<1>0. /\ view.size \in Nat /\ view.start \in Nat /\ view.start + 0 = view.start
      /\ "ref" \in View!Kind /\ "span" \in View!Kind
      /\ n - 0 = n /\ 0 + 1 = 1
  BY ViewFacts DEF View!Kind
<1> USE DEF View!Ref, View!Span
<1>1. ASSUME View!Slice(m, n) PROVE ViewInv'
  <2>1. CASE running' = FALSE /\ UNCHANGED <<storage, view, other, contents, cover, covered>>
    BY <2>1 DEF ViewInv
  <2>2. CASE /\ m <= n /\ n <= view.size
             /\ View!Gives(View!Ref(view.start + m, n - m), SubSeq(cover, m + 1, n))
    BY <1>0, <2>2, ViewParted
  <2> QED BY <1>1, <2>1, <2>2 DEF View!Slice
<1>2. ASSUME View!SpanSlice(m, n) PROVE ViewInv'
  BY <1>0, <1>2, ViewParted DEF View!SpanSlice
<1>3. ASSUME View!Subspan(m, n) PROVE ViewInv'
  <2>1. m + n \in Nat /\ m <= m + n /\ m + n - m = n /\ m + n <= view.size
    BY <1>3 DEF View!Subspan
  <2>2. View!Gives([kind |-> "span", start |-> view.start + m, size |-> m + n - m],
                   SubSeq(cover, m + 1, m + n))
    BY <1>3, <2>1 DEF View!Subspan
  <2> QED BY <1>0, <2>1, <2>2, ViewParted
<1>4. ASSUME View!WordAccess(m, n) PROVE ViewInv'
  <2> DEFINE a == m * n
             b == (m + 1) * n
  <2>1. a \in Nat /\ b \in Nat /\ a <= b /\ b - a = n
    BY SMTT(30)
  <2>2. b <= view.size /\ View!Gives([kind |-> "ref", start |-> view.start + a, size |-> n],
                                     SubSeq(cover, a + 1, b))
    BY <1>4 DEF View!WordAccess
  <2> HIDE DEF a, b
  <2> QED BY <1>0, <2>1, <2>2, ViewParted
<1>5. ASSUME View!SubspanToEnd(n) PROVE ViewInv'
  BY <1>0, <1>5, ViewParted DEF View!SubspanToEnd
<1>6. ASSUME NEW k \in View!Kind, n <= view.size,
             View!Gives([kind |-> k, start |-> view.start, size |-> n], SubSeq(cover, 1, n))
      PROVE  ViewInv'
  <2>1. View!Gives([kind |-> k, start |-> view.start + 0, size |-> n - 0], SubSeq(cover, 0 + 1, n))
    BY <1>0, <1>6
  <2> QED BY <1>0, <1>6, <2>1, ViewParted
<1>7. ASSUME View!First(n) PROVE ViewInv'
  BY <1>0, <1>6, <1>7 DEF View!First
<1>8. ASSUME View!Last(n) PROVE ViewInv'
  <2> DEFINE a == view.size - n
  <2>1. a \in Nat /\ a + a \in Nat /\ a <= a + a /\ a + a - a = a /\ a + a <= view.size
    BY <1>0, <1>8 DEF View!Last
  <2>2. View!Gives([kind |-> "span", start |-> view.start + a, size |-> a],
                   SubSeq(cover, a + 1, a + a))
    BY <1>8 DEF View!Last
  <2> HIDE DEF a
  <2> QED BY <1>0, <2>1, <2>2, ViewParted
<1>9. ASSUME NEW s \in Nat, s <= NumBits, View!Gives([kind |-> "span", start |-> s, size |-> 0], <<>>)
      PROVE  ViewInv'
  <2> DEFINE v == [kind |-> "span", start |-> s, size |-> 0]
  <2>1. AView(v)
    BY <1>0, <1>9 DEF AView
  <2>2. View!From(v.start, v.size) = <<>>
    BY DEF View!From
  <2>3. View!Gives(v, View!From(v.start, v.size))
    BY <1>9, <2>2
  <2> HIDE DEF v
  <2> QED BY <2>1, <2>3, ViewGiven
<1>10. ASSUME View!FirstDynamic(n) PROVE ViewInv'
  <2>1. view.start + n \in Nat /\ view.start + n <= NumBits
    BY <1>0, <1>10, ViewFacts DEF View!FirstDynamic
  <2> QED BY <1>9, <1>10, <2>1 DEF View!FirstDynamic
<1>11. ASSUME View!LastDynamic(n) PROVE ViewInv'
  <2>1. view.start + view.size - n \in Nat /\ view.start + view.size - n <= NumBits
    BY <1>0, <1>11, ViewFacts DEF View!LastDynamic
  <2> QED BY <1>9, <1>11, <2>1 DEF View!LastDynamic
<1>12. ASSUME View!RefOver(n) \/ View!SpanOver(n) PROVE ViewInv'
  BY <1>0, <1>6, <1>12 DEF View!RefOver, View!SpanOver
<1> QED BY <1>1, <1>2, <1>3, <1>4, <1>5, <1>7, <1>8, <1>10, <1>11, <1>12

LEMMA ViewNext ==
  ASSUME ViewInv, View!Next
  PROVE  ViewInv'
<1>1. View!Lengths \subseteq Nat /\ View!Bit = {0, 1}
  BY ViewAssumption DEF View!Lengths, View!Bit
<1>2. CASE View!Assign \/ View!Rebind \/ View!Swap \/ View!AssignComplement
  BY <1>2, ViewContentsNext
<1>3. ASSUME NEW b \in View!Bit, View!Fill(b) PROVE ViewInv'
  BY <1>3, ViewContentsNext
<1>4. ASSUME NEW b \in View!Bit, NEW pos \in View!Lengths, View!At(pos, b) \/ View!SpanAt(pos, b)
      PROVE  ViewInv'
  BY <1>1, <1>4, ViewPutAt DEF View!At, View!SpanAt
<1>5. ASSUME NEW op \in {"&=", "|=", "^="}, View!JoinAssign(op) \/ View!AssignJoined(op)
      PROVE  ViewInv'
  BY <1>5, ViewContentsNext
<1>6. ASSUME NEW m \in View!Lengths, NEW n \in View!Lengths,
             View!Slice(m, n) \/ View!SpanSlice(m, n) \/ View!Subspan(m, n) \/ View!WordAccess(m, n)
      PROVE  ViewInv'
  BY <1>1, <1>6, ViewOfView
<1>7. ASSUME NEW n \in View!Lengths,
             \/ View!SubspanToEnd(n) \/ View!First(n) \/ View!Last(n)
             \/ View!FirstDynamic(n) \/ View!LastDynamic(n)
             \/ View!RefOver(n) \/ View!SpanOver(n)
      PROVE  ViewInv'
  BY <1>1, <1>7, ViewOfView
<1>8. CASE UNCHANGED View!vars
  BY <1>8 DEF View!vars, ViewInv
<1> QED BY <1>2, <1>3, <1>4, <1>5, <1>6, <1>7, <1>8 DEF View!Next
----------------------------------------------------------------------------
(* Whatever type is picked.  IteratorInv holds of the others too, as their *)
(* runs leave the variables of bit_iterator 0.                             *)

AddressesInv ==
  /\ IteratorInv
  /\ type = "smaller"       => SmallerInv
  /\ type = "bigger"        => BiggerInv
  /\ type = "adapted"       => AdaptedInv
  /\ type = "bit_reference" => ProxyInv
  /\ type = "to_smaller"    => ToSmallerInv
  /\ type = "to_bigger"     => ToBiggerInv
  /\ type = "view"          => ViewInv

LEMMA AddressesInit == AnyInit => AddressesInv
<1> SUFFICES ASSUME AnyInit PROVE AddressesInv
  OBVIOUS
<1> USE DEF AnyInit
<1>1. NoIterator => IteratorInv
  BY Widths DEF NoIterator, IteratorInv, TypeOK, Designates
<1>2. Smaller!Init => SmallerInv
  <2> SUFFICES ASSUME Smaller!Init PROVE SmallerInv
    OBVIOUS
  <2>1. /\ source = 0 /\ osource = source /\ index \in 0 .. (Ratio - 1) /\ oindex = index
        /\ word_address = index /\ oword_address = word_address
    BY DEF Smaller!Init, Smaller!FreshIndex
  <2> QED BY <2>1, SmallerInit
<1>3. CASE type = "bit_iterator"
  BY <1>3, IteratorInit DEF AddressesInv
<1>4. CASE type = "smaller"
  BY <1>1, <1>2, <1>4 DEF AddressesInv
<1>5. CASE type = "bigger"
  BY <1>1, <1>5, BiggerInit DEF AddressesInv
<1>6. CASE type = "adapted"
  BY <1>1, <1>6, AdaptedInit DEF AddressesInv
<1>7. CASE type = "bit_reference"
  BY <1>1, <1>7, ProxyInit DEF AddressesInv
<1>8. CASE type = "to_smaller"
  BY <1>1, <1>8, ToSmallerInit DEF AddressesInv
<1>9. CASE type = "to_bigger"
  BY <1>1, <1>9, ToBiggerInit DEF AddressesInv
<1>10. CASE type = "view"
  BY <1>1, <1>10, ViewInit DEF AddressesInv
<1> QED BY <1>3, <1>4, <1>5, <1>6, <1>7, <1>8, <1>9, <1>10

LEMMA AddressesNext == AddressesInv /\ [AnyNext]_all_vars => AddressesInv'
<1> SUFFICES ASSUME AddressesInv, [AnyNext]_all_vars PROVE AddressesInv'
  OBVIOUS
<1>1. type' = type
  BY DEF AnyNext, all_vars
<1>2. CASE UNCHANGED all_vars
  <2>1. /\ UNCHANGED vars /\ UNCHANGED <<source, index, osource, oindex, word_address, oword_address>>
        /\ UNCHANGED <<in_piece, oin_piece, bit, obit>>
        /\ UNCHANGED <<words, value, bits, lbit, rbit, bvalue>>
        /\ UNCHANGED <<memory, expected, lvalue, rvalue, lhs, rhs>>
        /\ UNCHANGED <<storage, view, other, running, contents, cover, covered>>
    BY <1>2 DEF all_vars, pointer_vars, adapted_vars, reference_vars, proxy_vars, word_vars, view_vars
  <2>2. IteratorInv'
    BY <2>1, IteratorNext DEF AddressesInv
  <2>3. SmallerInv' = SmallerInv /\ AdaptedInv' = AdaptedInv
    BY <2>1 DEF SmallerInv, AdaptedInv, At
  <2>4. BiggerInv' = BiggerInv
    BY <2>1 DEF BiggerInv, Bigger!TypeOK, Bigger!Designates, Bigger!Place
  <2>5. ProxyInv' = ProxyInv
    BY <2>1 DEF ProxyInv, Holds
  <2>6. ToSmallerInv' = ToSmallerInv /\ ToBiggerInv' = ToBiggerInv
    BY <2>1 DEF ToSmallerInv, ToBiggerInv, Stood
  <2>7. ViewInv' = ViewInv
    BY <2>1 DEF ViewInv, AView
  <2> QED BY <1>1, <2>2, <2>3, <2>4, <2>5, <2>6, <2>7 DEF AddressesInv
<1>3. CASE AnyNext
  <2>1. ASSUME type = "bit_iterator", Next PROVE AddressesInv'
    BY <1>1, <2>1, IteratorNext DEF AddressesInv
  <2>2. ASSUME UNCHANGED vars PROVE IteratorInv'
    BY <2>2, IteratorNext DEF AddressesInv
  <2>3. ASSUME type = "smaller", Smaller!Next, UNCHANGED vars PROVE AddressesInv'
    BY <1>1, <2>2, <2>3, SmallerNext DEF AddressesInv
  <2>4. ASSUME type = "bigger", Bigger!Next, UNCHANGED vars PROVE AddressesInv'
    BY <1>1, <2>2, <2>4, BiggerNext DEF AddressesInv
  <2>5. ASSUME type = "adapted", Smaller!AdaptedNext, UNCHANGED vars PROVE AddressesInv'
    BY <1>1, <2>2, <2>5, AdaptedNext DEF AddressesInv
  <2>6. ASSUME type = "bit_reference", Proxy!Next, UNCHANGED vars PROVE AddressesInv'
    BY <1>1, <2>2, <2>6, ProxyNext DEF AddressesInv
  <2>7. ASSUME type = "to_smaller", ToSmaller!Next, UNCHANGED vars PROVE AddressesInv'
    BY <1>1, <2>2, <2>7, ToSmallerNext DEF AddressesInv
  <2>8. ASSUME type = "to_bigger", ToBigger!Next, UNCHANGED vars PROVE AddressesInv'
    BY <1>1, <2>2, <2>8, ToBiggerNext DEF AddressesInv
  <2>9. ASSUME type = "view", View!Next, UNCHANGED vars PROVE AddressesInv'
    BY <1>1, <2>2, <2>9, ViewNext DEF AddressesInv
  <2> QED BY <1>3, <2>1, <2>3, <2>4, <2>5, <2>6, <2>7, <2>8, <2>9 DEF AnyNext
<1> QED BY <1>2, <1>3

----------------------------------------------------------------------------
(* The theorems                                                            *)

\* The pair of an iterator keeps its types and its position that of a word,
\* whatever calls are made.
THEOREM TypeCorrect == AnySpec => []TypeOK
<1>1. AddressesInv => TypeOK
  BY DEF AddressesInv, IteratorInv
<1> QED BY <1>1, AddressesInit, AddressesNext, PTL DEF AnySpec

\* After any calls of ++, --, += and -= the pair designates the bit they add up
\* to: the linear addresses of the other modules are sound.
THEOREM AddressExact == AnySpec => []Designates
<1>1. AddressesInv => Designates
  BY DEF AddressesInv, IteratorInv
<1> QED BY <1>1, AddressesInit, AddressesNext, PTL DEF AnySpec

\* The difference of two iterators is their distance in bits, and their
\* comparison that of the bits they designate.
THEOREM OrderExact == AnySpec => []Ordered
<1>1. AddressesInv => Ordered
  BY IteratorOrdered DEF AddressesInv
<1> QED BY <1>1, AddressesInit, AddressesNext, PTL DEF AnySpec

\* A pointer adapter, to smaller or bigger words, is at the word the calls on it
\* add up to, a bit_iterator over one at the bit, distances and order are those
\* of words and bits, and a reference an adapter gives reads and writes the
\* pieces it stands for: bit_word_pointer_adapter and bit_word_reference_adapter.
THEOREM AdaptersCorrect == AnySpec => []AdaptersExact
<1>1. AddressesInv => AdaptersExact
  BY SmallerImplies, BiggerImplies, AdaptedImplies, ToSmallerImplies, ToBiggerImplies
     DEF AddressesInv, AdaptersExact
<1> QED BY <1>1, AddressesInit, AddressesNext, PTL DEF AnySpec

\* A call by way of a bit_reference changes the one bit it is to, however the two
\* references share words or bits, and a bit_value holds what was written to it.
THEOREM ProxiesCorrect == AnySpec => []ProxiesExact
<1>1. AddressesInv => ProxiesExact
  BY ProxyImplies DEF AddressesInv, ProxiesExact
<1> QED BY <1>1, AddressesInit, AddressesNext, PTL DEF AnySpec

\* A view, and a view of views, is over the bits the calls that made it name, and
\* writes by way of array_ref and bit_span reach those bits only.
THEOREM ViewsCorrect == AnySpec => []ViewsExact
<1>1. AddressesInv => ViewsExact
  BY ViewImplies DEF AddressesInv, ViewsExact
<1> QED BY <1>1, AddressesInit, AddressesNext, PTL DEF AnySpec
=============================================================================
