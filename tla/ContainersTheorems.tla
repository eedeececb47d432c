------------------------- MODULE ContainersTheorems -------------------------
(***************************************************************************)
(* The containers are right for every width of a word and every bound on   *)
(* their sizes: the words of a bit_vector hold its contents, which change  *)
(* as those of a std::vector<bool>; and a bit_array<> owns its blocks one  *)
(* each and behaves as a value.  Each call of a container has a lemma,     *)
(* which says that it keeps the invariant and which abstract step it is.   *)
(***************************************************************************)
EXTENDS MCContainers, SequenceTheorems, TLAPS

LEMMA Constants ==
  /\ W \in Nat /\ W > 0 /\ Zero \in Bit
  /\ MaxLen \in Nat /\ MaxArg \in 0 .. MaxLen
BY WordsAssumption, BoundAssumption

----------------------------------------------------------------------------
(* bit_vector: the number of words.                                        *)

LEMMA Division ==
  ASSUME NEW n \in Nat
  PROVE  n = W * (n \div W) + (n % W) /\ n \div W \in Int /\ n % W \in 0 .. (W - 1)
BY Constants

\* word_count rounds up.
LEMMA WordCount ==
  ASSUME NEW n \in Nat
  PROVE  /\ Vector!word_count(n) \in Nat
         /\ n <= Vector!word_count(n) * W
         /\ Vector!word_count(n) * W < n + W
<1> DEFINE m == n + W - 1
           q == m \div W
           r == m % W
<1>1. m \in Nat /\ m = W * q + r /\ q \in Int /\ r \in 0 .. (W - 1)
  BY Constants
<1>2. Vector!word_count(n) = q
  BY DEF Vector!word_count
<1> HIDE DEF q, r
<1>3. q >= 0
  <2> SUFFICES ASSUME q <= -1 PROVE FALSE
    BY <1>1
  <2>1. W * q <= -W
    BY <1>1, Constants, SMTT(30)
  <2> QED BY <2>1, <1>1, Constants
<1>4. W * q = q * W
  BY <1>1, Constants
<1> QED BY <1>1, <1>2, <1>3, <1>4, Constants

\* k words are those n bits take: they hold them, and one word less would not.
Tight(k, n) == n <= k * W /\ k * W < n + W

LEMMA TightIsCount ==
  ASSUME NEW k \in Int, NEW n \in Nat, Tight(k, n)
  PROVE  k = Vector!word_count(n)
<1> DEFINE c == Vector!word_count(n)
<1>1. c \in Nat /\ n <= c * W /\ c * W < n + W
  BY WordCount
<1>2. n <= k * W /\ k * W < n + W
  BY DEF Tight
<1> HIDE DEF c
<1>3. ~(k >= c + 1)
  <2> SUFFICES ASSUME k >= c + 1 PROVE FALSE
    OBVIOUS
  <2>1. k * W >= c * W + W
    BY <1>1, Constants, SMTT(30)
  <2> QED BY <2>1, <1>1, <1>2, Constants
<1>4. ~(c >= k + 1)
  <2> SUFFICES ASSUME c >= k + 1 PROVE FALSE
    OBVIOUS
  <2>1. c * W >= k * W + W
    BY <1>1, Constants, SMTT(30)
  <2> QED BY <2>1, <1>1, <1>2, Constants
<1> QED BY <1>1, <1>3, <1>4 DEF c

\* The words of a bit_vector, in terms of that.
LEMMA WordsFitTight ==
  ASSUME words \in Nat, length_ \in Nat
  PROVE  Vector!WordsFit <=> length_ <= words * W /\ (~spare => Tight(words, length_))
<1>1. words = Vector!word_count(length_) => Tight(words, length_)
  BY WordCount DEF Tight
<1>2. Tight(words, length_) => words = Vector!word_count(length_)
  BY TightIsCount
<1> QED BY <1>1, <1>2 DEF Vector!WordsFit

\* A word more or less.
LEMMA WordMore ==
  ASSUME NEW k \in Int
  PROVE  (k + 1) * W = k * W + W /\ (k - 1) * W = k * W - W /\ k * W \in Int
BY Constants, SMTT(30)

----------------------------------------------------------------------------
(* bit_vector: its bits.                                                   *)

LEMMA Capacity ==
  ASSUME NEW k \in Nat
  PROVE  k * W \in Nat /\ Vector!Stored(k) = 0 .. (k * W - 1)
<1>1. k * W \in Nat
  BY Constants, SMTT(30)
<1> QED BY <1>1 DEF Vector!Stored

LEMMA Index ==
  ASSUME NEW k \in Nat, NEW n \in Nat, n <= k * W, NEW i \in 1 .. n
  PROVE  i - 1 \in 0 .. (k * W - 1) /\ i - 1 \in Vector!Stored(k)
<1> DEFINE K == k * W
<1>1. K \in Nat /\ n <= K /\ Vector!Stored(k) = 0 .. (K - 1)
  BY Capacity
<1> HIDE DEF K
<1>2. i - 1 \in 0 .. (K - 1)
  BY <1>1
<1> QED BY <1>1, <1>2 DEF K

LEMMA RangeType ==
  ASSUME NEW r \in Vector!Ranges
  PROVE  r \in Seq(Bit) /\ Len(r) \in 0 .. MaxArg /\ \A i \in 1 .. Len(r) : r[i] \in Bit
<1>1. PICK k \in 0 .. MaxArg : r \in [1 .. k -> Bit]
  BY DEF Vector!Ranges
<1>2. k \in Nat
  BY <1>1, Constants
<1>3. r \in Seq(Bit) /\ Len(r) = k
  BY <1>1, <1>2
<1> QED BY <1>1, <1>2, <1>3

LEMMA ResizedBits ==
  ASSUME NEW j \in Nat, NEW k \in Nat, NEW v \in [Vector!Stored(j) -> Bit]
  PROVE  /\ Vector!Resized(v, k) \in [Vector!Stored(k) -> Bit]
         /\ \A a \in 0 .. (k * W - 1) : a < j * W => Vector!Resized(v, k)[a] = v[a]
BY Capacity, Constants DEF Vector!Resized

\* v is u with r written at d.
PutAt(v, u, k, d, r) ==
  \A a \in 0 .. (k * W - 1) :
    v[a] = IF d <= a /\ a < d + Len(r) THEN r[a - d + 1] ELSE u[a]

LEMMA WrittenBits ==
  ASSUME NEW k \in Nat, NEW v \in [Vector!Stored(k) -> Bit], NEW r \in Seq(Bit),
         NEW d \in Nat, d + Len(r) <= k * W
  PROVE  /\ Vector!Written(v, d, r) \in [Vector!Stored(k) -> Bit]
         /\ PutAt(Vector!Written(v, d, r), v, k, d, r)
<1> DEFINE D == Vector!Stored(k)
           u == Vector!Written(v, d, r)
<1>1. D = 0 .. (k * W - 1) /\ k * W \in Nat
  BY Capacity
<1>2. u = [a \in D |-> IF d <= a /\ a < d + Len(r) THEN r[a - d + 1] ELSE v[a]]
  BY DEF Vector!Written
<1>3. ASSUME NEW a \in D
      PROVE  (IF d <= a /\ a < d + Len(r) THEN r[a - d + 1] ELSE v[a]) \in Bit
  <2>1. CASE d <= a /\ a < d + Len(r)
    <3>1. a - d + 1 \in 1 .. Len(r)
      BY <1>1, <2>1
    <3> QED BY <2>1, <3>1
  <2> QED BY <2>1
<1> QED BY <1>1, <1>2, <1>3 DEF PutAt

LEMMA PutOne ==
  ASSUME NEW k \in Nat, NEW u \in [Vector!Stored(k) -> Bit], NEW d \in Nat, d < k * W,
         NEW value \in Bit
  PROVE  /\ [u EXCEPT ![d] = value] \in [Vector!Stored(k) -> Bit]
         /\ PutAt([u EXCEPT ![d] = value], u, k, d, <<value>>)
<1> DEFINE v == [u EXCEPT ![d] = value]
           r == <<value>>
<1>1. v \in [Vector!Stored(k) -> Bit]
  OBVIOUS
<1>2. ASSUME NEW a \in 0 .. (k * W - 1)
      PROVE  v[a] = IF d <= a /\ a < d + Len(r) THEN r[a - d + 1] ELSE u[a]
  <2>1. a \in Vector!Stored(k) /\ a \in Int
    BY Capacity
  <2>2. (d <= a /\ a < d + 1) <=> a = d
    BY <2>1
  <2>3. a = d => r[a - d + 1] = value
    OBVIOUS
  <2>4. Len(r) = 1
    OBVIOUS
  <2> QED BY <2>1, <2>2, <2>3, <2>4
<1> QED BY <1>1, <1>2 DEF PutAt

LEMMA FillBits ==
  ASSUME NEW k \in Nat, NEW v \in [Vector!Stored(k) -> Bit], NEW value \in Bit,
         NEW d \in Nat, NEW count \in Nat, NEW r \in Seq(Bit), r = [i \in 1 .. count |-> value]
  PROVE  /\ Vector!Fill(v, d, d + count, value) \in [Vector!Stored(k) -> Bit]
         /\ PutAt(Vector!Fill(v, d, d + count, value), v, k, d, r)
<1> DEFINE u == Vector!Fill(v, d, d + count, value)
<1>1. Len(r) = count /\ \A i \in 1 .. count : r[i] = value
  OBVIOUS
<1>2. Vector!Stored(k) = 0 .. (k * W - 1) /\ k * W \in Nat
  BY Capacity
<1>3. u = [a \in Vector!Stored(k) |-> IF d <= a /\ a < d + count THEN value ELSE v[a]]
  BY DEF Vector!Fill
<1>4. ASSUME NEW a \in 0 .. (k * W - 1)
      PROVE  u[a] = IF d <= a /\ a < d + Len(r) THEN r[a - d + 1] ELSE v[a]
  <2>1. d <= a /\ a < d + Len(r) => r[a - d + 1] = value
    BY <1>1, <1>2
  <2> QED BY <1>1, <1>2, <1>3, <2>1
<1> QED BY <1>3, <1>4 DEF PutAt

\* shift_right: the bits before the range stay, those of the range arrive n on.
MovedUp(u, v, first, last, n) ==
  \A a \in 0 .. (last - 1) : (a < first => u[a] = v[a]) /\ (a >= first + n => u[a] = v[a - n])

LEMMA ShiftRightBits ==
  ASSUME NEW k \in Nat, NEW v \in [Vector!Stored(k) -> Bit],
         NEW first \in Nat, NEW last \in Nat, NEW n \in Nat,
         0 < n, first + n <= last, last <= k * W,
         NEW u \in Vector!ShiftRight(v, first, last, n)
  PROVE  u \in [Vector!Stored(k) -> Bit] /\ MovedUp(u, v, first, last, n)
<1> DEFINE D == Vector!Stored(k)
<1>1. D = 0 .. (k * W - 1) /\ k * W \in Nat
  BY Capacity
<1>2. CASE n < last - first
  <2>1. PICK junk \in [first .. (first + n - 1) -> Bit] :
          u = Vector!Moved(v, first, last, -n, junk)
    BY <1>2 DEF Vector!ShiftRight
  <2>2. u = [a \in D |-> IF ~(first <= a /\ a < last) THEN v[a]
                         ELSE IF a \in first .. (first + n - 1) THEN junk[a] ELSE v[a + -n]]
    BY <2>1 DEF Vector!Moved
  <2>3. \A a \in D : first <= a /\ a < last /\ a \notin first .. (first + n - 1)
                       => a + -n \in D /\ a + -n = a - n
    BY <1>1
  <2>4. \A a \in D : u[a] \in Bit
    BY <2>2, <2>3
  <2>5. \A a \in 0 .. (last - 1) : a \in D /\ (a < first => u[a] = v[a])
                                  /\ (a >= first + n => u[a] = v[a - n])
    BY <1>1, <2>2, <2>3
  <2> QED BY <2>2, <2>4, <2>5 DEF MovedUp
<1>3. CASE ~(n < last - first)
  BY <1>3 DEF Vector!ShiftRight, MovedUp
<1> QED BY <1>2, <1>3

LEMMA NothingMoves ==
  ASSUME NEW v, NEW first, NEW last, NEW n, ~(n < last - first)
  PROVE  v \in Vector!ShiftRight(v, first, last, n) /\ v \in Vector!ShiftLeft(v, first, last, n)
BY DEF Vector!ShiftRight, Vector!ShiftLeft

\* shift_left: the bits before the range stay, the others arrive n before.
MovedDown(u, v, first, last, n) ==
  \A a \in 0 .. (last - n - 1) : (a < first => u[a] = v[a]) /\ (a >= first => u[a] = v[a + n])

LEMMA ShiftLeftBits ==
  ASSUME NEW k \in Nat, NEW v \in [Vector!Stored(k) -> Bit],
         NEW first \in Nat, NEW last \in Nat, NEW n \in Nat,
         0 < n, first + n <= last, last <= k * W,
         NEW u \in Vector!ShiftLeft(v, first, last, n)
  PROVE  u \in [Vector!Stored(k) -> Bit] /\ MovedDown(u, v, first, last, n)
<1> DEFINE D == Vector!Stored(k)
<1>1. D = 0 .. (k * W - 1) /\ k * W \in Nat
  BY Capacity
<1>2. CASE n < last - first
  <2>1. PICK junk \in [(last - n) .. (last - 1) -> Bit] :
          u = Vector!Moved(v, first, last, n, junk)
    BY <1>2 DEF Vector!ShiftLeft
  <2>2. u = [a \in D |-> IF ~(first <= a /\ a < last) THEN v[a]
                         ELSE IF a \in (last - n) .. (last - 1) THEN junk[a] ELSE v[a + n]]
    BY <2>1 DEF Vector!Moved
  <2>3. \A a \in D : first <= a /\ a < last /\ a \notin (last - n) .. (last - 1)
                       => a + n \in D
    BY <1>1
  <2>4. \A a \in D : u[a] \in Bit
    BY <2>2, <2>3
  <2>5. \A a \in 0 .. (last - n - 1) : a \in D /\ (a < first => u[a] = v[a])
                                      /\ (a >= first => u[a] = v[a + n])
    BY <1>1, <2>2, <2>3
  <2> QED BY <2>2, <2>4, <2>5 DEF MovedDown
<1>3. CASE ~(n < last - first)
  BY <1>3 DEF Vector!ShiftLeft, MovedDown
<1> QED BY <1>2, <1>3

----------------------------------------------------------------------------
(* bit_vector: its contents.                                               *)

Bits(v, n) == [i \in 1 .. n |-> v[i - 1]]

LEMMA BitsOf ==
  ASSUME NEW k \in Nat, NEW v \in [Vector!Stored(k) -> Bit], NEW n \in Nat, n <= k * W
  PROVE  /\ Bits(v, n) \in Seq(Bit)
         /\ Len(Bits(v, n)) = n
         /\ \A i \in 1 .. n : Bits(v, n)[i] = v[i - 1]
<1>1. \A i \in 1 .. n : i - 1 \in Vector!Stored(k)
  BY Index
<1>2. Bits(v, n) \in [1 .. n -> Bit]
  BY <1>1 DEF Bits
<1> QED BY <1>2 DEF Bits

\* A sequence with r at position at of s is s with r inserted.
LEMMA SpliceIs ==
  ASSUME NEW s \in Seq(Bit), NEW r \in Seq(Bit), NEW at \in 0 .. Len(s), NEW t \in Seq(Bit),
         Len(t) = Len(s) + Len(r),
         \A i \in 1 .. Len(t) : t[i] = IF i <= at THEN s[i]
                                       ELSE IF i <= at + Len(r) THEN r[i - at]
                                       ELSE s[i - Len(r)]
  PROVE  t = Vector!Abstract!Splice(s, at, r)
<1> DEFINE a == SubSeq(s, 1, at)
           b == SubSeq(s, at + 1, Len(s))
<1>1. a \in Seq(Bit) /\ Len(a) = at /\ \A i \in 1 .. at : a[i] = s[i]
  <2>1. \A i \in 1 .. at : s[i] \in Bit
    OBVIOUS
  <2> QED BY <2>1, SubSeqProperties
<1>2. b \in Seq(Bit) /\ Len(b) = Len(s) - at /\ \A i \in 1 .. (Len(s) - at) : b[i] = s[at + i]
  <2>1. \A i \in (at + 1) .. Len(s) : s[i] \in Bit
    OBVIOUS
  <2> QED BY <2>1, SubSeqProperties
<1> HIDE DEF a, b
<1>3. /\ a \o r \in Seq(Bit)
      /\ Len(a \o r) = at + Len(r)
      /\ \A i \in 1 .. at + Len(r) : (a \o r)[i] = IF i <= at THEN s[i] ELSE r[i - at]
  BY <1>1, ConcatProperties
<1> DEFINE c == a \o r
<1> HIDE DEF c
<1>4. /\ c \o b \in Seq(Bit)
      /\ Len(c \o b) = Len(s) + Len(r)
      /\ \A i \in 1 .. Len(s) + Len(r) :
           (c \o b)[i] = IF i <= at + Len(r) THEN c[i] ELSE b[i - (at + Len(r))]
  BY <1>2, <1>3, ConcatProperties DEF c
<1>5. \A i \in 1 .. Len(t) : (c \o b)[i] = t[i]
  <2> SUFFICES ASSUME NEW i \in 1 .. Len(t) PROVE (c \o b)[i] = t[i]
    OBVIOUS
  <2>1. CASE i <= at + Len(r)
    <3>1. i \in 1 .. at + Len(r)
      BY <2>1
    <3>2. (c \o b)[i] = IF i <= at THEN s[i] ELSE r[i - at]
      BY <2>1, <3>1, <1>3, <1>4 DEF c
    <3> QED BY <2>1, <3>2
  <2>2. CASE ~(i <= at + Len(r))
    <3>1. i - (at + Len(r)) \in 1 .. (Len(s) - at) /\ at + (i - (at + Len(r))) = i - Len(r)
      BY <2>2
    <3>2. (c \o b)[i] = s[i - Len(r)]
      BY <2>2, <3>1, <1>2, <1>4
    <3> QED BY <2>2, <3>2
  <2> QED BY <2>1, <2>2
<1>6. t = c \o b
  BY <1>4, <1>5, SeqEqual
<1> QED BY <1>6 DEF a, b, c, Vector!Abstract!Splice

\* A sequence that lacks what s has at positions [at, at + count) is s cut.
LEMMA CutIs ==
  ASSUME NEW s \in Seq(Bit), NEW at \in Nat, NEW count \in Nat, at + count <= Len(s),
         NEW t \in Seq(Bit), Len(t) = Len(s) - count,
         \A i \in 1 .. Len(t) : t[i] = IF i <= at THEN s[i] ELSE s[i + count]
  PROVE  t = Vector!Abstract!Cut(s, at, count)
<1> DEFINE a == SubSeq(s, 1, at)
           b == SubSeq(s, at + count + 1, Len(s))
<1>1. a \in Seq(Bit) /\ Len(a) = at /\ \A i \in 1 .. at : a[i] = s[i]
  <2>1. \A i \in 1 .. at : s[i] \in Bit
    OBVIOUS
  <2> QED BY <2>1, SubSeqProperties
<1>2. /\ b \in Seq(Bit) /\ Len(b) = Len(s) - at - count
      /\ \A i \in 1 .. (Len(s) - at - count) : b[i] = s[at + count + i]
  <2>1. \A i \in (at + count + 1) .. Len(s) : s[i] \in Bit
    OBVIOUS
  <2> QED BY <2>1, SubSeqProperties
<1> HIDE DEF a, b
<1>3. /\ a \o b \in Seq(Bit)
      /\ Len(a \o b) = Len(s) - count
      /\ \A i \in 1 .. (Len(s) - count) : (a \o b)[i] = IF i <= at THEN a[i] ELSE b[i - at]
  <2>1. Len(a) + Len(b) = Len(s) - count
    BY <1>1, <1>2
  <2> QED BY <2>1, <1>1, <1>2, ConcatProperties
<1>4. \A i \in 1 .. Len(t) : (a \o b)[i] = t[i]
  <2> SUFFICES ASSUME NEW i \in 1 .. Len(t) PROVE (a \o b)[i] = t[i]
    OBVIOUS
  <2>1. CASE i <= at
    BY <2>1, <1>1, <1>3
  <2>2. CASE ~(i <= at)
    <3>1. i - at \in 1 .. (Len(s) - at - count) /\ at + count + (i - at) = i + count
      BY <2>2
    <3> QED BY <2>2, <3>1, <1>2, <1>3
  <2> QED BY <2>1, <2>2
<1>5. t = a \o b
  BY <1>3, <1>4, SeqEqual
<1> QED BY <1>5 DEF a, b, Vector!Abstract!Cut

----------------------------------------------------------------------------
(* bit_vector: the invariant, and each call.                               *)

VectorInv ==
  /\ Vector!TypeOK
  /\ length_ <= words * W
  /\ ~spare => Tight(words, length_)

LEMMA VectorFacts ==
  ASSUME VectorInv
  PROVE  /\ words \in Nat /\ length_ \in Nat /\ length_ <= MaxLen
         /\ words * W \in Nat /\ length_ <= words * W
         /\ word_vector \in [Vector!Stored(words) -> Bit]
         /\ spare \in BOOLEAN
         /\ ~spare => words * W < length_ + W
         /\ Vector!contents = Bits(word_vector, length_)
         /\ Vector!contents \in Seq(Bit) /\ Len(Vector!contents) = length_
         /\ \A i \in 1 .. length_ : Vector!contents[i] = word_vector[i - 1]
<1>1. /\ words \in Nat /\ length_ \in Nat /\ length_ <= MaxLen /\ length_ <= words * W
      /\ word_vector \in [Vector!Stored(words) -> Bit] /\ spare \in BOOLEAN
      /\ ~spare => words * W < length_ + W
  BY Constants DEF VectorInv, Vector!TypeOK, Tight
<1>2. words * W \in Nat
  BY <1>1, Capacity
<1>3. Vector!contents = Bits(word_vector, length_)
  BY DEF Bits, Vector!contents
<1> QED BY <1>1, <1>2, <1>3, BitsOf

\* A call that leaves k words v and n bits, keeps the invariant.
LEMMA VectorStep ==
  ASSUME NEW k \in Nat, NEW v \in [Vector!Stored(k) -> Bit], NEW n \in 0 .. MaxLen, n <= k * W,
         words' = k, word_vector' = v, length_' = n,
         spare' \in BOOLEAN, ~spare' => k * W < n + W
  PROVE  /\ VectorInv'
         /\ Vector!contents' \in Seq(Bit) /\ Len(Vector!contents') = n
         /\ \A i \in 1 .. n : Vector!contents'[i] = v[i - 1]
<1>1. VectorInv'
  BY Constants DEF VectorInv, Vector!TypeOK, Tight
<1>2. Vector!contents' = Bits(v, n)
  BY DEF Bits, Vector!contents
<1> QED BY <1>1, <1>2, BitsOf, Constants

LEMMA InitVector == Vector!Init => VectorInv /\ Vector!Abstract!Init
<1> SUFFICES ASSUME Vector!Init PROVE VectorInv /\ Vector!Abstract!Init
  OBVIOUS
<1>1. words = 0 /\ length_ = 0 /\ spare = FALSE /\ words * W = 0
  BY Constants DEF Vector!Init
<1>2. word_vector \in [Vector!Stored(words) -> Bit]
  BY <1>1, Constants DEF Vector!Init
<1>3. VectorInv
  <2>1. Vector!TypeOK
    <3>1. words \in Nat /\ length_ \in 0 .. MaxLen
      BY <1>1, Constants
    <3>2. spare \in BOOLEAN
      BY <1>1
    <3> QED BY <1>2, <3>1, <3>2 DEF Vector!TypeOK
  <2>2. length_ <= words * W /\ Tight(words, length_)
    BY <1>1, Constants DEF Tight
  <2> QED BY <2>1, <2>2 DEF VectorInv
<1>4. Vector!contents = <<>>
  BY <1>1 DEF Vector!contents
<1> QED BY <1>3, <1>4 DEF Vector!Init, Vector!Abstract!Init

LEMMA ConstructCountStep ==
  ASSUME VectorInv, Vector!ConstructCount
  PROVE  VectorInv' /\ Vector!Abstract!Assign
<1>1. PICK count \in 0 .. MaxArg, value \in Bit :
        /\ words' = Vector!word_count(count)
        /\ word_vector' = [a \in Vector!Stored(words') |-> value]
        /\ length_' = count
        /\ spare' = FALSE
        /\ Vector!Record("construct", 0, 0, [i \in 1 .. count |-> value])
  BY DEF Vector!ConstructCount
<1> DEFINE k == Vector!word_count(count)
           r == [i \in 1 .. count |-> value]
<1>2. count \in Nat /\ count \in 0 .. MaxLen
  BY Constants
<1>3. k \in Nat /\ count <= k * W /\ k * W < count + W
  BY <1>2, WordCount
<1>4. [a \in Vector!Stored(k) |-> value] \in [Vector!Stored(k) -> Bit]
  OBVIOUS
<1>5. \A i \in 1 .. count : i - 1 \in Vector!Stored(k)
  BY <1>2, <1>3, Index
<1>6. /\ VectorInv' /\ Vector!contents' \in Seq(Bit) /\ Len(Vector!contents') = count
      /\ \A i \in 1 .. count : Vector!contents'[i] = [a \in Vector!Stored(k) |-> value][i - 1]
  BY <1>1, <1>2, <1>3, <1>4, VectorStep
<1>7. r \in Seq(Bit) /\ Len(r) = count /\ \A i \in 1 .. count : r[i] = value
  BY <1>2
<1>8. Vector!contents' = r
  BY <1>2, <1>5, <1>6, <1>7, SeqEqual
<1> QED BY <1>1, <1>6, <1>8 DEF Vector!Abstract!Assign, Vector!Abstract!Called, Vector!Record

LEMMA ConstructRangeStep ==
  ASSUME VectorInv, Vector!ConstructRange
  PROVE  VectorInv' /\ Vector!Abstract!Assign
<1>1. PICK r \in Vector!Ranges :
        /\ words' = Len(r)
        /\ word_vector' = Vector!Written([a \in Vector!Stored(words') |-> Zero], 0, r)
        /\ length_' = Len(r)
        /\ spare' = TRUE
        /\ Vector!Record("construct", 0, 0, r)
  BY DEF Vector!ConstructRange
<1> DEFINE k == Len(r)
           z == [a \in Vector!Stored(k) |-> Zero]
           v == Vector!Written(z, 0, r)
<1>2. r \in Seq(Bit) /\ k \in Nat /\ k \in 0 .. MaxLen
  BY Constants, RangeType
<1>3. k <= k * W
  BY <1>2, Constants, SMTT(30)
<1>4. z \in [Vector!Stored(k) -> Bit]
  BY Constants
<1> HIDE DEF z
<1>5. /\ v \in [Vector!Stored(k) -> Bit]
      /\ \A a \in 0 .. (k * W - 1) : v[a] = IF 0 <= a /\ a < 0 + k THEN r[a - 0 + 1] ELSE z[a]
  <2>1. 0 + k <= k * W
    BY <1>2, <1>3, Capacity
  <2>2. v \in [Vector!Stored(k) -> Bit] /\ PutAt(v, z, k, 0, r)
    BY <1>2, <1>4, <2>1, WrittenBits
  <2> QED BY <2>2 DEF PutAt
<1>6. word_vector' = v
  BY <1>1 DEF z
<1> HIDE DEF v
<1>7. /\ VectorInv' /\ Vector!contents' \in Seq(Bit) /\ Len(Vector!contents') = k
      /\ \A i \in 1 .. k : Vector!contents'[i] = v[i - 1]
  BY <1>1, <1>2, <1>3, <1>5, <1>6, VectorStep
<1>8. \A i \in 1 .. k : Vector!contents'[i] = r[i]
  <2> SUFFICES ASSUME NEW i \in 1 .. k PROVE Vector!contents'[i] = r[i]
    OBVIOUS
  <2>1. i - 1 \in 0 .. (k * W - 1)
    BY <1>2, <1>3, Index
  <2>2. 0 <= i - 1 /\ i - 1 < 0 + k /\ i - 1 - 0 + 1 = i
    BY <1>2
  <2> QED BY <1>5, <1>7, <2>1, <2>2
<1>9. Vector!contents' = r
  BY <1>2, <1>7, <1>8, SeqEqual
<1> QED BY <1>1, <1>7, <1>9 DEF Vector!Abstract!Assign, Vector!Abstract!Called, Vector!Record

LEMMA ConstructWordsStep ==
  ASSUME VectorInv, Vector!ConstructWords
  PROVE  VectorInv' /\ Vector!Abstract!Assign
<1>1. PICK k \in 0 .. (MaxArg \div W) : \E v \in [Vector!Stored(k) -> Bit] :
        /\ words' = k
        /\ word_vector' = v
        /\ length_' = k * W
        /\ spare' = FALSE
        /\ Vector!Record("construct", 0, 0, [i \in 1 .. (k * W) |-> v[i - 1]])
  BY DEF Vector!ConstructWords
<1>2. PICK v \in [Vector!Stored(k) -> Bit] :
        /\ words' = k
        /\ word_vector' = v
        /\ length_' = k * W
        /\ spare' = FALSE
        /\ Vector!Record("construct", 0, 0, Bits(v, k * W))
  BY <1>1 DEF Bits
<1>3. k \in Nat /\ k * W \in Nat
  BY Constants, Capacity
<1>4. k * W <= MaxArg
  <2> DEFINE q == MaxArg \div W
             r == MaxArg % W
  <2>1. MaxArg = W * q + r /\ q \in Int /\ r \in 0 .. (W - 1) /\ k <= q
    BY Constants
  <2> HIDE DEF q, r
  <2>2. k * W <= q * W
    BY <2>1, <1>3, Constants, SMTT(30)
  <2> QED BY <2>1, <2>2, <1>3, Constants
<1>5. k * W \in 0 .. MaxLen /\ k * W < k * W + W
  BY <1>3, <1>4, Constants
<1>6. VectorInv'
  <2>1. spare' \in BOOLEAN
    BY <1>2
  <2>2. k * W <= k * W
    BY <1>3
  <2> QED BY <2>1, <2>2, <1>2, <1>3, <1>5, VectorStep
<1>7. Vector!contents' = Bits(v, k * W)
  BY <1>2 DEF Bits, Vector!contents
<1> QED BY <1>2, <1>6, <1>7 DEF Vector!Abstract!Assign, Vector!Abstract!Called, Vector!Record

LEMMA MoveAssignStep ==
  ASSUME VectorInv, Vector!MoveAssign
  PROVE  VectorInv' /\ Vector!Abstract!Assign
<1>1. PICK r \in Vector!Ranges : \E k \in Vector!word_count(Len(r)) .. Len(r) :
        \E stale \in [Vector!Stored(k) -> Bit] :
          /\ length_' = Len(r)
          /\ words' = k
          /\ word_vector' = Vector!Written(stale, 0, r)
          /\ spare' = (k # Vector!word_count(Len(r)))
          /\ Vector!Record("assign", 0, 0, r)
  BY DEF Vector!MoveAssign
<1> DEFINE n == Len(r)
           c == Vector!word_count(n)
<1>2. PICK k \in c .. n : \E stale \in [Vector!Stored(k) -> Bit] :
          /\ length_' = n
          /\ words' = k
          /\ word_vector' = Vector!Written(stale, 0, r)
          /\ spare' = (k # c)
          /\ Vector!Record("assign", 0, 0, r)
  BY <1>1
<1>3. PICK stale \in [Vector!Stored(k) -> Bit] :
          /\ length_' = n
          /\ words' = k
          /\ word_vector' = Vector!Written(stale, 0, r)
          /\ spare' = (k # c)
          /\ Vector!Record("assign", 0, 0, r)
  BY <1>2
<1>4. r \in Seq(Bit) /\ n \in Nat /\ n \in 0 .. MaxLen
  BY Constants, RangeType
<1>5. c \in Nat /\ n <= c * W /\ c * W < n + W
  BY <1>4, WordCount
<1> HIDE DEF c
<1>6. k \in Nat /\ n <= k * W /\ (k = c => k * W < n + W)
  <2>1. k \in Nat /\ k >= c
    BY <1>4, <1>5
  <2>2. k * W >= c * W
    BY <1>5, <2>1, Constants, SMTT(30)
  <2>3. k * W \in Nat /\ c * W \in Nat
    BY <1>5, <2>1, Capacity
  <2>4. n <= k * W
    BY <1>4, <1>5, <2>2, <2>3
  <2>5. ASSUME k = c PROVE k * W < n + W
    BY <1>5, <2>5
  <2> QED BY <2>1, <2>4, <2>5
<1> DEFINE v == Vector!Written(stale, 0, r)
<1>7. /\ v \in [Vector!Stored(k) -> Bit]
      /\ \A a \in 0 .. (k * W - 1) : v[a] = IF 0 <= a /\ a < 0 + n THEN r[a - 0 + 1] ELSE stale[a]
  <2>1. 0 + n <= k * W
    BY <1>4, <1>6
  <2>2. v \in [Vector!Stored(k) -> Bit] /\ PutAt(v, stale, k, 0, r)
    BY <1>4, <1>6, <2>1, WrittenBits
  <2> QED BY <2>2 DEF PutAt
<1> HIDE DEF v
<1>8. /\ VectorInv' /\ Vector!contents' \in Seq(Bit) /\ Len(Vector!contents') = n
      /\ \A i \in 1 .. n : Vector!contents'[i] = v[i - 1]
  <2>1. spare' \in BOOLEAN /\ (~spare' => k * W < n + W)
    BY <1>3, <1>6
  <2> QED BY <1>3, <1>4, <1>6, <1>7, <2>1, VectorStep DEF v
<1>9. Vector!contents' = r
  <2>1. \A i \in 1 .. n : Vector!contents'[i] = r[i]
    <3> SUFFICES ASSUME NEW i \in 1 .. n PROVE Vector!contents'[i] = r[i]
      OBVIOUS
    <3>1. i - 1 \in 0 .. (k * W - 1)
      BY <1>4, <1>6, Index
    <3>2. 0 <= i - 1 /\ i - 1 < 0 + n /\ i - 1 - 0 + 1 = i
      BY <1>4
    <3> QED BY <1>7, <1>8, <3>1, <3>2
  <2> QED BY <1>4, <1>8, <2>1, SeqEqual
<1> QED BY <1>3, <1>8, <1>9 DEF Vector!Abstract!Assign, Vector!Abstract!Called, Vector!Record

LEMMA MovedFromStep ==
  ASSUME VectorInv, Vector!MovedFrom
  PROVE  VectorInv' /\ Vector!Abstract!Clear
<1>1. /\ \/ words' = 0 /\ word_vector' = [a \in Vector!Stored(0) |-> Zero]
         \/ words' = words /\ word_vector' = word_vector
      /\ length_' = 0 /\ spare' = TRUE /\ Vector!Record("moved", 0, 0, <<>>)
  BY DEF Vector!MovedFrom
<1>2. words' \in Nat /\ word_vector' \in [Vector!Stored(words') -> Bit]
  <2>1. CASE words' = 0 /\ word_vector' = [a \in Vector!Stored(0) |-> Zero]
    <3>1. words' \in Nat
      BY <2>1
    <3>2. word_vector' = [a \in Vector!Stored(words') |-> Zero]
      BY <2>1
    <3> QED BY <3>1, <3>2, Constants
  <2>2. CASE words' = words /\ word_vector' = word_vector
    BY <2>2, VectorFacts
  <2> QED BY <1>1, <2>1, <2>2
<1>3. 0 <= words' * W /\ 0 \in 0 .. MaxLen
  <2>1. words' * W \in Nat
    BY <1>2, Capacity
  <2> QED BY <2>1, Constants
<1>4. VectorInv' /\ Vector!contents' \in Seq(Bit) /\ Len(Vector!contents') = 0
  BY <1>1, <1>2, <1>3, VectorStep
<1> QED BY <1>1, <1>4 DEF Vector!Abstract!Clear, Vector!Abstract!Called, Vector!Record

LEMMA ClearStep ==
  ASSUME VectorInv, Vector!clear
  PROVE  VectorInv' /\ Vector!Abstract!Clear
<1>1. /\ words' = 0 /\ word_vector' = [a \in Vector!Stored(0) |-> Zero]
      /\ length_' = 0 /\ spare' = FALSE /\ Vector!Record("clear", 0, 0, <<>>)
  BY DEF Vector!clear
<1> DEFINE k == 0
<1>2. [a \in Vector!Stored(k) |-> Zero] \in [Vector!Stored(k) -> Bit]
  BY Constants
<1>3. 0 <= k * W /\ k * W < 0 + W /\ 0 \in 0 .. MaxLen /\ k \in Nat
  BY Constants
<1>4. words' = k /\ word_vector' = [a \in Vector!Stored(k) |-> Zero]
  BY <1>1
<1> HIDE DEF k
<1>5. VectorInv' /\ Vector!contents' \in Seq(Bit) /\ Len(Vector!contents') = 0
  BY <1>1, <1>2, <1>3, <1>4, VectorStep
<1> QED BY <1>1, <1>5 DEF Vector!Abstract!Clear, Vector!Abstract!Called, Vector!Record

LEMMA ShrinkStep ==
  ASSUME VectorInv, Vector!shrink_to_fit
  PROVE  VectorInv' /\ Vector!Abstract!Keep
<1>1. UNCHANGED <<words, word_vector, length_, spare>> /\ call'.name = "shrink_to_fit"
  BY DEF Vector!shrink_to_fit, Vector!Record
<1>2. VectorInv'
  BY <1>1 DEF VectorInv, Vector!TypeOK
<1>3. Vector!contents' = Vector!contents
  BY <1>1 DEF Vector!contents
<1> QED BY <1>1, <1>2, <1>3 DEF Vector!Abstract!Keep, Vector!Abstract!Called

LEMMA WriteStep ==
  ASSUME VectorInv, Vector!Write
  PROVE  VectorInv' /\ Vector!Abstract!Set
<1>1. PICK d \in 0 .. (length_ - 1), value \in Bit :
        /\ word_vector' = [word_vector EXCEPT ![d] = value]
        /\ Vector!Record("write", d, 1, <<value>>)
        /\ UNCHANGED <<words, length_, spare>>
  BY DEF Vector!Write
<1>2. words \in Nat /\ length_ \in 0 .. MaxLen /\ length_ \in Nat /\ length_ <= words * W
      /\ spare \in BOOLEAN /\ (~spare => words * W < length_ + W)
      /\ word_vector \in [Vector!Stored(words) -> Bit]
  BY VectorFacts, Constants
<1> DEFINE v == [word_vector EXCEPT ![d] = value]
<1>3. v \in [Vector!Stored(words) -> Bit]
  BY <1>2
<1>4. /\ VectorInv' /\ Vector!contents' \in Seq(Bit) /\ Len(Vector!contents') = length_
      /\ \A i \in 1 .. length_ : Vector!contents'[i] = v[i - 1]
  <2> HIDE DEF v
  <2> QED BY <1>1, <1>2, <1>3, VectorStep DEF v
<1> DEFINE t == [Vector!contents EXCEPT ![d + 1] = value]
<1>5. d + 1 \in 1 .. length_
  BY <1>2
<1>6. /\ t \in Seq(Bit) /\ Len(t) = length_
      /\ \A i \in 1 .. length_ : t[i] = IF i = d + 1 THEN value ELSE word_vector[i - 1]
  BY <1>5, VectorFacts, ExceptSeq
<1>7. \A i \in 1 .. length_ : Vector!contents'[i] = t[i]
  <2> SUFFICES ASSUME NEW i \in 1 .. length_ PROVE Vector!contents'[i] = t[i]
    OBVIOUS
  <2>1. i - 1 \in Vector!Stored(words)
    BY <1>2, Index
  <2>2. v[i - 1] = IF i - 1 = d THEN value ELSE word_vector[i - 1]
    BY <1>2, <2>1
  <2>3. i - 1 = d <=> i = d + 1
    BY <1>2
  <2> HIDE DEF v, t
  <2> QED BY <1>4, <1>6, <2>2, <2>3
<1>8. Vector!contents' = t
  <2> HIDE DEF t
  <2> QED BY <1>4, <1>6, <1>7, SeqEqual
<1>9. d \in 0 .. (Len(Vector!contents) - 1)
  BY VectorFacts
<1> QED BY <1>1, <1>4, <1>8, <1>9
        DEF Vector!Abstract!Set, Vector!Abstract!Called, Vector!Record

\* The words an insertion makes room with hold the bits there will be, and are
\* no more than those take if there were none to spare.
Room(k, n) == k \in Nat /\ n <= k * W /\ (~spare => k * W < n + W)

\* What a call that inserts leaves: the bits from d on arrive count on, r is
\* written before them.
LEMMA Inserted ==
  ASSUME VectorInv,
         NEW k \in Nat, NEW d \in 0 .. length_, NEW r \in Seq(Bit), NEW count \in Nat,
         count = Len(r), 0 < count, length_ + count <= MaxLen, Room(k, length_ + count),
         NEW u \in Vector!ShiftRight(Vector!Resized(word_vector, k), d, length_ + count, count),
         NEW v \in [Vector!Stored(k) -> Bit],
         PutAt(v, u, k, d, r),
         words' = k, word_vector' = v, length_' = length_ + count, spare' = spare,
         call'.name \in {"insert", "push_back"}, call'.at = d, call'.with = r
  PROVE  VectorInv' /\ Vector!Abstract!Insert
<1> DEFINE z == Vector!Resized(word_vector, k)
           n == length_ + count
           s == Vector!contents
<1>0. n <= k * W /\ (~spare => k * W < n + W)
  BY DEF Room
<1>1. /\ words \in Nat /\ length_ \in Nat /\ length_ <= words * W /\ spare \in BOOLEAN
      /\ words * W \in Nat /\ word_vector \in [Vector!Stored(words) -> Bit]
      /\ s \in Seq(Bit) /\ Len(s) = length_
      /\ \A i \in 1 .. length_ : s[i] = word_vector[i - 1]
  BY VectorFacts
<1> HIDE DEF s
<1>2. k * W \in Nat /\ n \in Nat /\ n \in 0 .. MaxLen
  BY <1>1, Capacity, Constants
<1>3. /\ z \in [Vector!Stored(k) -> Bit]
      /\ \A a \in 0 .. (k * W - 1) : a < words * W => z[a] = word_vector[a]
  BY <1>1, ResizedBits
<1> HIDE DEF z
<1>4. \A a \in 0 .. (n - 1) : (a < d => u[a] = z[a]) /\ (a >= d + count => u[a] = z[a - count])
  <2>1. /\ u \in Vector!ShiftRight(z, d, n, count) /\ d \in Nat
        /\ 0 < count /\ d + count <= n /\ n <= k * W
    BY <1>0, <1>1 DEF z
  <2>2. k \in Nat /\ n \in Nat /\ count \in Nat /\ z \in [Vector!Stored(k) -> Bit]
    BY <1>2, <1>3
  <2>3. MovedUp(u, z, d, n, count)
    BY <2>1, <2>2, ShiftRightBits
  <2> QED BY <2>3 DEF MovedUp
<1>5. /\ VectorInv' /\ Vector!contents' \in Seq(Bit) /\ Len(Vector!contents') = n
      /\ \A i \in 1 .. n : Vector!contents'[i] = v[i - 1]
  <2>1. n <= k * W /\ spare' \in BOOLEAN /\ (~spare' => k * W < n + W)
    BY <1>0, <1>1
  <2>2. length_' = n
    OBVIOUS
  <2> HIDE DEF n
  <2> QED BY <1>2, <2>1, <2>2, VectorStep
<1> DEFINE t == Vector!contents'
<1>6. \A i \in 1 .. n : t[i] = IF i <= d THEN s[i]
                               ELSE IF i <= d + count THEN r[i - d] ELSE s[i - count]
  <2> SUFFICES ASSUME NEW i \in 1 .. n
               PROVE  v[i - 1] = IF i <= d THEN s[i]
                                 ELSE IF i <= d + count THEN r[i - d] ELSE s[i - count]
    BY <1>5
  <2> DEFINE K == k * W
             M == words * W
  <2>1. K \in Nat /\ M \in Nat /\ n <= K /\ length_ <= M
    BY <1>0, <1>1, <1>2
  <2>2. v[i - 1] = IF d <= i - 1 /\ i - 1 < d + count THEN r[i - 1 - d + 1] ELSE u[i - 1]
    <3>1. i - 1 \in 0 .. (K - 1)
      <4> HIDE DEF K
      <4> QED BY <1>1, <2>1
    <3> QED BY <3>1 DEF PutAt
  <2>3. i - 1 < d => u[i - 1] = z[i - 1]
    BY <1>1, <1>4
  <2>4. i - 1 >= d + count => u[i - 1] = z[i - 1 - count]
    BY <1>1, <1>4
  <2>5. \A a \in 0 .. (length_ - 1) : a < K => z[a] = word_vector[a]
    <3>1. \A a \in 0 .. (K - 1) : a < M => z[a] = word_vector[a]
      BY <1>3
    <3> HIDE DEF K, M
    <3> QED BY <1>1, <2>1, <3>1
  <2> HIDE DEF K, M
  <2>6. CASE i <= d
    <3>1. z[i - 1] = word_vector[i - 1]
      BY <1>1, <2>1, <2>5, <2>6
    <3>2. s[i] = word_vector[i - 1]
      BY <1>1, <2>6
    <3> QED BY <1>1, <2>2, <2>3, <2>6, <3>1, <3>2
  <2>7. CASE d < i /\ i <= d + count
    <3>1. i - 1 - d + 1 = i - d
      BY <1>1
    <3> QED BY <1>1, <2>2, <2>7, <3>1
  <2>8. CASE i > d + count
    <3>1. z[i - 1 - count] = word_vector[i - 1 - count]
      <4>1. i - 1 - count \in 0 .. (length_ - 1) /\ i - 1 - count < K
        BY <1>1, <2>1, <2>8
      <4> QED BY <2>5, <4>1
    <3>2. s[i - count] = word_vector[i - count - 1]
      BY <1>1, <2>8
    <3>3. i - 1 - count = i - count - 1
      BY <1>1
    <3> QED BY <1>1, <2>2, <2>4, <2>8, <3>1, <3>2, <3>3
  <2> QED BY <1>1, <2>6, <2>7, <2>8
<1>7. t = Vector!Abstract!Splice(s, d, r)
  <2> HIDE DEF t
  <2>1. d \in 0 .. Len(s) /\ t \in Seq(Bit) /\ Len(t) = Len(s) + Len(r)
    BY <1>1, <1>5 DEF t
  <2>2. \A i \in 1 .. Len(t) : t[i] = IF i <= d THEN s[i]
                                      ELSE IF i <= d + Len(r) THEN r[i - d] ELSE s[i - Len(r)]
    BY <1>5, <1>6 DEF t
  <2>3. s \in Seq(Bit) /\ r \in Seq(Bit)
    BY <1>1
  <2> QED BY ONLY <2>1, <2>2, <2>3, SpliceIs, Zenon
<1>8. call'.at \in 0 .. Len(s)
  BY <1>1
<1> QED BY <1>5, <1>7, <1>8 DEF s, Vector!Abstract!Insert, Vector!Abstract!Called

LEMMA RoomForOneFits ==
  ASSUME VectorInv
  PROVE  Room(Vector!RoomForOne, length_ + 1)
<1> DEFINE M == words * W
<1>1. /\ words \in Nat /\ length_ \in Nat /\ M \in Nat /\ length_ <= M
      /\ ~spare => M < length_ + W
  BY VectorFacts
<1>2. (words + 1) * W = M + W
  BY <1>1, WordMore
<1> HIDE DEF M
<1>3. CASE M = length_
  <2>1. Vector!RoomForOne = words + 1
    BY <1>3 DEF Vector!RoomForOne, M
  <2>2. words + 1 \in Nat /\ length_ + 1 <= M + W /\ M + W < length_ + 1 + W
    BY <1>1, <1>3, Constants
  <2> QED BY <1>2, <2>1, <2>2 DEF Room
<1>4. CASE M # length_
  <2>1. Vector!RoomForOne = words
    BY <1>4 DEF Vector!RoomForOne, M
  <2>2. length_ + 1 <= M /\ (~spare => M < length_ + 1 + W)
    BY <1>1, <1>4, Constants
  <2> QED BY <1>1, <2>1, <2>2 DEF Room, M
<1> QED BY <1>3, <1>4

LEMMA RoomForFits ==
  ASSUME VectorInv, NEW count \in Nat
  PROVE  Room(Vector!RoomFor(count), length_ + count)
<1> DEFINE M == words * W
           n == length_ + count
<1>1. /\ words \in Nat /\ length_ \in Nat /\ M \in Nat /\ length_ <= M
      /\ (~spare => M < length_ + W) /\ n \in Nat
  BY VectorFacts
<1>2. CASE n > M
  <2> DEFINE c == Vector!word_count(n - M)
             C == c * W
  <2>1. n - M \in Nat
    BY <1>1, <1>2
  <2>2. c \in Nat /\ n - M <= C /\ C < (n - M) + W
    <3> HIDE DEF n, M
    <3> QED BY <2>1, WordCount
  <2>3. Vector!RoomFor(count) = words + c
    <3>1. Vector!RoomFor(count) =
            IF n > M THEN words + Vector!word_count(length_ + count - M) ELSE words
      BY DEF Vector!RoomFor
    <3>2. length_ + count - M = n - M
      BY <1>1
    <3> HIDE DEF n, M
    <3> QED BY <1>2, <3>1, <3>2
  <2>4. (words + c) * W = M + C /\ C \in Int
    <3> HIDE DEF c
    <3> QED BY <1>1, <2>2, Constants, SMTT(30)
  <2>5. words + c \in Nat /\ n <= M + C /\ M + C < n + W
    <3> HIDE DEF n, M, C, c
    <3> QED BY <1>1, <2>2, <2>4, Constants
  <2> QED BY <2>3, <2>4, <2>5 DEF Room
<1>3. CASE ~(n > M)
  <2>1. Vector!RoomFor(count) = words
    BY <1>3 DEF Vector!RoomFor
  <2>2. n <= M /\ (~spare => M < n + W)
    BY <1>1, <1>3, Constants
  <2> QED BY <1>1, <2>1, <2>2 DEF Room
<1> QED BY <1>2, <1>3

LEMMA PushBackStep ==
  ASSUME VectorInv, Vector!push_back
  PROVE  VectorInv' /\ Vector!Abstract!Insert
<1> DEFINE k == Vector!RoomForOne
           z == Vector!Resized(word_vector, k)
<1>1. PICK value \in Bit :
        /\ length_ < MaxLen
        /\ words' = k
        /\ word_vector' = [z EXCEPT ![length_] = value]
        /\ length_' = length_ + 1
        /\ call' = [name |-> "push_back", at |-> length_, count |-> 0, with |-> <<value>>]
        /\ spare' = spare
  BY DEF Vector!push_back, Vector!Record
<1>2. k \in Nat /\ length_ + 1 <= k * W /\ (~spare => k * W < length_ + 1 + W)
  BY RoomForOneFits DEF Room
<1>0. Room(k, length_ + 1)
  BY RoomForOneFits
<1> HIDE DEF k
<1>3. words \in Nat /\ length_ \in Nat /\ MaxLen \in Nat /\ length_ + 1 <= MaxLen
      /\ word_vector \in [Vector!Stored(words) -> Bit]
  BY <1>1, VectorFacts, Constants
<1>4. z \in [Vector!Stored(k) -> Bit]
  BY <1>2, <1>3, ResizedBits
<1>5. z \in Vector!ShiftRight(z, length_, length_ + 1, 1)
  <2>1. ~(1 < (length_ + 1) - length_)
    BY <1>3
  <2> HIDE DEF z
  <2> QED BY <2>1, NothingMoves, Zenon
<1> DEFINE v == [z EXCEPT ![length_] = value]
           r == <<value>>
<1>6. v \in [Vector!Stored(k) -> Bit] /\ PutAt(v, z, k, length_, r)
  <2>1. length_ < k * W
    BY <1>2, <1>3, Capacity
  <2> HIDE DEF z
  <2> QED BY <1>2, <1>3, <1>4, <2>1, PutOne
<1>7. r \in Seq(Bit) /\ Len(r) = 1 /\ length_ \in 0 .. length_
  BY <1>3
<1> DEFINE count == 1
<1>8. count \in Nat /\ 0 < count /\ count = Len(r)
  BY <1>7
<1>9. word_vector' = v /\ spare' = spare /\ call'.name \in {"insert", "push_back"}
      /\ call'.at = length_ /\ call'.with = r
  BY <1>1
<1> HIDE DEF z, v, r
<1> QED BY <1>0, <1>1, <1>2, <1>3, <1>5, <1>6, <1>7, <1>8, <1>9, Inserted DEF z

LEMMA InsertOneStep ==
  ASSUME VectorInv, Vector!InsertOne
  PROVE  VectorInv' /\ Vector!Abstract!Insert
<1> DEFINE k == Vector!RoomForOne
           z == Vector!Resized(word_vector, k)
<1>1. PICK d \in 0 .. length_, value \in Bit :
        /\ length_ < MaxLen
        /\ words' = k
        /\ length_' = length_ + 1
        /\ \E u \in Vector!ShiftRight(z, d, length_ + 1, 1) :
             word_vector' = [u EXCEPT ![d] = value]
        /\ call' = [name |-> "insert", at |-> d, count |-> 0, with |-> <<value>>]
        /\ spare' = spare
  BY DEF Vector!InsertOne, Vector!Record, Vector!InsertEnd
<1>2. PICK u \in Vector!ShiftRight(z, d, length_ + 1, 1) :
        word_vector' = [u EXCEPT ![d] = value]
  BY <1>1
<1>3. Room(k, length_ + 1) /\ k \in Nat /\ length_ + 1 <= k * W
  BY RoomForOneFits DEF Room
<1> HIDE DEF k
<1>4. words \in Nat /\ length_ \in Nat /\ length_ + 1 <= MaxLen /\ d \in Nat
      /\ word_vector \in [Vector!Stored(words) -> Bit] /\ k * W \in Nat
  <2>1. words \in Nat /\ length_ \in Nat /\ word_vector \in [Vector!Stored(words) -> Bit]
    BY VectorFacts
  <2>2. k * W \in Nat
    BY <1>3, Capacity
  <2> QED BY <1>1, <2>1, <2>2, Constants
<1>5. z \in [Vector!Stored(k) -> Bit]
  BY <1>3, <1>4, ResizedBits
<1>6. u \in [Vector!Stored(k) -> Bit]
  <2> DEFINE n == length_ + 1
  <2>1. n \in Nat /\ d + 1 <= n /\ n <= k * W /\ 0 < 1 /\ 1 \in Nat
    BY <1>3, <1>4
  <2>2. u \in Vector!ShiftRight(z, d, n, 1)
    OBVIOUS
  <2> HIDE DEF n, z
  <2> QED BY <1>3, <1>4, <1>5, <2>1, <2>2, ShiftRightBits
<1> DEFINE v == [u EXCEPT ![d] = value]
           r == <<value>>
           count == 1
<1>7. v \in [Vector!Stored(k) -> Bit] /\ PutAt(v, u, k, d, r)
  <2>1. d < k * W
    BY <1>3, <1>4
  <2> QED BY <1>3, <1>4, <1>6, <2>1, PutOne
<1>8. r \in Seq(Bit) /\ count \in Nat /\ 0 < count /\ count = Len(r)
  OBVIOUS
<1>9. word_vector' = v /\ call'.name \in {"insert", "push_back"}
      /\ call'.at = d /\ call'.with = r
  BY <1>1, <1>2
<1> HIDE DEF v, r, z
<1> QED BY <1>1, <1>3, <1>4, <1>7, <1>8, <1>9, Inserted DEF z

LEMMA InsertCountStep ==
  ASSUME VectorInv, Vector!InsertCount
  PROVE  VectorInv' /\ Vector!Abstract!Insert
<1>1. PICK d \in 0 .. length_, count \in 1 .. MaxArg, value \in Bit :
        /\ length_ + count <= MaxLen
        /\ words' = Vector!RoomFor(count)
        /\ length_' = length_ + count
        /\ \E u \in Vector!ShiftRight(Vector!Resized(word_vector, words'), d,
                                      length_ + count, count) :
             word_vector' = Vector!Fill(u, d, d + count, value)
        /\ Vector!Record("insert", d, 0, [i \in 1 .. count |-> value])
        /\ spare' = spare
  BY DEF Vector!InsertCount, Vector!InsertEnd
<1> DEFINE k == Vector!RoomFor(count)
           z == Vector!Resized(word_vector, k)
           r == [i \in 1 .. count |-> value]
<1>2. PICK u \in Vector!ShiftRight(z, d, length_ + count, count) :
        word_vector' = Vector!Fill(u, d, d + count, value)
  BY <1>1
<1>3. /\ words' = k /\ length_' = length_ + count /\ spare' = spare
      /\ call'.name \in {"insert", "push_back"} /\ call'.at = d /\ call'.with = r
  BY <1>1 DEF Vector!Record
<1>4. count \in Nat /\ 0 < count
  BY Constants
<1>5. Room(k, length_ + count) /\ k \in Nat /\ length_ + count <= k * W
  BY <1>4, RoomForFits DEF Room
<1> HIDE DEF k
<1>6. words \in Nat /\ length_ \in Nat /\ d \in Nat
      /\ word_vector \in [Vector!Stored(words) -> Bit] /\ k * W \in Nat
  BY <1>5, VectorFacts, Capacity
<1>7. z \in [Vector!Stored(k) -> Bit]
  BY <1>5, <1>6, ResizedBits
<1>8. u \in [Vector!Stored(k) -> Bit]
  <2> DEFINE n == length_ + count
  <2>1. n \in Nat /\ d + count <= n /\ n <= k * W
    BY <1>4, <1>5, <1>6
  <2>2. u \in Vector!ShiftRight(z, d, n, count)
    OBVIOUS
  <2> HIDE DEF n, z
  <2> QED BY <1>4, <1>5, <1>6, <1>7, <2>1, <2>2, ShiftRightBits
<1>9. r \in Seq(Bit) /\ count = Len(r)
  BY <1>4
<1> DEFINE v == Vector!Fill(u, d, d + count, value)
<1>10. v \in [Vector!Stored(k) -> Bit] /\ PutAt(v, u, k, d, r)
  <2>1. r = [i \in 1 .. count |-> value]
    OBVIOUS
  <2> HIDE DEF r
  <2> QED BY <1>4, <1>5, <1>6, <1>8, <1>9, <2>1, FillBits
<1> HIDE DEF v, r, z
<1> QED BY <1>1, <1>2, <1>3, <1>4, <1>5, <1>9, <1>10, Inserted DEF z, v

LEMMA InsertRangeStep ==
  ASSUME VectorInv, Vector!InsertRange
  PROVE  VectorInv' /\ Vector!Abstract!Insert
<1>1. PICK d \in 0 .. length_, r \in Vector!Ranges \ {<<>>} :
        /\ length_ + Len(r) <= MaxLen
        /\ words' = Vector!RoomFor(Len(r))
        /\ length_' = length_ + Len(r)
        /\ \E u \in Vector!ShiftRight(Vector!Resized(word_vector, words'), d,
                                      length_ + Len(r), Len(r)) :
             word_vector' = Vector!Written(u, d, r)
        /\ Vector!Record("insert", d, 0, r)
        /\ spare' = spare
  BY DEF Vector!InsertRange, Vector!InsertEnd
<1> DEFINE count == Len(r)
           k == Vector!RoomFor(count)
           z == Vector!Resized(word_vector, k)
<1>2. PICK u \in Vector!ShiftRight(z, d, length_ + count, count) :
        word_vector' = Vector!Written(u, d, r)
  BY <1>1
<1>3. /\ words' = k /\ length_' = length_ + count /\ spare' = spare
      /\ call'.name \in {"insert", "push_back"} /\ call'.at = d /\ call'.with = r
  BY <1>1 DEF Vector!Record
<1>4. r \in Seq(Bit) /\ count \in Nat /\ 0 < count /\ count = Len(r)
  BY RangeType, EmptySeq
<1>0. length_ + count <= MaxLen
  BY <1>1
<1> HIDE DEF count
<1>5. Room(k, length_ + count) /\ k \in Nat /\ length_ + count <= k * W
  BY <1>4, RoomForFits DEF Room
<1> HIDE DEF k
<1>6. words \in Nat /\ length_ \in Nat /\ d \in Nat
      /\ word_vector \in [Vector!Stored(words) -> Bit] /\ k * W \in Nat
  BY <1>5, VectorFacts, Capacity
<1>7. z \in [Vector!Stored(k) -> Bit]
  BY <1>5, <1>6, ResizedBits
<1>8. u \in [Vector!Stored(k) -> Bit]
  <2> DEFINE n == length_ + count
  <2>1. n \in Nat /\ d + count <= n /\ n <= k * W
    BY <1>4, <1>5, <1>6
  <2>2. u \in Vector!ShiftRight(z, d, n, count)
    OBVIOUS
  <2> HIDE DEF n, z
  <2> QED BY <1>4, <1>5, <1>6, <1>7, <2>1, <2>2, ShiftRightBits
<1> DEFINE v == Vector!Written(u, d, r)
<1>9. v \in [Vector!Stored(k) -> Bit] /\ PutAt(v, u, k, d, r)
  <2>1. d + Len(r) <= k * W
    BY <1>4, <1>5, <1>6
  <2> QED BY <1>4, <1>5, <1>6, <1>8, <2>1, WrittenBits
<1> HIDE DEF v, z
<1> QED BY <1>0, <1>2, <1>3, <1>4, <1>5, <1>9, Inserted DEF z, v

\* What a call that removes bits leaves: those after the count bits at d arrive
\* at d, and k words are kept.
LEMMA Erased ==
  ASSUME VectorInv,
         NEW k \in Nat, NEW d \in Nat, NEW count \in Nat, 0 < count, d + count <= length_,
         NEW n \in Nat, n = length_ - count, n <= k * W,
         spare' \in BOOLEAN, ~spare' => k * W < n + W,
         NEW u \in Vector!ShiftLeft(word_vector, d, length_, count),
         words' = k, word_vector' = Vector!Resized(u, k), length_' = n,
         call'.name \in {"erase", "pop_back"}, call'.at = d, call'.count = count
  PROVE  VectorInv' /\ Vector!Abstract!Erase
<1> DEFINE s == Vector!contents
           t == Vector!contents'
           v == Vector!Resized(u, k)
<1>1. /\ words \in Nat /\ length_ \in Nat /\ length_ <= words * W /\ length_ <= MaxLen
      /\ words * W \in Nat /\ word_vector \in [Vector!Stored(words) -> Bit]
      /\ s \in Seq(Bit) /\ Len(s) = length_
      /\ \A i \in 1 .. length_ : s[i] = word_vector[i - 1]
  BY VectorFacts
<1>2. u \in [Vector!Stored(words) -> Bit] /\ MovedDown(u, word_vector, d, length_, count)
  BY <1>1, ShiftLeftBits
<1>3. /\ v \in [Vector!Stored(k) -> Bit]
      /\ \A a \in 0 .. (k * W - 1) : a < words * W => v[a] = u[a]
  BY <1>1, <1>2, ResizedBits
<1>4. n \in 0 .. MaxLen /\ k * W \in Nat
  BY <1>1, Constants, Capacity
<1> HIDE DEF v, s
<1>5. VectorInv' /\ t \in Seq(Bit) /\ Len(t) = n /\ \A i \in 1 .. n : t[i] = v[i - 1]
  <2>1. word_vector' = v
    BY DEF v
  <2> QED BY <1>3, <1>4, <2>1, VectorStep
<1> HIDE DEF t
<1>6. \A i \in 1 .. n : t[i] = IF i <= d THEN s[i] ELSE s[i + count]
  <2> SUFFICES ASSUME NEW i \in 1 .. n PROVE t[i] = IF i <= d THEN s[i] ELSE s[i + count]
    OBVIOUS
  <2> DEFINE K == k * W
             M == words * W
  <2>1. K \in Nat /\ n <= K /\ M \in Nat /\ length_ <= M
    BY <1>1, <1>4
  <2>2. \A a \in 0 .. (K - 1) : a < M => v[a] = u[a]
    BY <1>3
  <2> HIDE DEF K, M
  <2>3. i - 1 \in 0 .. (K - 1) /\ i - 1 < M /\ i - 1 \in 0 .. (length_ - count - 1)
    BY <1>1, <2>1
  <2>4. t[i] = u[i - 1]
    BY <1>5, <2>2, <2>3
  <2>5. /\ i - 1 < d => u[i - 1] = word_vector[i - 1]
        /\ i - 1 >= d => u[i - 1] = word_vector[i - 1 + count]
    BY <1>2, <2>3 DEF MovedDown
  <2>6. s[i] = word_vector[i - 1]
    BY <1>1
  <2>7. s[i + count] = word_vector[i - 1 + count]
    <3>1. i + count \in 1 .. length_ /\ i + count - 1 = i - 1 + count
      BY <1>1
    <3> QED BY <1>1, <3>1
  <2>8. i - 1 < d <=> i <= d
    OBVIOUS
  <2> QED BY <2>4, <2>5, <2>6, <2>7, <2>8
<1>7. t = Vector!Abstract!Cut(s, d, count)
  <2>1. /\ s \in Seq(Bit) /\ d \in Nat /\ count \in Nat /\ d + count <= Len(s)
        /\ t \in Seq(Bit) /\ Len(t) = Len(s) - count
    BY <1>1, <1>5
  <2>2. \A i \in 1 .. Len(t) : t[i] = IF i <= d THEN s[i] ELSE s[i + count]
    BY <1>5, <1>6
  <2> QED BY ONLY <2>1, <2>2, CutIs, Zenon
<1>8. call'.at + call'.count <= Len(s)
  BY <1>1
<1> QED BY <1>5, <1>7, <1>8 DEF s, t, Vector!Abstract!Erase, Vector!Abstract!Called

\* The word that goes is the one the bit removed was alone in.
LEMMA DropEmptyWordFits ==
  ASSUME VectorInv, NEW n \in Nat, n = length_ - 1
  PROVE  Room(Vector!DropEmptyWord(n), n)
<1> DEFINE k == Vector!DropEmptyWord(n)
           M == words * W
           q == n \div W
           r == n % W
<1>1. words \in Nat /\ length_ \in Nat /\ M \in Nat /\ length_ <= M /\ (~spare => M < length_ + W)
  BY VectorFacts
<1>2. n = W * q + r /\ q \in Int /\ r \in 0 .. (W - 1)
  BY Division
<1>3. n < M /\ (~spare => M < n + 1 + W)
  BY <1>1
<1>4. (words - 1) * W = M - W
  BY <1>1, WordMore
<1> HIDE DEF q
<1>5. CASE r = 0
  <2>1. k = words - 1
    BY <1>5 DEF Vector!DropEmptyWord
  <2>2. words >= q + 1
    <3> SUFFICES ASSUME words <= q PROVE FALSE
      BY <1>1, <1>2
    <3>1. words * W <= W * q
      BY <1>1, <1>2, Constants, SMTT(30)
    <3> HIDE DEF r, M
    <3>2. M <= W * q
      BY <3>1 DEF M
    <3> QED BY <1>1, <1>2, <1>3, <1>5, <3>2, Constants
  <2>3. W * q <= (words - 1) * W
    BY <1>1, <1>2, <2>2, Constants, SMTT(30)
  <2>4. q >= 0
    <3> SUFFICES ASSUME q <= -1 PROVE FALSE
      BY <1>2
    <3>1. W * q <= -W
      BY <1>2, Constants, SMTT(30)
    <3> QED BY <1>2, <3>1, <1>5, Constants
  <2> HIDE DEF k, M, r
  <2>5. words - 1 \in Nat /\ n <= M - W /\ (~spare => M - W < n + W)
    BY <1>1, <1>2, <1>3, <1>4, <1>5, <2>2, <2>3, <2>4, Constants
  <2>6. Room(words - 1, n)
    BY <1>4, <2>5 DEF Room
  <2> QED BY <2>1, <2>6 DEF k
<1>6. CASE r # 0
  <2>1. k = words
    BY <1>6 DEF Vector!DropEmptyWord
  <2> HIDE DEF k, r
  <2>2. M # n + W
    <3> SUFFICES ASSUME M = n + W PROVE FALSE
      OBVIOUS
    <3> HIDE DEF M
    <3>1. (words - 1) * W = W * q + r
      BY <1>1, <1>2, <1>4, Constants
    <3>2. W * (words - 1 - q) = r
      BY <1>1, <1>2, <3>1, Constants, SMTT(30)
    <3>3. CASE words - 1 - q >= 1
      <4>1. W * (words - 1 - q) >= W
        BY <1>1, <1>2, <3>3, Constants, SMTT(30)
      <4> QED BY <1>2, <3>2, <4>1, Constants
    <3>4. CASE words - 1 - q <= 0
      <4>1. W * (words - 1 - q) <= 0
        BY <1>1, <1>2, <3>4, Constants, SMTT(30)
      <4> QED BY <1>2, <1>6, <3>2, <4>1, Constants
    <3> QED BY <1>1, <1>2, <3>3, <3>4
  <2>3. n <= M /\ (~spare => M < n + W)
    <3> HIDE DEF M
    <3> QED BY <1>1, <1>3, <2>2, Constants
  <2> QED BY <1>1, <2>1, <2>3 DEF Room, k, M
<1> QED BY <1>5, <1>6

LEMMA PopBackStep ==
  ASSUME VectorInv, Vector!pop_back
  PROVE  VectorInv' /\ Vector!Abstract!Erase
<1> DEFINE n == length_ - 1
           k == Vector!DropEmptyWord(n)
           u == word_vector
           count == 1
<1>1. /\ length_ > 0 /\ length_' = n /\ words' = k
      /\ word_vector' = Vector!Resized(u, k) /\ spare' = spare
      /\ call'.name \in {"erase", "pop_back"} /\ call'.at = n /\ call'.count = count
  BY DEF Vector!pop_back, Vector!Record
<1>2. length_ \in Nat /\ spare \in BOOLEAN
  BY VectorFacts
<1>3. n \in Nat /\ count \in Nat /\ 0 < count /\ n + count <= length_
  BY <1>1, <1>2
<1>4. u \in Vector!ShiftLeft(word_vector, n, length_, count)
  <2>1. ~(1 < length_ - n)
    BY <1>2
  <2> HIDE DEF n
  <2> QED BY <2>1, NothingMoves, Zenon
<1>5. n = length_ - count
  OBVIOUS
<1> HIDE DEF n
<1>6. Room(k, n)
  BY <1>3, <1>5, DropEmptyWordFits
<1> HIDE DEF k, u, count
<1> QED BY <1>1, <1>2, <1>3, <1>4, <1>5, <1>6, Erased DEF Room

LEMMA EraseOneStep ==
  ASSUME VectorInv, Vector!EraseOne
  PROVE  VectorInv' /\ Vector!Abstract!Erase
<1> DEFINE n == length_ - 1
           k == Vector!DropEmptyWord(n)
           count == 1
<1>1. PICK d \in 0 .. n :
        /\ length_' = n /\ words' = k /\ spare' = spare
        /\ \E u \in Vector!ShiftLeft(word_vector, d, length_, count) :
             word_vector' = Vector!Resized(u, k)
        /\ call'.name \in {"erase", "pop_back"} /\ call'.at = d /\ call'.count = count
  BY DEF Vector!EraseOne, Vector!Record
<1>2. PICK u \in Vector!ShiftLeft(word_vector, d, length_, count) :
        word_vector' = Vector!Resized(u, k)
  BY <1>1
<1>3. length_ \in Nat /\ spare \in BOOLEAN
  BY VectorFacts
<1>4. n \in Nat /\ n = length_ - count /\ count \in Nat /\ 0 < count
      /\ d \in Nat /\ d + count <= length_
  BY <1>3
<1> HIDE DEF n
<1>5. Room(k, n)
  BY <1>4, DropEmptyWordFits
<1> HIDE DEF k, count
<1> QED BY <1>1, <1>2, <1>3, <1>4, <1>5, Erased DEF Room

LEMMA EraseRangeStep ==
  ASSUME VectorInv, Vector!EraseRange
  PROVE  VectorInv' /\ Vector!Abstract!Erase
<1>1. PICK d \in 0 .. length_ : \E count \in 1 .. (length_ - d) :
        /\ length_' = length_ - count
        /\ words' = Vector!word_count(length_')
        /\ \E u \in Vector!ShiftLeft(word_vector, d, length_, count) :
             word_vector' = Vector!Resized(u, words')
        /\ spare' = FALSE
        /\ Vector!Record("erase", d, count, <<>>)
  BY DEF Vector!EraseRange
<1>2. PICK count \in 1 .. (length_ - d) :
        /\ length_' = length_ - count
        /\ words' = Vector!word_count(length_')
        /\ \E u \in Vector!ShiftLeft(word_vector, d, length_, count) :
             word_vector' = Vector!Resized(u, words')
        /\ spare' = FALSE
        /\ Vector!Record("erase", d, count, <<>>)
  BY <1>1
<1> DEFINE n == length_ - count
           k == Vector!word_count(n)
<1>3. PICK u \in Vector!ShiftLeft(word_vector, d, length_, count) :
        word_vector' = Vector!Resized(u, k)
  BY <1>2
<1>4. length_' = n /\ words' = k /\ spare' = FALSE
      /\ call'.name \in {"erase", "pop_back"} /\ call'.at = d /\ call'.count = count
  BY <1>2 DEF Vector!Record
<1>5. length_ \in Nat
  BY VectorFacts
<1>6. n \in Nat /\ n = length_ - count /\ count \in Nat /\ 0 < count
      /\ d \in Nat /\ d + count <= length_
  BY <1>5
<1>0. spare' \in BOOLEAN
  BY <1>4
<1> HIDE DEF n
<1>7. k \in Nat /\ n <= k * W /\ k * W < n + W
  BY <1>6, WordCount
<1> HIDE DEF k
<1> QED BY <1>0, <1>3, <1>4, <1>6, <1>7, Erased

\* What resize leaves: the bits both lengths have.
LEMMA Kept ==
  ASSUME VectorInv,
         NEW n \in 0 .. MaxLen, NEW k \in Nat, k = Vector!word_count(n),
         NEW v \in [Vector!Stored(k) -> Bit],
         \A a \in 0 .. (k * W - 1) : a < length_ => v[a] = word_vector[a],
         words' = k, word_vector' = v, length_' = n, spare' = FALSE,
         call'.name \in {"resize", "resize_value"}, call'.count = n
  PROVE  VectorInv' /\ Vector!Abstract!Resize
<1> DEFINE s == Vector!contents
           t == Vector!contents'
<1>1. length_ \in Nat /\ s \in Seq(Bit) /\ Len(s) = length_
      /\ \A i \in 1 .. length_ : s[i] = word_vector[i - 1]
  BY VectorFacts
<1>2. n \in Nat /\ n <= k * W /\ k * W < n + W
  BY WordCount, Constants
<1> HIDE DEF s
<1>3. VectorInv' /\ t \in Seq(Bit) /\ Len(t) = n /\ \A i \in 1 .. n : t[i] = v[i - 1]
  <2>1. spare' \in BOOLEAN
    OBVIOUS
  <2> QED BY <1>2, <2>1, VectorStep
<1>4. ASSUME NEW i \in 1 .. n, i <= Len(s) PROVE t[i] = s[i]
  <2>1. i - 1 \in 0 .. (k * W - 1)
    BY <1>2, Index
  <2>2. i - 1 < length_
    BY <1>1, <1>2, <1>4
  <2>3. v[i - 1] = word_vector[i - 1]
    BY <2>1, <2>2
  <2>4. s[i] = word_vector[i - 1]
    BY <1>1, <1>2, <1>4
  <2> QED BY <1>3, <2>3, <2>4
<1> QED BY <1>3, <1>4 DEF s, Vector!Abstract!Resize, Vector!Abstract!Called

\* Resizing keeps what it says.
LEMMA ResizedKeeps ==
  ASSUME VectorInv, NEW n \in 0 .. MaxLen, NEW k \in Nat, k = Vector!word_count(n)
  PROVE  /\ Vector!Resized(word_vector, k) \in [Vector!Stored(k) -> Bit]
         /\ \A a \in 0 .. (k * W - 1) :
              a < length_ => Vector!Resized(word_vector, k)[a] = word_vector[a]
<1> DEFINE z == Vector!Resized(word_vector, k)
           K == k * W
           M == words * W
<1>1. words \in Nat /\ length_ \in Nat /\ M \in Nat /\ length_ <= M /\ K \in Nat
      /\ word_vector \in [Vector!Stored(words) -> Bit]
  BY VectorFacts, Capacity
<1>2. z \in [Vector!Stored(k) -> Bit] /\ \A a \in 0 .. (K - 1) : a < M => z[a] = word_vector[a]
  BY <1>1, ResizedBits
<1> HIDE DEF z, K, M
<1>3. \A a \in 0 .. (K - 1) : a < length_ => z[a] = word_vector[a]
  BY <1>1, <1>2
<1> QED BY <1>2, <1>3 DEF z, K

LEMMA ResizeStep ==
  ASSUME VectorInv, Vector!Resize
  PROVE  VectorInv' /\ Vector!Abstract!Resize
<1>1. PICK count \in 0 .. MaxLen :
        /\ words' = Vector!word_count(count)
        /\ word_vector' = Vector!Resized(word_vector, words')
        /\ length_' = count
        /\ spare' = FALSE
        /\ Vector!Record("resize", 0, count, <<>>)
  BY DEF Vector!Resize
<1> DEFINE k == Vector!word_count(count)
           v == Vector!Resized(word_vector, k)
<1>2. words' = k /\ word_vector' = v /\ call'.name \in {"resize", "resize_value"}
      /\ call'.count = count
  BY <1>1 DEF Vector!Record
<1>3. k \in Nat /\ k = Vector!word_count(count)
  <2>1. count \in Nat
    BY Constants
  <2> QED BY <2>1, WordCount
<1> HIDE DEF k
<1>4. /\ v \in [Vector!Stored(k) -> Bit]
      /\ \A a \in 0 .. (k * W - 1) : a < length_ => v[a] = word_vector[a]
  BY <1>3, ResizedKeeps
<1> HIDE DEF v
<1> QED BY <1>1, <1>2, <1>3, <1>4, Kept

LEMMA ResizeValueStep ==
  ASSUME VectorInv, Vector!ResizeValue
  PROVE  VectorInv' /\ Vector!Abstract!Resize
<1>1. PICK count \in 0 .. MaxLen, value \in Bit :
        /\ words' = Vector!word_count(count)
        /\ length_' = count
        /\ LET v == Vector!Resized(word_vector, words')
           IN  word_vector' = IF count > length_ THEN Vector!Fill(v, length_', count, value)
                                                 ELSE v
        /\ spare' = FALSE
        /\ Vector!Record("resize_value", 0, count, <<value>>)
  BY DEF Vector!ResizeValue
<1> DEFINE k == Vector!word_count(count)
           z == Vector!Resized(word_vector, k)
           v == IF count > length_ THEN Vector!Fill(z, count, count, value) ELSE z
<1>2. words' = k /\ word_vector' = v /\ call'.name \in {"resize", "resize_value"}
      /\ call'.count = count
  BY <1>1 DEF Vector!Record
<1>3. count \in Nat /\ k \in Nat /\ k = Vector!word_count(count)
  <2>1. count \in Nat
    BY Constants
  <2> QED BY <2>1, WordCount
<1> HIDE DEF k
<1>4. /\ z \in [Vector!Stored(k) -> Bit]
      /\ \A a \in 0 .. (k * W - 1) : a < length_ => z[a] = word_vector[a]
  BY <1>3, ResizedKeeps
<1> HIDE DEF z
\* The fill starts where it ends.
<1>5. Vector!Fill(z, count, count, value) = z
  <2>1. z = [a \in Vector!Stored(k) |-> z[a]] /\ DOMAIN z = Vector!Stored(k)
    BY <1>4
  <2>2. \A a \in Vector!Stored(k) : ~(count <= a /\ a < count)
    BY <1>3, Capacity
  <2> QED BY <2>1, <2>2 DEF Vector!Fill
<1>6. v = z
  BY <1>5
<1> HIDE DEF v
<1> QED BY <1>1, <1>2, <1>3, <1>4, <1>6, Kept

\* A step of bit_vector keeps the invariant and is a step of std::vector<bool>.
LEMMA VectorNext ==
  ASSUME VectorInv, Vector!Next
  PROVE  VectorInv' /\ Vector!Abstract!Next
BY ConstructCountStep, ConstructRangeStep, ConstructWordsStep, MoveAssignStep, MovedFromStep,
   WriteStep, ClearStep, ShrinkStep, PushBackStep, PopBackStep, InsertOneStep, InsertCountStep,
   InsertRangeStep, EraseOneStep, EraseRangeStep, ResizeStep, ResizeValueStep
   DEF Vector!Next, Vector!Abstract!Next

LEMMA VectorStutter ==
  ASSUME VectorInv, UNCHANGED vector_vars
  PROVE  VectorInv' /\ UNCHANGED <<Vector!contents, call>>
BY DEF vector_vars, VectorInv, Vector!TypeOK, Vector!contents, Vector!Stored, Tight

----------------------------------------------------------------------------
(* bit_array<>: the invariant.                                             *)

LEMMA ArrayConstants ==
  /\ FixedWords \in Nat /\ MaxSize \in Nat /\ null \notin Block
  /\ Absent # Gone /\ Absent \notin Seq(Item) /\ Gone \notin Seq(Item)
BY SizesAssumption, NullAssumption, ValuesAssumption

\* Storage's constructors, which count words, and the rest of the class, which
\* counts bits, agree on which arrays are allocated.
LEMMA AllocatesOnHeap ==
  ASSUME NEW N \in Nat
  PROVE  Array!Words(N) \in Nat /\ (Array!Allocates(N) <=> N > Array!FixedBits)
<1> DEFINE c == Vector!word_count(N)
           F == FixedWords * W
           C == c * W
<1>1. Array!Words(N) = c
  BY DEF Array!Words, Vector!word_count
<1>2. c \in Nat /\ N <= C /\ C < N + W
  BY WordCount
<1>3. F \in Nat /\ C \in Nat
  BY <1>2, ArrayConstants, Capacity
<1> HIDE DEF c
<1>4. ASSUME c >= FixedWords + 1 PROVE N > F
  <2>1. c * W >= FixedWords * W + W
    BY <1>2, <1>4, Constants, ArrayConstants, SMTT(30)
  <2>2. C >= F + W
    BY <2>1
  <2> HIDE DEF C, F
  <2> QED BY <1>2, <1>3, <2>2, Constants
<1>5. ASSUME c <= FixedWords PROVE ~(N > F)
  <2>1. c * W <= FixedWords * W
    BY <1>2, <1>5, Constants, ArrayConstants, SMTT(30)
  <2>2. C <= F
    BY <2>1
  <2> HIDE DEF C, F
  <2> QED BY <1>2, <1>3, <2>2, Constants
<1>6. Array!FixedBits = F
  BY DEF Array!FixedBits
<1>7. (Array!Allocates(N) <=> c > FixedWords)
  BY <1>1 DEF Array!Allocates
<1> HIDE DEF F
<1> QED BY <1>1, <1>2, <1>4, <1>5, <1>6, <1>7, ArrayConstants

\* What the runs check, in terms of the variables, and one thing more: an object
\* that does not exist is empty.
ArrayTypes ==
  /\ exists \subseteq Slot /\ size \in [Slot -> 0 .. MaxSize]
  /\ pointer \in [Slot -> Block \cup {null}] /\ fixed \in [Slot -> Seq(Item)]
  /\ live \subseteq Block /\ heap \in [Block -> Seq(Item)]
  /\ released \subseteq Block \cup {null}

OneMember(s) == IF size[s] > Array!FixedBits THEN fixed[s] = <<>> ELSE pointer[s] = null

Owned(s, t) == pointer[s] # null => pointer[s] \in live /\ (pointer[t] = pointer[s] => t = s)

Whole(s) ==
  /\ size[s] > Array!FixedBits /\ pointer[s] # null => Len(heap[pointer[s]]) = Array!Words(size[s])
  /\ ~(size[s] > Array!FixedBits) => Len(fixed[s]) = Array!Words(size[s])

ArrayInv ==
  /\ ArrayTypes
  /\ \A s \in Slot : OneMember(s)
  /\ \A s, t \in exists : Owned(s, t)
  /\ \A b \in live : \E s \in exists : pointer[s] = b
  /\ \A s \in exists : Whole(s)
  /\ \A s \in Slot \ exists : size[s] = 0 /\ fixed[s] = <<>>

LEMMA ArrayInvImplies ==
  ArrayInv => Array!TypeOK /\ Array!Exclusive /\ Array!NoLeak /\ Array!Fits
<1> SUFFICES ASSUME ArrayInv
             PROVE  Array!TypeOK /\ Array!Exclusive /\ Array!NoLeak /\ Array!Fits
  OBVIOUS
<1>1. Array!TypeOK
  BY DEF ArrayInv, ArrayTypes, OneMember, Array!TypeOK, Array!OnHeap
<1>2. Array!Exclusive
  BY DEF ArrayInv, Owned, Array!Exclusive
<1>3. Array!NoLeak
  BY DEF ArrayInv, Array!NoLeak
<1>4. Array!Fits
  BY DEF ArrayInv, Whole, Array!Fits, Array!Husk, Array!Contents, Array!OnHeap
<1> QED BY <1>1, <1>2, <1>3, <1>4

LEMMA ArrayFacts ==
  ASSUME ArrayInv
  PROVE  /\ exists \subseteq Slot /\ size \in [Slot -> 0 .. MaxSize]
         /\ pointer \in [Slot -> Block \cup {null}] /\ fixed \in [Slot -> Seq(Item)]
         /\ live \subseteq Block /\ heap \in [Block -> Seq(Item)]
         /\ released \subseteq Block \cup {null}
         /\ Array!FixedBits \in Nat
         /\ \A s \in Slot : /\ size[s] \in Nat
                            /\ Array!OnHeap(s) => fixed[s] = <<>>
                            /\ ~Array!OnHeap(s) => pointer[s] = null
                            /\ Array!Allocates(size[s]) <=> Array!OnHeap(s)
                            /\ s \notin exists => ~Array!OnHeap(s) /\ pointer[s] = null
                                                  /\ size[s] = 0 /\ fixed[s] = <<>>
                            /\ pointer[s] # null => pointer[s] \in Block
<1>1. Array!FixedBits \in Nat
  BY ArrayConstants, Capacity DEF Array!FixedBits
<1>2. \A s \in Slot \ exists : size[s] = 0 /\ fixed[s] = <<>>
  BY DEF ArrayInv
<1>3. /\ exists \subseteq Slot /\ size \in [Slot -> 0 .. MaxSize]
      /\ pointer \in [Slot -> Block \cup {null}] /\ fixed \in [Slot -> Seq(Item)]
      /\ live \subseteq Block /\ heap \in [Block -> Seq(Item)]
      /\ released \subseteq Block \cup {null}
      /\ \A s \in Slot : IF Array!OnHeap(s) THEN fixed[s] = <<>> ELSE pointer[s] = null
  BY DEF ArrayInv, ArrayTypes, OneMember, Array!OnHeap
<1>4. \A s \in Slot : size[s] \in Nat
  BY <1>3, ArrayConstants
<1>5. \A s \in Slot : Array!Allocates(size[s]) <=> Array!OnHeap(s)
  BY <1>4, AllocatesOnHeap DEF Array!OnHeap
<1>6. \A s \in Slot \ exists : ~Array!OnHeap(s)
  BY <1>1, <1>2 DEF Array!OnHeap
<1> QED BY <1>1, <1>2, <1>3, <1>4, <1>5, <1>6

LEMMA InitArray == Array!Init => ArrayInv /\ Array!Values!Init
<1> SUFFICES ASSUME Array!Init PROVE ArrayInv /\ Array!Values!Init
  OBVIOUS
<1>1. Array!FixedBits \in Nat
  BY ArrayConstants, Capacity DEF Array!FixedBits
<1>2. /\ exists = {} /\ live = {} /\ released = {}
      /\ size = [s \in Slot |-> 0] /\ pointer = [s \in Slot |-> null]
      /\ fixed = [s \in Slot |-> <<>>] /\ heap = [b \in Block |-> <<>>]
  BY DEF Array!Init
<1>3. \A s \in Slot : ~(size[s] > Array!FixedBits)
  BY <1>1, <1>2
<1>4. ArrayTypes
  <2>1. size \in [Slot -> 0 .. MaxSize]
    BY <1>2, ArrayConstants
  <2>2. fixed \in [Slot -> Seq(Item)] /\ heap \in [Block -> Seq(Item)]
    BY <1>2
  <2> QED BY <1>2, <2>1, <2>2 DEF ArrayTypes
<1>5. ArrayInv
  BY <1>2, <1>3, <1>4 DEF ArrayInv, OneMember
<1>6. Array!Values!Init
  BY <1>2 DEF Array!Values!Init, Array!Value
<1> QED BY <1>5, <1>6

----------------------------------------------------------------------------
(* bit_array<>: each call.                                                 *)

vals == [s \in Slot |-> Array!Value(s)]

\* The other arrays keep their values.
Others(S) == \A u \in Slot \ S : Array!Value(u)' = Array!Value(u)

LEMMA OneValue ==
  ASSUME NEW s \in Slot, Others({s})
  PROVE  vals' = [vals EXCEPT ![s] = Array!Value(s)']
BY DEF vals, Others

LEMMA TwoValuesChange ==
  ASSUME NEW s \in Slot, NEW t \in Slot, s # t, Others({s, t})
  PROVE  vals' = [vals EXCEPT ![s] = Array!Value(s)', ![t] = Array!Value(t)']
BY DEF vals, Others

\* What arrays hold, in terms of the variables.
LEMMA HeldOnHeap ==
  ASSUME NEW s \in Slot
  PROVE  /\ Array!OnHeap(s) <=> size[s] > Array!FixedBits
         /\ Array!OnHeap(s)' <=> size'[s] > Array!FixedBits
         /\ Array!Value(s) = IF s \notin exists THEN Absent
                             ELSE IF size[s] > Array!FixedBits
                                    THEN IF pointer[s] = null THEN Gone ELSE heap[pointer[s]]
                                    ELSE fixed[s]
         /\ Array!Value(s)' = IF s \notin exists' THEN Absent
                              ELSE IF size'[s] > Array!FixedBits
                                     THEN IF pointer'[s] = null THEN Gone ELSE heap'[pointer'[s]]
                                     ELSE fixed'[s]
BY DEF Array!Value, Array!Husk, Array!Contents, Array!OnHeap, Array!FixedBits

LEMMA SameValue ==
  ASSUME NEW u \in Slot, u \in exists' <=> u \in exists, size'[u] = size[u],
         pointer'[u] = pointer[u], fixed'[u] = fixed[u],
         u \in exists /\ pointer[u] # null => heap'[pointer[u]] = heap[pointer[u]]
  PROVE  Array!Value(u)' = Array!Value(u)
BY HeldOnHeap

\* The value of an array that is not a husk.
LEMMA ValueHeld ==
  ASSUME ArrayInv, NEW s \in exists
  PROVE  /\ s \in Slot /\ Array!Value(s) # Absent
         /\ ~Array!Husk(s) => /\ Array!Value(s) = Array!Contents(s)
                              /\ Array!Contents(s) \in Seq(Item)
                              /\ Len(Array!Contents(s)) = Array!Words(size[s])
                              /\ Array!Value(s) # Gone
         /\ Array!Husk(s) => Array!Value(s) = Gone
<1>1. s \in Slot /\ pointer[s] \in Block \cup {null} /\ fixed[s] \in Seq(Item)
      /\ (pointer[s] # null => heap[pointer[s]] \in Seq(Item)) /\ Whole(s)
  BY DEF ArrayInv, ArrayTypes
<1>2. ~Array!Husk(s) => /\ Array!Contents(s) \in Seq(Item)
                        /\ Len(Array!Contents(s)) = Array!Words(size[s])
  BY <1>1 DEF Array!Husk, Array!OnHeap, Array!Contents, Whole
<1>3. Array!Value(s) = IF Array!Husk(s) THEN Gone ELSE Array!Contents(s)
  BY DEF Array!Value
<1> QED BY <1>1, <1>2, <1>3, ArrayConstants

LEMMA Placed ==
  ASSUME ArrayInv, NEW s \in Slot, NEW N \in 0 .. MaxSize, NEW v \in Seq(Item),
         Len(v) = Array!Words(N), Array!Place(s, N, v)
  PROVE  /\ ArrayInv' /\ Array!NoDoubleFree
         /\ Array!Value(s) = Absent /\ Array!Value(s)' = v /\ Others({s})
<1>1. /\ s \notin exists /\ exists' = exists \cup {s} /\ size' = [size EXCEPT ![s] = N]
      /\ released' = {}
      /\ IF Array!Allocates(N)
           THEN \E b \in Block \ live :
                  /\ live' = live \cup {b} /\ heap' = [heap EXCEPT ![b] = v]
                  /\ pointer' = [pointer EXCEPT ![s] = b] /\ fixed' = fixed
           ELSE /\ fixed' = [fixed EXCEPT ![s] = v]
                /\ pointer' = pointer /\ live' = live /\ heap' = heap
  BY DEF Array!Place
<1>2. N \in Nat /\ (Array!Allocates(N) <=> N > Array!FixedBits) /\ Array!FixedBits \in Nat
  BY AllocatesOnHeap, ArrayConstants, ArrayFacts
<1>3. Array!NoDoubleFree /\ Array!Value(s) = Absent
  BY <1>1 DEF Array!NoDoubleFree, Array!Value
<1>4. CASE N > Array!FixedBits
  <2>1. PICK b \in Block \ live :
          /\ live' = live \cup {b} /\ heap' = [heap EXCEPT ![b] = v]
          /\ pointer' = [pointer EXCEPT ![s] = b] /\ fixed' = fixed
    BY <1>1, <1>2, <1>4
  <2>2. b # null
    BY ArrayConstants
  <2>3. ArrayInv'
    <3>1. ArrayTypes'
      BY <1>1, <2>1 DEF ArrayInv, ArrayTypes
    <3>2. (\A u \in Slot : OneMember(u))'
      BY <1>1, <1>2, <1>4, <2>1, ArrayFacts DEF ArrayInv, ArrayTypes, OneMember
    <3>3. (\A u, w \in exists : Owned(u, w))'
      BY <1>1, <2>1, <2>2 DEF ArrayInv, ArrayTypes, Owned
    <3>4. (\A c \in live : \E u \in exists : pointer[u] = c)'
      BY <1>1, <2>1, <2>2 DEF ArrayInv, ArrayTypes
    <3>5. (\A u \in exists : Whole(u))'
      BY <1>1, <1>4, <2>1, <2>2 DEF ArrayInv, ArrayTypes, Whole, Owned
    <3>6. (\A u \in Slot \ exists : size[u] = 0 /\ fixed[u] = <<>>)'
      BY <1>1, <2>1 DEF ArrayInv, ArrayTypes
    <3> QED BY <3>1, <3>2, <3>3, <3>4, <3>5, <3>6 DEF ArrayInv
  <2>4. Array!Value(s)' = v
    BY <1>1, <1>4, <2>1, <2>2, ArrayFacts, HeldOnHeap
  <2>5. Others({s})
    <3> SUFFICES ASSUME NEW u \in Slot \ {s} PROVE Array!Value(u)' = Array!Value(u)
      BY DEF Others
    <3>1. /\ (u \in exists' <=> u \in exists) /\ size'[u] = size[u]
          /\ pointer'[u] = pointer[u] /\ fixed'[u] = fixed[u]
      BY <1>1, <2>1 DEF ArrayInv, ArrayTypes
    <3>2. u \in exists /\ pointer[u] # null => heap'[pointer[u]] = heap[pointer[u]]
      BY <2>1 DEF ArrayInv, ArrayTypes, Owned
    <3> QED BY <3>1, <3>2, HeldOnHeap
  <2> QED BY <1>3, <2>3, <2>4, <2>5
<1>5. CASE ~(N > Array!FixedBits)
  <2>1. /\ fixed' = [fixed EXCEPT ![s] = v]
        /\ pointer' = pointer /\ live' = live /\ heap' = heap
    BY <1>1, <1>2, <1>5
  <2>2. ArrayInv'
    <3>1. ArrayTypes'
      BY <1>1, <2>1 DEF ArrayInv, ArrayTypes
    <3>2. (\A u \in Slot : OneMember(u))'
      BY <1>1, <1>2, <1>5, <2>1, ArrayFacts DEF ArrayInv, ArrayTypes, OneMember
    <3>3. (\A u, w \in exists : Owned(u, w))'
      BY <1>1, <2>1, ArrayFacts DEF ArrayInv, ArrayTypes, Owned
    <3>4. (\A c \in live : \E u \in exists : pointer[u] = c)'
      BY <1>1, <2>1 DEF ArrayInv, ArrayTypes
    <3>5. (\A u \in exists : Whole(u))'
      BY <1>1, <1>5, <2>1 DEF ArrayInv, ArrayTypes, Whole
    <3>6. (\A u \in Slot \ exists : size[u] = 0 /\ fixed[u] = <<>>)'
      BY <1>1, <2>1 DEF ArrayInv, ArrayTypes
    <3> QED BY <3>1, <3>2, <3>3, <3>4, <3>5, <3>6 DEF ArrayInv
  <2>3. Array!Value(s)' = v
    BY <1>1, <1>5, <2>1, ArrayFacts, HeldOnHeap
  <2>4. Others({s})
    BY <1>1, <2>1, HeldOnHeap, ArrayFacts DEF Others
  <2> QED BY <1>3, <2>2, <2>3, <2>4
<1> QED BY <1>4, <1>5

LEMMA ConstructStep ==
  ASSUME ArrayInv, NEW s \in Slot, Array!Construct(s)
  PROVE  ArrayInv' /\ Array!NoDoubleFree /\ Array!Values!Make(s)
<1>1. PICK N \in 0 .. MaxSize : \E v \in [1 .. Array!Words(N) -> Item] : Array!Place(s, N, v)
  BY DEF Array!Construct
<1>2. PICK v \in [1 .. Array!Words(N) -> Item] : Array!Place(s, N, v)
  BY <1>1
<1>3. v \in Seq(Item) /\ Len(v) = Array!Words(N)
  <2>1. N \in Nat
    BY ArrayConstants
  <2>2. Array!Words(N) \in Nat
    BY <2>1, AllocatesOnHeap
  <2> QED BY <2>2
<1>4. /\ ArrayInv' /\ Array!NoDoubleFree
      /\ Array!Value(s) = Absent /\ Array!Value(s)' = v /\ Others({s})
  BY <1>2, <1>3, Placed
<1>5. vals' = [vals EXCEPT ![s] = Array!Value(s)']
  BY <1>4, OneValue
<1>6. vals[s] = Absent /\ vals'[s] = Array!Value(s)'
  BY <1>4 DEF vals
<1> QED BY <1>3, <1>4, <1>5, <1>6 DEF Array!Values!Make, vals

LEMMA CopyConstructStep ==
  ASSUME ArrayInv, NEW s \in Slot, NEW t \in Slot, Array!CopyConstruct(s, t)
  PROVE  ArrayInv' /\ Array!NoDoubleFree /\ Array!Values!Duplicate(s, t)
<1> DEFINE v == Array!Contents(t)
<1>1. t \in exists /\ ~Array!Husk(t) /\ Array!Place(s, size[t], v)
  BY DEF Array!CopyConstruct
<1>2. Array!Value(t) = v /\ v \in Seq(Item) /\ Len(v) = Array!Words(size[t])
      /\ Array!Value(t) # Absent /\ Array!Value(t) # Gone /\ size[t] \in 0 .. MaxSize
  BY <1>1, ValueHeld, ArrayFacts
<1> HIDE DEF v
<1>3. /\ ArrayInv' /\ Array!NoDoubleFree
      /\ Array!Value(s) = Absent /\ Array!Value(s)' = v /\ Others({s})
  BY <1>1, <1>2, Placed
<1>4. vals' = [vals EXCEPT ![s] = vals[t]] /\ vals[s] = Absent
  BY <1>2, <1>3, OneValue DEF vals
<1>5. Array!Values!HasValue(t)
  BY <1>2 DEF Array!Values!HasValue
<1> QED BY <1>3, <1>4, <1>5 DEF Array!Values!Duplicate, vals

LEMMA MoveConstructStep ==
  ASSUME ArrayInv, NEW s \in Slot, NEW t \in Slot, Array!MoveConstruct(s, t)
  PROVE  ArrayInv' /\ Array!NoDoubleFree /\ Array!Values!Take(s, t)
<1>1. /\ s \notin exists /\ t \in exists /\ exists' = exists \cup {s}
      /\ size' = [size EXCEPT ![s] = size[t]]
      /\ IF Array!Allocates(size[t])
           THEN pointer' = [pointer EXCEPT ![s] = pointer[t], ![t] = null] /\ fixed' = fixed
           ELSE fixed' = [fixed EXCEPT ![s] = fixed[t]] /\ pointer' = pointer
      /\ released' = {} /\ live' = live /\ heap' = heap
  BY DEF Array!MoveConstruct
<1>2. /\ s # t /\ (Array!Allocates(size[t]) <=> size[t] > Array!FixedBits)
      /\ Array!Value(s) = Absent /\ Array!Value(t) # Absent
      /\ fixed[s] = <<>> /\ pointer[s] = null /\ size[t] \in 0 .. MaxSize
  BY <1>1, ArrayFacts, ValueHeld, HeldOnHeap
<1>3. Array!NoDoubleFree
  BY <1>1 DEF Array!NoDoubleFree
<1>4. CASE size[t] > Array!FixedBits
  <2>1. pointer' = [pointer EXCEPT ![s] = pointer[t], ![t] = null] /\ fixed' = fixed
    BY <1>1, <1>2, <1>4
  <2>2. ArrayInv'
    <3>1. ArrayTypes'
      BY <1>1, <2>1 DEF ArrayInv, ArrayTypes
    <3>2. (\A u \in Slot : OneMember(u))'
      BY <1>1, <1>2, <1>4, <2>1 DEF ArrayInv, ArrayTypes, OneMember
    <3>3. (\A u, w \in exists : Owned(u, w))'
      BY <1>1, <1>2, <2>1 DEF ArrayInv, ArrayTypes, Owned
    <3>4. (\A c \in live : \E u \in exists : pointer[u] = c)'
      <4> SUFFICES ASSUME NEW c \in live PROVE \E u \in exists' : pointer'[u] = c
        BY <1>1
      <4>1. PICK u \in exists : pointer[u] = c
        BY DEF ArrayInv
      <4>2. CASE u = t
        BY <1>1, <1>2, <2>1, <4>1, <4>2 DEF ArrayInv, ArrayTypes
      <4>3. CASE u # t
        BY <1>1, <1>2, <2>1, <4>1, <4>3 DEF ArrayInv, ArrayTypes
      <4> QED BY <4>2, <4>3
    <3>5. (\A u \in exists : Whole(u))'
      BY <1>1, <1>2, <1>4, <2>1 DEF ArrayInv, ArrayTypes, Whole
    <3>6. (\A u \in Slot \ exists : size[u] = 0 /\ fixed[u] = <<>>)'
      BY <1>1, <2>1 DEF ArrayInv, ArrayTypes
    <3> QED BY <3>1, <3>2, <3>3, <3>4, <3>5, <3>6 DEF ArrayInv
  <2>3. Array!Value(s)' = Array!Value(t)
    BY <1>1, <1>2, <1>4, <2>1, HeldOnHeap DEF ArrayInv, ArrayTypes
  <2>4. Array!Value(t)' = Gone
    BY <1>1, <1>2, <1>4, <2>1, HeldOnHeap DEF ArrayInv, ArrayTypes
  <2>5. Others({s, t})
    <3> SUFFICES ASSUME NEW u \in Slot \ {s, t} PROVE Array!Value(u)' = Array!Value(u)
      BY DEF Others
    <3> QED BY <1>1, <2>1, SameValue DEF ArrayInv, ArrayTypes
  <2>6. vals' = [vals EXCEPT ![s] = vals[t], ![t] = Gone]
    BY <1>2, <2>3, <2>4, <2>5, TwoValuesChange DEF vals
  <2>7. vals[s] = Absent /\ vals[t] # Absent
    BY <1>2 DEF vals
  <2> QED BY <1>2, <1>3, <2>2, <2>6, <2>7 DEF Array!Values!Take, vals
<1>5. CASE ~(size[t] > Array!FixedBits)
  <2>1. fixed' = [fixed EXCEPT ![s] = fixed[t]] /\ pointer' = pointer
    BY <1>1, <1>2, <1>5
  <2>2. ArrayInv'
    <3>1. ArrayTypes'
      BY <1>1, <2>1 DEF ArrayInv, ArrayTypes
    <3>2. (\A u \in Slot : OneMember(u))'
      BY <1>1, <1>2, <1>5, <2>1 DEF ArrayInv, ArrayTypes, OneMember
    <3>3. (\A u, w \in exists : Owned(u, w))'
      BY <1>1, <1>2, <2>1 DEF ArrayInv, ArrayTypes, Owned
    <3>4. (\A c \in live : \E u \in exists : pointer[u] = c)'
      BY <1>1, <2>1 DEF ArrayInv
    <3>5. (\A u \in exists : Whole(u))'
      BY <1>1, <1>2, <1>5, <2>1 DEF ArrayInv, ArrayTypes, Whole
    <3>6. (\A u \in Slot \ exists : size[u] = 0 /\ fixed[u] = <<>>)'
      BY <1>1, <2>1 DEF ArrayInv, ArrayTypes
    <3> QED BY <3>1, <3>2, <3>3, <3>4, <3>5, <3>6 DEF ArrayInv
  <2>3. Array!Value(s)' = Array!Value(t) /\ Array!Value(t)' = Array!Value(t)
    BY <1>1, <1>2, <1>5, <2>1, HeldOnHeap DEF ArrayInv, ArrayTypes
  <2>4. Others({s, t})
    <3> SUFFICES ASSUME NEW u \in Slot \ {s, t} PROVE Array!Value(u)' = Array!Value(u)
      BY DEF Others
    <3> QED BY <1>1, <2>1, SameValue DEF ArrayInv, ArrayTypes
  <2>5. vals' = [vals EXCEPT ![s] = vals[t], ![t] = vals[t]]
    BY <1>2, <2>3, <2>4, TwoValuesChange DEF vals
  <2>6. vals[s] = Absent /\ vals[t] # Absent
    BY <1>2 DEF vals
  <2> QED BY <1>2, <1>3, <2>2, <2>5, <2>6 DEF Array!Values!Take, vals
<1> QED BY <1>4, <1>5

LEMMA DestroyStep ==
  ASSUME ArrayInv, NEW s \in Slot, Array!Destroy(s)
  PROVE  ArrayInv' /\ Array!NoDoubleFree /\ Array!Values!Drop(s)
<1> DEFINE p == pointer[s]
<1>1. /\ s \in exists /\ exists' = exists \ {s} /\ size' = [size EXCEPT ![s] = 0]
      /\ pointer' = [pointer EXCEPT ![s] = null] /\ fixed' = [fixed EXCEPT ![s] = <<>>]
      /\ IF Array!OnHeap(s)
           THEN /\ live' = live \ {p}
                /\ heap' = [b \in Block |-> IF b = p THEN <<>> ELSE heap[b]]
                /\ released' = {p}
           ELSE released' = {} /\ live' = live /\ heap' = heap
  BY DEF Array!Destroy, Array!Release
<1>2. Array!FixedBits \in Nat /\ p \in Block \cup {null} /\ (p # null => p \in live)
      /\ (~Array!OnHeap(s) => p = null)
  BY <1>1, ArrayFacts DEF ArrayInv, Owned
<1>3. live' = live \ {p}
  <2>1. p = null => p \notin live
    BY ArrayConstants DEF ArrayInv, ArrayTypes
  <2> QED BY <1>1, <1>2, <2>1
<1>4. Array!NoDoubleFree
  BY <1>1, <1>2 DEF Array!NoDoubleFree
<1>5. \A b \in Block : b # p => heap'[b] = heap[b]
  BY <1>1 DEF ArrayInv, ArrayTypes
<1> HIDE DEF p
<1>6. ArrayInv'
  <2>1. ArrayTypes'
    <3>1. heap' \in [Block -> Seq(Item)]
      <4>1. heap \in [Block -> Seq(Item)] /\ <<>> \in Seq(Item)
        BY DEF ArrayInv, ArrayTypes
      <4>2. CASE heap' = heap
        BY <4>1, <4>2
      <4>3. CASE heap' = [b \in Block |-> IF b = p THEN <<>> ELSE heap[b]]
        BY <4>1, <4>3
      <4> QED BY <1>1, <4>2, <4>3
    <3>2. size' \in [Slot -> 0 .. MaxSize]
      BY <1>1, ArrayConstants DEF ArrayInv, ArrayTypes
    <3>3. released' \subseteq Block \cup {null}
      BY <1>1, <1>2
    <3> QED BY <1>1, <1>3, <3>1, <3>2, <3>3 DEF ArrayInv, ArrayTypes
  <2>2. (\A u \in Slot : OneMember(u))'
    BY <1>1, <1>2 DEF ArrayInv, ArrayTypes, OneMember
  <2>3. (\A u, w \in exists : Owned(u, w))'
    BY <1>1, <1>3 DEF ArrayInv, ArrayTypes, Owned, p
  <2>4. (\A c \in live : \E u \in exists : pointer[u] = c)'
    BY <1>1, <1>3 DEF ArrayInv, ArrayTypes, p
  <2>5. (\A u \in exists : Whole(u))'
    <3> SUFFICES ASSUME NEW u \in exists \ {s} PROVE Whole(u)'
      BY <1>1
    <3>1. size'[u] = size[u] /\ pointer'[u] = pointer[u] /\ fixed'[u] = fixed[u] /\ Whole(u)
      BY <1>1 DEF ArrayInv, ArrayTypes
    <3>2. pointer[u] # null => pointer[u] \in Block /\ pointer[u] # p
      BY <1>1 DEF ArrayInv, ArrayTypes, Owned, p
    <3> QED BY <1>5, <3>1, <3>2 DEF Whole
  <2>6. (\A u \in Slot \ exists : size[u] = 0 /\ fixed[u] = <<>>)'
    BY <1>1 DEF ArrayInv, ArrayTypes
  <2> QED BY <2>1, <2>2, <2>3, <2>4, <2>5, <2>6 DEF ArrayInv
<1>7. Array!Value(s)' = Absent /\ Array!Value(s) # Absent
  BY <1>1, HeldOnHeap, ValueHeld
<1>8. Others({s})
  <2> SUFFICES ASSUME NEW u \in Slot \ {s} PROVE Array!Value(u)' = Array!Value(u)
    BY DEF Others
  <2>1. /\ (u \in exists' <=> u \in exists) /\ size'[u] = size[u]
        /\ pointer'[u] = pointer[u] /\ fixed'[u] = fixed[u]
    BY <1>1 DEF ArrayInv, ArrayTypes
  <2>2. u \in exists /\ pointer[u] # null => pointer[u] \in Block /\ pointer[u] # p
    BY <1>1 DEF ArrayInv, ArrayTypes, Owned, p
  <2> QED BY <1>5, <2>1, <2>2, SameValue
<1>9. vals' = [vals EXCEPT ![s] = Absent] /\ vals[s] # Absent
  BY <1>7, <1>8, OneValue DEF vals
<1> QED BY <1>4, <1>6, <1>9 DEF Array!Values!Drop, vals

LEMMA AssignThrowsStep ==
  ASSUME ArrayInv, NEW s \in Slot, NEW t \in Slot, Array!AssignThrows(s, t)
  PROVE  ArrayInv' /\ Array!NoDoubleFree /\ vals' = vals
<1>1. UNCHANGED <<exists, size, pointer, fixed, live, heap>> /\ released' = {}
  BY DEF Array!AssignThrows
<1>2. ArrayInv'
  BY <1>1 DEF ArrayInv, ArrayTypes, OneMember, Owned, Whole, Array!FixedBits, Array!Words
<1>3. \A u \in Slot : Array!Value(u)' = Array!Value(u)
  BY <1>1, SameValue
<1>4. vals' = vals
  BY <1>3 DEF vals
<1>5. Array!NoDoubleFree
  BY <1>1 DEF Array!NoDoubleFree
<1> QED BY <1>2, <1>4, <1>5

LEMMA CopyAssignStep ==
  ASSUME ArrayInv, NEW s \in Slot, NEW t \in Slot, Array!CopyAssign(s, t)
  PROVE  ArrayInv' /\ Array!NoDoubleFree /\ Array!Values!Assign(s, t)
<1> DEFINE v == Array!Contents(t)
<1>1. /\ s \in exists /\ t \in exists /\ ~Array!Husk(s) /\ size[s] = size[t] /\ ~Array!Husk(t)
      /\ IF Array!OnHeap(s)
           THEN heap' = [heap EXCEPT ![pointer[s]] = v] /\ fixed' = fixed
           ELSE fixed' = [fixed EXCEPT ![s] = v] /\ heap' = heap
      /\ released' = {}
      /\ UNCHANGED <<exists, size, pointer, live>>
  BY DEF Array!CopyAssign, Array!Refused
<1>2. /\ Array!Value(t) = v /\ v \in Seq(Item) /\ Len(v) = Array!Words(size[s])
      /\ Len(Array!Value(s)) = Array!Words(size[s])
      /\ Array!Value(t) \notin {Absent, Gone} /\ Array!Value(s) \notin {Absent, Gone}
  BY <1>1, ValueHeld
<1> HIDE DEF v
<1>3. Array!NoDoubleFree
  BY <1>1 DEF Array!NoDoubleFree
<1>4. ArrayInv' /\ Array!Value(s)' = v /\ Others({s})
  <2>1. CASE Array!OnHeap(s)
    <3>1. /\ size[s] > Array!FixedBits /\ pointer[s] # null /\ pointer[s] \in Block
          /\ heap' = [heap EXCEPT ![pointer[s]] = v] /\ fixed' = fixed
      BY <1>1, <2>1 DEF Array!OnHeap, Array!Husk, ArrayInv, ArrayTypes
    <3>2. ArrayInv'
      <4>1. ArrayTypes'
        BY <1>1, <1>2, <3>1 DEF ArrayInv, ArrayTypes
      <4>2. (\A u \in Slot : OneMember(u))'
        BY <1>1, <3>1 DEF ArrayInv, OneMember, Array!FixedBits
      <4>3. (\A u, w \in exists : Owned(u, w))'
        BY <1>1 DEF ArrayInv, Owned
      <4>4. (\A c \in live : \E u \in exists : pointer[u] = c)'
        BY <1>1 DEF ArrayInv
      <4>5. (\A u \in exists : Whole(u))'
        <5> SUFFICES ASSUME NEW u \in exists PROVE Whole(u)'
          BY <1>1
        <5>1. CASE u = s
          BY <1>1, <1>2, <3>1, <5>1 DEF ArrayInv, ArrayTypes, Whole
        <5>2. CASE u # s
          <6>1. pointer[u] # null => heap'[pointer[u]] = heap[pointer[u]]
            BY <1>1, <3>1, <5>2 DEF ArrayInv, ArrayTypes, Owned
          <6> QED BY <1>1, <3>1, <6>1 DEF ArrayInv, Whole
        <5> QED BY <5>1, <5>2
      <4>6. (\A u \in Slot \ exists : size[u] = 0 /\ fixed[u] = <<>>)'
        BY <1>1, <3>1 DEF ArrayInv
      <4> QED BY <4>1, <4>2, <4>3, <4>4, <4>5, <4>6 DEF ArrayInv
    <3>3. Array!Value(s)' = v
      BY <1>1, <3>1, HeldOnHeap DEF ArrayInv, ArrayTypes
    <3>4. Others({s})
      <4> SUFFICES ASSUME NEW u \in Slot \ {s} PROVE Array!Value(u)' = Array!Value(u)
        BY DEF Others
      <4>1. u \in exists /\ pointer[u] # null => heap'[pointer[u]] = heap[pointer[u]]
        BY <1>1, <3>1 DEF ArrayInv, ArrayTypes, Owned
      <4> QED BY <1>1, <3>1, <4>1, SameValue
    <3> QED BY <3>2, <3>3, <3>4
  <2>2. CASE ~Array!OnHeap(s)
    <3>1. /\ ~(size[s] > Array!FixedBits) /\ fixed' = [fixed EXCEPT ![s] = v] /\ heap' = heap
      BY <1>1, <2>2 DEF Array!OnHeap
    <3>2. ArrayInv'
      <4>1. ArrayTypes'
        BY <1>1, <1>2, <3>1 DEF ArrayInv, ArrayTypes
      <4>2. (\A u \in Slot : OneMember(u))'
        BY <1>1, <3>1 DEF ArrayInv, ArrayTypes, OneMember
      <4>3. (\A u, w \in exists : Owned(u, w))'
        BY <1>1 DEF ArrayInv, Owned
      <4>4. (\A c \in live : \E u \in exists : pointer[u] = c)'
        BY <1>1 DEF ArrayInv
      <4>5. (\A u \in exists : Whole(u))'
        BY <1>1, <1>2, <3>1 DEF ArrayInv, ArrayTypes, Whole
      <4>6. (\A u \in Slot \ exists : size[u] = 0 /\ fixed[u] = <<>>)'
        BY <1>1, <3>1 DEF ArrayInv, ArrayTypes
      <4> QED BY <4>1, <4>2, <4>3, <4>4, <4>5, <4>6 DEF ArrayInv
    <3>3. Array!Value(s)' = v
      BY <1>1, <3>1, HeldOnHeap DEF ArrayInv, ArrayTypes
    <3>4. Others({s})
      <4> SUFFICES ASSUME NEW u \in Slot \ {s} PROVE Array!Value(u)' = Array!Value(u)
        BY DEF Others
      <4> QED BY <1>1, <3>1, SameValue DEF ArrayInv, ArrayTypes
    <3> QED BY <3>2, <3>3, <3>4
  <2> QED BY <2>1, <2>2
<1>5. vals' = [vals EXCEPT ![s] = vals[t]]
  BY <1>2, <1>4, OneValue DEF vals
<1>6. Array!Values!HasValue(s) /\ Array!Values!HasValue(t) /\ Len(vals[s]) = Len(vals[t])
  BY <1>2 DEF Array!Values!HasValue, vals
<1> QED BY <1>3, <1>4, <1>5, <1>6 DEF Array!Values!Assign, vals

LEMMA SwapStep ==
  ASSUME ArrayInv, NEW s \in Slot, NEW t \in Slot, Array!Swap(s, t)
  PROVE  ArrayInv' /\ Array!NoDoubleFree /\ Array!Values!Exchange(s, t)
<1>1. /\ s \in exists /\ t \in exists /\ size[s] = size[t]
      /\ IF Array!OnHeap(s)
           THEN pointer' = [pointer EXCEPT ![s] = pointer[t], ![t] = pointer[s]] /\ fixed' = fixed
           ELSE fixed' = [fixed EXCEPT ![s] = fixed[t], ![t] = fixed[s]] /\ pointer' = pointer
      /\ released' = {}
      /\ UNCHANGED <<exists, size, live, heap>>
  BY DEF Array!Swap
<1>2. Array!NoDoubleFree
  BY <1>1 DEF Array!NoDoubleFree
<1>3. Array!Value(s) # Absent /\ Array!Value(t) # Absent
  BY <1>1, ValueHeld
<1>4. /\ ArrayInv' /\ Array!Value(s)' = Array!Value(t) /\ Array!Value(t)' = Array!Value(s)
      /\ Others({s, t})
  <2>1. CASE Array!OnHeap(s)
    <3>1. /\ size[s] > Array!FixedBits /\ fixed' = fixed
          /\ pointer' = [pointer EXCEPT ![s] = pointer[t], ![t] = pointer[s]]
      BY <1>1, <2>1 DEF Array!OnHeap
    <3>2. ArrayInv'
      <4>1. ArrayTypes'
        BY <1>1, <3>1 DEF ArrayInv, ArrayTypes
      <4>2. (\A u \in Slot : OneMember(u))'
        BY <1>1, <3>1 DEF ArrayInv, ArrayTypes, OneMember
      <4>3. (\A u, w \in exists : Owned(u, w))'
        BY <1>1, <3>1 DEF ArrayInv, ArrayTypes, Owned
      <4>4. (\A c \in live : \E u \in exists : pointer[u] = c)'
        BY <1>1, <3>1 DEF ArrayInv, ArrayTypes
      <4>5. (\A u \in exists : Whole(u))'
        BY <1>1, <3>1 DEF ArrayInv, ArrayTypes, Whole
      <4>6. (\A u \in Slot \ exists : size[u] = 0 /\ fixed[u] = <<>>)'
        BY <1>1, <3>1 DEF ArrayInv, ArrayTypes
      <4> QED BY <4>1, <4>2, <4>3, <4>4, <4>5, <4>6 DEF ArrayInv
    <3>3. Array!Value(s)' = Array!Value(t) /\ Array!Value(t)' = Array!Value(s)
      BY <1>1, <3>1, HeldOnHeap DEF ArrayInv, ArrayTypes
    <3>4. Others({s, t})
      <4> SUFFICES ASSUME NEW u \in Slot \ {s, t} PROVE Array!Value(u)' = Array!Value(u)
        BY DEF Others
      <4> QED BY <1>1, <3>1, SameValue DEF ArrayInv, ArrayTypes
    <3> QED BY <3>2, <3>3, <3>4
  <2>2. CASE ~Array!OnHeap(s)
    <3>1. /\ ~(size[s] > Array!FixedBits) /\ pointer' = pointer
          /\ fixed' = [fixed EXCEPT ![s] = fixed[t], ![t] = fixed[s]]
      BY <1>1, <2>2 DEF Array!OnHeap
    <3>2. ArrayInv'
      <4>1. ArrayTypes'
        BY <1>1, <3>1 DEF ArrayInv, ArrayTypes
      <4>2. (\A u \in Slot : OneMember(u))'
        BY <1>1, <3>1 DEF ArrayInv, ArrayTypes, OneMember
      <4>3. (\A u, w \in exists : Owned(u, w))'
        BY <1>1, <3>1 DEF ArrayInv, Owned
      <4>4. (\A c \in live : \E u \in exists : pointer[u] = c)'
        BY <1>1, <3>1 DEF ArrayInv
      <4>5. (\A u \in exists : Whole(u))'
        BY <1>1, <3>1 DEF ArrayInv, ArrayTypes, Whole
      <4>6. (\A u \in Slot \ exists : size[u] = 0 /\ fixed[u] = <<>>)'
        BY <1>1, <3>1 DEF ArrayInv, ArrayTypes
      <4> QED BY <4>1, <4>2, <4>3, <4>4, <4>5, <4>6 DEF ArrayInv
    <3>3. Array!Value(s)' = Array!Value(t) /\ Array!Value(t)' = Array!Value(s)
      BY <1>1, <3>1, HeldOnHeap DEF ArrayInv, ArrayTypes
    <3>4. Others({s, t})
      <4> SUFFICES ASSUME NEW u \in Slot \ {s, t} PROVE Array!Value(u)' = Array!Value(u)
        BY DEF Others
      <4> QED BY <1>1, <3>1, SameValue DEF ArrayInv, ArrayTypes
    <3> QED BY <3>2, <3>3, <3>4
  <2> QED BY <2>1, <2>2
<1>5. vals' = [vals EXCEPT ![s] = vals[t], ![t] = vals[s]]
  BY <1>4 DEF vals, Others
<1>6. vals[s] # Absent /\ vals[t] # Absent
  BY <1>3 DEF vals
<1> QED BY <1>2, <1>4, <1>5, <1>6 DEF Array!Values!Exchange, vals

LEMMA MoveAssignArrayStep ==
  ASSUME ArrayInv, NEW s \in Slot, NEW t \in Slot, Array!MoveAssign(s, t)
  PROVE  ArrayInv' /\ Array!NoDoubleFree /\ Array!Values!AssignTaking(s, t)
<1> DEFINE p == IF s = t THEN null ELSE pointer[s]
<1>1. /\ s \in exists /\ t \in exists /\ ~Array!Husk(s) /\ size[s] = size[t]
      /\ IF Array!OnHeap(s)
           THEN /\ pointer' = [pointer EXCEPT ![t] = null, ![s] = pointer[t]]
                /\ live' = live \ {p}
                /\ heap' = [b \in Block |-> IF b = p THEN <<>> ELSE heap[b]]
                /\ released' = {p}
                /\ fixed' = fixed
           ELSE /\ fixed' = [fixed EXCEPT ![s] = fixed[t]]
                /\ released' = {}
                /\ UNCHANGED <<pointer, live, heap>>
      /\ UNCHANGED <<exists, size>>
  BY DEF Array!MoveAssign, Array!Refused, Array!Release
<1>2. Array!Value(s) \notin {Absent, Gone} /\ Array!Value(t) # Absent
  BY <1>1, ValueHeld
<1>3. Array!Values!HasValue(s) /\ vals[t] # Absent
  BY <1>2 DEF Array!Values!HasValue, vals
<1>4. CASE Array!OnHeap(s)
  <2>1. /\ size[s] > Array!FixedBits /\ fixed' = fixed
        /\ pointer[s] # null /\ pointer[s] \in Block /\ pointer[s] \in live
        /\ p \in Block \cup {null} /\ (p # null => p \in live)
    BY <1>1, <1>4 DEF Array!OnHeap, Array!Husk, ArrayInv, ArrayTypes, Owned
  <2>2. /\ pointer' = [pointer EXCEPT ![t] = null, ![s] = pointer[t]]
        /\ live' = live \ {p} /\ released' = {p}
        /\ heap' = [b \in Block |-> IF b = p THEN <<>> ELSE heap[b]]
    BY <1>1, <1>4
  <2>3. Array!NoDoubleFree
    BY <2>1, <2>2 DEF Array!NoDoubleFree
  <2>4. \A b \in Block : b # p => heap'[b] = heap[b]
    BY <2>2
  \* No array holds on to the block released.
  <2>5. \A u \in exists : pointer'[u] # null => pointer'[u] # p /\ pointer'[u] \in live
    BY <1>1, <2>1, <2>2 DEF ArrayInv, ArrayTypes, Owned
  <2>6. ArrayInv'
    <3>1. ArrayTypes'
      <4>1. heap' \in [Block -> Seq(Item)]
        <5>1. heap \in [Block -> Seq(Item)] /\ <<>> \in Seq(Item)
          BY DEF ArrayInv, ArrayTypes
        <5> QED BY <2>2, <5>1
      <4>2. released' \subseteq Block \cup {null} /\ live' \subseteq Block
        BY <2>1, <2>2 DEF ArrayInv, ArrayTypes
      <4> QED BY <1>1, <2>1, <2>2, <4>1, <4>2 DEF ArrayInv, ArrayTypes
    <3>2. (\A u \in Slot : OneMember(u))'
      BY <1>1, <2>1, <2>2 DEF ArrayInv, ArrayTypes, OneMember
    <3>3. (\A u, w \in exists : Owned(u, w))'
      <4>1. \A u, w \in exists : pointer'[u] # null /\ pointer'[w] = pointer'[u] => w = u
        BY <1>1, <2>1, <2>2 DEF ArrayInv, ArrayTypes, Owned
      <4> QED BY <1>1, <2>2, <2>5, <4>1 DEF Owned
    <3>4. (\A c \in live : \E u \in exists : pointer[u] = c)'
      <4> SUFFICES ASSUME NEW c \in live, c # p PROVE \E u \in exists : pointer'[u] = c
        BY <1>1, <2>2
      <4>1. PICK u \in exists : pointer[u] = c
        BY DEF ArrayInv
      <4>2. CASE u = t
        <5>1. pointer'[s] = pointer[t]
          BY <1>1, <2>2 DEF ArrayInv, ArrayTypes
        <5> QED BY <1>1, <4>1, <4>2, <5>1
      <4>3. CASE u # t
        <5>1. u # s
          BY <4>1, <4>3
        <5>2. pointer'[u] = pointer[u]
          BY <2>2, <4>3, <5>1 DEF ArrayInv, ArrayTypes
        <5> QED BY <4>1, <5>2
      <4> QED BY <4>2, <4>3
    <3>5. (\A u \in exists : Whole(u))'
      <4> SUFFICES ASSUME NEW u \in exists PROVE Whole(u)'
        BY <1>1
      <4>1. pointer'[u] # null => pointer'[u] \in Block /\ heap'[pointer'[u]] = heap[pointer'[u]]
        BY <2>4, <2>5 DEF ArrayInv, ArrayTypes
      <4>2. CASE u = s
        <5>1. pointer'[u] = pointer[t] /\ fixed'[u] = fixed[u] /\ size'[u] = size[t]
              /\ fixed'[u] = fixed[u] /\ size'[u] = size[u]
          BY <1>1, <2>1, <2>2, <4>2 DEF ArrayInv, ArrayTypes
        <5> QED BY <1>1, <4>1, <5>1 DEF ArrayInv, Whole
      <4>3. CASE u # s
        <5>1. /\ pointer'[u] = (IF u = t THEN null ELSE pointer[u])
              /\ fixed'[u] = fixed[u] /\ size'[u] = size[u]
          BY <1>1, <2>1, <2>2, <4>3 DEF ArrayInv, ArrayTypes
        <5> QED BY <4>1, <5>1 DEF ArrayInv, Whole
      <4> QED BY <4>2, <4>3
    <3>6. (\A u \in Slot \ exists : size[u] = 0 /\ fixed[u] = <<>>)'
      BY <1>1, <2>1 DEF ArrayInv
    <3> QED BY <3>1, <3>2, <3>3, <3>4, <3>5, <3>6 DEF ArrayInv
  <2>7. Array!Value(s)' = Array!Value(t)
    <3>1. pointer'[s] = pointer[t] /\ size[t] > Array!FixedBits
      BY <1>1, <2>1, <2>2 DEF ArrayInv, ArrayTypes
    <3>2. pointer[t] # null => heap'[pointer[t]] = heap[pointer[t]]
      BY <1>1, <2>4, <2>5, <3>1 DEF ArrayInv, ArrayTypes
    <3> QED BY <1>1, <2>1, <3>1, <3>2, HeldOnHeap
  <2>8. s # t => Array!Value(t)' = Gone
    BY <1>1, <2>1, <2>2, HeldOnHeap DEF ArrayInv, ArrayTypes
  <2>9. Others({s, t})
    <3> SUFFICES ASSUME NEW u \in Slot \ {s, t} PROVE Array!Value(u)' = Array!Value(u)
      BY DEF Others
    <3>1. pointer'[u] = pointer[u] /\ fixed'[u] = fixed[u] /\ size'[u] = size[u]
      BY <1>1, <2>1, <2>2 DEF ArrayInv, ArrayTypes
    <3>2. u \in exists /\ pointer[u] # null => heap'[pointer[u]] = heap[pointer[u]]
      BY <2>4, <2>5, <3>1 DEF ArrayInv, ArrayTypes
    <3> QED BY <1>1, <3>1, <3>2, SameValue
  <2>10. vals' = [vals EXCEPT ![t] = Gone, ![s] = vals[t]]
    BY <2>7, <2>8, <2>9 DEF vals, Others
  <2> QED BY <1>3, <2>3, <2>6, <2>10 DEF Array!Values!AssignTaking, vals
<1>5. CASE ~Array!OnHeap(s)
  <2>1. /\ ~(size[s] > Array!FixedBits) /\ fixed' = [fixed EXCEPT ![s] = fixed[t]]
        /\ released' = {} /\ UNCHANGED <<exists, size, pointer, live, heap>>
    BY <1>1, <1>5 DEF Array!OnHeap
  <2>2. Array!NoDoubleFree
    BY <2>1 DEF Array!NoDoubleFree
  <2>3. ArrayInv'
    <3>1. ArrayTypes'
      BY <1>1, <2>1 DEF ArrayInv, ArrayTypes
    <3>2. (\A u \in Slot : OneMember(u))'
      BY <1>1, <2>1 DEF ArrayInv, ArrayTypes, OneMember
    <3>3. (\A u, w \in exists : Owned(u, w))'
      BY <2>1 DEF ArrayInv, Owned
    <3>4. (\A c \in live : \E u \in exists : pointer[u] = c)'
      BY <2>1 DEF ArrayInv
    <3>5. (\A u \in exists : Whole(u))'
      BY <1>1, <2>1 DEF ArrayInv, ArrayTypes, Whole
    <3>6. (\A u \in Slot \ exists : size[u] = 0 /\ fixed[u] = <<>>)'
      BY <1>1, <2>1 DEF ArrayInv, ArrayTypes
    <3> QED BY <3>1, <3>2, <3>3, <3>4, <3>5, <3>6 DEF ArrayInv
  <2>4. Array!Value(s)' = Array!Value(t)
    BY <1>1, <2>1, HeldOnHeap DEF ArrayInv, ArrayTypes
  <2>5. Others({s})
    <3> SUFFICES ASSUME NEW u \in Slot \ {s} PROVE Array!Value(u)' = Array!Value(u)
      BY DEF Others
    <3> QED BY <1>1, <2>1, SameValue DEF ArrayInv, ArrayTypes
  <2>6. vals' = [vals EXCEPT ![t] = vals[t], ![s] = vals[t]]
    BY <2>4, <2>5 DEF vals, Others
  <2> QED BY <1>3, <2>2, <2>3, <2>6 DEF Array!Values!AssignTaking, vals
<1> QED BY <1>4, <1>5

LEMMA WriteArrayStep ==
  ASSUME ArrayInv, NEW s \in Slot, Array!Write(s)
  PROVE  ArrayInv' /\ Array!NoDoubleFree /\ Array!Values!Set(s)
<1> DEFINE n == Array!Words(size[s])
<1>1. s \in exists /\ ~Array!Husk(s) /\ released' = {} /\ UNCHANGED <<exists, size, pointer, live>>
  BY DEF Array!Write
<1>2. PICK i \in 1 .. n, x \in Item :
        IF Array!OnHeap(s)
          THEN heap' = [heap EXCEPT ![pointer[s]] = [@ EXCEPT ![i] = x]] /\ fixed' = fixed
          ELSE fixed' = [fixed EXCEPT ![s] = [@ EXCEPT ![i] = x]] /\ heap' = heap
  BY DEF Array!Write
<1> DEFINE c == Array!Contents(s)
           v == [c EXCEPT ![i] = x]
<1>3. Array!Value(s) = c /\ c \in Seq(Item) /\ Len(c) = n /\ Array!Value(s) \notin {Absent, Gone}
  BY <1>1, ValueHeld
<1> HIDE DEF c
<1>4. v \in Seq(Item) /\ Len(v) = n /\ DOMAIN c = 1 .. n
  BY <1>3
<1> HIDE DEF v
<1>5. Array!NoDoubleFree
  BY <1>1 DEF Array!NoDoubleFree
<1>6. ArrayInv' /\ Array!Value(s)' = v /\ Others({s})
  <2>1. CASE Array!OnHeap(s)
    <3>1. /\ size[s] > Array!FixedBits /\ pointer[s] # null /\ pointer[s] \in Block
          /\ heap' = [heap EXCEPT ![pointer[s]] = v] /\ fixed' = fixed
      BY <1>1, <1>2, <2>1
         DEF Array!OnHeap, Array!Husk, Array!Contents, ArrayInv, ArrayTypes, c, v
    <3>2. ArrayInv'
      <4>1. ArrayTypes'
        BY <1>1, <1>4, <3>1 DEF ArrayInv, ArrayTypes
      <4>2. (\A u \in Slot : OneMember(u))'
        BY <1>1, <3>1 DEF ArrayInv, OneMember, Array!FixedBits
      <4>3. (\A u, w \in exists : Owned(u, w))'
        BY <1>1 DEF ArrayInv, Owned
      <4>4. (\A b \in live : \E u \in exists : pointer[u] = b)'
        BY <1>1 DEF ArrayInv
      <4>5. (\A u \in exists : Whole(u))'
        <5> SUFFICES ASSUME NEW u \in exists PROVE Whole(u)'
          BY <1>1
        <5>1. CASE u = s
          BY <1>1, <1>4, <3>1, <5>1 DEF ArrayInv, ArrayTypes, Whole
        <5>2. CASE u # s
          <6>1. pointer[u] # null => heap'[pointer[u]] = heap[pointer[u]]
            BY <1>1, <3>1, <5>2 DEF ArrayInv, ArrayTypes, Owned
          <6> QED BY <1>1, <3>1, <6>1 DEF ArrayInv, Whole
        <5> QED BY <5>1, <5>2
      <4>6. (\A u \in Slot \ exists : size[u] = 0 /\ fixed[u] = <<>>)'
        BY <1>1, <3>1 DEF ArrayInv
      <4> QED BY <4>1, <4>2, <4>3, <4>4, <4>5, <4>6 DEF ArrayInv
    <3>3. Array!Value(s)' = v
      BY <1>1, <3>1, HeldOnHeap DEF ArrayInv, ArrayTypes
    <3>4. Others({s})
      <4> SUFFICES ASSUME NEW u \in Slot \ {s} PROVE Array!Value(u)' = Array!Value(u)
        BY DEF Others
      <4>1. u \in exists /\ pointer[u] # null => heap'[pointer[u]] = heap[pointer[u]]
        BY <1>1, <3>1 DEF ArrayInv, ArrayTypes, Owned
      <4> QED BY <1>1, <3>1, <4>1, SameValue
    <3> QED BY <3>2, <3>3, <3>4
  <2>2. CASE ~Array!OnHeap(s)
    <3>1. /\ ~(size[s] > Array!FixedBits) /\ fixed' = [fixed EXCEPT ![s] = v] /\ heap' = heap
      BY <1>1, <1>2, <2>2 DEF Array!OnHeap, Array!Contents, ArrayInv, ArrayTypes, c, v
    <3>2. ArrayInv'
      <4>1. ArrayTypes'
        BY <1>1, <1>4, <3>1 DEF ArrayInv, ArrayTypes
      <4>2. (\A u \in Slot : OneMember(u))'
        BY <1>1, <3>1 DEF ArrayInv, ArrayTypes, OneMember
      <4>3. (\A u, w \in exists : Owned(u, w))'
        BY <1>1 DEF ArrayInv, Owned
      <4>4. (\A b \in live : \E u \in exists : pointer[u] = b)'
        BY <1>1 DEF ArrayInv
      <4>5. (\A u \in exists : Whole(u))'
        BY <1>1, <1>4, <3>1 DEF ArrayInv, ArrayTypes, Whole
      <4>6. (\A u \in Slot \ exists : size[u] = 0 /\ fixed[u] = <<>>)'
        BY <1>1, <3>1 DEF ArrayInv, ArrayTypes
      <4> QED BY <4>1, <4>2, <4>3, <4>4, <4>5, <4>6 DEF ArrayInv
    <3>3. Array!Value(s)' = v
      BY <1>1, <3>1, HeldOnHeap DEF ArrayInv, ArrayTypes
    <3>4. Others({s})
      <4> SUFFICES ASSUME NEW u \in Slot \ {s} PROVE Array!Value(u)' = Array!Value(u)
        BY DEF Others
      <4> QED BY <1>1, <3>1, SameValue DEF ArrayInv, ArrayTypes
    <3> QED BY <3>2, <3>3, <3>4
  <2> QED BY <2>1, <2>2
<1>7. vals' = [vals EXCEPT ![s] = v] /\ vals[s] = c
  BY <1>3, <1>6, OneValue DEF vals
<1>8. vals' = [vals EXCEPT ![s] = [@ EXCEPT ![i] = x]]
  BY <1>7 DEF v
<1>9. Array!Values!HasValue(s) /\ i \in DOMAIN vals[s]
  BY <1>3, <1>4, <1>7 DEF Array!Values!HasValue, vals
<1> QED BY <1>5, <1>6, <1>8, <1>9 DEF Array!Values!Set, vals

\* A step of the arrays keeps the invariant, and is a step of their values or
\* leaves them as they are.
LEMMA ArrayNext ==
  ASSUME ArrayInv, Array!Next
  PROVE  ArrayInv' /\ Array!NoDoubleFree /\ (Array!Values!Next \/ vals' = vals)
<1>1. CASE \E s \in Slot : Array!Construct(s) \/ Array!Destroy(s) \/ Array!Write(s)
  BY <1>1, ConstructStep, DestroyStep, WriteArrayStep DEF Array!Values!Next
<1>2. CASE \E s, t \in Slot :
             \/ Array!CopyConstruct(s, t) \/ Array!MoveConstruct(s, t) \/ Array!AssignThrows(s, t)
             \/ Array!CopyAssign(s, t) \/ Array!MoveAssign(s, t) \/ Array!Swap(s, t)
  BY <1>2, CopyConstructStep, MoveConstructStep, AssignThrowsStep, CopyAssignStep,
     MoveAssignArrayStep, SwapStep DEF Array!Values!Next
<1> QED BY <1>1, <1>2 DEF Array!Next

LEMMA ArrayStutter ==
  ASSUME ArrayInv, UNCHANGED array_vars
  PROVE  ArrayInv' /\ vals' = vals
<1>1. UNCHANGED <<exists, size, pointer, fixed, live, heap, released>>
  BY DEF array_vars
<1>2. ArrayInv'
  BY <1>1 DEF ArrayInv, ArrayTypes, OneMember, Owned, Whole, Array!FixedBits, Array!Words
<1>3. \A u \in Slot : Array!Value(u)' = Array!Value(u)
  BY <1>1, SameValue
<1> QED BY <1>2, <1>3 DEF vals

----------------------------------------------------------------------------
(* The theorems.                                                           *)

\* The container that is not picked stays as it begins.
IInv == VectorInv /\ ArrayInv /\ (container = "vector" => released = {})

LEMMA InitIInv == Init => IInv
BY InitVector, InitArray DEF Init, IInv, Array!Init

LEMMA NextIInv == IInv /\ [Next]_vars => IInv'
<1> SUFFICES ASSUME IInv, [Next]_vars PROVE IInv'
  OBVIOUS
<1>1. CASE UNCHANGED container /\ container = "vector" /\ Vector!Next /\ UNCHANGED array_vars
  BY <1>1, VectorNext, ArrayStutter DEF IInv, array_vars
<1>2. CASE UNCHANGED container /\ container = "dyn_array" /\ Array!Next /\ UNCHANGED vector_vars
  BY <1>2, ArrayNext, VectorStutter DEF IInv
<1>3. CASE UNCHANGED vars
  BY <1>3, ArrayStutter, VectorStutter DEF IInv, vars, array_vars
<1> QED BY <1>1, <1>2, <1>3 DEF Next

\* The invariant the others follow from holds of every run of the containers.
THEOREM Inductive == Spec => []IInv
BY InitIInv, NextIInv, PTL DEF Spec

LEMMA IInvImplies == IInv => TypeOK /\ WordsFit /\ Array!Exclusive /\ Array!NoLeak /\ Array!Fits
<1> SUFFICES ASSUME IInv
             PROVE  TypeOK /\ WordsFit /\ Array!Exclusive /\ Array!NoLeak /\ Array!Fits
  OBVIOUS
<1>1. Array!TypeOK /\ Array!Exclusive /\ Array!NoLeak /\ Array!Fits
  BY ArrayInvImplies DEF IInv
<1>2. Vector!TypeOK
  BY DEF IInv, VectorInv
<1>3. Vector!WordsFit
  BY VectorFacts, WordsFitTight DEF IInv, VectorInv
<1> QED BY <1>1, <1>2, <1>3 DEF TypeOK, WordsFit

\* The containers keep their types, and an array uses the member of its union
\* that its size selects (bit_vector.hpp, bit_array_dynamic_extent.hpp).
THEOREM TypeCorrect == Spec => []TypeOK
BY Inductive, IInvImplies, PTL

\* The words of a bit_vector hold its contents and are those they take, whatever
\* was inserted, erased and resized before (bit_vector.hpp).
THEOREM WordsHoldContents == Spec => []WordsFit
BY Inductive, IInvImplies, PTL

\* The contents of a bit_vector change as those of std::vector<bool>: every call
\* of bit_vector.hpp is the call of the abstract vector it records.
THEOREM VectorRefines == Spec => VectorSpec
<1>1. Init => Vector!Abstract!Init
  BY InitVector DEF Init
<1>2. IInv /\ [Next]_vars => [Vector!Abstract!Next]_<<Vector!contents, call>>
  <2> SUFFICES ASSUME IInv, [Next]_vars
               PROVE  Vector!Abstract!Next \/ UNCHANGED <<Vector!contents, call>>
    OBVIOUS
  <2>1. CASE container = "vector" /\ Vector!Next
    BY <2>1, VectorNext DEF IInv
  <2>2. CASE UNCHANGED vector_vars
    BY <2>2, VectorStutter DEF IInv
  <2> QED BY <2>1, <2>2 DEF Next, vars, vector_vars
<1> QED BY <1>1, <1>2, Inductive, PTL
        DEF Spec, VectorSpec, Vector!VectorSpec, Vector!Abstract!Spec, Vector!Abstract!vars

\* Every block the arrays allocate is owned by one of them, is as long as that
\* one's size() takes, and is released once
\* (bit_array_dynamic_extent.hpp: constructors, moves, assignments, destructor).
THEOREM BlocksOwned == Spec => Ownership
<1>1. IInv /\ IInv' /\ [Next]_vars =>
        [Array!Exclusive' /\ Array!NoLeak' /\ Array!Fits' /\ Array!NoDoubleFree]_vars
  <2> SUFFICES ASSUME IInv, IInv', Next
               PROVE  Array!Exclusive' /\ Array!NoLeak' /\ Array!Fits' /\ Array!NoDoubleFree
    OBVIOUS
  <2>1. (IInv => Array!Exclusive /\ Array!NoLeak /\ Array!Fits)'
    BY IInvImplies, PTL
  <2>2. Array!Exclusive' /\ Array!NoLeak' /\ Array!Fits'
    BY <2>1
  <2>3. CASE container = "vector" /\ UNCHANGED array_vars
    BY <2>2, <2>3 DEF IInv, array_vars, Array!NoDoubleFree
  <2>4. CASE Array!Next
    BY <2>2, <2>4, ArrayNext DEF IInv
  <2> QED BY <2>3, <2>4 DEF Next
<1> QED BY <1>1, Inductive, PTL DEF Spec, Ownership

\* The arrays behave as values: no call changes the value of an array it does not
\* name, and what is copied or moved arrives whole
\* (bit_array_dynamic_extent.hpp).
THEOREM ArraysAreValues == Spec => ValueSemantics
<1>1. Init => Array!Values!Init
  BY InitArray DEF Init
<1>2. IInv /\ [Next]_vars => [Array!Values!Next]_[s \in Slot |-> Array!Value(s)]
  <2> SUFFICES ASSUME IInv, [Next]_vars PROVE Array!Values!Next \/ UNCHANGED vals
    BY DEF vals
  <2>1. CASE Array!Next
    BY <2>1, ArrayNext DEF IInv
  <2>2. CASE UNCHANGED array_vars
    BY <2>2, ArrayStutter DEF IInv
  <2> QED BY <2>1, <2>2 DEF Next, vars
<1> QED BY <1>1, <1>2, Inductive, PTL
        DEF Spec, ValueSemantics, Array!ValueSemantics, Array!Values!Spec
=============================================================================
