-------------------------- MODULE BitCopyTheorems --------------------------
(***************************************************************************)
(* BitCopy is correct for every word width, every memory size and every    *)
(* contents: the invariants its run checks, and the refinement of          *)
(* SequenceMove.  The argument is the inductive invariant IInv: at every   *)
(* control point the memory is the initial one with the first Copied bits  *)
(* of the destination replaced (Image), and the locals first and it point  *)
(* where Copied says they do.                                              *)
(***************************************************************************)
EXTENDS BitCopy, BitWordTheorems

\* The memory once the first k bits have been copied.
Image(k) ==
  [a \in Addr |-> IF dst <= a /\ a < dst + k THEN orig[src + (a - dst)] ELSE orig[a]]

\* The arguments satisfy the preconditions of the call.
ArgsOK ==
  /\ orig \in [Addr -> Bit]
  /\ src \in Nat /\ dst \in Nat /\ len \in Nat
  /\ src + len <= MemBits /\ dst + len <= MemBits
  /\ dst <= src \/ src + len <= dst

\* Where the locals point at each control point.
LocalsOK ==
  /\ remaining \in 0 .. len /\ first \in Nat /\ it \in Int
  /\ pc \in {"start", "align", "body", "bulk", "loop", "tail", "done"}
  /\ pc # "done" => first = src + Copied
  /\ pc \in {"start", "align"} => remaining = len /\ it = Base(dst)
  /\ pc = "align" => len > 0
  /\ pc \in {"body", "bulk", "loop", "tail"} /\ remaining > 0 =>
       it = dst + Copied /\ Pos(it) = 0
  /\ pc = "bulk" => Pos(first) = 0 /\ first <= Base(last)
  /\ pc = "tail" => 0 < remaining /\ remaining < W
  /\ pc = "done" => remaining = 0

MemoryOK == mem = Image(Copied)

GhostsOK == used \in SUBSET Int /\ shifts \in SUBSET Int

IInv == ArgsOK /\ LocalsOK /\ MemoryOK /\ GhostsOK /\ AccessInRange /\ ShiftsDefined

-----------------------------------------------------------------------------
(* The memory.                                                             *)

\* An image is a memory: every bit it takes from the source exists.
LEMMA ImageType ==
  ASSUME ArgsOK, NEW k \in 0 .. len
  PROVE  Image(k) \in [Addr -> Bit]
  <1>1. ASSUME NEW a \in Addr, dst <= a, a < dst + k
        PROVE  src + (a - dst) \in Addr
    BY <1>1, Widths DEF ArgsOK
  <1> QED BY <1>1 DEF Image, ArgsOK

\* The source bits not yet copied are still those of the call. This is where
\* the precondition on overlapping ranges is needed.
LEMMA ImageSource ==
  ASSUME ArgsOK, NEW k \in 0 .. len, NEW i \in k .. (len - 1)
  PROVE  src + i \in Addr /\ Image(k)[src + i] = orig[src + i]
  <1>1. src + i \in Addr
    BY Widths DEF ArgsOK
  <1>2. ~(dst <= src + i /\ src + i < dst + k)
    BY DEF ArgsOK
  <1> QED BY <1>1, <1>2 DEF Image

\* Writing the next n bits turns the image of k bits into that of k + n.
LEMMA ImageAdvance ==
  ASSUME ArgsOK, NEW k \in 0 .. len, NEW n \in Nat, k + n <= len, NEW m,
         DOMAIN m = Addr, m = [a \in Addr |-> m[a]],
         \A a \in Addr : m[a] = IF dst + k <= a /\ a < dst + k + n
                                  THEN Image(k)[src + k + (a - (dst + k))]
                                  ELSE Image(k)[a]
  PROVE  m = Image(k + n)
  <1>1. ASSUME NEW a \in Addr
        PROVE  m[a] = Image(k + n)[a]
    <2>1. a \in Int /\ src \in Int /\ dst \in Int /\ len \in Int /\ k \in Int /\ n \in Int /\ 0 <= k
      BY Widths DEF ArgsOK
    <2>2. Image(k + n)[a] = IF dst <= a /\ a < dst + (k + n) THEN orig[src + (a - dst)] ELSE orig[a]
      BY DEF Image
    <2>3. Image(k)[a] = IF dst <= a /\ a < dst + k THEN orig[src + (a - dst)] ELSE orig[a]
      BY DEF Image
    <2>4. CASE dst + k <= a /\ a < dst + k + n
      <3>1. (a - dst) \in k .. (len - 1)
        BY <2>1, <2>4
      <3>2. Image(k)[src + (a - dst)] = orig[src + (a - dst)]
        BY <3>1, ImageSource
      <3>3. src + k + (a - (dst + k)) = src + (a - dst)
        BY <2>1
      <3>4. dst <= a /\ a < dst + (k + n)
        BY <2>1, <2>4
      <3> QED BY <2>2, <2>4, <3>2, <3>3, <3>4
    <2>5. CASE ~(dst + k <= a /\ a < dst + k + n)
      <3>1. (dst <= a /\ a < dst + (k + n)) <=> (dst <= a /\ a < dst + k)
        BY <2>1, <2>5
      <3> QED BY <2>2, <2>3, <2>5, <3>1
    <2> QED BY <2>4, <2>5
  <1>2. Image(k + n) = [a \in Addr |-> Image(k + n)[a]]
    BY DEF Image
  <1> QED BY <1>1, <1>2

\* A read-modify-write that puts the n bits at first = src + k where the next
\* n destination bits are, in one word, turns the image of k bits into that of
\* k + n. Align, LoopWord and TailWord are instances of it.
LEMMA BlendAdvance ==
  ASSUME ArgsOK, NEW k \in 0 .. len, NEW n \in 1 .. W, k + n <= len,
         NEW b \in Int, NEW start \in Nat, b + start = dst + k, start + n <= W,
         NEW w,
         \A i \in 0 .. (n - 1) : w[start + i] = GetWord(Image(k), src + k, n)[i]
  PROVE  Store(Image(k), b, BitBlend(Load(Image(k), b), w, start, n)) = Image(k + n)
  <1> DEFINE m == Store(Image(k), b, BitBlend(Load(Image(k), b), w, start, n))
  <1>0. DOMAIN Image(k) = Addr /\ Addr \subseteq Int /\ n \in Nat /\ n \in 0 .. W
        /\ src \in Int /\ dst \in Int /\ k \in Int /\ src + k \in Nat /\ W \in Int
    BY Widths DEF Image, ArgsOK
  <1>1. DOMAIN m = Addr /\ m = [a \in Addr |-> m[a]]
    BY <1>0 DEF Store
  <1>2. ASSUME NEW a \in Addr
        PROVE  m[a] = IF dst + k <= a /\ a < dst + k + n
                        THEN Image(k)[src + k + (a - (dst + k))]
                        ELSE Image(k)[a]
    <2>0. a \in DOMAIN Image(k) /\ a \in Int /\ n \in Nat /\ start + n <= W
      BY <1>0
    <2>1. CASE dst + k <= a /\ a < dst + k + n
      <3> DEFINE i == a - (dst + k)
      <3>1. i \in 0 .. (n - 1) /\ a - b = start + i /\ b + start <= a /\ a < b + start + n
        BY <1>0, <2>0, <2>1
      <3>2. m[a] = w[a - b]
        BY <2>0, <3>1, StoreBlendIn
      <3>3. w[a - b] = GetWord(Image(k), src + k, n)[i]
        BY <3>1
      <3>4. GetWord(Image(k), src + k, n)[i] = Image(k)[src + k + i]
        BY <1>0, <3>1, GetWordBit
      <3> QED BY <2>1, <3>2, <3>3, <3>4
    <2>2. CASE ~(dst + k <= a /\ a < dst + k + n)
      <3>1. ~(b + start <= a /\ a < b + start + n)
        BY <2>2
      <3>2. m[a] = Image(k)[a]
        BY <2>0, <3>1, StoreBlendOut
      <3> QED BY <2>2, <3>2
    <2> QED BY <2>1, <2>2
  <1> HIDE DEF m
  <1>3. m = Image(k + n)
    BY <1>0, <1>1, <1>2, ImageAdvance
  <1> QED BY <1>3 DEF m

\* The same for a store of a whole word w. BulkWord and LoopWord are instances.
LEMMA StoreAdvance ==
  ASSUME ArgsOK, NEW k \in 0 .. len, k + W <= len, NEW w,
         \A i \in BitPos : w[i] = Image(k)[src + k + i]
  PROVE  Store(Image(k), dst + k, w) = Image(k + W)
  <1> DEFINE m == Store(Image(k), dst + k, w)
  <1>0. DOMAIN Image(k) = Addr /\ Addr \subseteq Int
        /\ src \in Int /\ dst \in Int /\ k \in Int /\ W \in Int /\ W \in Nat
    BY Widths DEF Image, ArgsOK
  <1>1. DOMAIN m = Addr /\ m = [a \in Addr |-> m[a]]
    BY <1>0 DEF Store
  <1>2. ASSUME NEW a \in Addr
        PROVE  m[a] = IF dst + k <= a /\ a < dst + k + W
                        THEN Image(k)[src + k + (a - (dst + k))]
                        ELSE Image(k)[a]
    <2>0. a \in DOMAIN Image(k) /\ dst + k \in Int
      BY <1>0
    <2>1. m[a] = IF dst + k <= a /\ a < dst + k + W THEN w[a - (dst + k)] ELSE Image(k)[a]
      BY <2>0, StoreBit
    <2>2. CASE dst + k <= a /\ a < dst + k + W
      <3>1. a - (dst + k) \in BitPos
        BY <1>0, <2>2 DEF BitPos
      <3> QED BY <2>1, <2>2, <3>1
    <2>3. CASE ~(dst + k <= a /\ a < dst + k + W)
      BY <2>1, <2>3
    <2> QED BY <2>2, <2>3
  <1> HIDE DEF m
  <1>3. m = Image(k + W)
    BY <1>0, <1>1, <1>2, ImageAdvance
  <1> QED BY <1>3 DEF m
-----------------------------------------------------------------------------
(* The inductive invariant.                                                *)

\* Before the first step nothing has been copied.
LEMMA InitIInv == Init => IInv
  <1> SUFFICES ASSUME Init PROVE IInv
    OBVIOUS
  <1>1. ArgsOK
    BY Widths DEF Init, ArgsOK
  <1>2. dst \in Int /\ Base(dst) \in Int
    BY <1>1, PosRange DEF ArgsOK
  <1>3. LocalsOK
    BY <1>1, <1>2 DEF Init, LocalsOK, Copied, ArgsOK
  <1>4. MemoryOK
    <2>1. Copied = 0
      BY <1>1 DEF Init, Copied, ArgsOK
    <2>2. \A a \in Addr : a \in Int
      BY Widths
    <2>3. Image(0) = [a \in Addr |-> orig[a]]
      BY <1>1, <2>2 DEF Image, ArgsOK
    <2> QED BY <1>1, <2>1, <2>3 DEF Init, MemoryOK, ArgsOK
  <1> QED BY <1>1, <1>3, <1>4 DEF Init, IInv, GhostsOK, AccessInRange, ShiftsDefined

\* The words a get_word of the copy dereferences hold source bits.
LEMMA SourceAccess ==
  ASSUME ArgsOK, NEW k \in Nat, NEW n \in 1 .. W, k + n <= len
  PROVE  /\ \A b \in GetWordLoads(src + k, n) : b \in Int /\ b < src + len /\ src < b + W
         /\ \A i \in GetWordShifts(src + k, n) : i \in Int /\ ShiftDefined(i)
  <1>1. /\ src + k \in Nat /\ src \in Nat /\ len \in Nat /\ W \in Nat /\ n \in Int
    BY Widths DEF ArgsOK
  <1>2. /\ \A b \in GetWordLoads(src + k, n) : b \in Int /\ b < (src + k) + n /\ src + k < b + W
        /\ \A i \in GetWordShifts(src + k, n) : i \in Int /\ ShiftDefined(i)
    BY <1>1, GetWordAccess
  <1> QED BY <1>1, <1>2

\* Every step of the copy keeps the invariant.
LEMMA NextIInv == IInv /\ [Next]_vars => IInv'
  <1> SUFFICES ASSUME IInv, [Next]_vars PROVE IInv'
    OBVIOUS
  <1> USE Widths
  <1>0. /\ ArgsOK /\ LocalsOK /\ MemoryOK /\ GhostsOK /\ AccessInRange /\ ShiftsDefined
        /\ src \in Nat /\ dst \in Nat /\ len \in Nat
        /\ remaining \in 0 .. len /\ first \in Nat /\ it \in Int
        /\ Copied \in 0 .. len /\ Copied = len - remaining /\ last = src + len
        /\ mem = Image(Copied)
    BY DEF IInv, ArgsOK, LocalsOK, MemoryOK, Copied, last
  <1>a. ASSUME UNCHANGED Call PROVE ArgsOK'
    BY <1>0, <1>a DEF ArgsOK, Call, MemBits, Addr
  <1>b. ASSUME UNCHANGED Call, NEW k \in 0 .. len PROVE Image(k)' = Image(k)
    BY <1>b DEF Image, Call, Addr, MemBits
  <1>c. ASSUME used' = {}, shifts' = {} PROVE GhostsOK' /\ AccessInRange' /\ ShiftsDefined'
    BY <1>c DEF GhostsOK, AccessInRange, ShiftsDefined
  <1>d. ASSUME UNCHANGED <<mem, Call, remaining>> PROVE MemoryOK'
    BY <1>0, <1>b, <1>d DEF MemoryOK, Copied, Call
  <1>1. CASE Start
    <2>1. LocalsOK'
      <3> USE <1>0, <1>1 DEF Start, LocalsOK, Call, Copied
      <3>1. CASE len = 0
        BY <3>1
      <3>2. CASE len # 0 /\ Pos(dst) # 0
        BY <3>2
      <3>3. CASE len # 0 /\ Pos(dst) = 0
        <4>1. Base(dst) = dst
          BY <3>3 DEF Base
        <4> QED BY <3>3, <4>1
      <3> QED BY <3>1, <3>2, <3>3
    <2> QED BY <1>1, <1>a, <1>c, <1>d, <2>1 DEF Start, IInv
  <1>2. CASE Align
    <2> DEFINE n    == PartialBits
               word == Lsl(GetWord(mem, first, n), Pos(dst))
    <2>1. Pos(dst) \in Nat /\ Pos(dst) < W /\ Base(dst) \in Int /\ Base(dst) + Pos(dst) = dst
      <3>1. dst \in Int
        BY <1>0
      <3>2. Pos(dst) \in BitPos /\ Base(dst) \in Int
        BY <3>1, PosRange
      <3> QED BY <1>0, <3>2 DEF BitPos, Base
    <2>2. pc = "align" /\ Copied = 0 /\ first = src /\ remaining = len /\ len > 0 /\ it = Base(dst)
      BY <1>0, <1>2 DEF Align, LocalsOK
    <2>3. n \in 1 .. W /\ n <= len /\ Pos(dst) + n <= W /\ (n < len => Pos(dst) + n = W)
      BY <1>0, <2>1, <2>2 DEF PartialBits, Least
    <2>4. ASSUME NEW i \in 0 .. (n - 1)
          PROVE  word[Pos(dst) + i] = GetWord(mem, first, n)[i]
      <3>1. Pos(dst) + i \in BitPos /\ Pos(dst) <= Pos(dst) + i /\ (Pos(dst) + i) - Pos(dst) = i
        BY <2>1, <2>3 DEF BitPos
      <3> QED BY <3>1, LslBit
    <2>5. mem' = Store(mem, it, BitBlend(Load(mem, it), word, Pos(dst), n))
          /\ UNCHANGED Call /\ remaining' = remaining - n /\ first' = first + n
          /\ it' = it + W /\ pc' = "body"
          /\ used' = GetWordLoads(first, n) \cup {it}
          /\ shifts' = GetWordShifts(first, n) \cup {Pos(dst)}
      BY <1>2 DEF Align
    <2> HIDE DEF n, word
    <2>6. mem' = Image(n)
      <3>1. /\ 0 \in 0 .. len /\ 0 + n <= len /\ it + Pos(dst) = dst + 0
            /\ src + 0 = first /\ mem = Image(0) /\ Pos(dst) \in Nat /\ it \in Int
            /\ n \in 1 .. W /\ Pos(dst) + n <= W /\ ArgsOK
        BY <1>0, <2>1, <2>2, <2>3
      <3>a. \A i \in 0 .. (n - 1) : word[Pos(dst) + i] = GetWord(Image(0), src + 0, n)[i]
        BY <2>4, <3>1
      <3>2. Store(Image(0), it, BitBlend(Load(Image(0), it), word, Pos(dst), n)) = Image(0 + n)
        BY <3>1, <3>a, BlendAdvance, Zenon
      <3> QED BY <2>3, <2>5, <3>1, <3>2
    <2>7. Copied' = n
      BY <1>0, <2>2, <2>3, <2>5 DEF Copied, Call
    <2>8. MemoryOK'
      BY <1>0, <1>b, <2>3, <2>5, <2>6, <2>7 DEF MemoryOK
    <2>9. LocalsOK'
      <3>1. remaining' > 0 => it' = dst + n /\ Pos(it') = 0
        <4> HAVE remaining' > 0
        <4>1. it' = dst + n /\ it' = Base(dst) + W
          BY <1>0, <2>1, <2>2, <2>3, <2>5
        <4>2. Pos(Base(dst)) = 0
          BY <1>0, BaseAligned
        <4>3. Pos(Base(dst) + W) = Pos(Base(dst))
          BY <2>1, AlignedStep
        <4> QED BY <4>1, <4>2, <4>3
      <3> QED BY <1>0, <2>2, <2>3, <2>5, <2>7, <3>1 DEF LocalsOK, Call
    <2>10. GhostsOK' /\ AccessInRange' /\ ShiftsDefined'
      <3>1. /\ \A b \in GetWordLoads(first, n) : b \in Int /\ b < src + len /\ src < b + W
            /\ \A i \in GetWordShifts(first, n) : i \in Int /\ ShiftDefined(i)
        <4>1. src + 0 = first
          BY <1>0, <2>2
        <4> QED BY <1>0, <2>2, <2>3, <4>1, SourceAccess
      <3>2. it < dst + len /\ dst < it + W /\ it \in Int
        BY <1>0, <2>1, <2>2
      <3>3. ShiftDefined(Pos(dst)) /\ Pos(dst) \in Int
        BY <2>1 DEF ShiftDefined
      <3> QED BY <2>5, <3>1, <3>2, <3>3 DEF GhostsOK, AccessInRange, Holds, ShiftsDefined, Call
    <2> QED BY <1>a, <2>5, <2>8, <2>9, <2>10 DEF IInv
  <1>3. CASE Body
    <2>1. LocalsOK'
      <3> USE <1>0, <1>3 DEF Body, LocalsOK, Call, Copied
      <3>1. CASE remaining = 0
        BY <3>1
      <3>2. CASE remaining # 0 /\ Pos(first) = 0 /\ remaining > W
        <4>1. first <= Base(last)
          <5>1. last \in Int /\ first < last
            BY <3>2 DEF last
          <5>2. first = Base(last) \/ first + W <= Base(last)
            BY <3>2, <5>1, AlignedGap
          <5>3. Base(last) \in Int
            BY <5>1, PosRange
          <5> QED BY <5>2, <5>3
        <4>2. Base(last)' = Base(last)
          BY DEF last, Base, Pos
        <4> QED BY <3>2, <4>1, <4>2
      <3>3. CASE remaining # 0 /\ ~(Pos(first) = 0 /\ remaining > W)
        BY <3>3
      <3> QED BY <3>1, <3>2, <3>3
    <2> QED BY <1>3, <1>a, <1>c, <1>d, <2>1 DEF Body, IInv
  <1>4. CASE BulkWord
    <2>1. pc = "bulk" /\ Pos(first) = 0 /\ first < Base(last) /\ Base(last) \in Int /\ last \in Int
          /\ Base(last) <= last /\ first = src + Copied
      <3>1. last \in Int
        BY <1>0
      <3>2. Base(last) \in Int /\ Base(last) <= last
        BY <3>1, PosRange
      <3> QED BY <1>0, <1>4, <3>1, <3>2 DEF BulkWord, LocalsOK
    <2>2. first + W <= Base(last)
      <3>1. first < last
        BY <1>0, <2>1
      <3>2. first = Base(last) \/ first + W <= Base(last)
        BY <1>0, <2>1, <3>1, AlignedGap
      <3> QED BY <1>0, <2>1, <3>2
    <2>3. Copied + W <= len /\ remaining > 0 /\ it = dst + Copied /\ Pos(it) = 0 /\ remaining - W \in 0 .. len
      BY <1>0, <2>1, <2>2 DEF LocalsOK
    <2>4. mem' = Store(mem, it, Load(mem, first))
          /\ UNCHANGED Call /\ remaining' = remaining - W /\ first' = first + W
          /\ it' = it + W /\ pc' = pc /\ used' = {first, it} /\ shifts' = {}
      BY <1>4 DEF BulkWord
    <2>5. mem' = Image(Copied + W)
      <3>1. \A i \in BitPos : Load(mem, first)[i] = Image(Copied)[src + Copied + i]
        BY <1>0, <2>1, LoadBit
      <3> QED BY <1>0, <2>3, <2>4, <3>1, StoreAdvance
    <2>6. Copied' = Copied + W
      BY <1>0, <2>4 DEF Copied, Call
    <2>7. MemoryOK'
      BY <1>0, <1>b, <2>3, <2>4, <2>5, <2>6 DEF MemoryOK
    <2>8. LocalsOK'
      <3>1. Pos(it + W) = 0 /\ Pos(first + W) = 0
        BY <1>0, <2>1, <2>3, AlignedStep
      <3>2. Base(last)' = Base(last)
        BY <2>4 DEF last, Base, Pos, Call
      <3> QED BY <1>0, <2>1, <2>2, <2>3, <2>4, <2>6, <3>1, <3>2 DEF LocalsOK, Call
    <2>9. GhostsOK' /\ AccessInRange' /\ ShiftsDefined'
      <3>1. it < dst + len /\ dst < it + W /\ first < src + len /\ src < first + W
        BY <1>0, <2>1, <2>3
      <3> QED BY <1>0, <2>4, <3>1 DEF GhostsOK, AccessInRange, Holds, ShiftsDefined, Call
    <2> QED BY <1>a, <2>4, <2>7, <2>8, <2>9 DEF IInv
  <1>5. CASE LoopWord
    <2>1. pc = "loop" /\ remaining >= W /\ first = src + Copied /\ it = dst + Copied /\ Pos(it) = 0
          /\ Copied + W <= len /\ remaining - W \in 0 .. len
      BY <1>0, <1>5 DEF LoopWord, LocalsOK
    <2>2. mem' = Store(mem, it, GetWord(mem, first, W))
          /\ UNCHANGED Call /\ remaining' = remaining - W /\ first' = first + W
          /\ it' = it + W /\ pc' = pc
          /\ used' = GetWordLoads(first, W) \cup {it} /\ shifts' = GetWordShifts(first, W)
      BY <1>5 DEF LoopWord
    <2>3. mem' = Image(Copied + W)
      <3>1. W \in 0 .. W /\ BitPos = 0 .. (W - 1)
        BY DEF BitPos
      <3>2. \A i \in BitPos : GetWord(mem, first, W)[i] = Image(Copied)[src + Copied + i]
        <4> SUFFICES ASSUME NEW i \in BitPos
                     PROVE  GetWord(mem, first, W)[i] = Image(Copied)[src + Copied + i]
          OBVIOUS
        <4>1. i \in 0 .. (W - 1) /\ first \in Nat
          BY <1>0, <3>1
        <4>2. GetWord(mem, first, W)[i] = mem[first + i]
          BY <3>1, <4>1, GetWordBit
        <4> QED BY <1>0, <2>1, <4>2
      <3> QED BY <1>0, <2>1, <2>2, <3>2, StoreAdvance
    <2>4. Copied' = Copied + W
      BY <1>0, <2>2 DEF Copied, Call
    <2>5. MemoryOK'
      BY <1>0, <1>b, <2>1, <2>2, <2>3, <2>4 DEF MemoryOK
    <2>6. LocalsOK'
      <3>1. Pos(it + W) = 0
        BY <1>0, <2>1, AlignedStep
      <3> QED BY <1>0, <2>1, <2>2, <2>4, <3>1 DEF LocalsOK, Call
    <2>7. GhostsOK' /\ AccessInRange' /\ ShiftsDefined'
      <3>1. /\ \A b \in GetWordLoads(first, W) : b \in Int /\ b < src + len /\ src < b + W
            /\ \A i \in GetWordShifts(first, W) : i \in Int /\ ShiftDefined(i)
        <4>1. Copied \in Nat /\ W \in 1 .. W
          BY <1>0
        <4> QED BY <1>0, <2>1, <4>1, SourceAccess
      <3>2. it < dst + len /\ dst < it + W
        BY <1>0, <2>1
      <3> QED BY <1>0, <2>2, <3>1, <3>2 DEF GhostsOK, AccessInRange, Holds, ShiftsDefined, Call
    <2> QED BY <1>a, <2>2, <2>5, <2>6, <2>7 DEF IInv
  <1>6. CASE WordsDone
    <2>1. LocalsOK'
      <3> USE <1>0, <1>6 DEF WordsDone, LocalsOK, Call, Copied
      <3>1. remaining < W
        <4>1. CASE pc = "bulk" /\ first = Base(last)
          <5>1. last \in Int /\ last < Base(last) + W /\ Base(last) \in Int
            <6>1. last \in Int
              BY <1>0
            <6> QED BY <6>1, PosRange
          <5> QED BY <4>1, <5>1
        <4>2. CASE pc = "loop" /\ remaining < W
          BY <4>2
        <4> QED BY <4>1, <4>2
      <3>2. CASE remaining > 0
        BY <3>1, <3>2
      <3>3. CASE ~(remaining > 0)
        BY <3>3
      <3> QED BY <3>2, <3>3
    <2> QED BY <1>6, <1>a, <1>c, <1>d, <2>1 DEF WordsDone, IInv
  <1>7. CASE TailWord
    <2>1. pc = "tail" /\ remaining \in 1 .. (W - 1) /\ first = src + Copied /\ it = dst + Copied
          /\ Copied + remaining = len
      BY <1>0, <1>7 DEF TailWord, LocalsOK
    <2>2. mem' = Store(mem, it, BitBlend(Load(mem, it), GetWord(mem, first, remaining), 0, remaining))
          /\ UNCHANGED Call /\ remaining' = 0 /\ first' = first /\ it' = it /\ pc' = "done"
          /\ used' = GetWordLoads(first, remaining) \cup {it}
          /\ shifts' = GetWordShifts(first, remaining) \cup {remaining}
      BY <1>7 DEF TailWord
    <2>3. mem' = Image(len)
      <3> DEFINE w == GetWord(mem, first, remaining)
      <3>1. \A i \in 0 .. (remaining - 1) : w[0 + i] = GetWord(Image(Copied), src + Copied, remaining)[i]
        BY <1>0, <2>1
      <3>a. /\ 0 \in Nat /\ it \in Int /\ it + 0 = dst + Copied /\ 0 + remaining <= W
            /\ remaining \in 1 .. W /\ Copied + remaining <= len /\ Copied \in 0 .. len /\ ArgsOK
        BY <1>0, <2>1
      <3> HIDE DEF w
      <3>2. Store(Image(Copied), it, BitBlend(Load(Image(Copied), it), w, 0, remaining))
              = Image(Copied + remaining)
        BY <3>1, <3>a, BlendAdvance, Zenon
      <3> QED BY <1>0, <2>1, <2>2, <3>2 DEF w
    <2>4. Copied' = len
      BY <1>0, <2>2 DEF Copied, Call
    <2>5. MemoryOK'
      BY <1>0, <1>b, <2>2, <2>3, <2>4 DEF MemoryOK
    <2>6. LocalsOK'
      BY <1>0, <2>2, <2>4 DEF LocalsOK, Call
    <2>7. GhostsOK' /\ AccessInRange' /\ ShiftsDefined'
      <3>1. /\ \A b \in GetWordLoads(first, remaining) : b \in Int /\ b < src + len /\ src < b + W
            /\ \A i \in GetWordShifts(first, remaining) : i \in Int /\ ShiftDefined(i)
        <4>1. Copied \in Nat /\ remaining \in 1 .. W /\ Copied + remaining <= len
          BY <1>0, <2>1
        <4>2. /\ \A b \in GetWordLoads(src + Copied, remaining) :
                   b \in Int /\ b < src + len /\ src < b + W
              /\ \A i \in GetWordShifts(src + Copied, remaining) : i \in Int /\ ShiftDefined(i)
          BY <1>0, <4>1, SourceAccess
        <4> QED BY <2>1, <4>2
      <3>2. it < dst + len /\ dst < it + W /\ ShiftDefined(remaining) /\ remaining \in Int
        BY <1>0, <2>1 DEF ShiftDefined
      <3> QED BY <1>0, <2>2, <3>1, <3>2 DEF GhostsOK, AccessInRange, Holds, ShiftsDefined, Call
    <2> QED BY <1>a, <2>2, <2>5, <2>6, <2>7 DEF IInv
  <1>8. CASE UNCHANGED vars
    <2>1. UNCHANGED Call /\ Base(dst)' = Base(dst) /\ Base(last)' = Base(last)
      BY <1>8 DEF vars, Call, last, Base, Pos
    <2>2. LocalsOK'
      BY <1>0, <1>8, <2>1 DEF LocalsOK, vars, Copied, Pos
    <2>3. GhostsOK' /\ AccessInRange' /\ ShiftsDefined'
      BY <1>0, <1>8 DEF GhostsOK, AccessInRange, ShiftsDefined, vars
    <2> QED BY <1>8, <1>a, <1>d, <2>1, <2>2, <2>3 DEF IInv, vars
  <1> QED BY <1>1, <1>2, <1>3, <1>4, <1>5, <1>6, <1>7, <1>8 DEF Next, Finished
-----------------------------------------------------------------------------
(* What follows from it.                                                   *)

\* The invariant holds in every state of every call.
THEOREM Inductive == Spec => []IInv
  BY InitIInv, NextIInv, PTL DEF Spec

\* The invariant gives the type of every variable and the two promises about
\* the memory.
LEMMA IInvImplies == IInv => TypeOK /\ CopyCorrect /\ SourceIntact
  <1> SUFFICES ASSUME IInv PROVE TypeOK /\ CopyCorrect /\ SourceIntact
    OBVIOUS
  <1>1. /\ ArgsOK /\ LocalsOK /\ GhostsOK /\ mem = Image(Copied)
        /\ len \in Nat /\ Copied \in 0 .. len /\ Copied = len - remaining
    BY DEF IInv, ArgsOK, LocalsOK, MemoryOK, Copied
  <1>2. TypeOK
    BY <1>1, ImageType DEF TypeOK, ArgsOK, LocalsOK, GhostsOK
  <1>3. CopyCorrect
    <2> SUFFICES ASSUME pc = "done" PROVE mem = Image(len)
      BY DEF CopyCorrect, Image
    <2>1. Copied = len
      BY <1>1 DEF LocalsOK
    <2> QED BY <1>1, <2>1
  <1>4. SourceIntact
    BY <1>1, ImageSource DEF SourceIntact
  <1> QED BY <1>2, <1>3, <1>4

\* Every variable of the copy keeps its type.
THEOREM TypeCorrect == Spec => []TypeOK
  BY Inductive, IInvImplies, PTL

\* When bit::copy returns, the destination range holds what the source range
\* held at the call and every other bit of the memory is what it was.
THEOREM Correct == Spec => []CopyCorrect
  BY Inductive, IInvImplies, PTL

\* The copy never overwrites a source bit it has not read yet.
THEOREM NeverClobbers == Spec => []SourceIntact
  BY Inductive, IInvImplies, PTL

\* The copy dereferences only words that hold a bit of its two ranges, and never
\* shifts by the width of a word, which C++ leaves undefined.
THEOREM Safe == Spec => []InstructionsSafe
  <1>1. IInv => InstructionsSafe
    BY DEF IInv, InstructionsSafe
  <1> QED BY <1>1, Inductive, PTL

\* No step takes a copied bit back or changes the arguments.
LEMMA Monotone == IInv /\ [Next]_vars => UNCHANGED Call /\ remaining' <= remaining
  <1> SUFFICES ASSUME IInv, [Next]_vars PROVE UNCHANGED Call /\ remaining' <= remaining
    OBVIOUS
  <1>1. remaining \in Int /\ W \in Int /\ W > 0 /\ 0 <= remaining
    BY Widths DEF IInv, LocalsOK, ArgsOK
  <1>2. CASE Align
    <2>1. Pos(dst) \in BitPos
      BY PosRange DEF IInv, ArgsOK
    <2>2. PartialBits \in Int /\ PartialBits >= 0
      BY <1>1, <2>1 DEF PartialBits, Least, BitPos
    <2> QED BY <1>1, <1>2, <2>2 DEF Align
  <1>3. CASE BulkWord \/ LoopWord
    BY <1>1, <1>3 DEF BulkWord, LoopWord
  <1>4. CASE TailWord
    BY <1>1, <1>4 DEF TailWord
  <1>5. CASE Start \/ Body \/ WordsDone \/ UNCHANGED vars
    BY <1>1, <1>5 DEF Start, Body, WordsDone, vars, Call
  <1> QED BY <1>2, <1>3, <1>4, <1>5 DEF Next, Finished

\* The word-by-word copy implements the bit-level promise of SequenceMove: bits
\* arrive at their place, stay there, and nothing else is written.
THEOREM Refines == Spec => MoveSpec
  <1>1. Init => Move!Init
    <2> SUFFICES ASSUME Init PROVE Move!Init
      OBVIOUS
    <2>1. Copied = 0 /\ 0 .. (Copied - 1) = {}
      BY Widths DEF Init, Copied
    <2> QED BY <2>1, Widths DEF Init, Move!Init
  <1>2. IInv /\ IInv' /\ TypeOK' /\ [Next]_vars => [Move!Arrive]_(Move!vars)
    <2> SUFFICES ASSUME IInv, IInv', TypeOK', [Next]_vars PROVE Move!Arrive
      OBVIOUS
    <2>1. UNCHANGED Call /\ remaining' <= remaining
      BY Monotone
    <2>2. /\ len \in Nat /\ dst \in Nat /\ Copied = len - remaining /\ remaining \in 0 .. len
          /\ Copied' = len - remaining' /\ remaining' \in 0 .. len
      BY <2>1 DEF IInv, ArgsOK, LocalsOK, Copied, Call
    <2>a. mem' = Image(Copied)'
      BY DEF IInv, MemoryOK
    <2> DEFINE c == Copied
               d == Copied'
    <2>3. c \in Int /\ d \in Int /\ c <= d /\ d <= len
      <3> DEFINE r == remaining
                 q == remaining'
      <3>1. r \in 0 .. len /\ q \in 0 .. len /\ q <= r /\ len \in Nat /\ c = len - r /\ d = len - q
        BY <2>1, <2>2
      <3> HIDE DEF c, d, r, q
      <3>2. r \in Int /\ q \in Int /\ 0 <= q
        BY <3>1
      <3> QED BY <3>1, <3>2
    <2> HIDE DEF c, d
    <2>4. 0 .. (c - 1) \subseteq 0 .. (d - 1) /\ 0 .. (d - 1) \subseteq 0 .. (len - 1)
      BY <2>2, <2>3
    <2>5. Image(Copied)' = Move!Image(0 .. (d - 1))
      <3>1. \A a \in Addr : (dst <= a /\ a < dst + d) <=> (a - dst) \in 0 .. (d - 1)
        BY <2>2, <2>3, Widths
      <3>2. Image(Copied)' = [a \in Addr |-> IF dst <= a /\ a < dst + d
                                               THEN orig[src + (a - dst)] ELSE orig[a]]
        BY <2>1 DEF Image, Call, Addr, MemBits, d
      <3> QED BY <3>1, <3>2 DEF Move!Image
    <2>6. mem' = Move!Image(0 .. (d - 1))
      BY <2>a, <2>5
    <2>7. mem' \in [Addr -> Bit]
      BY DEF TypeOK, Addr, MemBits
    <2> QED BY <2>1, <2>4, <2>6, <2>7 DEF Move!Arrive, Move!Offsets, Call, c, d
  <1> QED BY <1>1, <1>2, Inductive, TypeCorrect, PTL DEF Spec, MoveSpec, Move!Spec
=============================================================================
