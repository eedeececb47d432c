----------------------------- MODULE BitVector -----------------------------
(***************************************************************************)
(* bit_vector (bit_vector.hpp): a resizable sequence of bits kept in a     *)
(* std::vector of words.  The bits from length_ to the end of the words    *)
(* are stale: no modifier keeps them at any value.  An action is one call. *)
(*                                                                         *)
(* The algorithms the modifiers call are taken by their contracts, those   *)
(* modules BitShiftLeft, BitShiftRight, BitFill and BitCopy check of the   *)
(* code: a shift may leave anything in the bits it vacates.                *)
(***************************************************************************)
EXTENDS Integers, Sequences

CONSTANTS
  W,       \* digits: bits in a word, at least 1
  Bit,     \* {bit0, bit1}
  Zero,    \* bit0, a member of Bit, what a word the vector adds is made of
  MaxLen,  \* bound on length_
  MaxArg   \* bound on the length of a range passed to a call

VARIABLES
  words,        \* word_vector.size()
  word_vector,  \* its bits, numbered from 0
  length_,      \* the number of bits of the contents
  spare,        \* history: the last construction took more words than needed
  call          \* history: the last call

vars == <<words, word_vector, length_, spare, call>>

\* The ranges of bits a call may be given.
Ranges == UNION {[1 .. k -> Bit] : k \in 0 .. MaxArg}

Stored(k) == 0 .. (k * W - 1)

\* The contents: the bits [begin(), end()).
contents == [i \in 1 .. length_ |-> word_vector[i - 1]]

\* A faulty word_count: rounds down.
word_count_down(num_bits) == num_bits \div W

\* The number of words num_bits bits take.
word_count(num_bits) == (num_bits + W - 1) \div W

\* std::vector::resize: words are dropped from the end, or zero words added.
Resized(v, k) == [a \in Stored(k) |-> IF a \in DOMAIN v THEN v[a] ELSE Zero]

\* The algorithms, by contract.
Moved(v, first, last, from, junk) ==
  [a \in DOMAIN v |-> IF ~(first <= a /\ a < last) THEN v[a]
                      ELSE IF a \in DOMAIN junk THEN junk[a] ELSE v[a + from]]

ShiftRight(v, first, last, n) ==
  IF 0 < n /\ n < last - first
    THEN {Moved(v, first, last, -n, junk) : junk \in [first .. (first + n - 1) -> Bit]}
    ELSE {v}

ShiftLeft(v, first, last, n) ==
  IF 0 < n /\ n < last - first
    THEN {Moved(v, first, last, n, junk) : junk \in [(last - n) .. (last - 1) -> Bit]}
    ELSE {v}

\* copy(first, last, begin() + d), and fill, with the range r.
Written(v, d, r) ==
  [a \in DOMAIN v |-> IF d <= a /\ a < d + Len(r) THEN r[a - d + 1] ELSE v[a]]

Fill(v, first, last, value) ==
  [a \in DOMAIN v |-> IF first <= a /\ a < last THEN value ELSE v[a]]

Record(name, at, count, with) ==
  call' = [name |-> name, at |-> at, count |-> count, with |-> with]

Init ==
  /\ words = 0
  /\ word_vector = [a \in Stored(0) |-> Zero]
  /\ length_ = 0
  /\ spare = FALSE
  /\ call = [name |-> "none", at |-> 0, count |-> 0, with |-> <<>>]

----------------------------------------------------------------------------
(* Construction and assignment. The vector a call constructs or assigns    *)
(* replaces the one the module follows.                                    *)

\* bit_vector(count, bit_val): whole words of the value.
ConstructCount ==
  \E count \in 0 .. MaxArg, value \in Bit :
    /\ words' = word_count(count)
    /\ word_vector' = [a \in Stored(words') |-> value]
    /\ length_' = count
    /\ spare' = FALSE
    /\ Record("construct", 0, 0, [i \in 1 .. count |-> value])

\* bit_vector(first, last) over bits, over bools, and from a string: a word
\* for every bit, then the bits are copied in.
ConstructRange ==
  \E r \in Ranges :
    /\ words' = Len(r)
    /\ word_vector' = Written([a \in Stored(words') |-> Zero], 0, r)
    /\ length_' = Len(r)
    /\ spare' = TRUE
    /\ Record("construct", 0, 0, r)

\* bit_vector(std::initializer_list<WordType>) and the range of words: whole
\* words.
ConstructWords ==
  \E k \in 0 .. (MaxArg \div W) : \E v \in [Stored(k) -> Bit] :
    /\ words' = k
    /\ word_vector' = v
    /\ length_' = k * W
    /\ spare' = FALSE
    /\ Record("construct", 0, 0, [i \in 1 .. (k * W) |-> v[i - 1]])

\* operator=(bit_vector&&), seen by the vector assigned to: it takes the length
\* and the words of the other, whose stale bits and spare words come along.
MoveAssign ==
  \E r \in Ranges : \E k \in word_count(Len(r)) .. Len(r) : \E stale \in [Stored(k) -> Bit] :
    /\ length_' = Len(r)
    /\ words' = k
    /\ word_vector' = Written(stale, 0, r)
    /\ spare' = (k # word_count(Len(r)))
    /\ Record("assign", 0, 0, r)

\* The same, seen by the vector moved from: std::vector leaves its words
\* unspecified, length_ is reset.
MovedFrom ==
  /\ \/ words' = 0 /\ word_vector' = [a \in Stored(0) |-> Zero]
     \/ UNCHANGED <<words, word_vector>>
  /\ length_' = 0
  /\ spare' = TRUE
  /\ Record("moved", 0, 0, <<>>)

----------------------------------------------------------------------------
(* Modifiers                                                               *)

clear ==
  /\ words' = 0
  /\ word_vector' = [a \in Stored(0) |-> Zero]
  /\ length_' = 0
  /\ spare' = FALSE
  /\ Record("clear", 0, 0, <<>>)

\* reserve() and shrink_to_fit() change the capacity of the words only.
shrink_to_fit ==
  /\ Record("shrink_to_fit", 0, 0, <<>>)
  /\ UNCHANGED <<words, word_vector, length_, spare>>

\* if (word_vector.size() * digits == length_) word_vector.push_back(0U)
RoomForOne == IF words * W = length_ THEN words + 1 ELSE words

\* A write through operator[], at, front, back or an iterator.
Write ==
  \E d \in 0 .. (length_ - 1), value \in Bit :
    /\ word_vector' = [word_vector EXCEPT ![d] = value]
    /\ Record("write", d, 1, <<value>>)
    /\ UNCHANGED <<words, length_, spare>>

push_back ==
  \E value \in Bit :
    /\ length_ < MaxLen
    /\ words' = RoomForOne
    /\ word_vector' = [Resized(word_vector, words') EXCEPT ![length_] = value]
    /\ length_' = length_ + 1
    /\ Record("push_back", length_, 0, <<value>>)
    /\ UNCHANGED spare

\* A faulty InsertEnd: the shift stops at the old end, the last bit is lost.
InsertEndOld(count) == length_

\* The end of the range insert shifts: begin() + length_, already increased.
InsertEnd(count) == length_ + count

\* insert(pos, value)
InsertOne ==
  \E d \in 0 .. length_, value \in Bit :
    /\ length_ < MaxLen
    /\ words' = RoomForOne
    /\ length_' = length_ + 1
    /\ \E v \in ShiftRight(Resized(word_vector, words'), d, InsertEnd(1), 1) :
         word_vector' = [v EXCEPT ![d] = value]
    /\ Record("insert", d, 0, <<value>>)
    /\ UNCHANGED spare

\* A faulty RoomFor: the words there are already are counted again.
RoomForAll(count) ==
  IF length_ + count > words * W THEN words + word_count(length_ + count) ELSE words

\* The words insert makes room for count more bits with.
RoomFor(count) ==
  IF length_ + count > words * W
    THEN words + word_count(length_ + count - words * W)
    ELSE words

\* insert(pos, count, value): the new bits are filled in.
InsertCount ==
  \E d \in 0 .. length_, count \in 1 .. MaxArg, value \in Bit :
    /\ length_ + count <= MaxLen
    /\ words' = RoomFor(count)
    /\ length_' = length_ + count
    /\ \E v \in ShiftRight(Resized(word_vector, words'), d, InsertEnd(count), count) :
         word_vector' = Fill(v, d, d + count, value)
    /\ Record("insert", d, 0, [i \in 1 .. count |-> value])
    /\ UNCHANGED spare

\* insert(pos, first, last), insert_range and append_range: they are copied in.
InsertRange ==
  \E d \in 0 .. length_, r \in Ranges \ {<<>>} :
    /\ length_ + Len(r) <= MaxLen
    /\ words' = RoomFor(Len(r))
    /\ length_' = length_ + Len(r)
    /\ \E v \in ShiftRight(Resized(word_vector, words'), d, InsertEnd(Len(r)), Len(r)) :
         word_vector' = Written(v, d, r)
    /\ Record("insert", d, 0, r)
    /\ UNCHANGED spare

\* if (length_ % digits == 0) word_vector.pop_back()
DropEmptyWord(len) == IF len % W = 0 THEN words - 1 ELSE words

pop_back ==
  /\ length_ > 0
  /\ length_' = length_ - 1
  /\ words' = DropEmptyWord(length_')
  /\ word_vector' = Resized(word_vector, words')
  /\ Record("pop_back", length_', 1, <<>>)
  /\ UNCHANGED spare

\* erase(pos)
EraseOne ==
  \E d \in 0 .. (length_ - 1) :
    /\ length_' = length_ - 1
    /\ words' = DropEmptyWord(length_')
    /\ \E v \in ShiftLeft(word_vector, d, length_, 1) : word_vector' = Resized(v, words')
    /\ Record("erase", d, 1, <<>>)
    /\ UNCHANGED spare

\* A faulty EraseRange: the range is taken to include last.
EraseRangeClosed ==
  \E d \in 0 .. length_ : \E count \in 1 .. (length_ - d) :
    /\ length_' = length_ - (count + 1)
    /\ words' = word_count(length_')
    /\ \E v \in ShiftLeft(word_vector, d, length_, count) : word_vector' = Resized(v, words')
    /\ spare' = FALSE
    /\ Record("erase", d, count, <<>>)

\* A faulty EraseRange: the words are cut before the bits are moved down.
EraseRangeCutFirst ==
  \E d \in 0 .. length_ : \E count \in 1 .. (length_ - d) :
    /\ length_' = length_ - count
    /\ words' = word_count(length_')
    /\ \E v \in ShiftLeft(Resized(Resized(word_vector, words'), words), d, length_, count) :
         word_vector' = Resized(v, words')
    /\ spare' = FALSE
    /\ Record("erase", d, count, <<>>)

\* erase(first, last)
EraseRange ==
  \E d \in 0 .. length_ : \E count \in 1 .. (length_ - d) :
    /\ length_' = length_ - count
    /\ words' = word_count(length_')
    /\ \E v \in ShiftLeft(word_vector, d, length_, count) : word_vector' = Resized(v, words')
    /\ spare' = FALSE
    /\ Record("erase", d, count, <<>>)

\* resize(count): bits above the old length_ in a word that stays keep what they
\* held.
Resize ==
  \E count \in 0 .. MaxLen :
    /\ words' = word_count(count)
    /\ word_vector' = Resized(word_vector, words')
    /\ length_' = count
    /\ spare' = FALSE
    /\ Record("resize", 0, count, <<>>)

\* resize(count, value): length_ is updated before the fill, which starts at
\* begin() + length_.
ResizeValue ==
  \E count \in 0 .. MaxLen, value \in Bit :
    /\ words' = word_count(count)
    /\ length_' = count
    /\ LET v == Resized(word_vector, words')
       IN  word_vector' = IF count > length_ THEN Fill(v, length_', count, value) ELSE v
    /\ spare' = FALSE
    /\ Record("resize_value", 0, count, <<value>>)

Next ==
  \/ ConstructCount \/ ConstructRange \/ ConstructWords \/ MoveAssign \/ MovedFrom
  \/ Write \/ clear \/ shrink_to_fit \/ push_back \/ pop_back \/ InsertOne \/ InsertCount
  \/ InsertRange \/ EraseOne \/ EraseRange \/ Resize \/ ResizeValue

Spec == Init /\ [][Next]_vars

----------------------------------------------------------------------------
(* Properties                                                              *)

TypeOK ==
  /\ words \in Nat /\ length_ \in 0 .. MaxLen
  /\ word_vector \in [Stored(words) -> Bit]
  /\ spare \in BOOLEAN

\* The words hold the contents: begin() + length_ is never past the word_vector,
\* so every position below size() can be read.  And there are no more words than
\* the contents take, except after a construction that took one word per bit and
\* after a move: pop_back and erase give back the word they empty, and insert
\* takes no word too many.
WordsFit ==
  /\ length_ <= words * W
  /\ ~spare => words = word_count(length_)

\* The contents change as those of std::vector<bool>, whatever the stale bits and
\* the bits a shift vacates hold. What resize puts into new bits is left open
\* here; ResizeZero and ResizeFills are about it.
Abstract == INSTANCE VectorOfBits WITH bits <- contents

VectorSpec == Abstract!Spec

\* resize(count) adds zero bits, as std::vector<bool>::resize does.
ResizeZero ==
  [][ call'.name = "resize" =>
        \A i \in (length_ + 1) .. length_' : contents'[i] = Zero ]_vars

\* resize(count, value) adds bits of that value.
ResizeFills ==
  [][ call'.name = "resize_value" =>
        \A i \in (length_ + 1) .. length_' : contents'[i] = call'.with[1] ]_vars
=============================================================================
