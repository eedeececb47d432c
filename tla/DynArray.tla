------------------------------ MODULE DynArray ------------------------------
(***************************************************************************)
(* bit_array<> (bit_array_dynamic_extent.hpp): arrays of bits whose length *)
(* is fixed at construction, in words of their own up to FixedWords words  *)
(* and in an allocated block beyond.  The union of both is kept by         *)
(* constructors, moves, assignments and a destructor written by hand; the  *)
(* module follows a number of arrays and the blocks they own.  An action   *)
(* is one call.                                                            *)
(*                                                                         *)
(* Contents are words, not bits.  The allocators compare equal, as those   *)
(* of the default policy do.                                               *)
(***************************************************************************)
EXTENDS Integers, Sequences

CONSTANTS
  Slot,        \* the objects
  Block,       \* what the allocator can hand out
  null,        \* nullptr, not one of the blocks
  Item,        \* the values of a word
  W,           \* bitsof<word_type>(), at least 1
  FixedWords,  \* words that fit in the place of the pointer
  MaxSize,     \* bound on an array's size() in bits
  Absent,      \* the value of an object that does not exist
  Gone         \* the value of one that was moved from and has no words

VARIABLES
  exists,      \* the objects constructed and not yet destroyed
  size,        \* size() of each, in bits
  pointer,     \* storage.pointer, null when storage.fixed is in use
  fixed,       \* storage.fixed, empty when storage.pointer is in use
  live,        \* the blocks allocated
  heap,        \* their words
  released     \* history: the pointers the last call passed to deallocate

vars == <<exists, size, pointer, fixed, live, heap, released>>

\* A faulty Words: rounds down.
WordsDown(N) == N \div W

Words(N) == (N + W - 1) \div W

FixedBits == FixedWords * W

\* A faulty Allocates: the limit itself is allocated for.
AllocatesAtLimit(N) == Words(N) >= FixedWords

\* Where an array's words are: what Storage's constructors ask, and what the
\* rest of the class asks.
Allocates(N) == Words(N) > FixedWords
OnHeap(s)    == size[s] > FixedBits

\* The object was moved from and has no words: data() is nullptr.
Husk(s) == OnHeap(s) /\ pointer[s] = null

Contents(s) == IF OnHeap(s) THEN heap[pointer[s]] ELSE fixed[s]

Init ==
  /\ exists = {}
  /\ size = [s \in Slot |-> 0]
  /\ pointer = [s \in Slot |-> null]
  /\ fixed = [s \in Slot |-> <<>>]
  /\ live = {}
  /\ heap = [b \in Block |-> <<>>]
  /\ released = {}

----------------------------------------------------------------------------
(* Construction and destruction                                            *)

\* A Storage of Words(N) words that holds v.
Place(s, N, v) ==
  /\ s \notin exists
  /\ exists' = exists \cup {s}
  /\ size' = [size EXCEPT ![s] = N]
  /\ IF Allocates(N)
       THEN \E b \in Block \ live :
              /\ live' = live \cup {b}
              /\ heap' = [heap EXCEPT ![b] = v]
              /\ pointer' = [pointer EXCEPT ![s] = b]
              /\ UNCHANGED fixed
       ELSE /\ fixed' = [fixed EXCEPT ![s] = v]
            /\ UNCHANGED <<pointer, live, heap>>
  /\ released' = {}

\* The constructors from a size, a value, an integral, a list of bits or words, a
\* string or a range: what they are given ends up in the words.  A list of a type
\* narrower than the word, whose items are copied one to a word, is left out.
Construct(s) ==
  \E N \in 0 .. MaxSize : \E v \in [1 .. Words(N) -> Item] : Place(s, N, v)

\* array(const array&), array(const array&, allocator), and array(array&&,
\* allocator), which copies as well. The other is not a husk: its words are
\* read.
CopyConstruct(s, t) ==
  /\ t \in exists /\ ~Husk(t)
  /\ Place(s, size[t], Contents(t))

\* A faulty MoveConstruct: other.pointer is not reset.
MoveConstructShared(s, t) ==
  /\ s \notin exists /\ t \in exists
  /\ exists' = exists \cup {s}
  /\ size' = [size EXCEPT ![s] = size[t]]
  /\ IF Allocates(size[t])
       THEN pointer' = [pointer EXCEPT ![s] = pointer[t]] /\ UNCHANGED fixed
       ELSE fixed' = [fixed EXCEPT ![s] = fixed[t]] /\ UNCHANGED pointer
  /\ released' = {}
  /\ UNCHANGED <<live, heap>>

\* array(array&&): the pointer is taken and the other left with none; words that
\* are not allocated are copied.
MoveConstruct(s, t) ==
  /\ s \notin exists /\ t \in exists
  /\ exists' = exists \cup {s}
  /\ size' = [size EXCEPT ![s] = size[t]]
  /\ IF Allocates(size[t])
       THEN pointer' = [pointer EXCEPT ![s] = pointer[t], ![t] = null] /\ UNCHANGED fixed
       ELSE fixed' = [fixed EXCEPT ![s] = fixed[t]] /\ UNCHANGED pointer
  /\ released' = {}
  /\ UNCHANGED <<live, heap>>

\* m_allocator.deallocate(p, ...), of nullptr too.
Release(p) ==
  /\ live' = live \ {p}
  /\ heap' = [b \in Block |-> IF b = p THEN <<>> ELSE heap[b]]
  /\ released' = {p}

\* ~array()
Destroy(s) ==
  /\ s \in exists
  /\ exists' = exists \ {s}
  /\ size' = [size EXCEPT ![s] = 0]
  /\ pointer' = [pointer EXCEPT ![s] = null]
  /\ fixed' = [fixed EXCEPT ![s] = <<>>]
  /\ IF OnHeap(s) THEN Release(pointer[s])
                  ELSE released' = {} /\ UNCHANGED <<live, heap>>

----------------------------------------------------------------------------
(* Assignment, swap and access                                             *)

\* if (nullptr == data() || size() != other.size())
Refused(s, t) == Husk(s) \/ size[s] # size[t]

\* throw std::invalid_argument
AssignThrows(s, t) ==
  /\ s \in exists /\ t \in exists
  /\ Refused(s, t)
  /\ released' = {}
  /\ UNCHANGED <<exists, size, pointer, fixed, live, heap>>

\* operator=(const array&). The other is not a husk.
CopyAssign(s, t) ==
  /\ s \in exists /\ t \in exists
  /\ ~Refused(s, t) /\ ~Husk(t)
  /\ IF OnHeap(s)
       THEN heap' = [heap EXCEPT ![pointer[s]] = Contents(t)] /\ UNCHANGED fixed
       ELSE fixed' = [fixed EXCEPT ![s] = Contents(t)] /\ UNCHANGED heap
  /\ released' = {}
  /\ UNCHANGED <<exists, size, pointer, live>>

\* A faulty MoveAssign: the pointers are not swapped, this keeps no hold of the
\* words it had.
MoveAssignLeak(s, t) ==
  /\ s \in exists /\ t \in exists
  /\ ~Refused(s, t)
  /\ IF OnHeap(s)
       THEN pointer' = [pointer EXCEPT ![t] = null, ![s] = pointer[t]] /\ UNCHANGED fixed
       ELSE fixed' = [fixed EXCEPT ![s] = fixed[t]] /\ UNCHANGED pointer
  /\ released' = {}
  /\ UNCHANGED <<exists, size, live, heap>>

\* operator=(array&&): a temporary takes the other's pointer, this swaps with
\* the temporary, which then releases what this had. Assigned to itself, this
\* gets its own pointer back and the temporary releases nullptr.
MoveAssign(s, t) ==
  /\ s \in exists /\ t \in exists
  /\ ~Refused(s, t)
  /\ IF OnHeap(s)
       THEN /\ pointer' = [pointer EXCEPT ![t] = null, ![s] = pointer[t]]
            /\ Release(IF s = t THEN null ELSE pointer[s])
            /\ UNCHANGED fixed
       ELSE /\ fixed' = [fixed EXCEPT ![s] = fixed[t]]
            /\ released' = {}
            /\ UNCHANGED <<pointer, live, heap>>
  /\ UNCHANGED <<exists, size>>

\* swap(other), which asserts that the sizes are equal.
Swap(s, t) ==
  /\ s \in exists /\ t \in exists
  /\ size[s] = size[t]
  /\ IF OnHeap(s)
       THEN pointer' = [pointer EXCEPT ![s] = pointer[t], ![t] = pointer[s]] /\ UNCHANGED fixed
       ELSE fixed' = [fixed EXCEPT ![s] = fixed[t], ![t] = fixed[s]] /\ UNCHANGED pointer
  /\ released' = {}
  /\ UNCHANGED <<exists, size, live, heap>>

\* A write through begin(), data() or an element reference.
Write(s) ==
  /\ s \in exists /\ ~Husk(s)
  /\ \E i \in 1 .. Words(size[s]), x \in Item :
       IF OnHeap(s)
         THEN heap' = [heap EXCEPT ![pointer[s]] = [@ EXCEPT ![i] = x]] /\ UNCHANGED fixed
         ELSE fixed' = [fixed EXCEPT ![s] = [@ EXCEPT ![i] = x]] /\ UNCHANGED heap
  /\ released' = {}
  /\ UNCHANGED <<exists, size, pointer, live>>

Next ==
  \/ \E s \in Slot : Construct(s) \/ Destroy(s) \/ Write(s)
  \/ \E s, t \in Slot :
       \/ CopyConstruct(s, t) \/ MoveConstruct(s, t) \/ AssignThrows(s, t)
       \/ CopyAssign(s, t) \/ MoveAssign(s, t) \/ Swap(s, t)

Spec == Init /\ [][Next]_vars

----------------------------------------------------------------------------
(* Properties                                                              *)

\* Types; and only the member of the union that size() selects is in use.
TypeOK ==
  /\ exists \subseteq Slot
  /\ size \in [Slot -> 0 .. MaxSize]
  /\ pointer \in [Slot -> Block \cup {null}]
  /\ fixed \in [Slot -> Seq(Item)]
  /\ live \subseteq Block
  /\ heap \in [Block -> Seq(Item)]
  /\ released \subseteq Block \cup {null}
  /\ \A s \in Slot : IF OnHeap(s) THEN fixed[s] = <<>> ELSE pointer[s] = null

\* No two arrays own the same block, and none owns a block that was released.
Exclusive ==
  \A s \in exists : pointer[s] # null =>
    /\ pointer[s] \in live
    /\ \A t \in exists : pointer[t] = pointer[s] => t = s

\* Every block allocated is owned by an array, which will release it: nothing
\* leaks, whatever the order of moves, assignments that throw and destructions.
NoLeak == \A b \in live : \E s \in exists : pointer[s] = b

\* What is passed to deallocate is nullptr or a block that was allocated and not
\* yet released.
NoDoubleFree == released' \ {null} \subseteq live

\* An array has as many words as its size() takes, in the place data() looks
\* for them: the tests of the words (when they are allocated) and of the bits
\* (when they are used) agree, and the length passed to deallocate is that
\* passed to allocate.
Fits == \A s \in exists : ~Husk(s) => Len(Contents(s)) = Words(size[s])

\* The arrays behave as values: a write to one is never seen in another, and a
\* moved or assigned value arrives whole.
Value(s) == IF s \notin exists THEN Absent ELSE IF Husk(s) THEN Gone ELSE Contents(s)

Values == INSTANCE ArrayValues WITH val <- [s \in Slot |-> Value(s)]

ValueSemantics == Values!Spec

\* "The state of original is valid but unspecified" (test-array.cpp): an array
\* moved from still has the words its size() announces.
MovedFromValid == \A s \in exists : ~Husk(s)
=============================================================================
