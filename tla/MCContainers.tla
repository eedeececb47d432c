---------------------------- MODULE MCContainers ----------------------------
(***************************************************************************)
(* The containers that own storage: any sequence of calls on a bit_vector, *)
(* or on a number of bit_array<>s.  The initial state picks which; the     *)
(* variables of the other stay as they begin.                              *)
(***************************************************************************)
EXTENDS Integers, Sequences

CONSTANTS
  W,                          \* bits in a word
  Bit, Zero, MaxLen, MaxArg,  \* of bit_vector
  Slot, Block, null, Item,    \* of the arrays: objects, blocks, no block, words
  FixedWords, MaxSize,        \* words without a block, bound on the bits
  Absent, Gone                \* values of arrays that have none

ASSUME WordsAssumption == W \in Nat \ {0} /\ Zero \in Bit
ASSUME BoundAssumption == MaxLen \in Nat /\ MaxArg \in 0 .. MaxLen
ASSUME SizesAssumption == FixedWords \in Nat /\ MaxSize \in Nat
ASSUME NullAssumption  == null \notin Block
ASSUME ValuesAssumption ==
  Absent # Gone /\ Absent \notin Seq(Item) /\ Gone \notin Seq(Item)

VARIABLES
  container,                                           \* the one picked
  words, word_vector, length_, spare, call,            \* of bit_vector
  exists, size, pointer, fixed, live, heap, released   \* of the arrays

vector_vars == <<words, word_vector, length_, spare, call>>
array_vars  == <<exists, size, pointer, fixed, live, heap, released>>

vars == <<container, vector_vars, array_vars>>

Vector == INSTANCE BitVector
Array  == INSTANCE DynArray

Init == container \in {"vector", "dyn_array"} /\ Vector!Init /\ Array!Init

Next ==
  /\ UNCHANGED container
  /\ \/ container = "vector" /\ Vector!Next /\ UNCHANGED array_vars
     \/ container = "dyn_array" /\ Array!Next /\ UNCHANGED vector_vars

Spec == Init /\ [][Next]_vars

----------------------------------------------------------------------------
(* Properties                                                              *)

\* The types of both; the member of an array's union in use is the one its size
\* selects.
TypeOK == Vector!TypeOK /\ Array!TypeOK

\* The words of a bit_vector hold its contents, and are no more than that takes
\* but after the calls that say so: pop_back and erase give back the word they
\* empty, and insert takes no word too many.
WordsFit == Vector!WordsFit

\* The contents of a bit_vector change as those of std::vector<bool>, whatever
\* the stale bits and the bits a shift vacates hold.
VectorSpec == Vector!VectorSpec

\* The blocks of the arrays: each is owned by one array, none leaks or is
\* released twice, and an array has as many words as its size() takes, where
\* data() looks for them.
Ownership ==
  [][Array!Exclusive' /\ Array!NoLeak' /\ Array!Fits' /\ Array!NoDoubleFree]_vars

\* The arrays behave as values: a write to one is never seen in another, and a
\* moved or assigned value arrives whole.
ValueSemantics == Array!ValueSemantics
=============================================================================
