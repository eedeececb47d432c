---------------------------- MODULE WordReference ----------------------------
(***************************************************************************)
(* bit_word_reference_adapter (bit_word_reference_adapter.hpp): what       *)
(* dereferencing a bit_word_pointer_adapter gives.  It holds a reference   *)
(* to a source word, and stands for one of the smaller words in it, or for *)
(* the bigger word that begins with it, which it reads and writes through  *)
(* a reinterpret_cast.                                                     *)
(*                                                                         *)
(* Memory is made of the smaller words, the pieces; machines are little    *)
(* endian, as the code asks.  The state is the memory and two adapters,    *)
(* lhs and rhs; an action is one call on lhs.                              *)
(***************************************************************************)
EXTENDS Integers

CONSTANTS
  Ratio,       \* the sizes' quotient, at least 2
  SmallToBig,  \* is_small_to_big, a Boolean; its negation is is_big_to_small
  NumPieces,   \* pieces in the memory, at least Ratio and a multiple of it
  Piece        \* the values of a piece

Pieces == 0 .. (NumPieces - 1)

\* Pieces in a source word, and in a word an adapter stands for.
InSource == IF SmallToBig THEN 1 ELSE Ratio
InTarget == IF SmallToBig THEN Ratio ELSE 1

Value == [0 .. (InTarget - 1) -> Piece]

VARIABLES
  memory,         \* the pieces
  lhs, rhs,       \* the adapters: [source |-> _source, index |-> _index]
  expected,       \* history: the memory, by the calls made, and
  lvalue, rvalue  \*   the words lhs and rhs should read

vars == <<memory, lhs, rhs, expected, lvalue, rvalue>>

\* A faulty Begin: every adapter stands for the word its source begins with.
BeginOfSource(ref) == ref.source * InSource

\* The first piece of the word an adapter stands for.
Begin(ref) == ref.source * InSource + ref.index

\* operator target_word
Read(m, ref) == [i \in 0 .. (InTarget - 1) |-> m[Begin(ref) + i]]

\* *reinterpret_cast<target_word*>(...) = value
Stored(m, ref, value) ==
  [p \in Pieces |-> IF p - Begin(ref) \in 0 .. (InTarget - 1) THEN value[p - Begin(ref)] ELSE m[p]]

\* std::swap(_source, other._source): as they are references, the source words.
SourcesSwapped(a, b) ==
  LET from(p) == IF p \div InSource = a.source THEN p + (b.source - a.source) * InSource
                 ELSE IF p \div InSource = b.source THEN p + (a.source - b.source) * InSource
                 ELSE p
  IN  [p \in Pieces |-> memory[from(p)]]

\* The adapter that stands for the word that begins at piece p.
Adapter(p) == [source |-> p \div InSource, index |-> p % InSource]

Stands(p) == p \in 0 .. (NumPieces - InTarget)

Init ==
  /\ memory \in [Pieces -> Piece]
  /\ \E p, q \in Pieces :
       /\ Stands(p) /\ lhs = Adapter(p) /\ lvalue = [i \in 0 .. (InTarget - 1) |-> memory[p + i]]
       /\ Stands(q) /\ rhs = Adapter(q) /\ rvalue = [i \in 0 .. (InTarget - 1) |-> memory[q + i]]
  /\ expected = memory

\* lhs now has value, and rhs whatever that makes of the pieces it shares.
Wrote(value) ==
  /\ expected' = Stored(expected, lhs, value)
  /\ lvalue' = value
  /\ rvalue' = Read(expected', rhs)
  /\ UNCHANGED <<lhs, rhs>>

\* A faulty Assign: the whole source word is given the value.
AssignSource(value) ==
  /\ memory' = [p \in Pieces |->
                  IF p \div InSource = lhs.source THEN value[0] ELSE memory[p]]
  /\ Wrote(value)

\* lhs = value
Assign(value) == memory' = Stored(memory, lhs, value) /\ Wrote(value)

\* lhs = rhs: the word is assigned, the adapter is not rebound.
AssignReference ==
  /\ memory' = Stored(memory, lhs, Read(memory, rhs))
  /\ Wrote(rvalue)

\* A faulty Swap: the indices stay.
SwapSources ==
  /\ memory' = SourcesSwapped(lhs, rhs)
  /\ IF SmallToBig THEN lvalue' = Read(memory', lhs) /\ rvalue' = Read(memory', rhs)
                   ELSE lvalue' = rvalue /\ rvalue' = lvalue
  /\ expected' = memory'
  /\ UNCHANGED <<lhs, rhs>>

\* lhs.swap(rhs): the source words and the indices.  What they read is exchanged
\* where a source word holds all of it; the pieces beside it move too.
Swap ==
  /\ memory' = SourcesSwapped(lhs, rhs)
  /\ lhs' = [lhs EXCEPT !.index = rhs.index] /\ rhs' = [rhs EXCEPT !.index = lhs.index]
  /\ IF SmallToBig THEN lvalue' = Read(memory', lhs') /\ rvalue' = Read(memory', rhs')
                   ELSE lvalue' = rvalue /\ rvalue' = lvalue
  /\ expected' = memory'

\* swap(*&lhs, *&rhs), which takes the adapters by value: the indices exchanged
\* are those of the copies, so the words lhs and rhs stand for are exchanged only
\* if they have the same one.
SwapCopies ==
  /\ memory' = SourcesSwapped(lhs, rhs)
  /\ IF ~SmallToBig /\ lhs.index = rhs.index
       THEN lvalue' = rvalue /\ rvalue' = lvalue
       ELSE lvalue' = Read(memory', lhs) /\ rvalue' = Read(memory', rhs)
  /\ expected' = memory'
  /\ UNCHANGED <<lhs, rhs>>

\* A new rhs, *(&lhs + n): n words further on, by way of the pointer adapter.
Dereference(n) ==
  LET p == Begin(lhs) + n * InTarget
  IN  /\ Stands(p)
      /\ rhs' = Adapter(p)
      /\ rvalue' = [i \in 0 .. (InTarget - 1) |-> expected[p + i]]
      /\ UNCHANGED <<memory, lhs, expected, lvalue>>

Next ==
  \/ \E value \in Value : Assign(value)
  \/ AssignReference \/ Swap \/ SwapCopies
  \/ \E n \in -NumPieces .. NumPieces : Dereference(n)

Spec == Init /\ [][Next]_vars

----------------------------------------------------------------------------
(* Properties                                                              *)

\* Types; and an adapter stands for a word of the memory.
TypeOK ==
  /\ memory \in [Pieces -> Piece] /\ expected \in [Pieces -> Piece]
  /\ lhs.index \in 0 .. (InSource - 1) /\ rhs.index \in 0 .. (InSource - 1)
  /\ Stands(Begin(lhs)) /\ Stands(Begin(rhs))
  /\ lvalue \in Value /\ rvalue \in Value

\* An assignment changes the word its adapter stands for and no other piece of the
\* source word, also when two adapters share pieces; and after a swap of adapters
\* to smaller words each reads what the other did.
WordsExact ==
  /\ memory = expected
  /\ Read(memory, lhs) = lvalue /\ Read(memory, rhs) = rvalue
=============================================================================
