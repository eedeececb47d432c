-------------------------- MODULE MCMoveAlgorithms --------------------------
(***************************************************************************)
(* One call of copy_backward, fill, shift_left, shift_right or the binary  *)
(* transform, whichever the initial state picks.  The algorithms share the *)
(* variables below; a variable the picked one has no use for stays 0.      *)
(***************************************************************************)
EXTENDS BitWord

CONSTANTS
  One,        \* the value of bit1
  Combine     \* what the operation of transform makes of a pair of bits

ASSUME OneAssumption     == One \in Bit
ASSUME CombineAssumption == Combine \in [Bit \X Bit -> Bit]

VARIABLES
  algorithm,              \* the function called
  mem, orig,              \* the memory, and what it was when the call was made
  begin, end, n,          \* the range, and the n of a shift or the length copied
  begin2, target, bv,     \* second source, destination, value to fill with
  first, middle, last,    \* locals that move over the range
  it, remaining, ret,     \* word written, bits left, iterator returned
  pc,                     \* what the code does next
  used, used2, d_used,    \* the words the last step dereferenced
  shifts                  \* the shift counts the last step used

vars == <<algorithm, mem, orig, begin, end, n, begin2, target, bv, first, middle,
          last, it, remaining, ret, pc, used, used2, d_used, shifts>>

Copy  == INSTANCE BitCopyBackward WITH src <- begin, dst <- target, len <- n
Fill  == INSTANCE BitFill WITH first <- begin, last <- end
Left  == INSTANCE BitShiftLeft
Right == INSTANCE BitShiftRight
Join  == INSTANCE BitTransformBinary WITH
           first1 <- begin, last1 <- end, first2 <- begin2, d_first <- target,
           src1 <- first, src2 <- middle, used1 <- used

Init ==
  \/ /\ algorithm = "copy_backward" /\ Copy!Init
     /\ end = 0 /\ begin2 = 0 /\ bv = 0 /\ first = 0 /\ middle = 0 /\ ret = 0
     /\ used2 = {} /\ d_used = {}
  \/ /\ algorithm = "fill" /\ Fill!Init
     /\ n = 0 /\ begin2 = 0 /\ target = 0 /\ first = 0 /\ middle = 0 /\ last = 0
     /\ remaining = 0 /\ ret = 0 /\ used2 = {} /\ d_used = {}
  \/ /\ algorithm = "shift_left" /\ Left!Init
     /\ begin2 = 0 /\ target = 0 /\ bv = 0 /\ last = 0 /\ it = 0 /\ remaining = 0
     /\ used2 = {} /\ d_used = {}
  \/ /\ algorithm = "shift_right" /\ Right!Init
     /\ begin2 = 0 /\ target = 0 /\ bv = 0 /\ first = 0 /\ it = 0 /\ remaining = 0
     /\ used2 = {} /\ d_used = {}
  \/ /\ algorithm = "transform" /\ Join!Init
     /\ n = 0 /\ bv = 0 /\ last = 0 /\ ret = 0 /\ shifts = {}

Next ==
  /\ UNCHANGED algorithm
  /\ \/ /\ algorithm = "copy_backward" /\ Copy!Next
        /\ UNCHANGED <<end, begin2, bv, first, middle, ret, used2, d_used>>
     \/ /\ algorithm = "fill" /\ Fill!Next
        /\ UNCHANGED <<n, begin2, target, first, middle, last, remaining, ret, used2, d_used>>
     \/ /\ algorithm = "shift_left" /\ Left!Next
        /\ UNCHANGED <<begin2, target, bv, last, it, remaining, used2, d_used>>
     \/ /\ algorithm = "shift_right" /\ Right!Next
        /\ UNCHANGED <<begin2, target, bv, first, it, remaining, used2, d_used>>
     \/ /\ algorithm = "transform" /\ Join!Next
        /\ UNCHANGED <<n, bv, last, ret, shifts>>

Spec == Init /\ [][Next]_vars

----------------------------------------------------------------------------
(* Properties                                                              *)

\* The types of each algorithm's variables, and where its iterators may be.
TypeOK ==
  /\ algorithm = "copy_backward" => Copy!TypeOK
  /\ algorithm = "fill"          => Fill!TypeOK
  /\ algorithm = "shift_left"    => Left!TypeOK
  /\ algorithm = "shift_right"   => Right!TypeOK
  /\ algorithm = "transform"     => Join!TypeOK

\* The result of each algorithm, for every alignment of its ranges and every
\* overlap it allows: the bits copied, filled, shifted or joined are those of
\* the call, bit by bit, and no neighbour in a partly covered word changed.
MoveCorrect ==
  /\ algorithm = "copy_backward" => Copy!CopyCorrect
  /\ algorithm = "fill"          => Fill!FillCorrect  /\ Fill!OutsideIntact
  /\ algorithm = "shift_left"    => Left!ShiftCorrect  /\ Left!OutsideIntact
  /\ algorithm = "shift_right"   => Right!ShiftCorrect /\ Right!OutsideIntact
  /\ algorithm = "transform"     => Join!TransformCorrect /\ Join!OutsideIntact

\* A source bit is overwritten only after it was read, in the algorithms that
\* move a range over itself.
SourceIntact ==
  /\ algorithm = "copy_backward" => Copy!SourceIntact
  /\ algorithm = "shift_left"    => Left!SourceIntact
  /\ algorithm = "shift_right"   => Right!SourceIntact

\* No word outside the ranges is dereferenced, not even the word an aligned last
\* designates, and every shift count is one C++ defines (assertions of lsr and
\* lsl, bit_details.hpp:253 and 277).
InstructionsSafe ==
  /\ algorithm = "copy_backward" => Copy!AccessInRange  /\ Copy!ShiftsDefined
  /\ algorithm = "fill"          => Fill!AccessInRange  /\ Fill!ShiftsDefined
  /\ algorithm = "shift_left"    => Left!AccessInRange  /\ Left!ShiftsDefined
  /\ algorithm = "shift_right"   => Right!AccessInRange /\ Right!ShiftsDefined
  /\ algorithm = "transform"     => Join!AccessInRange

Promise ==
  CASE algorithm = "copy_backward" ->
         [src |-> begin, dst |-> target, len |-> n, free |-> {},
          moved |-> remaining .. (n - 1)]
    [] algorithm = "fill" ->
         [src |-> begin, dst |-> begin, len |-> 0, free |-> begin .. (end - 1), moved |-> {}]
    [] algorithm = "shift_left" ->
         [src |-> begin + n, dst |-> begin, len |-> Left!Kept,
          free  |-> IF Left!Kept = 0 THEN {} ELSE (begin + Left!Kept) .. (end - 1),
          moved |-> 0 .. ((IF pc = "done" THEN Left!Kept ELSE first - begin) - 1)]
    [] algorithm = "shift_right" ->
         [src |-> begin, dst |-> begin + n, len |-> Right!Kept,
          free  |-> IF Right!Kept = 0 THEN {} ELSE begin .. (begin + n - 1),
          moved |-> (IF pc = "done" THEN 0 ELSE Right!Kept - (end - last)) .. (Right!Kept - 1)]
    [] algorithm = "transform" ->
         [src |-> begin, dst |-> target, len |-> 0,
          free |-> target .. (target + (end - begin) - 1), moved |-> {}]

\* Each algorithm implements the bit-level promise of SequenceMove: at every
\* moment a destination bit holds its old value or its final one, and nothing
\* else is written.  Of fill and transform, which move nothing, it says that
\* only the destination, which it leaves free, changes.
Move ==
  INSTANCE SequenceMove WITH
    src <- Promise.src, dst <- Promise.dst, len <- Promise.len,
    free <- Promise.free, moved <- Promise.moved

MoveSpec == Move!Spec

----------------------------------------------------------------------------
(* Model checking: a name of its own in every bit of the memory.           *)

\* Zero is 0 and One 1; the bits of the memory hold the other names.
Names       == 0 .. (MemBits + 1)
NamedMemory == [a \in Addr |-> a + 2]

\* The names, and a name for every pair of them.
NamedBits  == 0 .. ((MemBits + 2) * (MemBits + 3) - 1)
NamedPairs == [p \in NamedBits \X NamedBits |->
                 IF p[1] \in Names /\ p[2] \in Names
                   THEN (MemBits + 2) * (p[1] + 1) + p[2] ELSE 0]

MCInit == orig = NamedMemory /\ Init
MCSpec == MCInit /\ [][Next]_vars
=============================================================================
