------------------------ MODULE MCExchangeAlgorithms ------------------------
(***************************************************************************)
(* One call of swap_ranges, reverse or rotate, whichever the initial state *)
(* picks.  A bit is a set: exclusive or, which swap_ranges works with, is  *)
(* the difference of two sets either way.  The algorithms share the        *)
(* variables below; a variable the picked one has no use for stays 0.      *)
(***************************************************************************)
EXTENDS BitWord

ASSUME EmptyAssumption == Zero = {}

VARIABLES
  algorithm,                  \* the function called
  mem, orig,                  \* the memory, and what it was when the call was made
  first, second, last,        \* the range, and the second range or n_first
  n,                          \* the bits exchanged, or left to be rotated
  p, q, k,                    \* locals that move over the range
  full_swaps, remainder,      \* locals of rotate
  it1, it2,                   \* words exchanged next
  first_value, last_value,    \* words reverse saves
  ret,                        \* the iterator returned
  pc,                         \* what the code does next
  used, shifts                \* the words and shift counts of the last step

vars == <<algorithm, mem, orig, first, second, last, n, p, q, k, full_swaps, remainder,
          it1, it2, first_value, last_value, ret, pc, used, shifts>>

Swap    == INSTANCE BitSwapRanges WITH
             begin1 <- first, begin2 <- second, len <- n, first2 <- p
Reverse == INSTANCE BitReverse
Rotate  == INSTANCE BitRotate WITH n_first <- second

\* Every call.
AnyInit ==
  \/ /\ algorithm = "swap_ranges" /\ Swap!Init
     /\ last = 0 /\ q = 0 /\ k = 0 /\ full_swaps = 0 /\ remainder = 0
     /\ first_value = 0 /\ last_value = 0
  \/ /\ algorithm = "reverse" /\ Reverse!Init
     /\ second = 0 /\ n = 0 /\ p = 0 /\ q = 0 /\ k = 0
     /\ full_swaps = 0 /\ remainder = 0 /\ it1 = 0 /\ it2 = 0 /\ ret = 0
  \/ /\ algorithm = "rotate" /\ Rotate!Init
     /\ it1 = 0 /\ it2 = 0 /\ first_value = 0 /\ last_value = 0

\* Every call but rotate with n_first = last at the end of a word, which shifts by
\* the width of the word or reads the word at last.
Init ==
  /\ AnyInit
  /\ algorithm = "rotate" /\ second = last /\ Pos(last) = 0 => first = last

Next ==
  /\ UNCHANGED algorithm
  /\ \/ /\ algorithm = "swap_ranges" /\ Swap!Next
        /\ UNCHANGED <<last, q, k, full_swaps, remainder, first_value, last_value>>
     \/ /\ algorithm = "reverse" /\ Reverse!Next
        /\ UNCHANGED <<second, n, p, q, k, full_swaps, remainder, it1, it2, ret>>
     \/ /\ algorithm = "rotate" /\ Rotate!Next
        /\ UNCHANGED <<it1, it2, first_value, last_value>>

Spec == Init /\ [][Next]_vars /\ WF_vars(Next)

----------------------------------------------------------------------------
(* Properties                                                              *)

\* The types of each algorithm's variables, and where its iterators may be.
TypeOK ==
  /\ algorithm = "swap_ranges" => Swap!TypeOK
  /\ algorithm = "reverse"     => Reverse!TypeOK
  /\ algorithm = "rotate"      => Rotate!TypeOK

\* The iterator rotate returns designates the bit that was first's, for every
\* middle in [first, last] ("The algorithms again work in the same manner as the
\* STL.", README.md:364).
ReturnsMiddle == algorithm = "rotate" => Rotate!ReturnsMiddle

\* When the call returns each bit of the range is where swap_ranges, reverse or
\* rotate puts it, no other bit has changed, and the iterator is the right one.
ExchangeCorrect ==
  /\ algorithm = "swap_ranges" => Swap!SwapCorrect
  /\ algorithm = "reverse"     => Reverse!ReverseCorrect
  /\ algorithm = "rotate"      => Rotate!RotateCorrect
  /\ ReturnsMiddle

\* Between two steps no bit is lost or half moved: the pairs swap_ranges
\* exchanges keep their two bits, the range reverse has shifted back is in its
\* place whatever lies around it, and what rotate has left to do leads to the
\* final memory.
NothingLost ==
  /\ algorithm = "swap_ranges" => Swap!PairsKept
  /\ algorithm = "reverse"     => Reverse!RangeInPlace
  /\ algorithm = "rotate"      => Rotate!RoundsConverge

\* No word outside the ranges is dereferenced, every shift count is one C++
\* defines, and the blocks rotate has swap_ranges exchange do not overlap.
InstructionsSafe ==
  /\ algorithm = "swap_ranges" => Swap!AccessInRange    /\ Swap!ShiftsDefined
  /\ algorithm = "reverse"     => Reverse!AccessInRange /\ Reverse!ShiftsDefined
  /\ algorithm = "rotate"      => Rotate!AccessInRange  /\ Rotate!ShiftsDefined
                                    /\ Rotate!BlocksApart

\* The call returns: what rotate has left gets smaller with every round.
Termination == <>(pc = "done")

----------------------------------------------------------------------------
(* The memory of the runs: every bit has a name of its own, and is the set *)
(* of it.  What holds of these bits holds of all, as nothing above looks   *)
(* at a bit.                                                               *)

NamedBits   == SUBSET Addr
NamedMemory == [a \in Addr |-> {a}]

MCInit    == orig = NamedMemory /\ Init
MCAnyInit == orig = NamedMemory /\ AnyInit

MCSpec    == MCInit /\ [][Next]_vars /\ WF_vars(Next)
MCAnySpec == MCAnyInit /\ [][Next]_vars
=============================================================================
