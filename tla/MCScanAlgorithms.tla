-------------------------- MODULE MCScanAlgorithms --------------------------
(***************************************************************************)
(* One call of find, count, count_msb or equal, whichever the initial      *)
(* state picks, on every memory of NumWords words of zeros and ones.  The  *)
(* algorithms share the variables below; a variable the picked one has no  *)
(* use for stays 0.                                                        *)
(***************************************************************************)
EXTENDS BitWord

CONSTANT One    \* the value of bit1; Zero is that of bit0

\* The algorithms look at what a bit is (types.hpp: bit_value, bit0 and bit1).
ASSUME TwoValuesAssumption == One # Zero /\ Bit = {Zero, One}

VARIABLES
  algorithm,              \* the function called
  mem,                    \* the memory, which is only read
  first, last, d_first,   \* the range, and where the one compared with it begins
  value,                  \* the value looked for or counted
  src,                    \* the local iterator: the bits looked at next
  it,                     \* the word looked at next
  remaining,              \* the bits left
  result,                 \* the value returned
  pc,                     \* what the code does next
  used, d_used,           \* the words of each range the last step read
  top, got                \* what the operation of count_msb was handed last

vars == <<algorithm, mem, first, last, d_first, value, src, it, remaining, result, pc,
          used, d_used, top, got>>

Find     == INSTANCE BitFind WITH bv <- value
Count    == INSTANCE BitCount
CountMsb == INSTANCE BitCountMsb WITH
              end <- last, last <- src, acc <- result, left <- remaining
Equal    == INSTANCE BitEqual

\* Every call.
AnyInit ==
  \/ /\ algorithm = "find" /\ Find!Init
     /\ d_first = 0 /\ src = 0 /\ remaining = 0 /\ d_used = {} /\ top = 0 /\ got = 0
  \/ /\ algorithm = "count" /\ Count!Init
     /\ d_first = 0 /\ src = 0 /\ remaining = 0 /\ d_used = {} /\ top = 0 /\ got = 0
  \/ /\ algorithm = "count_msb" /\ CountMsb!Init
     /\ d_first = 0 /\ it = 0 /\ used = {} /\ d_used = {}
  \/ /\ algorithm = "equal" /\ Equal!Init
     /\ value = Zero /\ top = 0 /\ got = 0

\* count_msb is asked for leading zeros, and a range of two words or more ends
\* with a word.
Init ==
  /\ AnyInit
  /\ algorithm = "count_msb" =>
       value = Zero /\ (Pos(last) = 0 \/ (last - first) \div W <= 1)

Next ==
  /\ UNCHANGED algorithm
  /\ \/ /\ algorithm = "find" /\ Find!Next
        /\ UNCHANGED <<d_first, src, remaining, d_used, top, got>>
     \/ /\ algorithm = "count" /\ Count!Next
        /\ UNCHANGED <<d_first, src, remaining, d_used, top, got>>
     \/ /\ algorithm = "count_msb" /\ CountMsb!Next
        /\ UNCHANGED <<d_first, it, used, d_used>>
     \/ /\ algorithm = "equal" /\ Equal!Next
        /\ UNCHANGED <<value, top, got>>

Spec    == Init /\ [][Next]_vars
AnySpec == AnyInit /\ [][Next]_vars

----------------------------------------------------------------------------
(* Properties                                                              *)

\* The types of each algorithm's variables, and where its iterators may be.
TypeOK ==
  /\ algorithm = "find"      => Find!TypeOK
  /\ algorithm = "count"     => Count!TypeOK
  /\ algorithm = "count_msb" => CountMsb!TypeOK
  /\ algorithm = "equal"     => Equal!TypeOK

\* The value returned is that of a search, a count or a comparison bit by bit:
\* no bit outside the range, and no zero a shift or a mask lets in, is taken for
\* one of its bits.
ScanCorrect ==
  /\ algorithm = "find"      => Find!FindCorrect
  /\ algorithm = "count"     => Count!CountCorrect
  /\ algorithm = "count_msb" => CountMsb!CountMsbCorrect
  /\ algorithm = "equal"     => Equal!EqualCorrect

\* The reduction is order sensitive (README.md:393): the operation of count_msb is
\* handed the bits of the range from the end down, each once and in its place.
HandedInOrder == algorithm = "count_msb" => CountMsb!HandedInOrder

\* Between two words what has been passed is accounted for: find has missed
\* nothing, count has counted the ones once each, count_msb has passed bits of
\* the value alone and handed them on in order, equal compares bits with their
\* counterparts.
PassedSoFar ==
  /\ algorithm = "find"      => Find!NothingMissed
  /\ algorithm = "count"     => Count!PartialCount
  /\ algorithm = "count_msb" => CountMsb!AllCounted
  /\ algorithm = "equal"     => Equal!InStep
  /\ HandedInOrder

\* No word outside the ranges is read, not even the word an aligned last
\* designates (but by count, of an empty range).
AccessInRange ==
  /\ algorithm = "find"  => Find!AccessInRange
  /\ algorithm = "count" => Count!AccessInRange
  /\ algorithm = "equal" => Equal!AccessInRange
=============================================================================
