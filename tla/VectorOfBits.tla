---------------------------- MODULE VectorOfBits ----------------------------
(***************************************************************************)
(* What std::vector<bool> promises of its contents: a sequence of bits and *)
(* the effect of each modifier on it, with no words and no capacity.  The  *)
(* call a step answers is recorded in call, so that a step can be judged   *)
(* against what was asked for.  Positions count from 0.                    *)
(***************************************************************************)
EXTENDS Integers, Sequences

CONSTANT Bit

VARIABLES
  bits,   \* the contents
  call    \* the last call: [name, at, count, with]

vars == <<bits, call>>

\* r inserted before position at, and count bits removed from position at on.
Splice(s, at, r) == SubSeq(s, 1, at) \o r \o SubSeq(s, at + 1, Len(s))
Cut(s, at, count) == SubSeq(s, 1, at) \o SubSeq(s, at + count + 1, Len(s))

Called(names) == call'.name \in names

Init == bits = <<>> /\ call = [name |-> "none", at |-> 0, count |-> 0, with |-> <<>>]

\* Construction from a range and assignment.
Assign ==
  /\ Called({"construct", "assign"})
  /\ bits' = call'.with

Insert ==
  /\ Called({"insert", "push_back"})
  /\ call'.at \in 0 .. Len(bits)
  /\ bits' = Splice(bits, call'.at, call'.with)

Set ==
  /\ Called({"write"})
  /\ call'.at \in 0 .. (Len(bits) - 1)
  /\ bits' = [bits EXCEPT ![call'.at + 1] = call'.with[1]]

Erase ==
  /\ Called({"erase", "pop_back"})
  /\ call'.at + call'.count <= Len(bits)
  /\ bits' = Cut(bits, call'.at, call'.count)

Clear ==
  /\ Called({"clear", "moved"})
  /\ bits' = <<>>

\* The bits both sizes have stay; those a longer size adds are not determined.
Resize ==
  /\ Called({"resize", "resize_value"})
  /\ bits' \in Seq(Bit)
  /\ Len(bits') = call'.count
  /\ \A i \in 1 .. call'.count : i <= Len(bits) => bits'[i] = bits[i]

\* Memory management leaves the contents alone.
Keep ==
  /\ Called({"shrink_to_fit"})
  /\ bits' = bits

Next == Assign \/ Set \/ Insert \/ Erase \/ Clear \/ Resize \/ Keep

Spec == Init /\ [][Next]_vars
=============================================================================
