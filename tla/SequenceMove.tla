---------------------------- MODULE SequenceMove ----------------------------
(***************************************************************************)
(* What std::copy, std::copy_backward, std::shift_left and shift_right     *)
(* promise of a bit range, with no words in sight: the len bits at src end *)
(* up at dst, a bit outside the destination is never written, and at every *)
(* moment each destination bit holds either its old value or its final     *)
(* one.  The bits may arrive in any order and any number at a time.  A     *)
(* shift leaves the bits it vacates unspecified: they are the free ones,   *)
(* which the operation may set to anything.                                *)
(***************************************************************************)
EXTENDS Integers

CONSTANTS Addr, Bit

VARIABLES
  mem,            \* the memory
  orig,           \* the memory when the call was made
  src, dst, len,  \* the arguments
  free,           \* the addresses whose contents the operation leaves open
  moved           \* the offsets of the bits that have arrived

vars == <<mem, orig, src, dst, len, free, moved>>

Offsets == 0 .. (len - 1)

\* The memory once the bits at the offsets D have arrived.
Image(D) ==
  [a \in Addr |-> IF (a - dst) \in D THEN orig[src + (a - dst)] ELSE orig[a]]

Init ==
  /\ mem = orig
  /\ orig \in [Addr -> Bit]
  /\ src \in Int /\ dst \in Int /\ len \in Nat
  /\ free \subseteq Int
  /\ moved = {}

Arrive ==
  /\ moved' \in SUBSET Offsets
  /\ moved \subseteq moved'
  /\ mem' \in [Addr -> Bit]
  /\ \A a \in Addr \ free : mem'[a] = Image(moved')[a]
  /\ UNCHANGED <<orig, src, dst, len, free>>

Spec == Init /\ [][Arrive]_vars
=============================================================================
