---------------------------- MODULE ArrayValues ----------------------------
(***************************************************************************)
(* What a set of fixed-extent arrays promises, with no storage in sight:   *)
(* every array has a value of its own, an operation changes the value of   *)
(* the arrays it names and of no other, and an array moved from either     *)
(* keeps its value or has none.                                            *)
(***************************************************************************)
EXTENDS Integers, Sequences

CONSTANTS
  Slot,    \* the arrays there may be
  Item,    \* what an array is made of
  Absent,  \* the value of an array that does not exist
  Gone     \* the value of one that was moved from

VARIABLE val

HasValue(s) == val[s] \notin {Absent, Gone}

Init == val = [s \in Slot |-> Absent]

\* A new array: with a value of its own, that of another, or one taken from
\* another.
Make(s) ==
  /\ val[s] = Absent
  /\ val'[s] \in Seq(Item)
  /\ val' = [val EXCEPT ![s] = val'[s]]

Duplicate(s, t) ==
  /\ val[s] = Absent /\ HasValue(t)
  /\ val' = [val EXCEPT ![s] = val[t]]

Take(s, t) ==
  /\ s # t /\ val[s] = Absent /\ val[t] # Absent
  /\ \E left \in {val[t], Gone} : val' = [val EXCEPT ![s] = val[t], ![t] = left]

\* Assignment, by copy and by move; to itself too.
Assign(s, t) ==
  /\ HasValue(s) /\ HasValue(t)
  /\ Len(val[s]) = Len(val[t])
  /\ val' = [val EXCEPT ![s] = val[t]]

AssignTaking(s, t) ==
  /\ HasValue(s) /\ val[t] # Absent
  /\ \E left \in {val[t], Gone} : val' = [val EXCEPT ![t] = left, ![s] = val[t]]

Exchange(s, t) ==
  /\ val[s] # Absent /\ val[t] # Absent
  /\ val' = [val EXCEPT ![s] = val[t], ![t] = val[s]]

Set(s) ==
  /\ HasValue(s)
  /\ \E i \in DOMAIN val[s], x \in Item : val' = [val EXCEPT ![s] = [@ EXCEPT ![i] = x]]

Drop(s) == val[s] # Absent /\ val' = [val EXCEPT ![s] = Absent]

Next ==
  \/ \E s \in Slot : Make(s) \/ Set(s) \/ Drop(s)
  \/ \E s, t \in Slot :
       \/ Duplicate(s, t) \/ Take(s, t) \/ Assign(s, t)
       \/ AssignTaking(s, t) \/ Exchange(s, t)

Spec == Init /\ [][Next]_val
=============================================================================
