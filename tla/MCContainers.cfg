SPECIFICATION Spec
CONSTANTS
  W = 2
  Bit = {0, 1}
  Zero = 0
  MaxLen = 5
  MaxArg = 3
  Slot = {a1, a2, a3}
  Block = {b1, b2, b3}
  null = null
  Absent = Absent
  Gone = Gone
  Item = {0, 1}
  FixedWords = 1
  MaxSize = 3
INVARIANTS
  TypeOK
  WordsFit
PROPERTIES
  VectorSpec
  Ownership
  ValueSemantics
