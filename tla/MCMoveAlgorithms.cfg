SPECIFICATION MCSpec
CONSTANTS
  W = 4
  NumWords = 5
  Bit <- NamedBits
  Zero = 0
  One = 1
  Combine <- NamedPairs
INVARIANTS
  TypeOK
  MoveCorrect
  SourceIntact
  InstructionsSafe
PROPERTIES
  MoveSpec
