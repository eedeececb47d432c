SPECIFICATION MCSpec
CONSTANTS
  W = 4
  NumWords = 4
  Bit <- NamedBits
  Zero = 0
INVARIANTS
  TypeOK
  CopyCorrect
  SourceIntact
  InstructionsSafe
PROPERTIES
  Termination
  MoveSpec
