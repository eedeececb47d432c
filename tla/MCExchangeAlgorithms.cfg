SPECIFICATION MCSpec
CONSTANTS
  W = 4
  NumWords = 8
  Bit <- NamedBits
  Zero = {}
INVARIANTS
  TypeOK
  ExchangeCorrect
  NothingLost
  InstructionsSafe
PROPERTIES
  Termination
