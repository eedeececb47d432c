SPECIFICATION Spec
CONSTANTS
  W = 3
  NumWords = 3
  Bit = {0, 1}
  Zero = 0
  One = 1
INVARIANTS
  TypeOK
  ScanCorrect
  PassedSoFar
  AccessInRange
