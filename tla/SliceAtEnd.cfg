SPECIFICATION Spec
CONSTANTS
  NumBits = 4
INVARIANT SlicesReturn
