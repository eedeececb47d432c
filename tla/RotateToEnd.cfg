SPECIFICATION MCAnySpec
CONSTANTS
  W = 4
  NumWords = 4
  Bit <- NamedBits
  Zero = {}
INVARIANT
  ReturnsMiddle
