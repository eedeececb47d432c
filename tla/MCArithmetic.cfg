SPECIFICATION Spec
CONSTANTS
  W = 3
  NumWords = 3
  FewWords = 2
  H = 3
  Bit = {0, 1}
  Zero = 0
  CharWord = 4
  BaseBits = 2
  WorkBits = 4
  StringDigits = {0, 1, 2, 7}
  MaxBits = 9
  MaxChars = 5
  DecimalBase = 10
  DecimalBits = 12
  DecimalChars = 3
  NumBits = 7
  LiteralDigits = {0, 1, 5, 11}
  LiteralChars = 5
  ArraySizes = {1, 2, 3, 4}
  IntegralWidths = {2, 3}
INVARIANTS
  TypeOK
  ArithmeticCorrect
  StringsCorrect
  AccountedFor
  RangesRespected
PROPERTIES
  IntegralsExact
