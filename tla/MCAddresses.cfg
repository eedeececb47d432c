SPECIFICATION AnySpec
CONSTANTS
  W = 4
  SizeMod = 16
  Reach = 12
  Ratio = 4
  Digits = 2
  PointerReach = 2
  RefDigits = 3
  RefWords = 2
  PieceRatio = 2
  NumPieces = 4
  Piece = {0, 1}
  NumBits = 5
INVARIANTS
  TypeOK
  Designates
  Ordered
  AdaptersExact
  ProxiesExact
  ViewsExact
