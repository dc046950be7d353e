CONSTANTS
  Word = 4
  Torrents <- SmallTorrents
  Blank = Blank
  Other = Other
  MaxTaken = 0
  MaxFiles = 3
  MinLength = 1
  MaxLength = 3
  MaxPieceSize = 3
SPECIFICATION Spec
INVARIANT
  WriteAssertsHold
