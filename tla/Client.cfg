CONSTANTS
  p1 = p1
  p2 = p2
  Peer <- TwoPeers
  NoPiece = NoPiece
  Word = 16
  PiecesCount = 2
  PieceSize = 4
  TotalSize = 6
  MaxBlock = 2
  MaxBacklog = 2
  TrackerReplies <- SomeReplies
  Seeders <- OneSeeder
  SendsUnhandled = TRUE
  FileLengths <- TwoFiles
  Blank = Blank
  Other = Other
  MaxTaken = 0
  MaxRestarts = 1
SPECIFICATION ClientFairSpec
INVARIANTS
  ExitHasFiles
  StopsOnlyForCause
PROPERTIES
  ImplementsStore
  ClientFinishes
