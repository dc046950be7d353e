CONSTANTS
  p1 = p1
  p2 = p2
  Peer <- TwoPeers
  NoPiece = NoPiece
  Word = 8
  PiecesCount = 3
  PieceSize = 5
  TotalSize = 12
  MaxBlock = 2
  MaxBacklog = 2
  TrackerReplies <- AnyReply
  Seeders = {}
  SendsUnhandled = TRUE
SYMMETRY PeerSymmetry
SPECIFICATION Spec
INVARIANTS
  TypeOK
  PieceAccounting
  BytesExact
  StoredWhole
  BookkeepingAssertsHold
  BacklogBound
PROPERTIES
  HolderKeepsProgress
  ImplementsBoard
