CONSTANTS
  Word = 64
  Torrents <- SmallTorrents
  Blank = Blank
  Other = Other
  MaxTaken = 1
  MaxFiles = 3
  MinLength = 0
  MaxLength = 3
  MaxPieceSize = 4
SPECIFICATION Spec
INVARIANTS
  TakenFilesKept
  DiskExact
  HandleMatchesProgress
  AbortsOnlyForCause
  BufferMatchesRange
PROPERTIES
  FilesComplete
