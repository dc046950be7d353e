CONSTANTS
  a = a
  b = b
  Address = {a, b}
  PeerLists <- ShortLists
  ErrorSizes = {12, 16, 26, 30}
  MaxOnTheWay = 3
SPECIFICATION Spec
INVARIANTS
  CallbackNeverOutlivesFrame
  TimeoutMeansNoAnswer
  AbortsOnlyOnErrorReply
  PeersFromOwnAnnounce
PROPERTIES
  AnnounceEnds
