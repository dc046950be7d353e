CONSTANTS
  Messages <- SomeMessages
  BadPayloads <- SomeBadPayloads
  Requests <- SomeRequests
  MaxReceived = 1
  MaxSent = 3
SPECIFICATION Spec
INVARIANTS
  PeerUnderstands
