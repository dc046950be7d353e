CONSTANTS
  Messages <- SomeMessages
  BadPayloads <- SomeBadPayloads
  Requests <- SomeRequests
  MaxReceived = 3
  MaxSent = 3
SPECIFICATION Spec
INVARIANTS
  FramingKept
  BitfieldExact
PROPERTIES
  GivesUpForCause
  ImplementsChannel
  MessagesArrive
