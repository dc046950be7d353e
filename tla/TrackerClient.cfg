CONSTANTS
  Urls <- SomeUrls
  InfoHashes <- SomeInfoHashes
  Counts <- SomeCounts
  MaxTrackers = 2
  Peers = {1, 2}
  Answers <- SomeAnswers
  ServerPort = 3
  Word16 = 256
SPECIFICATION Spec
INVARIANTS
  OnlyAndAllAnswered
  EveryUsableUrlAsked
  QueryReadBack
PROPERTIES
  RequestReturns
