CONSTANTS
  Values <- SomeValues
  Contents <- SomeContents
  MaxInfoKeys = 4
  MaxKeys = 4
  Word = 16
  WideWord = 256
SPECIFICATION Spec
INVARIANTS
  ParsedExactly
  InfoHashed
  TiersKept
  MadeAsHashed
