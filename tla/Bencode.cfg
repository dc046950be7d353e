CONSTANTS
  Inputs <- SmallInputs
  Entries = {"Parse", "ParseString", "ParseInteger", "ParseList", "ParseDictionary"}
  MaxLength = 99
SPECIFICATION Spec
INVARIANTS
  ItemsTile
  OverrunOnlyLastString
  ValuesParsed
  OnlyValuesParsed
