SPECIFICATION Spec
CONSTANTS
  Levels <- SomeLevels
  Texts <- SomeTexts
  KeyData <- SomeKeys
  MaxKeys = 3
  OddBytes <- SomeOdd
INVARIANTS
  WireTypeOK
  Understood
  CutIsNotMistaken
  AccessorsAgree
  ProtocolsApart
