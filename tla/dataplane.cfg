SPECIFICATION ExchangeSpec
CONSTANTS
  Lexicon <- MCLexicon
  Special <- MCSpecial
  Samples <- MCSamples
  Originals <- MCOriginals
  OtherTexts <- MCOtherTexts
  OtherNumbers <- MCOtherNumbers
INVARIANTS AcceptedIsCanonical WrittenIsRead
CHECK_DEADLOCK FALSE
