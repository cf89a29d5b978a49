SPECIFICATION Spec
CONSTANTS
  KeyBytes <- MCKeyBytes
  Texts <- MCTexts
  FirstCap = 2
  MaxLost = 1
INVARIANTS
  SpansInOrder
  PrintsText
  CrashNeedsLoss
  KeysRoundTrip
  Coloured
