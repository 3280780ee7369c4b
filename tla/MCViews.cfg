SPECIFICATION ViewsSpec
CONSTANTS
  Chars <- MCChars
  BetterleaksRules <- MCRules
  TrufflehogDetectors <- MCDetectors
  Decoders <- MCDecoders
  Texts <- MCTexts
  CapLines = {1, 3}
  CapBytes = {0, 3, 7}
  MaxLines = 4
  Workers = 2
  Cap = 4
INVARIANTS HoldsLongestEnd SecretsAreFound NoSecretLeft
CHECK_DEADLOCK FALSE
