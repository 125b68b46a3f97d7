SPECIFICATION Spec
CONSTANTS
  Texts <- MCTexts
  Strings <- MCStrings
  MAX_PIECES = 1
INVARIANT ReportsInvalid
