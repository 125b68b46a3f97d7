SPECIFICATION Spec
CONSTANTS
  Texts <- MCTexts
  Strings <- MCStrings
  MAX_PIECES = 3
INVARIANTS
  ReadsBack
  StringsSound
PROPERTIES
  UnreadIntact
