SPECIFICATION MCSpec
CONSTANTS
  FlagSets <- MCFlagSets
  DatLens = {0, 9}
  HDR_LEN = 4
  MINIFY_RATIO = 6
  PRETTY_RATIO = 16
  Numerals <- MCNumerals
  MAX_CHARS = 4
  SAFE_DIG = 2
  U_MAX = 111
  EXP_DIG = 3
  MIN_EXP <- MCMinExp
  MAX_EXP = 2
  MAX_DEC_DIG = 4
  BITS = 2
  CHUNKS = 4
  Factors = {1, 2, 3}
  MAX_NUM = 63
  Bigs = {full, comp}
INVARIANTS
  CellsInBlock
  ReadsExactly
  NumbersExact
