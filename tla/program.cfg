SPECIFICATION MCSpec
CONSTANTS
  NUM_ALUS = 4
  WORD_SIZE = 128
  REG_LOG_FILE_SIZE = 4
  BYTE_SIZE = 8
  INT_SIZE = 32
  Files <- MCFiles
  Snapshots <- MCSnapshots
  MAX_CYCLES = 3
  MAX_FAILURES = 2
  Lengths = {0, 1, 4, 7, 12, 20}
  Starts = {0, 3, 9}
  SIZE_LIMIT = 32
  LONG_MAX = 15
  PADDING = 1
  CHUNK_MIN = 2
  CHUNK_MAX = 4
  Texts = {1, 3}
  Olds = {0, 2}
INVARIANTS
  NoInvalidFree
  ResourcesReturned
  ParsesPrograms
  DumpIsLog
  FilesAreWhole
