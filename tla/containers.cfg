SPECIFICATION MCSpec
CONSTANTS
  Elem = {e1, e2, e3}
  NoElem = none
  CAPACITY = 4
  NODES = 5
  Names = {a, b}
  Data = {x, y}
  NoData = nothing
  PAIRS = 3
  SIZE_LIMIT = 9
  CHUNK_HEADER = 2
  INIT_SIZE = 4
  MAX_SIZE = 7
  MAX_CHUNKS = 2
  MAX_BLOCKS = 3
  HEADER = 2
  Offsets = {0, 1}
  Sizes = {7, 8, 21}
  Asks = {1, 2, 3, 5, 7}
INVARIANTS
  StructuresInv
  MemoryIsApart
PROPERTIES
  ImplementsFifo
  ImplementsList
  ImplementsMap
  AllocatorsPromise
VIEW View
SYMMETRY Symmetry
