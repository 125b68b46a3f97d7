SPECIFICATION MCSpec
CONSTANTS
  Docs <- MCDocs
  MINIFY_RATIO = 18
  PRETTY_RATIO = 32
  NUM_LEN = 40
  CopiedValues <- MCCopiedValues
  ReadDocs <- MCReadDocs
  Keys = {1, 2, 3}
  ComparedValues <- MCComparedValues
  WORD = 4
  Pointers <- MCPointers
  Calls <- MCCalls
  MAX_NODES = 4
  Patched <- MCPatched
  Operations <- MCOperations
  MAX_OPS = 2
  MergedValues <- MCMerged
  Patches <- MCPatches
VIEW View
INVARIANTS
  NoOverlap
  WritesText
  FormsAgree
  DocumentWhole
PROPERTIES
  FindsCyclically
  PlacesKept
  AppliesInOrder
  MergesLikeRfc7386
