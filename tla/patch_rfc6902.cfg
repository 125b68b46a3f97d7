SPECIFICATION MCSpec
CONSTANTS
  Pointers <- MCPointers
  Calls <- MCCalls
  MAX_NODES = 4
  Patched <- MCPatched
  Operations <- MCOperations
  MAX_OPS = 2
  MergedValues <- MCMerged
  Patches <- MCPatches
PROPERTY FollowsRfc6902
