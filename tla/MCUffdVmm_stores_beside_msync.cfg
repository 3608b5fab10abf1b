SPECIFICATION Spec

CONSTANTS
  NumThreads = 2
  Threads <- MCThreads
  NumBlocks = 1
  NumPages = 1
  NumValues = 2
  Values <- MCValues
  Zero = 0
  Stores <- AnyContents
  None = None
  Versions = {v1}
  MaxMemBlocks = 1
  num_handling_threads = 1
  num_msync_threads = 1
  BlocksOf <- AllBlocks
  Calls = {"msync"}
  Quiet = FALSE
  MaxListed = 1

INVARIANTS
  TypeOK

PROPERTIES
  OnlyStoresChange

CHECK_DEADLOCK FALSE
