SPECIFICATION Spec

CONSTANTS
  NumThreads = 1
  Threads <- MCThreads
  NumBlocks = 3
  NumPages = 1
  NumValues = 2
  Values <- MCValues
  Zero = 0
  Stores <- AnyContents
  None = None
  Versions = {v1}
  MaxMemBlocks = 1
  num_handling_threads = 1
  num_msync_threads = 1
  BlocksOf <- AllBlocks
  Calls = {"msync"}
  Quiet = TRUE
  MaxListed = 1

INVARIANTS
  NeverExits
  ResidentListed

CHECK_DEADLOCK FALSE
