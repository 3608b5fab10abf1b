SPECIFICATION Spec

CONSTANTS
  NumThreads = 1
  Threads <- MCThreads
  NumBlocks = 3
  NumPages = 1
  NumValues = 2
  Values <- MCValues
  Zero = 0
  Stores <- FirstAny
  None = None
  Versions = {v1, v2}
  MaxMemBlocks = 3
  num_handling_threads = 2
  num_msync_threads = 1
  BlocksOf <- AllBlocks
  Calls = {"msync", "snapshot"}
  Quiet = TRUE
  MaxListed = 1

PROPERTIES
  SavesCurrent

CHECK_DEADLOCK FALSE
