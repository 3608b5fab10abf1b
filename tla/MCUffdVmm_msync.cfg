SPECIFICATION Spec

CONSTANTS
  NumThreads = 2
  Threads <- MCThreads
  NumBlocks = 2
  NumPages = 1
  NumValues = 2
  Values <- MCValues
  Zero = 0
  Stores <- FirstAny
  None = None
  Versions = {v1, v2}
  MaxMemBlocks = 2
  num_handling_threads = 2
  num_msync_threads = 2
  BlocksOf <- OwnBlocks
  Calls = {"msync", "snapshot", "close"}
  Quiet = TRUE
  MaxListed = 1

INVARIANTS
  TypeOK
  WriteBarrier
  CleanSaved

PROPERTIES
  MsyncDurable
  CloseCompletes

CHECK_DEADLOCK FALSE
