SPECIFICATION Spec
CONSTANTS
  NumBlocks = 3
  MaxMemBlocks = 2
  MaxValue = 1
  Values <- MCValues
  Zero <- MCZero
  Hashes <- MCHashes
  EMPTY_BLOCK_HASH <- MCEmptyHash
  compute_hash <- MCHash
  Versions = {va}
  None = None
INVARIANTS
  LruPartition
  MemoryBound
  StashCurrent
  WriteBarrier
PROPERTIES
  RangeDurable
