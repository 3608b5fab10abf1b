SPECIFICATION Spec
CONSTANTS
  NumBlocks = 2
  MaxMemBlocks = 1
  MaxValue = 2
  Values <- MCValues
  Zero <- MCZero
  Hashes <- MCHashes
  EMPTY_BLOCK_HASH <- MCEmptyHash
  compute_hash <- MCHash
  Versions = {va, vb}
  None = None
SYMMETRY VersionSymmetry
INVARIANTS
  TypeOK
  LruPartition
  MemoryBound
  WriteBarrier
  StashCurrent
  MetadataBacked
  CleanIsDisposable
PROPERTIES
  RangeDurable
  ReadOnlyPreserves
  ImplementsRegionStore
