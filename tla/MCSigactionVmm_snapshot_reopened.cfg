SPECIFICATION Spec
CONSTANTS
  NumBlocks = 2
  MaxMemBlocks = 2
  MaxValue = 1
  Values <- MCValues
  Zero <- MCZero
  Hashes <- MCHashes
  EMPTY_BLOCK_HASH <- MCEmptyHash
  compute_hash <- MCHash
  Versions = {va, vb}
  None = None
SYMMETRY VersionSymmetry
PROPERTIES
  SnapshotComplete
