SPECIFICATION Spec
CONSTANTS
  NumBlocks = 2
  MaxMemBlocks = 1
  MaxValue = 1
  Values <- MCValues
  Zero <- MCZero
  Hashes <- MCHashes
  EMPTY_BLOCK_HASH <- MCEmptyHash
  compute_hash <- MCHash
  Versions = {va}
  None = None
PROPERTIES
  MsyncDurable
