SPECIFICATION Spec
CONSTANTS
  NumProcesses = 3
  NumThreads = 1
  Blocks = {a}
  NumValues = 2
  MultiTiered = FALSE
  UseCompression = FALSE
  ShortWrites = FALSE
  MayCrash = TRUE
  Processes <- MCProcesses
  Workers <- MCWorkers
  process <- MCProcess
  Values <- MCValues
  Hashes <- MCHashes
  compute_hash <- MCHash
  None = None
  Partial = Partial
SYMMETRY BlockSymmetry
INVARIANTS
  ReturnedIsStored
  StashBacked
PROPERTIES
  ImplementsContentStore
