SPECIFICATION Spec
CONSTANTS
  NumProcesses = 1
  NumThreads = 3
  Blocks = {a, b, c}
  NumValues = 2
  MultiTiered = TRUE
  UseCompression = FALSE
  ShortWrites = FALSE
  MayCrash = FALSE
  Processes <- MCProcesses
  Workers <- MCWorkers
  process <- MCProcess
  Values <- MCValues
  Hashes <- MCHashes
  compute_hash <- MCHash
  None = None
  Partial = Partial
SYMMETRY BlockSymmetry
INVARIANTS
  TypeOK
  PathsResolve
  StashBacked
PROPERTIES
  ImplementsContentStore
