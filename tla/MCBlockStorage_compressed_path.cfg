SPECIFICATION Spec
CONSTANTS
  NumProcesses = 1
  NumThreads = 1
  Blocks = {a, b}
  NumValues = 2
  MultiTiered = TRUE
  UseCompression = TRUE
  ShortWrites = FALSE
  MayCrash = FALSE
  Processes <- MCProcesses
  Workers <- MCWorkers
  process <- MCProcess
  Values <- MCValues
  Hashes <- MCHashes
  compute_hash <- MCHash
  None = None
  Partial = Partial
SYMMETRY BlockSymmetry
INVARIANTS
  PathsResolve
