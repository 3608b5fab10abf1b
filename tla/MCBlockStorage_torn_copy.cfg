SPECIFICATION Spec
CONSTANTS
  NumProcesses = 2
  NumThreads = 1
  Blocks = {a}
  NumValues = 2
  MultiTiered = TRUE
  UseCompression = FALSE
  ShortWrites = FALSE
  MayCrash = FALSE
  Processes <- MCProcesses
  Workers <- MCWorkers
  process <- MCProcess
  Values <- MCValues
  Hashes <- MCHashes
  compute_hash <- MCHash
  None = None
  Partial = Partial
SYMMETRY BlockSymmetry
INVARIANTS
  PathsResolve
