SPECIFICATION Spec
CONSTANTS
  build <- BothBuilds
  MaxDeaths = 1
  NumProcesses = 2
  NumObjects = 3
  MaxValue = 1
  Processes <- MCProcesses
  Objects <- MCObjects
  process <- MCProcess
  Versions = {v1, v2}
  Managers = {m1, m2}
  Slots = {s1, s2}
  Environments <- OneBlockSize
  FILE_GRANULARITY_DEFAULT_BYTES = 2
  Sizes = {3}
  Stores = {1}
  Values <- MCValues
  Calls <- MakersAndCopier
  None = None
SYMMETRY Symmetry
INVARIANTS
  TypeOK
  MadeOnce
  FaultsReachOwner
PROPERTIES
  StaysWhole
  SavedOnlyByHolders
