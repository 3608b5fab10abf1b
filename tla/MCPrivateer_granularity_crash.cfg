SPECIFICATION Spec
CONSTANTS
  build <- Sigaction
  MaxDeaths = 1
  NumProcesses = 1
  NumObjects = 1
  MaxValue = 1
  Processes <- MCProcesses
  Objects <- MCObjects
  process <- MCProcess
  Versions = {v1, v2}
  Managers = {m1, m2}
  Slots = {s1, s2}
  Environments <- OneBlockSize
  FILE_GRANULARITY_DEFAULT_BYTES = 2
  Sizes = {1}
  Stores = {1}
  Values <- MCValues
  Calls <- AllCalls
  None = None
INVARIANT GranularityWritten
