SPECIFICATION VSpec
CONSTANTS
  NXcds = 2
  NWorkers = 1
  NWaves = 1
  QAbsSlices = 1
  Layers = 3
  FirstKDense = 1
  Heads = 2
  KvChunks = 1
  TopK = 1
  KChunks = 2
  SplitWorkers = 0
  PrefetchTasks = 0
  GraphOptions = {}
  Tokens = 1
  PerLaunch = 1
  DirectPoll = FALSE
  Smoke = FALSE
  MayTimeOut = FALSE
  CoherentActs = TRUE
  Xcds <- MCXcds
  Workers <- MCWorkers
  Events <- MCEvents
  GlobalEvents <- MCGlobalEvents
  DoneEvent <- MCDoneEvent
  Desc <- MCDesc
  Queue <- MCQueue
INVARIANT
  PayloadsAreVisible
