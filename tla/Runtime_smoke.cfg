SPECIFICATION Spec
CONSTANTS
  NXcds = 1
  NWorkers = 2
  NWaves = 2
  QAbsSlices = 1
  Layers = 1
  FirstKDense = 0
  Heads = 1
  KvChunks = 1
  TopK = 1
  KChunks = 2
  SplitWorkers = 0
  PrefetchTasks = 0
  GraphOptions = {"qc_published", "topk_published"}
  Tokens = 2
  PerLaunch = 1
  DirectPoll = TRUE
  Smoke = TRUE
  MayTimeOut = FALSE
  Xcds <- MCXcds
  Workers <- MCWorkers
  Events <- MCEvents
  GlobalEvents <- MCGlobalEvents
  DoneEvent <- MCDoneEvent
  Desc <- MCDesc
  Queue <- MCQueue
INVARIANTS
  NoEarlyStart
  MirrorsLag
PROPERTIES
  MirrorsOnlyGrow
