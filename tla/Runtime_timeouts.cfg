SPECIFICATION FairSpec
CONSTANTS
  NXcds = 1
  NWorkers = 3
  NWaves = 2
  QAbsSlices = 1
  Layers = 1
  FirstKDense = 0
  Heads = 1
  KvChunks = 1
  TopK = 1
  KChunks = 2
  SplitWorkers = 1
  PrefetchTasks = 0
  GraphOptions = {"qc_published", "topk_published"}
  Tokens = 2
  PerLaunch = 2
  DirectPoll = FALSE
  Smoke = FALSE
  MayTimeOut = TRUE
  Xcds <- MCXcds
  Workers <- MCWorkers
  Events <- MCEvents
  GlobalEvents <- MCGlobalEvents
  DoneEvent <- MCDoneEvent
  Desc <- MCDesc
  Queue <- MCQueue
PROPERTIES
  CountsInOrder
  AbortDrains
