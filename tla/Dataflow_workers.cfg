SPECIFICATION VFairSpec
CONSTANTS
  NXcds = 2
  NWorkers = 2
  NWaves = 1
  QAbsSlices = 2
  Layers = 1
  FirstKDense = 0
  Heads = 2
  KvChunks = 1
  TopK = 1
  KChunks = 1
  SplitWorkers = 0
  PrefetchTasks = 0
  GraphOptions = {"qc_published", "topk_published", "oproj_row_split"}
  Tokens = 1
  PerLaunch = 1
  DirectPoll = FALSE
  Smoke = FALSE
  MayTimeOut = FALSE
  CoherentActs = FALSE
  Xcds <- MCXcds
  Workers <- MCWorkers
  Events <- MCEvents
  GlobalEvents <- MCGlobalEvents
  DoneEvent <- MCDoneEvent
  Desc <- MCDesc
  Queue <- MCQueue
INVARIANTS
  RunsAreOrdered
  CountersHonest
  ReadersAreFed
  CopiesAreDropped
PROPERTIES
  AllTokensDecoded
