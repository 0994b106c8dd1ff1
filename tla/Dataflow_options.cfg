SPECIFICATION VSpec
CONSTANTS
  NXcds = 1
  NWorkers = 3
  NWaves = 2
  QAbsSlices = 1
  Layers = 2
  FirstKDense = 0
  Heads = 1
  KvChunks = 1
  TopK = 1
  KChunks = 2
  SplitWorkers = 1
  PrefetchTasks = 1
  GraphOptions = {"kva_shared", "qc_published", "topk_published", "prefetch", "local_fold", "local_kva"}
  Tokens = 3
  PerLaunch = 2
  DirectPoll = FALSE
  Smoke = FALSE
  MayTimeOut = FALSE
  CoherentActs = FALSE
  Xcds <- MCXcds
  Workers <- MCWorkers
  Events <- MCEvents
  GlobalEvents <- MCGlobalEvents
  DoneEvent <- MCDoneEvent
  Desc <- MCDesc
  Queue <- MCQueue
INVARIANTS
  NoEarlyStart
  CleanExit
  RunsAreOrdered
  InputsAreCurrent
  ReadersAreFed
  PayloadsAreVisible
