SPECIFICATION VSpec
CONSTANTS
  NXcds = 2
  NWorkers = 1
  NWaves = 1
  QAbsSlices = 1
  Layers = 2
  FirstKDense = 1
  Heads = 2
  KvChunks = 1
  TopK = 1
  KChunks = 1
  SplitWorkers = 0
  PrefetchTasks = 0
  GraphOptions = {"kva_shared", "topk_published", "local_fold"}
  Tokens = 2
  PerLaunch = 2
  DirectPoll = FALSE
  Smoke = FALSE
  MayTimeOut = FALSE
  CoherentActs = FALSE
  Xcds <- MCXcds
  Workers <- MCWorkers
  Events <- MCEvents
  GlobalEvents <- MCGlobalEvents
  DoneEvent <- MCDoneEvent
  Desc <- MCDesc
  Queue <- MCQueue
INVARIANTS
  TypeOK
  RunsAreOrdered
  StoresAreWrittenBack
  TokensDoNotOverlap
  SchedulersLeaveLast
  ReadersAreFed
  NoDataRace
  CopiesAreDropped
