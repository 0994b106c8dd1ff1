SPECIFICATION Spec
CONSTANTS
  NLayers = 2
  FirstDense = 1
  Hidden = 2
  MoeInter = 2
  DenseInter = 3
  NRouted = 2
  QRows = 3
  KvRows = 2
  TopK = 2
  RopeType = "yarn"
  MaxPositions = 3
  Junk = 98
  HalfToken = 99
  Greedy <- MCGreedy
  Affinity <- MCAffinity
  Names <- PackedNames
  Tensor <- PackedTensors
  Prompt <- MCPrompt
  Contexts = {2, 3}
  Decodes = {2}
  LaunchTokens = {1, 2}
  PerLaunch = {1, 2}
  Repeats = {1, 2}
  MaxPacks = 2
  MaxDigits = 4
  StackWords = {0}
  MaxRuns = 2
  MaxLaunches = 1
INVARIANTS
  TypeOK
  ReadsBack
  FleetRowsAreHf
  NothingRaises
  LaunchReproducesGolden
  ExitZeroIsGreedy
PROPERTIES
  PackedAsRead
  HfDecodesGreedily
CHECK_DEADLOCK FALSE
