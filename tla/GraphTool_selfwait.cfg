SPECIFICATION Spec
CONSTANTS
  NXcds = 2
  NWorkers = 3
  NWaves = 1
  NSlices = 1
  Layers = 2
  FirstKDense = 1
  Heads = 2
  KvChunks = 1
  MoeInter = 3
  KChunks = {2}
  Splits = {0}
  OptionSets = {}
  EditedOptionSets = {{"kva_shared", "qc_published"}}
  CommandLines <- MCCommandLines
  EditedLines <- MCEditedLines
  EditedFields = {"wait_event"}
  Orders = {"forward"}
INVARIANT
  AcceptedWaitsAreEarlier
