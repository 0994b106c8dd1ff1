SPECIFICATION Spec
CONSTANTS
  NXcds = 2
  NWorkers = 3
  NWaves = 1
  NSlices = 1
  Layers = 2
  FirstKDense = 1
  Heads = 2
  KvChunks = 1
  MoeInter = 3
  KChunks = {2, 3}
  Splits = {0, 1}
  OptionSets <- MCOptionSets
  EditedOptionSets = {{}, {"kva_shared", "qc_published", "topk_published", "local_kva", "local_fold"}}
  CommandLines <- MCCommandLines
  EditedLines <- MCEditedLines
  EditedFields = {"wait_event", "signal_event", "local_event", "wait_scope", "signal_scope", "wait_count", "signal_xcd_count", "flags", "kv_chunk", "n_split", "xcd", "worker", "producers", "scope"}
  Orders = {"forward", "reverse"}
INVARIANTS
  BuiltGraphsAreValid
  AcceptedGraphsDrain
