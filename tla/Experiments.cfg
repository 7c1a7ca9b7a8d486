SPECIFICATION ExperimentsSpec
CONSTANTS
  Files <- MCFiles
  BASE_FILES = {"config.json", "model.safetensors.index.json"}
  TokenizerFiles = {"tokenizer.json", "tokenizer_config.json"}
  Shards = {"model-1.safetensors", "model-2.safetensors"}
  MODEL_REQUIRED_FILES = {"config.json", "tokenizer.json", "tokenizer_config.json"}
  IndexFile = "model.safetensors.index.json"
  Tensors <- MCTensors
  WeightMap <- MCWeightMap
  Candidates <- MCCandidates
  Layers = {0, 1, 2}
  MaxRuns = 2
  MaxEarly = 1
  A1 = A1
  A2 = A2
  w1 = w1
  w2 = w2
  Workers = {w1, w2}
  Activations = {A1, A2}
  R = 2
  Setups <- MCSetups
  MaxForwards = 2
  NumLayers = 3
  Projections = {"q", "down"}
  Commands <- MCCommands
  Tags = {"a", "b", "c", "d"}
  OutputRows = 3
  Ulp <- MCUlp
  StageCommands <- MCStageCommands
  MaxLaunches = 3
  MaxKills = 1
  MaxFaults = 1
INVARIANTS LoadsTheTensor DeltasIsolatePolicy OutputsAreWhole OnlyFaultsFail AggregateIsTheWhole PassIsEarned
PROPERTIES ServedRight OnlyMissingRun Completes
CHECK_DEADLOCK FALSE
