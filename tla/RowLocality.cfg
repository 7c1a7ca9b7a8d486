SPECIFICATION Spec
CONSTANTS
  Banks = {0, 1}
  BankGroups = {0}
  Shapes <- MCShapes
  RefreshShape <- MCRefresh
  Rows = {0, 1}
  BufferSize = 2
  ActiveSize = 3
  Gating = TRUE
  Latencies = {0, 4}
  Timing <- MCTiming
  Latency <- MCLatency
  MaxRequests = 2
  StatCap = 4
INVARIANTS LocalityCountsRequests
CHECK_DEADLOCK FALSE
