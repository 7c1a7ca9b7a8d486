SPECIFICATION Spec
CONSTANTS
  Banks = {0, 1}
  BankGroups = {0}
  Shapes <- MCShapes
  RefreshShape <- MCRefresh
  Rows = {0, 1}
  BufferSize = 2
  ActiveSize = 3
  Gating = TRUE
  Latencies = {0, 4}
  Timing <- MCTiming
  Latency <- MCLatency
  MaxRequests = 4
  StatCap = 0
INVARIANTS TypeOK ExactlyOnePlace OneActivePerBank ArchExclusive
PROPERTIES EocBarrier FinalsPassGate AllServed
CHECK_DEADLOCK FALSE
