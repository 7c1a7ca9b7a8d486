SPECIFICATION Spec
CONSTANTS
  Lanes <- TwoLanes
  Ops <- EwmulOps
  LossyOps = {}
  MaxCalls = 3
  MaxWait = 7
  Override = 0
INVARIANTS ExecuteSeesDone
CHECK_DEADLOCK FALSE
