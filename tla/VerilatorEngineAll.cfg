SPECIFICATION Spec
CONSTANTS
  Lanes <- TwoLanes
  Ops <- AllOps
  LossyOps = {"ewmul"}
  MaxCalls = 4
  MaxWait = 7
  Override = 5
PROPERTIES ImplementsComputeEngine
CHECK_DEADLOCK FALSE
