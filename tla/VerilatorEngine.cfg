SPECIFICATION Spec
CONSTANTS
  Lanes <- TwoLanes
  Ops <- MacOps
  LossyOps = {}
  MaxCalls = 4
  MaxWait = 7
  Override = 0
INVARIANTS TypeOK PendingIsInFlight ControlsTravelWithOperands LanesDisjoint ReportedLatency ExecuteSeesDone
PROPERTIES CallsReturn ImplementsComputeEngine
CHECK_DEADLOCK FALSE
