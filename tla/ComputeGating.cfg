SPECIFICATION Spec
CONSTANTS
  Banks <- MCBanks
  BankGroups <- MCGroups
  Gating = TRUE
  Latencies <- MCLatencies
  MaxClk = 5
INVARIANTS IInv
PROPERTIES MacsNeverOverlap ReadsSeeFinished UnitsNeverOverlap
CHECK_DEADLOCK FALSE
