SPECIFICATION Spec
CONSTANTS
  Banks <- MCBanks
  BankGroups <- MCGroups
  Gating = TRUE
  Latencies <- MCLatencies
  MaxClk = 5
PROPERTIES AfWaitsForMac
CHECK_DEADLOCK FALSE
