SPECIFICATION Spec
CONSTANTS
  Banks <- MCBanks
  Rows = {0}
  Cols = {0, 1}
  GroupOf <- MCGroupOf
  Gprs = {0}
  GprValue <- MCGprValue
  Zero <- MCZero
  ZeroSum <- MCZeroSum
  RowFill <- MCRandomFill
  Lane <- MCLane
  LaneTile <- MCLaneTile
  SplatTile <- MCSplatTile
  MacStep <- MCMacStep
  Activate <- MCActivate
  EwMul <- MCEwMul
  Deferred = TRUE
  Groups = {0}
  EwmulMap <- MCEwmulMap
  AfTypes = {0}
  MaxCommands = 5
INVARIANTS QueuedIsNewest
PROPERTIES OneTilePerCommand ActivationOfNewest ImplementsEager
CHECK_DEADLOCK FALSE
