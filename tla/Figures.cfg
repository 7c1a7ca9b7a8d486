SPECIFICATION FiguresSpec
CONSTANTS
  Q1 = Q1
  K1 = K1
  K2 = K2
  Q = Q
  K = K
  RunOrder <- MCRunOrder
  CaseOf <- MCCaseOf
  Expected = {Q, K}
  Elements = 1
  MaxVersion = 2
  MaxLaunches = 2
  Sign = 8
  Inf = 6
  Low = 2
  Results <- MCResults
  References <- MCReferences
  MaxElements = 2
INVARIANTS  DistanceIsMetric SummariesAgree
CHECK_DEADLOCK FALSE
