CONSTANTS
  Effect <- MCEffect
  Duration <- MCDuration
  Period <- MCPeriod
  IntMax = 511
  Chain = {c1, c2}
  Orphan = Orphan
  MaxCalls = 3
SPECIFICATION Spec
INVARIANTS
  TypeOK
  RunningMeansPending
  CallsWithinDuration
PROPERTIES
  EndsCovered
  HaltedDiesOut
  FiniteEnds
