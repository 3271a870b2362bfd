CONSTANTS
  Effect <- MCEffect
  Duration <- MCDuration
  Period <- MCPeriod
  IntMax = 511
  Chain = {c1, c2}
  Orphan = Orphan
  MaxCalls = 3
SPECIFICATION ClaimsSpec
INVARIANTS
  ForeverUntilStopped
