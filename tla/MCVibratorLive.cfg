CONSTANTS
  Thread = {r1, r2}
  Main = main
  NoThread = null
  Times = {0, 1}
  IntMax = 1
  Durations = {1}
  Backends <- MCLiveBackends
SPECIFICATION Spec
PROPERTIES
  ReleaseReturns
  RestsInTheEnd
