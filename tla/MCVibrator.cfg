CONSTANTS
  Thread = {r1, r2}
  Main = main
  NoThread = null
  Times = {1}
  IntMax = 3
  Durations = {1, 2}
  Backends <- MCBackends
SPECIFICATION Spec
INVARIANTS
  TypeOK
  NoStalePattern
  AtMostTwoConfigure
  SomebodyStopsTheMotor
  OnlyWhatWasAsked
PROPERTIES
  UndisturbedPulse
