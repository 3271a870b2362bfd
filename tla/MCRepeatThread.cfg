CONSTANTS
  Thread = {r1}
  Times <- MCTimes
  IntMax = 2
SPECIFICATION Spec
INVARIANTS
  TypeOK
  IInv
  NoLostWakeup
  AtMostOneLateCall
  NoUseAfterDestroy
PROPERTIES
  DestructorReturns
  PatternEnds
  ImplementsPulseTrain
