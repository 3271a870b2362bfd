CONSTANTS
  Worlds <- MCWorlds
  MaxEvents = 1
SPECIFICATION Spec
INVARIANTS
  TypeOK
  ServesTheBest
PROPERTIES
  StartEndsOnlyWhen
  ServesInTheEnd
CHECK_DEADLOCK FALSE
