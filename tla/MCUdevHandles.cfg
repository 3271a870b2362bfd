CONSTANTS
  Var = {x, y, z, u}
  Object = {p, q}
  Null = null
  Unset = unset
  Gone = gone
  MaxRefs = 6
SPECIFICATION Spec
INVARIANTS
  TypeOK
  HeldIsAlive
  FreedWithTheLast
PROPERTIES
  LostByAssignment
CHECK_DEADLOCK FALSE
