CONSTANTS
  Color <- MCColor
  DefaultColor <- MCDefault
  OnMs <- MCOnMs
  OffMs <- MCOffMs
  Backends <- MCBackends
SPECIFICATION Spec
INVARIANTS
  TypeOK
  InSync
PROPERTIES
  OnlyBadDelaysKill
  NoFlashWhileOff
  ImplementsLight
