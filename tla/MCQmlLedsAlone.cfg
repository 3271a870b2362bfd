CONSTANTS
  Client = {a}
  Blue <- MCBlue
  Color <- MCColor
  DefaultColor <- MCDefault
  OnMs <- MCOnMs
  OffMs <- MCOffMs
  Backends = {"sysfs"}
  MaxQueue = 4
SPECIFICATION Spec
INVARIANTS
  TypeOK
PROPERTIES
  ServedInTheEnd
