CONSTANTS
  Client = {a}
  Blue <- MCBlue
  Color <- MCColor
  DefaultColor <- MCDefault
  OnMs = {}
  OffMs = {}
  Backends = {"binder"}
  MaxQueue = 4
SPECIFICATION Spec
PROPERTIES
  UpToDateWhenLit
