CONSTANTS
  Client = {a, b}
  Blue <- MCBlue
  Color <- MCColor
  DefaultColor <- MCDefault
  OnMs = {}
  OffMs = {}
  Backends = {"binder"}
  MaxQueue = 4
SPECIFICATION Spec
INVARIANTS
  AllOffMeansDark
  LoneClientAgrees
