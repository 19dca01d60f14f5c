SPECIFICATION Spec
CONSTANTS
  Modes = {"local", "ray", "afd"}
  NumRanks = 3
  NumTok = 1
  MaxSteps = 2
  MaxFaults = 2
  StartSignals = {"group"}
INVARIANTS
  ServingIsReady
  NothingLeft
PROPERTIES
  ServerSettles
CHECK_DEADLOCK FALSE
