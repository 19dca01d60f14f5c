SPECIFICATION Spec
CONSTANTS
  Modes = {"local"}
  NumRanks = 2
  NumTok = 0
  MaxSteps = 2
  MaxFaults = 0
  StartSignals = {"group", "parent"}
PROPERTIES
  ServerSettles
CHECK_DEADLOCK FALSE
