SPECIFICATION Spec
CONSTANTS
  Modes = {"afd"}
  NumRanks = 2
  NumTok = 0
  MaxSteps = 2
  MaxFaults = 0
  StartSignals = {"group"}
INVARIANTS
  CleanStop
CHECK_DEADLOCK FALSE
