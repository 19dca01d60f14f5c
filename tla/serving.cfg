SPECIFICATION Spec
CONSTANTS
  Uids = {0, 1}
  Ranks = {0, 1}
  Need <- MCNeed
  MaxTokenizers = 2
  Settings <- MCSettings
INVARIANTS
  StreamIsWhole
  RanksAgree
  AbortEndsRequest
PROPERTY EveryClientAnswered
CHECK_DEADLOCK FALSE
