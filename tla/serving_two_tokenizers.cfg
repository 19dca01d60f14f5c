SPECIFICATION Spec
CONSTANTS
  Uids = {0, 1}
  Ranks = {0, 1}
  Need <- MCNeed
  MaxTokenizers = 2
  Settings <- MCTwoTokenizers
INVARIANTS
  AbortEndsRequest
CHECK_DEADLOCK FALSE
