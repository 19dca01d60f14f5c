SPECIFICATION Spec
CONSTANTS
  Reqs = {1, 2, 3}
  InputLen <- PromptsLanes
  OutLen <- AnswersLanes
  NumSlots = 1
  NumPages = 5
  PageSize = 1
  PrefillBudget = 1
  MaxSeqLen = 4
  NoReq = NoReq
  NumDp = 2
  MaxPending = 3
  Lead = 2
  MayAbort = {}
  MayEos = {1}
  MayExit = TRUE
INVARIANTS AnswersAreOwn EndsOnce WorkersInLockstep
PROPERTIES ExitStopsAll EveryRequestEnds
CHECK_DEADLOCK FALSE
