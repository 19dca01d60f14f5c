SPECIFICATION Spec
CONSTANTS
  Reqs = {1, 2, 3}
  InputLen <- PromptsAbort
  OutLen <- AnswersAbort
  NumSlots = 2
  NumPages = 9
  PageSize = 1
  PrefillBudget = 2
  MaxSeqLen = 6
  NoReq = NoReq
  NumDp = 1
  MaxPending = 3
  Lead = 2
  MayAbort = {1}
  MayEos = {}
  MayExit = FALSE
INVARIANT WorkersInLockstep
CHECK_DEADLOCK FALSE
