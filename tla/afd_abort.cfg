SPECIFICATION Spec
CONSTANTS
  Reqs = {1, 2, 3, 4}
  InputLen <- PromptsPages
  OutLen <- AnswersPages
  NumSlots = 3
  NumPages = 3
  PageSize = 3
  PrefillBudget = 6
  MaxSeqLen = 6
  NoReq = NoReq
  NumDp = 1
  MaxPending = 3
  Lead = 2
  MayAbort = {4}
  MayEos = {}
  MayExit = FALSE
INVARIANTS LedgerBalances
PROPERTIES AbortIsFinal
CHECK_DEADLOCK FALSE
