SPECIFICATION Spec
CONSTANTS
  Reqs = {1, 2}
  InputLen <- PromptsTwo
  OutLen <- AnswersTwo
  NumSlots = 2
  NumPages = 7
  PageSize = 1
  PrefillBudget = 2
  MaxSeqLen = 6
  NoReq = NoReq
  NumDp = 1
  MaxPending = 3
  Lead = 2
  MayAbort = {}
  MayEos = {}
  MayExit = FALSE
PROPERTY WorkersStayFed
CHECK_DEADLOCK FALSE
