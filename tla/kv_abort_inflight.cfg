SPECIFICATION Spec
CONSTANTS
  PageSize = 1
  CacheType = "radix"
  Reqs = {1, 2}
  Token = {"a", "b", "c", "e"}
  Prompt <- ShortLong
  MaxTokens <- BothTwo
  OutToken = {"b", "e"}
  Eos = "e"
  NumPages = 8
  Slots = {s1, s2}
  NoSlot = NoSlot
  MaxSeqLen = 6
  PrefillBudget = 8
  Overlap = TRUE
  LiveRows = TRUE
  Abortable = {1}
  Follows <- NoOrder
INVARIANT SlotPartition
CHECK_DEADLOCK FALSE
