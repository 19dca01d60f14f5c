SPECIFICATION Spec
CONSTANTS
  PageSize = 1
  CacheType = "radix"
  Reqs = {1, 2}
  Token = {"a", "b", "c", "e"}
  Prompt <- ShortLong
  MaxTokens <- LongShort
  OutToken = {"b", "e"}
  Eos = "e"
  NumPages = 8
  Slots = {s1, s2}
  NoSlot = NoSlot
  MaxSeqLen = 6
  PrefillBudget = 8
  Overlap = TRUE
  LiveRows = FALSE
  Abortable = {}
  Follows <- NoOrder
INVARIANT CacheContentSound
