SPECIFICATION Spec
CONSTANTS
  PageSize = 1
  CacheType = "radix"
  Reqs = {1, 2, 3}
  Token = {"a", "b", "c", "e"}
  Prompt <- Duplicates
  MaxTokens <- LastShort
  OutToken = {"b"}
  Eos = "e"
  NumPages = 10
  Slots = {s1, s2}
  NoSlot = NoSlot
  MaxSeqLen = 6
  PrefillBudget = 8
  Overlap = FALSE
  LiveRows = TRUE
  Abortable = {}
  Follows <- NoneFollows
INVARIANT KvReadIsOwn
