SPECIFICATION Spec
CONSTANTS
  PageSize = 1
  CacheType = "radix"
  Reqs = {1, 2, 3}
  Token = {"a", "b", "c", "e"}
  Prompt <- SameLength
  MaxTokens <- FirstLong
  OutToken = {"b", "e"}
  Eos = "e"
  NumPages = 6
  Slots = {s1, s2}
  NoSlot = NoSlot
  MaxSeqLen = 6
  PrefillBudget = 3
  Overlap = TRUE
  LiveRows = TRUE
  Abortable = {}
  Follows <- SecondFollows
INVARIANT CacheContentSound
