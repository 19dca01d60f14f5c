SPECIFICATION Spec
CONSTANTS
  PageSize = 3
  CacheType = "radix"
  Reqs = {1, 2, 3}
  Token = {"a", "b", "c", "e"}
  Prompt <- Singles
  MaxTokens <- OneToken
  OutToken = {"b"}
  Eos = "e"
  NumPages = 2
  Slots = {s1, s2, s3}
  NoSlot = NoSlot
  MaxSeqLen = 6
  PrefillBudget = 8
  Overlap = FALSE
  LiveRows = FALSE
  Abortable = {}
  Follows <- NoneFollows
INVARIANT NoAssertionFails
