SPECIFICATION FairSpec
CONSTANTS
  PageSize = 2
  CacheType = "radix"
  Reqs = {1, 2, 3}
  Token = {"a", "b", "c", "e"}
  Prompt <- SameLength
  MaxTokens <- FirstLong
  OutToken = {"b", "e"}
  Eos = "e"
  NumPages = 3
  Slots = {s1, s2}
  NoSlot = NoSlot
  MaxSeqLen = 6
  PrefillBudget = 3
  Overlap = TRUE
  LiveRows = FALSE
  Abortable = {}
  Follows <- SecondFollows
INVARIANTS
  SlotPartition
  CacheContentSound
  KvReadIsOwn
PROPERTIES
  LockedPagesStay
