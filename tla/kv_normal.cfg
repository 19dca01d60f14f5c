SPECIFICATION FairSpec
CONSTANTS
  PageSize = 1
  CacheType = "radix"
  Reqs = {1, 2, 3}
  Token = {"a", "b", "c", "e"}
  Prompt <- Conversation
  MaxTokens <- TwoTokens
  OutToken = {"b", "e"}
  Eos = "e"
  NumPages = 6
  Slots = {s1, s2}
  NoSlot = NoSlot
  MaxSeqLen = 6
  PrefillBudget = 2
  Overlap = FALSE
  LiveRows = TRUE
  Abortable = {1, 3}
  Follows <- SecondFollows
INVARIANTS
  PagePartition
  LocksMatchOwners
  OwnersAreReachable
  NoAssertionFails
PROPERTIES
  EveryRequestFinishes
