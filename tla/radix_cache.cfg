CONSTANTS
  r1 = r1
  r2 = r2
  r3 = r3
  Reqs = {r1, r2, r3}
  Text <- MCText
  Pages = {1, 2, 3, 4}
  NoHandle = NoHandle
  PageSize = 2
  CacheType = "radix"
SPECIFICATION Spec
INVARIANTS RefsMatchHolders SizesMatch
PROPERTIES ImplementsPrefixCache
