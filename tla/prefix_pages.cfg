CONSTANTS
  r1 = r1
  r2 = r2
  r3 = r3
  r4 = r4
  Reqs = {r1, r2, r3, r4}
  Text <- MCText
  Pages = {1, 2, 3, 4}
  NoHandle = NoHandle
  PageSize = 2
  CacheType = "radix"
SPECIFICATION Spec
INVARIANTS HandlesCached CountsMatchHolders ClosedUnderPrefix
