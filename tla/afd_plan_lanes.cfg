SPECIFICATION Spec
CONSTANTS
  Launches <- MCEager
  MaxLen = 3
  MaxBatch = 4
INVARIANTS
  LanesSameNumMb
