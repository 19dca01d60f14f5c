SPECIFICATION Spec
CONSTANTS
  Launches <- MCLaunches
  MaxLen = 3
  MaxBatch = 4
INVARIANTS
  PlansAreSound
  SamplesOwnRow
  CollectiveIsWhole
