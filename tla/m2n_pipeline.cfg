SPECIFICATION Spec
CONSTANTS
  AgSize = 2
  EgSize = 2
  NumExperts = 3
  TopK = 2
  Bucket = 2
  NumLayers = 2
  NumMb = 2
  NumLanes = 2
  FirstDense = 0
  Steps <- ExchangedEach
INVARIANTS
  CollectivesMatch
  RoutedSums
PROPERTY EveryStepEnds
