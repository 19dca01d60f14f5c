SPECIFICATION LayersSpec
CONSTANTS
  WaveThreads = 4
  WarpsPerTB = 2
  TPB = 4
  MaxFused = 16
  PadFrom = 6
  PadTo = 8
  GateChunk = 2
  GateSplit = 4
  GateExperts = 2
  GateStages = 3
  GateGroup = 1
  Unroll = 2
  SmallNumel = 5
  SmallSlots = 5
  MaxScan = 16
  BigTileMinM = 5
  PackedRows = 4
  ScaleGroup = 2
  QuantGroup = 2
  MaxPermuted = 4
  Tiles <- MCTiles
  Layers <- MCLayers
  Jobs <- MCJobs
  BlocksThreshold = 4
  MaxGridY = 4
  NormWarps = 2
  NormGroups = 3
  PsumBlocks = 3
  Plays <- OverlapPlays
  BlockM = 4
  BlockN = 2
  TargetPrograms = 8
  MaxSplits = 4
  MaxLen = 8
  StoreWarps = 4
  Loads <- NoLoads
  MxGroup = 2
INVARIANTS
  AttentionIsOwn
