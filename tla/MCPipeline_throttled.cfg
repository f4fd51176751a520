SPECIFICATION Spec
CONSTANTS
  Traversal <- TwoFiles
  DirEnd = DirEnd
  MaxJobs = 2
  FILE_MAX_NUM = 1
  StorageCap <- TightCap
  BlockSize <- SmallBlocks
  Block1Bytes = 2
  FrameHeader = 1
  FrameBytes = 1
  Block2Bytes = 4
  CompressedSizes = {1}
  QueueCapacity = 2
  Method <- Throttled
  CreditCap = 1
  PostOutcomes = {FALSE}
INVARIANTS
  CountsActiveJobs
  CountsBlocksOnTheWay
  EndFlagIsFinal
  DrainedBeforeExit
  OverdraftBelowOneBlock
