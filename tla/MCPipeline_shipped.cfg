SPECIFICATION FairSpec
CONSTANTS
  Traversal <- OneFile
  DirEnd = DirEnd
  MaxJobs = 3
  FILE_MAX_NUM = 3
  StorageCap <- MCStorageCap
  BlockSize <- WideBlocks
  Block1Bytes = 3
  FrameHeader = 1
  FrameBytes = 1
  Block2Bytes = 6
  CompressedSizes = {1}
  QueueCapacity = 2
  Method <- Shipped
  CreditCap = 1
  PostOutcomes = {TRUE}
INVARIANTS
  TypeOK
  HandOffInv
  MonitorOutlivesFeeders
  OverMeansIdle
  EverythingSent
PROPERTIES
  ReadHandsOn
  CompressHandsOn
  Termination
