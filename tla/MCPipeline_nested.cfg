SPECIFICATION Spec
CONSTANTS
  Traversal <- Subdirectory
  DirEnd = DirEnd
  MaxJobs = 4
  FILE_MAX_NUM = 3
  StorageCap <- MCStorageCap
  BlockSize <- MCBlockSize
  Block1Bytes = 3
  FrameHeader = 1
  FrameBytes = 1
  Block2Bytes = 6
  CompressedSizes = {1}
  QueueCapacity = 3
  Method <- Shipped
  CreditCap = 40
  PostOutcomes = {TRUE}
INVARIANT
  MonitorOutlivesFeeders
