SPECIFICATION Spec
CONSTANTS
  Files <- TwoFiles
  block1Size = 3
  block2Size = 6
  block3Size = 7
  Slack = 1
  Garbage = 2
  Capacities <- MCCapacities
  CompressTypes = {0, 4}
  CompressedSizes = {4, 7, 8}
  Threads = {1, 2}
CHECK_DEADLOCK FALSE
INVARIANTS RestoredInAnyOrder LossIsNoticed
