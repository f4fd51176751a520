SPECIFICATION Spec
CONSTANTS
  Files <- ThreeFiles
  block1Size = 2
  block2Size = 4
  block3Size = 5
  Slack = 1
  Garbage = 2
  Threads = {1, 2}
  Capacities <- MCCapacities
  CompressedSizes = {1, 4, 5}
  PostOutcomes = {TRUE, FALSE}
CHECK_DEADLOCK FALSE
INVARIANTS TypeOK RoundTrip NoUseAfterFree
PROPERTY Ends
