SPECIFICATION HttpSpec
CONSTANTS
  THREAD_MAX_NUM3 = 2
  PoolsInUse <- Pools
  BLOCK3_MAX_NUM = 2
  Addresses = 2
  KeepAlive <- AnySetting
  Replies <- ServerReplies
CHECK_DEADLOCK FALSE
INVARIANTS HttpTypeOK ExclusivePort AlwaysAPort AnsweredMeansStored NullIffError OneOwner
PROPERTIES ActsAsPortTable JobsEnd
