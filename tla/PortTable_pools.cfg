SPECIFICATION Spec
CONSTANTS
  THREAD_MAX_NUM3 = 4
  PoolsInUse = {2, 3}
INVARIANT
  AlwaysAPort
