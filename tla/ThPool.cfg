SPECIFICATION FairSpec
CHECK_DEADLOCK FALSE
CONSTANTS
  Worker = {w1, w2, w3}
  Adder = {a1, a2}
  Job = {j1, j2}
  NoJob = NoJob
INVARIANTS
  TypeOK
  NoJobStranded
  WaiterWillBeWoken
PROPERTIES
  ActsAsJobPool
  DestroyEnds
