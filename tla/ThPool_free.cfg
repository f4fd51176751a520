SPECIFICATION Spec
CHECK_DEADLOCK FALSE
CONSTANTS
  Worker = {w1, w2}
  Adder = {a1}
  Job = {j1, j2}
  NoJob = NoJob
INVARIANT
  FreedAfterThreads
