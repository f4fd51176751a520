SPECIFICATION FairSpec
CONSTANTS
  Producer = {p1, p2}
  Consumer = {c1, c2}
  Elem = {e1, e2}
  Capacity = 2
INVARIANTS
  TypeOK
  PopsAwake
  PushesAwake
PROPERTY
  ActsAsBlockingQueue
