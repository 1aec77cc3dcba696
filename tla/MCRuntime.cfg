SPECIFICATION RuntimeSpec
CONSTANTS
  Threads = {t1, t2}
  Buffers = {1, 2}
  Slots = {1, 2}
  Counts = {1, 2}
  Limit = 3
  OrphanMax = 2
  MaxFaults = 1
  PoolSize = 2
  None = None
  Leases = {l1, l2}
  Writers = {l1}
  Tokens = {k1, k2}
INVARIANTS
  LifecycleSafe
  CompletionsSafe
PROPERTIES
  ShutdownEnds
  DeferredEnds
CHECK_DEADLOCK FALSE
