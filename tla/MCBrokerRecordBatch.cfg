SPECIFICATION Spec
CONSTANTS
  c1 = c1
  c2 = c2
  Conns = {c1}
  Topics = {t1}
  Configured = {t1}
  AutoCreateTopics = TRUE
  Capacity = 1
  Magics = {2}
  BaseSequences <- NotIdempotent
  MaxAlloc = 2
  MaxRecords = 1
  MaxRequests <- One
INVARIANT KeepsRunning
CHECK_DEADLOCK FALSE
