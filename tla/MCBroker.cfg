SPECIFICATION FairSpec
CONSTANTS
  c1 = c1
  c2 = c2
  Conns = {c1, c2}
  Topics = {t1, t2}
  Configured = {t1}
  AutoCreateTopics = TRUE
  Capacity = 2
  Magics = {2}
  BaseSequences = {1}
  MaxAlloc = 2
  MaxRecords = 1
  MaxRequests <- TwoAndOne
INVARIANTS TypeOK AnsweredInOrder MetadataHasRequested RecordsInOrder
PROPERTIES RequestAnswered CloseEndsAll
CHECK_DEADLOCK FALSE
