SPECIFICATION FairSpec
CONSTANTS
  Conf <- KeySettings
  Messages <- EverySort
  Capacity = 2
  MetricsBatch = 1
  LogBatch = 1
  NamelessLabels = TRUE
  Pipeline = pipeline
  MetricsLoop = mloop
  LogLoop = lloop
  MaxMessages = 2
  MaxPerMessage = 1
INVARIANTS TypeOK CountedAndSubmitted
PROPERTIES ArrivedIsProcessed SignalEnds
CHECK_DEADLOCK FALSE
