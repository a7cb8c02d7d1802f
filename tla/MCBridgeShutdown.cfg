SPECIFICATION Spec
CONSTANTS
  Conf <- KeySettings
  Messages <- OnlyTelemetry
  Capacity = 2
  MetricsBatch = 2
  LogBatch = 1
  NamelessLabels = FALSE
  Pipeline = pipeline
  MetricsLoop = mloop
  LogLoop = lloop
  MaxMessages = 1
  MaxPerMessage = 1
INVARIANT NothingLeftBehind
CHECK_DEADLOCK FALSE
