SPECIFICATION RecoveredSpec
CONSTANTS
  Conf <- KeySettings
  Messages <- OnlyTelemetry
  Capacity = 2
  MetricsBatch = 1
  LogBatch = 1
  NamelessLabels = FALSE
  Pipeline = pipeline
  MetricsLoop = mloop
  LogLoop = lloop
  MaxMessages = 1
  MaxPerMessage = 1
PROPERTY FailedIsReplayed
CHECK_DEADLOCK FALSE
