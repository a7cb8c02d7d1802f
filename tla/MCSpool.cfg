SPECIFICATION SpoolFairSpec
CONSTANTS
  MaxBytes = 2
  MaxAge = 2
  BatchSizes = {1}
  Kinds = {"logs"}
  ClockMayRepeat = FALSE
  IoMayFail = FALSE
  MaxStores = 1
  MaxTime = 1
  MaxCrashes = 1
  Pipeline = pipeline
  Retrier = retry
  FlushLoop = loop
  BatchSize = 2
  MaxPipeline = 1
INVARIANTS HandedIsSubmitted SpooledStoredOnce
PROPERTY SpooledIsSettled
CHECK_DEADLOCK FALSE
