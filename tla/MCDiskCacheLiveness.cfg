SPECIFICATION FairSpec
CONSTANTS
  MaxBytes = 2
  MaxAge = 2
  BatchSizes = {0, 1}
  Kinds = {"logs", "metrics"}
  ClockMayRepeat = FALSE
  IoMayFail = FALSE
  MaxStores = 2
  MaxTime = 3
  MaxCrashes = 0
PROPERTY SpooledIsRetried
CHECK_DEADLOCK FALSE
