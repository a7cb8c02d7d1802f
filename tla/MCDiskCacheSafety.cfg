SPECIFICATION Spec
CONSTANTS
  MaxBytes = 3
  MaxAge = 2
  BatchSizes = {3}
  Kinds = {"logs", "metrics"}
  ClockMayRepeat = FALSE
  IoMayFail = TRUE
  MaxStores = 3
  MaxTime = 3
  MaxCrashes = 1
INVARIANTS TypeOK NoEntryVanishes ReplayedOnce SizeBounded
CHECK_DEADLOCK FALSE
