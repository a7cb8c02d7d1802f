SPECIFICATION Spec
CONSTANTS
  MaxInt = 134217727
  MaxInt32 = 67108863
  VarintBytes = 4
  MaxAlloc = 100
  Requests <- FirstVersions
INVARIANT DecodesProduced
CHECK_DEADLOCK FALSE
