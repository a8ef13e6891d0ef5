\* array_merge with a single argument.
CONSTANTS
  Tables = {t1, t2}
  Iters = {}
  MaxStores = 3
  MaxSlots = 2
  MinInt = 0
  MaxInt = 2
  StrKeys = {}
  Vals = {v1}
  None = None
  Arities = {1}
SPECIFICATION MergeSpec
PROPERTIES ArgumentsUntouched
