\* array_merge of two arrays: the result, its index and the arguments.
CONSTANTS
  Tables = {t1, t2, t3}
  Iters = {}
  MaxStores = 3
  MaxSlots = 2
  MinInt = 0
  MaxInt = 2
  StrKeys = {a}
  Vals = {v1, v2}
  None = None
  Arities = {2}
SPECIFICATION BuildSpec
SYMMETRY MCSymmetry
INVARIANTS IndexCoherent
PROPERTIES ArgumentsUntouched MergesInOrder
