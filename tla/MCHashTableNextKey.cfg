\* The next free integer key of a copied array.
CONSTANTS
  Tables = {t1, t2}
  Iters = {}
  MaxStores = 2
  MaxSlots = 2
  MinInt = 0
  MaxInt = 2
  StrKeys = {}
  Vals = {v1}
  None = None
SPECIFICATION ExplicitSpec
PROPERTIES OnlyGreaterKeysAdvance
