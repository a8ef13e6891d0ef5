\* A list of up to three cells, its array pointer and a foreach by reference.
CONSTANTS
  Tables = {t1}
  Iters = {i1}
  MaxStores = 2
  MaxSlots = 3
  MinInt = 0
  MaxInt = 3
  StrKeys = {}
  Vals = {v1}
  None = None
SPECIFICATION LoopSpec
INVARIANTS ChainWellFormed IteratorsStayConnected
