\* Two arrays of up to two elements against the abstract map; writes to shared cells.
CONSTANTS
  Tables = {t1, t2}
  Iters = {}
  MaxStores = 2
  MaxSlots = 2
  MinInt = 0
  MaxInt = 2
  StrKeys = {a}
  a = a
  Vals = {v1}
  None = None
SPECIFICATION ContentSpec
SYMMETRY MCSymmetry
INVARIANTS TypeOK SharedStoreIsCow IndexCoherent
PROPERTIES WriteIsolation ImplementsOrderedMap
