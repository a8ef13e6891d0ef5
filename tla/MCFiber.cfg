\* Two fibers and a generator, each body free to drive the others.
CONSTANTS
  Fibers = {f1, f2}
  Gens = {g1}
  Main = Main
  None = None
  Fuel = 3
SPECIFICATION FairSpec
INVARIANTS TypeOK SoloRunner StatusIsTrue SendsAreReceived
PROPERTIES CallsReturn
