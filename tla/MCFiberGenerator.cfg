\* A fiber that drives a generator.
CONSTANTS
  Fibers = {f1}
  Gens = {g1}
  Main = Main
  None = None
  Fuel = 2
SPECIFICATION Spec
INVARIANTS FiberIsFound
