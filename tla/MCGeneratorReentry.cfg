\* The body of a delegate holds its delegator.
CONSTANTS
  a = a
  c = c
  d = d
  Gens = {a, c}
  Main = Main
  None = None
  Sees <- ReentrantSees
  Delegates <- ReentrantDelegates
  Fuel <- ReentrantFuel
SPECIFICATION Spec
INVARIANTS NoResumeInsideResume
