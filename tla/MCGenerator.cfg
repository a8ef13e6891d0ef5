\* Three generators: a delegator, one it shares with the script, an inline one.
CONSTANTS
  a = a
  c = c
  d = d
  Gens = {a, c, d}
  Main = Main
  None = None
  Sees <- SharedSees
  Delegates <- SharedDelegates
  Fuel <- SharedFuel
SPECIFICATION FairSpec
INVARIANTS TypeOK SoloRunner OneCallPerGenerator StatusIsTrue DelegationEndsWithInner ForceClosedNeverYields
PROPERTIES CallsReturn
