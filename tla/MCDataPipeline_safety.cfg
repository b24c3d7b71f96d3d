CONSTANTS
  a1 = a1
  a2 = a2
  Asset = {a1, a2}
  Universes <- GrowingUniverse
  MaxRun = 3
  MaxDay = 1
  ReadErrors = FALSE
  None = None
SPECIFICATION Spec
INVARIANT PointerIsWhole
INVARIANT OthersAreSettled
INVARIANT ResolvedIsWhole
PROPERTY DataNeverGoesBack
PROPERTY ImplementsCanonical
