SPECIFICATION Spec
CONSTANTS
  Actor = actor
  Goroutines = {g1, g2}
  MaxEdits = 3
  MaxCrashes = 1
SYMMETRY Symmetry
INVARIANTS
  IInv
  NothingLost
  StoredMeansStored
  NobodyOversleeps
  ShutdownComplete
PROPERTIES
  ImplementsCell
