SPECIFICATION TrackingSpec
CONSTANTS
  Keys = {k1, k2}
  Values = {z, a}
  Zero = z
  Nil = nil
  MaxLen = 3
  MaxEdits = 3
  k1 = k1
  k2 = k2
SYMMETRY Symmetry
INVARIANTS
  TrackingTypeOK
  DirtyIfEdited
  TraceReplays
