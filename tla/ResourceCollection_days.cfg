SPECIFICATION CollectionSpec
CONSTANTS
  Interval = 2
  Limit = 2
  Yields = {1}
  DayLength = 6
  Offset = 2
  FirstTime = 7
  MaxTime = 22
  MaxCrashes = 1
INVARIANTS
  CollectionTypeOK
  CollectionsAreSpaced
  OpeningReopens
