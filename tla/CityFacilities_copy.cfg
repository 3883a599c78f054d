SPECIFICATION CitySpec
CONSTANTS
  f1 = f1
  f2 = f2
  None = None
  Half = 2
  CityIds = {5, 6}
  Fac = {f1, f2}
  MaxLevel = 2
  Total <- MCTotal
  Start = 5
  DrawCost = 2
  Limit = 1
  MaxRequests = 6
  MaxTimeouts = 1
  MaxCrashes = 1
CHECK_DEADLOCK FALSE
INVARIANT QuietCitiesAgree
