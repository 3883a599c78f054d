SPECIFICATION LiveSpec
CONSTANTS
  Actor = actor
  Goroutines = {g1}
  MaxEdits = 2
  MaxCrashes = 1
PROPERTIES
  EditsGetStored
  CallsReturn
