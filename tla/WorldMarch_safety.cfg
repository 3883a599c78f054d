SPECIFICATION MarchLiveSpec
CONSTANTS
  a1 = a1
  a2 = a2
  Player = {1, 2}
  Army = {a1, a2}
  Owner <- MCOwner
  City <- MCCity
  Alliance <- MCAlliance
  Width = 4
  MarchTime = 3
  MaxOrders = 6
CHECK_DEADLOCK FALSE
INVARIANTS
  MarchTypeOK
  TablesAgree
PROPERTIES
  TurningDoesNotMove
  ArmiesComeToRest
