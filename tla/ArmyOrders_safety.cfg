SPECIFICATION OrdersSpec
CONSTANTS
  a1 = a1
  Player = {1, 2, 3}
  Army = {a1}
  Owner <- MCOwner
  City <- MCCity
  Alliance <- MCAlliance
  Width = 3
  MarchTime = 2
  MaxOrders = 3
  MaxTimeouts = 1
  MaxCrashes = 1
CHECK_DEADLOCK FALSE
INVARIANTS
  OrdersTypeOK
  FrozenWhileOut
  ViewsAgree
  MarchesSurviveCrash
PROPERTIES
  FrozenEnds
