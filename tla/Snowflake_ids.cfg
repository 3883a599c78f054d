SPECIFICATION SnowflakeSpec
CONSTANTS
  p1 = p1
  p2 = p2
  Processes = {p1, p2}
  Node <- MCNode
  MaxNode = 1
  MaxSeq = 1
  MaxTime = 4
  MaxIds = 4
  MaxRestarts = 2
  MaxSetBacks = 1
INVARIANTS
  SnowflakeTypeOK
  IdsAreFresh
CHECK_DEADLOCK FALSE
