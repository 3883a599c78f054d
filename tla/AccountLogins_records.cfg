SPECIFICATION AccountSpec
CONSTANTS
  r1 = r1
  r2 = r2
  r3 = r3
  r4 = r4
  n1 = n1
  n2 = n2
  a = a
  b = b
  Requests = {r1, r2, r3, r4}
  Names = {n1, n2}
  Passwords = {a, b}
  None = None
  MaxFailures = 2
  MaxCrashes = 1
SYMMETRY MCSymmetry
INVARIANTS
  AccountTypeOK
  OneOwner
  LoginsAreTold
CHECK_DEADLOCK FALSE
