SPECIFICATION Spec
CONSTANTS
  Managers = {m1, m2}
  f1 = f1
  f2 = f2
  f3 = f3
  f4 = f4
  n1 = n1
  n2 = n2
  n3 = n3
  f5 = f5
  n4 = n4
  Paths = {f1, f2, f3, f4, f5}
  Names = {n1, n2, n3, n4}
  NameOf <- FileNames
  Broken = {f4}
  MayRefuse = {f3}
  None = None
  Overlap = FALSE
  MaxUsers = 4
CHECK_DEADLOCK FALSE
INVARIANTS TypeOK OpenWhileListed DeinitMatchesInit NoStrayCall
