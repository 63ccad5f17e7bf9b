SPECIFICATION Spec
CONSTANTS
  f1 = f1
  f2 = f2
  f3 = f3
  k1 = k1
  k2 = k2
  Files = {f1, f2, f3}
  Keys = {k1, k2}
  Disks <- AllDisks
  Missing = Missing
  None = None
  CustomFile = f1
  XdgFile = f2
  HomeFile = f2
  RcFile = f3
  MaxDetours = 2
  SetTypes = {"STRING"}
  MaxSets = 1
INVARIANTS TypeOK IncludedInPlace LastStoredWins 
PROPERTIES DefaultsTried WindsDown LoadReturns
