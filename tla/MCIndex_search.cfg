SPECIFICATION Spec
CONSTANTS
  i1 = i1
  i2 = i2
  w1 = w1
  t1 = t1
  t2 = t2
  Managers = {m1, m2}
  Readers = {r1}
  Entries <- SomeEntries
  Words <- SomeWords
  Limits = {1, 2}
  None = None
  DiskFails = TRUE
  MaxDocuments = 2
SYMMETRY ManagerSymmetry
INVARIANTS TypeOK IndexMatchesCalls SearchFindsConfirmed
