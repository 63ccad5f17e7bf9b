SPECIFICATION Spec
CONSTANTS
  Vaults = {v1}
  Passphrases = {p1, p2}
  Salts = {s1, s2, s3}
  DataKeys = {k1, k2, k3}
  Ids = {i1, i2}
  Secrets = {x1, x2}
  None = None
  Absent = Absent
  Torn = Torn
  Closed = Closed
  Rekeying = {v1}
  InitOver = TRUE
  OpenFails = FALSE
  DeviceFails = TRUE
SYMMETRY Symmetry
INVARIANTS TypeOK KeysIffUnlocked FileReadable
PROPERTY ImplementsSecretStore
