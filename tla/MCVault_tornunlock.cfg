SPECIFICATION Spec
CONSTANTS
  Vaults = {v1, v2}
  Passphrases = {p1, p2}
  Salts = {s1, s2, s3}
  DataKeys = {k1, k2, k3}
  Ids = {i1}
  Secrets = {x1}
  None = None
  Absent = Absent
  Torn = Torn
  Closed = Closed
  Rekeying = {}
  InitOver = FALSE
  OpenFails = FALSE
  DeviceFails = FALSE
SYMMETRY Symmetry
PROPERTY FailedUnlockChangesNoState
