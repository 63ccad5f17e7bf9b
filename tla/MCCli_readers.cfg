SPECIFICATION CliSpec
CONSTANTS
  Vaults = {v1, v2}
  Writers = {v1}
  MaxCommands = 2
  Passphrases = {p1}
  Salts = {s1, s2}
  DataKeys = {k1}
  Ids = {i1, i2}
  Secrets = {x1, x2}
  None = None
  Absent = Absent
  Torn = Torn
  Rekeying = {}
  InitOver = FALSE
  OpenFails = TRUE
  DeviceFails = FALSE
SYMMETRY Symmetry
INVARIANTS CliTypeOK ReportedIsStored GetPrintsStored HeadersAgree
