SPECIFICATION RemoteSpec
CONSTANTS
  Vaults = {srv}
  Server = srv
  Clients = {c1, c2}
  MaxCalls = 3
  MayBreak = TRUE
  MayDie = TRUE
  Passphrases = {p1}
  Salts = {s1, s2}
  DataKeys = {k1, k2}
  Ids = {i1, i2, i3}
  Secrets = {x1}
  None = None
  Absent = Absent
  Torn = Torn
  Rekeying = {}
  InitOver = FALSE
  OpenFails = FALSE
  DeviceFails = FALSE
INVARIANTS RemoteTypeOK AddedSurvives AddedIsVisible DeletedStaysDeleted
PROPERTY CallReturns
ACTION_CONSTRAINT NewIdsAlike NamesGiven
