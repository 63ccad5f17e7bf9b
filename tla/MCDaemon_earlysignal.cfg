SPECIFICATION Spec
CONSTANTS
  Daemons = {d1}
  Services = {s1, s2}
  MayFail = {}
  None = None
  MaxSignals = 1
  SignalsInStart = TRUE
  SignalsToWorker = FALSE
CHECK_DEADLOCK FALSE
PROPERTY CaughtStops
