SPECIFICATION Spec
CONSTANTS
  Daemons = {d1}
  Services = {s1, s2}
  MayFail = {s2}
  None = None
  MaxSignals = 2
  SignalsInStart = TRUE
  SignalsToWorker = TRUE
CHECK_DEADLOCK FALSE
INVARIANTS TypeOK StopWaitsForWorker NeverAborts NothingLeftBehind PidFileNamesRunning
PROPERTIES LateSignalStops StopReturns
