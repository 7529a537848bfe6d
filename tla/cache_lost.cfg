SPECIFICATION Spec
CONSTANTS
  Keys = {a, b}
  Values = {v1, v2}
  Missing = Missing
  Waiting = Waiting
  Clients = {c1, c2}
  Stopper = stopper
  Nobody = Nobody
  Setters = {c1, c2}
  Removers = {c1, c2}
  FlushThreshold = 2
  QuietStop = TRUE
  MaxFailures = 0
  MaxOrphans = 0
INVARIANTS
  StopPersists
CHECK_DEADLOCK FALSE
