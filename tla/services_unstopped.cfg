SPECIFICATION MCSpec
CONSTANTS
  Words = {"a", "b"}
  PatternWords = {"a"}
  MaxParts = 3
  Destinations = {d1, d2}
  commands = {d1}
  MaxSubscribed = 2
  Hub = Hub
  Executor = Executor
  x = x
  y = y
  d = d
  e = e
  Unknown = Unknown
  Nodes <- SomeNodes
  Configs <- SomeConfigs
  Declarations <- SomeDeclarations
  Boot = Boot
  Subs = {b1, b2}
  Keys = {k1, k2}
  Values = {v1, v2}
  Missing = Missing
  Waiting = Waiting
  Clients = {c1, c2}
  Stopper = stopper
  Nobody = Nobody
  Setters = {c1}
  Removers = {c1, c2}
  FlushThreshold = 2
  QuietStop = TRUE
  MaxFailures = 1
  MaxOrphans = 1
INVARIANTS
  StartedStopped
CHECK_DEADLOCK FALSE
