SPECIFICATION Spec
CONSTANTS
  r = r
  q = q
  s = s
  t = t
  e = e
  h = h
  g = g
  None = None
  Messages <- CommandMessages
  Roots = {r, q}
  Children <- CommandChildren
  Triggered = {}
  SourceOf <- NoTriggers
  TryOf <- NoTriggers
  Retries <- CommandRetries
  MayExpire = {r, s}
  MayFail = {s}
  MayHandOff = {r}
  Cancellable = {}
  Hooks = {"raise"}
  MayStop = TRUE
  MaxSize = 2
  HistorySize = 4
INVARIANTS
  ArchiveTruthful
  HandoffTransparent
  NoOrphanWait
  SlotAccounted
PROPERTIES
  ImplementsQueue
  EveryAcceptedResolves
CHECK_DEADLOCK FALSE
