SPECIFICATION Spec
CONSTANTS
  r = r
  q = q
  s = s
  t = t
  e = e
  h = h
  g = g
  None = None
  Messages <- CommandMessages
  Roots = {r, q}
  Children <- CommandChildren
  Triggered = {}
  SourceOf <- NoTriggers
  TryOf <- NoTriggers
  Retries <- CommandRetries
  MayExpire = {r}
  MayFail = {}
  MayHandOff = {}
  Cancellable = {}
  Hooks = {}
  MayStop = FALSE
  MaxSize = 2
  HistorySize = 4
INVARIANTS
  SlotFreed
CHECK_DEADLOCK FALSE
