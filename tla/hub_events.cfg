SPECIFICATION Spec
CONSTANTS
  r = r
  q = q
  s = s
  t = t
  e = e
  h = h
  g = g
  None = None
  Messages <- EventMessages
  Roots = {r, q, e}
  Children <- EventChildren
  Triggered = {h, g}
  SourceOf <- EventSource
  TryOf <- EventTry
  Retries <- NoRetries
  MayExpire = {}
  MayFail = {e}
  MayHandOff = {}
  Cancellable = {e}
  Hooks = {"short"}
  MayStop = TRUE
  MaxSize = 2
  HistorySize = 4
INVARIANTS
  SubscriberAfterSuccess
PROPERTIES
  SubscribersRun
  ShutdownEnds
CHECK_DEADLOCK FALSE
