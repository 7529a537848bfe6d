SPECIFICATION MCSpec
CONSTANTS
  Requests = {r1}
  MaxValues = 2
  s1 = s1
  s2 = s2
  Sockets = {s1, s2}
  MaxRequests <- SomeRequests
  MaxAhead = 1
  Traces = {t1, t2}
  Processes = {p1, p2}
  Clients = {c1, c2}
  Nobody = Nobody
INVARIANTS
  StreamSettled
  ListenersPresent
  SocketReachable
PROPERTIES
  ResponsesEnd
  ClosedForgotten
  SendsEnd
CHECK_DEADLOCK FALSE
