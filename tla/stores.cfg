SPECIFICATION MCSpec
CONSTANTS
  Keys = {a, b}
  Values = {v1, v2}
  Missing = Missing
  TTLs <- SomeTTLs
  Forever = Forever
  MaxTime = 4
  v = v
  FileValues = {v}
  RowKeys = {r}
  RowValues = {v}
  Paths <- SomePaths
  Unencodable = Unencodable
  Dict = Dict
  Absent = Absent
  Updates <- SomeUpdates
  Sessions = {s1, s2}
  Handlers = {h1, h2}
  Items = {i1, i2, i3}
  Free = Free
  Tasks = {t1, t2}
  Blocks = {b1, b2, b3}
  NoRow = NoRow
  Unset = Unset
INVARIANTS
  ExpiryOfStored
  FileHoldsAcked
  AppendsKept
  BlocksSettled
PROPERTIES
  ImplementsExpiringMap
  ImplementsLeafStore
CHECK_DEADLOCK FALSE
