SPECIFICATION MCSpec
CONSTANTS
  Messages = {a, b, c}
  MaxSize = 2
  HistorySize = 1
  MaxPuts = 2
  ReputInFlight = FALSE
  Readers = {reader1}
  Awaiters = {awaiter1, awaiter2}
  Callbacks = {cb}
  Kinds = {"value", "none", "sub", "fan"}
  MaxYields = 3
  MayFail = TRUE
  MayStop = TRUE
  MayShort = TRUE
INVARIANTS
  TypeOK
  CapacityRespected
  NoLostWakeup
  OneTaskPerPut
  ReaderComplete
  AnswersMatch
  AwaitFinal
  CallbacksOnce
PROPERTIES
  ImplementsFifo
  PendingTaken
  ClientsReleased
CHECK_DEADLOCK FALSE
